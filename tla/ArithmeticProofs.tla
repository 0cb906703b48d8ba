---------------------------- MODULE ArithmeticProofs ----------------------------
(***************************************************************************)
(* The arithmetic of the codec, for lines, planes, values and steps of     *)
(* every size: lifting and the colour transform are reversible, errors     *)
(* spread by a known amount, and the quantiser errs by at most half a      *)
(* step, keeps zeros, treats signs alike and leaves alone what it has      *)
(* restored.                                                               *)
(***************************************************************************)
EXTENDS Lifting, Quantizer, TLAPS

(* Lifting and colour *)

\* floor_div rounds towards minus infinity.
LEMMA FloorDivInt ==
  ASSUME NEW a \in Int, NEW b \in {2, 4}
  PROVE  FloorDiv(a, b) \in Int /\ FloorDiv(a, b) = a \div b
<1>1. CASE b = 2
  BY <1>1 DEF FloorDiv
<1>2. CASE b = 4
  BY <1>2 DEF FloorDiv
<1> QED
  BY <1>1, <1>2

LEMMA PredictedInt ==
  ASSUME NEW n \in Nat, NEW x \in [Line(n) -> Int], NEW i \in Line(n), i % 2 = 1
  PROVE  Predicted(x, n, i) \in Int
<1>1. i - 1 \in Line(n) /\ (i + 1 < n => i + 1 \in Line(n))
  BY DEF Line
<1> DEFINE left == x[i - 1]
           right == IF i + 1 < n THEN x[i + 1] ELSE left
<1>2. left \in Int /\ right \in Int
  BY <1>1
<1> HIDE DEF left, right
<1>3. FloorDiv(left + right, 2) \in Int
  BY <1>2, FloorDivInt
<1> QED
  BY <1>3 DEF Predicted, left, right

LEMMA UpdateInt ==
  ASSUME NEW n \in Nat, NEW x \in [Line(n) -> Int], NEW i \in Line(n)
  PROVE  Update(x, n, i) \in Int
<1> DEFINE left == IF i > 0 THEN x[i - 1] ELSE x[IF i + 1 < n THEN i + 1 ELSE i]
           right == IF i + 1 < n THEN x[i + 1] ELSE left
<1>1. left \in Int /\ right \in Int
  BY DEF Line
<1> HIDE DEF left, right
<1>2. FloorDiv(left + right + 2, 4) \in Int
  BY <1>1, FloorDivInt
<1> QED
  BY <1>2 DEF Update, left, right

\* A prediction reads even samples only, an update odd samples only, as soon as a
\* line has two samples: this is what makes each pass reversible.
LEMMA PredictedReadsEven ==
  ASSUME NEW n \in Nat, NEW x, NEW z,
         \A i \in Line(n) : i % 2 = 0 => x[i] = z[i],
         NEW i \in Line(n), i % 2 = 1
  PROVE  Predicted(x, n, i) = Predicted(z, n, i)
BY DEF Predicted, Line

LEMMA UpdateReadsOdd ==
  ASSUME NEW n \in Nat, n >= 2, NEW x, NEW z,
         \A i \in Line(n) : i % 2 = 1 => x[i] = z[i],
         NEW i \in Line(n), i % 2 = 0
  PROVE  Update(x, n, i) = Update(z, n, i)
BY DEF Update, Line

LEMMA ForwardOddTyped ==
  ASSUME NEW n \in Nat, NEW x \in [Line(n) -> Int]
  PROVE  ForwardOdd(x, n) \in [Line(n) -> Int]
BY PredictedInt DEF ForwardOdd

LEMMA ForwardEvenTyped ==
  ASSUME NEW n \in Nat, NEW x \in [Line(n) -> Int]
  PROVE  ForwardEven(x, n) \in [Line(n) -> Int]
BY UpdateInt DEF ForwardEven

LEMMA EvenUndone ==
  ASSUME NEW n \in Nat, n >= 2, NEW x \in [Line(n) -> Int]
  PROVE  InverseEven(ForwardEven(x, n), n) = x
<1> DEFINE f == ForwardEven(x, n)
<1>1. f \in [Line(n) -> Int]
  BY ForwardEvenTyped
<1>2. \A i \in Line(n) : i % 2 = 1 => f[i] = x[i]
  BY DEF ForwardEven, Line
<1>3. \A i \in Line(n) : i % 2 = 0 => f[i] = x[i] + Update(x, n, i)
  BY DEF ForwardEven
<1> HIDE DEF f
<1>4. ASSUME NEW i \in Line(n) PROVE InverseEven(f, n)[i] = x[i]
  <2>1. CASE i % 2 = 0
    <3>1. Update(f, n, i) = Update(x, n, i) /\ Update(x, n, i) \in Int
      BY <1>2, <2>1, UpdateReadsOdd, UpdateInt
    <3> QED
      BY <1>3, <2>1, <3>1 DEF InverseEven
  <2>2. CASE i % 2 = 1
    BY <1>2, <2>2 DEF InverseEven
  <2> QED
    BY <2>1, <2>2 DEF Line
<1>5. InverseEven(f, n) \in [Line(n) -> Int]
  BY <1>4 DEF InverseEven
<1> QED
  BY <1>4, <1>5 DEF f

LEMMA OddUndone ==
  ASSUME NEW n \in Nat, NEW x \in [Line(n) -> Int]
  PROVE  InverseOdd(ForwardOdd(x, n), n) = x
<1> DEFINE f == ForwardOdd(x, n)
<1>1. f \in [Line(n) -> Int]
  BY ForwardOddTyped
<1>2. \A i \in Line(n) : i % 2 = 0 => f[i] = x[i]
  BY DEF ForwardOdd, Line
<1>3. \A i \in Line(n) : i % 2 = 1 => f[i] = x[i] - Predicted(x, n, i)
  BY DEF ForwardOdd
<1> HIDE DEF f
<1>4. ASSUME NEW i \in Line(n) PROVE InverseOdd(f, n)[i] = x[i]
  <2>1. CASE i % 2 = 1
    <3>1. Predicted(f, n, i) = Predicted(x, n, i) /\ Predicted(x, n, i) \in Int
      BY <1>2, <2>1, PredictedReadsEven, PredictedInt
    <3> QED
      BY <1>3, <2>1, <3>1 DEF InverseOdd
  <2>2. CASE i % 2 = 0
    BY <1>2, <2>2 DEF InverseOdd
  <2> QED
    BY <2>1, <2>2 DEF Line
<1>5. InverseOdd(f, n) \in [Line(n) -> Int]
  BY <1>4 DEF InverseOdd
<1> QED
  BY <1>4, <1>5 DEF f

LEMMA DeinterleaveUndone ==
  ASSUME NEW n \in Nat, NEW x \in [Line(n) -> Int]
  PROVE  Interleave(Deinterleave(x, n), n) = x
<1>1. ASSUME NEW i \in Line(n), i % 2 = 0
      PROVE  Deinterleave(x, n)[i \div 2] = x[i]
  BY <1>1 DEF Deinterleave, Line, Low
<1>2. ASSUME NEW i \in Line(n), i % 2 = 1
      PROVE  Deinterleave(x, n)[Low(n) + i \div 2] = x[i]
  BY <1>2 DEF Deinterleave, Line, Low
<1>3. ASSUME NEW i \in Line(n) PROVE Interleave(Deinterleave(x, n), n)[i] = x[i]
  BY <1>1, <1>2 DEF Interleave, Line
<1>4. Interleave(Deinterleave(x, n), n) \in [Line(n) -> Int]
  BY <1>3 DEF Interleave
<1> QED
  BY <1>3, <1>4

\* inverse_line restores what forward_line was given, for every line of two or
\* more samples.
THEOREM LineReversible ==
  ASSUME NEW n \in Nat, n >= 2, NEW x \in [Line(n) -> Int]
  PROVE  InverseLine(ForwardLine(x, n), n) = x
<1> DEFINE a == ForwardOdd(x, n)
           b == ForwardEven(a, n)
<1>1. a \in [Line(n) -> Int] /\ b \in [Line(n) -> Int]
  BY ForwardOddTyped, ForwardEvenTyped
<1>2. Interleave(Deinterleave(b, n), n) = b
  BY <1>1, DeinterleaveUndone
<1>3. InverseEven(b, n) = a
  BY <1>1, EvenUndone
<1>4. InverseOdd(a, n) = x
  BY OddUndone
<1> QED
  BY <1>2, <1>3, <1>4 DEF ForwardLine, InverseLine

LEMMA ForwardLineTyped ==
  ASSUME NEW n \in Nat, NEW x \in [Line(n) -> Int]
  PROVE  ForwardLine(x, n) \in [Line(n) -> Int]
<1> DEFINE b == ForwardEven(ForwardOdd(x, n), n)
<1>1. b \in [Line(n) -> Int]
  BY ForwardOddTyped, ForwardEvenTyped
<1> HIDE DEF b
<1>2. ASSUME NEW i \in Line(n) PROVE Deinterleave(b, n)[i] \in Int
  BY <1>1 DEF Deinterleave, Line, Low
<1>3. Deinterleave(b, n) \in [Line(n) -> Int]
  BY <1>2 DEF Deinterleave
<1> QED
  BY <1>3 DEF ForwardLine, b

LEMMA RowsReversible ==
  ASSUME NEW w \in Nat, NEW h \in Nat, w >= 2, NEW p \in [Cells(w, h) -> Int]
  PROVE  /\ ForwardRows(p, w, h) \in [Cells(w, h) -> Int]
         /\ InverseRows(ForwardRows(p, w, h), w, h) = p
<1> DEFINE f == ForwardRows(p, w, h)
<1>1. ASSUME NEW y \in Line(h)
      PROVE  /\ Row(p, w, y) \in [Line(w) -> Int]
             /\ ForwardLine(Row(p, w, y), w) \in [Line(w) -> Int]
  <2>1. Row(p, w, y) \in [Line(w) -> Int]
    BY DEF Row, Cells
  <2> QED
    BY <2>1, ForwardLineTyped
<1>2. \A c \in Cells(w, h) : f[c] = ForwardLine(Row(p, w, c[2]), w)[c[1]]
  BY DEF ForwardRows, OfRows, Cells
<1>3. f \in [Cells(w, h) -> Int]
  <2>1. ASSUME NEW c \in Cells(w, h) PROVE f[c] \in Int
    BY <1>1, <1>2 DEF Cells
  <2> QED
    BY <2>1 DEF ForwardRows, OfRows
<1>4. ASSUME NEW y \in Line(h) PROVE Row(f, w, y) = ForwardLine(Row(p, w, y), w)
  <2>1. ASSUME NEW x \in Line(w) PROVE f[<<x, y>>] = ForwardLine(Row(p, w, y), w)[x]
    BY <1>2 DEF Cells
  <2> DEFINE g == ForwardLine(Row(p, w, y), w)
  <2>2. g \in [Line(w) -> Int]
    BY <1>1
  <2> HIDE DEF f, g
  <2>3. \A x \in Line(w) : f[<<x, y>>] = g[x]
    BY <2>1 DEF g
  <2>4. g = [x \in Line(w) |-> g[x]]
    BY <2>2
  <2>5. Row(f, w, y) = [x \in Line(w) |-> g[x]]
    BY <2>3 DEF Row
  <2> QED
    BY <2>4, <2>5 DEF g
<1> HIDE DEF f
<1>5. ASSUME NEW y \in Line(h) PROVE InverseLine(Row(f, w, y), w) = Row(p, w, y)
  BY <1>1, <1>4, LineReversible
<1>6. ASSUME NEW c \in Cells(w, h) PROVE InverseRows(f, w, h)[c] = p[c]
  <2>1. c[1] \in Line(w) /\ c[2] \in Line(h) /\ c = <<c[1], c[2]>>
    BY DEF Cells
  <2>2. InverseRows(f, w, h)[c] = Row(p, w, c[2])[c[1]]
    BY <1>5, <2>1 DEF InverseRows, OfRows
  <2> QED
    BY <2>1, <2>2 DEF Row
<1>7. InverseRows(f, w, h) = p
  BY <1>6 DEF InverseRows, OfRows
<1> QED
  BY <1>3, <1>7 DEF f

LEMMA ColumnsReversible ==
  ASSUME NEW w \in Nat, NEW h \in Nat, h >= 2, NEW p \in [Cells(w, h) -> Int]
  PROVE  /\ ForwardColumns(p, w, h) \in [Cells(w, h) -> Int]
         /\ InverseColumns(ForwardColumns(p, w, h), w, h) = p
<1> DEFINE f == ForwardColumns(p, w, h)
<1>1. ASSUME NEW x \in Line(w)
      PROVE  /\ Column(p, h, x) \in [Line(h) -> Int]
             /\ ForwardLine(Column(p, h, x), h) \in [Line(h) -> Int]
  <2>1. Column(p, h, x) \in [Line(h) -> Int]
    BY DEF Column, Cells
  <2> QED
    BY <2>1, ForwardLineTyped
<1>2. \A c \in Cells(w, h) : f[c] = ForwardLine(Column(p, h, c[1]), h)[c[2]]
  BY DEF ForwardColumns, OfColumns, Cells
<1>3. f \in [Cells(w, h) -> Int]
  <2>1. ASSUME NEW c \in Cells(w, h) PROVE f[c] \in Int
    BY <1>1, <1>2 DEF Cells
  <2> QED
    BY <2>1 DEF ForwardColumns, OfColumns
<1>4. ASSUME NEW x \in Line(w) PROVE Column(f, h, x) = ForwardLine(Column(p, h, x), h)
  <2>1. ASSUME NEW y \in Line(h) PROVE f[<<x, y>>] = ForwardLine(Column(p, h, x), h)[y]
    BY <1>2 DEF Cells
  <2> DEFINE g == ForwardLine(Column(p, h, x), h)
  <2>2. g \in [Line(h) -> Int]
    BY <1>1
  <2> HIDE DEF f, g
  <2>3. \A y \in Line(h) : f[<<x, y>>] = g[y]
    BY <2>1 DEF g
  <2>4. g = [y \in Line(h) |-> g[y]]
    BY <2>2
  <2>5. Column(f, h, x) = [y \in Line(h) |-> g[y]]
    BY <2>3 DEF Column
  <2> QED
    BY <2>4, <2>5 DEF g
<1> HIDE DEF f
<1>5. ASSUME NEW x \in Line(w) PROVE InverseLine(Column(f, h, x), h) = Column(p, h, x)
  BY <1>1, <1>4, LineReversible
<1>6. ASSUME NEW c \in Cells(w, h) PROVE InverseColumns(f, w, h)[c] = p[c]
  <2>1. c[1] \in Line(w) /\ c[2] \in Line(h) /\ c = <<c[1], c[2]>>
    BY DEF Cells
  <2>2. InverseColumns(f, w, h)[c] = Column(p, h, c[1])[c[2]]
    BY <1>5, <2>1 DEF InverseColumns, OfColumns
  <2> QED
    BY <2>1, <2>2 DEF Column
<1>7. InverseColumns(f, w, h) = p
  BY <1>6 DEF InverseColumns, OfColumns
<1> QED
  BY <1>3, <1>7 DEF f

\* inverse_level undoes one level of build_band_pyramid, for every plane of at
\* least two rows and two columns.
THEOREM LevelReversible ==
  ASSUME NEW w \in Nat, NEW h \in Nat, w >= 2, h >= 2, NEW p \in [Cells(w, h) -> Int]
  PROVE  InverseLevel(ForwardLevel(p, w, h), w, h) = p
<1> DEFINE f == ForwardRows(p, w, h)
<1>1. f \in [Cells(w, h) -> Int] /\ InverseRows(f, w, h) = p
  BY RowsReversible
<1> HIDE DEF f
<1>2. InverseColumns(ForwardColumns(f, w, h), w, h) = f
  BY <1>1, ColumnsReversible
<1> QED
  BY <1>1, <1>2 DEF ForwardLevel, InverseLevel, f

\* The colour transform is exact: decoding at quality 100 returns the pixel.
THEOREM ColourReversible ==
  ASSUME NEW c \in [r : Int, g : Int, b : Int]
  PROVE  FromYCoCg(ToYCoCg(c)) = c
<1> DEFINE co == c.r - c.b
           t == c.b + FloorDiv(co, 2)
           cg == c.g - t
           y == t + FloorDiv(cg, 2)
<1>1. co \in Int /\ FloorDiv(co, 2) \in Int /\ t \in Int /\ cg \in Int
      /\ FloorDiv(cg, 2) \in Int /\ y \in Int
  <2>1. co \in Int
    OBVIOUS
  <2>2. FloorDiv(co, 2) \in Int
    BY <2>1, FloorDivInt
  <2>3. t \in Int /\ cg \in Int
    BY <2>2
  <2>4. FloorDiv(cg, 2) \in Int
    BY <2>3, FloorDivInt
  <2> QED
    BY <2>1, <2>2, <2>3, <2>4
<1>2. y - FloorDiv(cg, 2) = t
  BY <1>1
<1>3. t - FloorDiv(co, 2) = c.b
  BY <1>1
<1>4. co + c.b = c.r /\ cg + t = c.g
  BY <1>1
<1>5. ToYCoCg(c) = [y |-> y, co |-> co, cg |-> cg]
  BY DEF ToYCoCg
<1> HIDE DEF y, cg, t, co
<1>6. FromYCoCg([y |-> y, co |-> co, cg |-> cg]) = [r |-> c.r, g |-> c.g, b |-> c.b]
  BY <1>2, <1>3, <1>4 DEF FromYCoCg
<1> QED
  BY <1>5, <1>6

\* Every pixel of bytes comes back as it was: the clamp to 0 .. 255 never changes a value
\* that was coded exactly.
THEOREM PixelRestored ==
  ASSUME NEW c \in [r : 0 .. 255, g : 0 .. 255, b : 0 .. 255]
  PROVE  Pixel(ToYCoCg(c)) = c
<1>1. c \in [r : Int, g : Int, b : Int]
  OBVIOUS
<1>2. FromYCoCg(ToYCoCg(c)) = c
  BY <1>1, ColourReversible
<1>3. ClampU8(c.r) = c.r /\ ClampU8(c.g) = c.g /\ ClampU8(c.b) = c.b
  BY DEF ClampU8
<1>4. Pixel(ToYCoCg(c)) = [r |-> c.r, g |-> c.g, b |-> c.b]
  BY <1>2, <1>3 DEF Pixel
<1> QED
  BY <1>4

--------------------------------------------------------------------------------
(* Levels are typed, and packing undoes the extraction of the bands *)

LEMMA ForwardLevelTyped ==
  ASSUME NEW w \in Nat, NEW h \in Nat, w >= 2, h >= 2, NEW p \in [Cells(w, h) -> Int]
  PROVE  ForwardLevel(p, w, h) \in [Cells(w, h) -> Int]
<1> DEFINE f == ForwardRows(p, w, h)
<1>1. f \in [Cells(w, h) -> Int]
  BY RowsReversible
<1> HIDE DEF f
<1>2. ForwardColumns(f, w, h) \in [Cells(w, h) -> Int]
  BY <1>1, ColumnsReversible
<1> QED
  BY <1>2 DEF ForwardLevel, f

LEMMA InverseLineTyped ==
  ASSUME NEW n \in Nat, NEW x \in [Line(n) -> Int]
  PROVE  InverseLine(x, n) \in [Line(n) -> Int]
<1>1. Interleave(x, n) \in [Line(n) -> Int]
  <2>1. ASSUME NEW i \in Line(n)
        PROVE  (IF i % 2 = 0 THEN x[i \div 2] ELSE x[Low(n) + i \div 2]) \in Int
    <3>1. CASE i % 2 = 0
      <4>1. i \div 2 \in Line(n)
        BY DEF Line
      <4> QED
        BY <3>1, <4>1
    <3>2. CASE i % 2 # 0
      <4>1. Low(n) + i \div 2 \in Line(n)
        BY <3>2 DEF Line, Low
      <4> QED
        BY <3>2, <4>1
    <3> QED
      BY <3>1, <3>2
  <2> QED
    BY <2>1 DEF Interleave
<1> DEFINE a == Interleave(x, n)
<1> HIDE DEF a
<1>2. a \in [Line(n) -> Int]
  BY <1>1 DEF a
<1>3. InverseEven(a, n) \in [Line(n) -> Int]
  BY <1>2, UpdateInt DEF InverseEven
<1>4. InverseOdd(InverseEven(a, n), n) \in [Line(n) -> Int]
  BY <1>3, PredictedInt DEF InverseOdd
<1> QED
  BY <1>4 DEF InverseLine, a

LEMMA InverseColumnsTyped ==
  ASSUME NEW w \in Nat, NEW h \in Nat, NEW p \in [Cells(w, h) -> Int]
  PROVE  InverseColumns(p, w, h) \in [Cells(w, h) -> Int]
<1> DEFINE f == InverseColumns(p, w, h)
<1>1. ASSUME NEW c \in Cells(w, h) PROVE f[c] \in Int
  <2>1. c[1] \in Line(w) /\ c[2] \in Line(h)
    BY DEF Cells
  <2>2. Column(p, h, c[1]) \in [Line(h) -> Int]
    BY <2>1 DEF Column, Cells
  <2>3. f[c] = InverseLine(Column(p, h, c[1]), h)[c[2]]
    BY <2>1 DEF InverseColumns, OfColumns
  <2> QED
    BY <2>1, <2>2, <2>3, InverseLineTyped
<1> QED
  BY <1>1 DEF InverseColumns, OfColumns

LEMMA InverseLevelTyped ==
  ASSUME NEW w \in Nat, NEW h \in Nat, NEW p \in [Cells(w, h) -> Int]
  PROVE  InverseLevel(p, w, h) \in [Cells(w, h) -> Int]
<1> DEFINE f == InverseColumns(p, w, h)
<1>1. f \in [Cells(w, h) -> Int]
  BY InverseColumnsTyped
<1> HIDE DEF f
<1>2. ASSUME NEW c \in Cells(w, h) PROVE InverseRows(f, w, h)[c] \in Int
  <2>1. c[1] \in Line(w) /\ c[2] \in Line(h)
    BY DEF Cells
  <2>2. Row(f, w, c[2]) \in [Line(w) -> Int]
    BY <1>1, <2>1 DEF Row, Cells
  <2>3. InverseRows(f, w, h)[c] = InverseLine(Row(f, w, c[2]), w)[c[1]]
    BY <2>1 DEF InverseRows, OfRows
  <2> QED
    BY <2>1, <2>2, <2>3, InverseLineTyped
<1> QED
  BY <1>2 DEF InverseLevel, InverseRows, OfRows, f

\* The detail bands of a plane of w * h samples.
DetailSet(w, h) == [H : [Cells(High(w), Low(h)) -> Int],
                    V : [Cells(Low(w), High(h)) -> Int],
                    D : [Cells(High(w), High(h)) -> Int]]

LEMMA BandsTyped ==
  ASSUME NEW w \in Nat, NEW h \in Nat, NEW p \in [Cells(w, h) -> Int]
  PROVE  /\ LowBand(p, w, h) \in [Cells(Low(w), Low(h)) -> Int]
         /\ Detail(p, w, h) \in DetailSet(w, h)
<1>1. Low(w) + High(w) = w /\ Low(h) + High(h) = h
      /\ Low(w) \in Nat /\ High(w) \in Nat /\ Low(h) \in Nat /\ High(h) \in Nat
  BY DEF Low, High
<1>2. \A x \in Line(Low(w)) : x \in Line(w)
  BY <1>1 DEF Line
<1>3. \A x \in Line(High(w)) : Low(w) + x \in Line(w)
  BY <1>1 DEF Line
<1>4. \A y \in Line(Low(h)) : y \in Line(h)
  BY <1>1 DEF Line
<1>5. \A y \in Line(High(h)) : Low(h) + y \in Line(h)
  BY <1>1 DEF Line
<1>6. LowBand(p, w, h) \in [Cells(Low(w), Low(h)) -> Int]
  BY <1>2, <1>4 DEF LowBand, Cells
<1>7. \A c \in Cells(High(w), Low(h)) : p[<<Low(w) + c[1], c[2]>>] \in Int
  BY <1>3, <1>4 DEF Cells
<1>8. \A c \in Cells(Low(w), High(h)) : p[<<c[1], Low(h) + c[2]>>] \in Int
  BY <1>2, <1>5 DEF Cells
<1>9. \A c \in Cells(High(w), High(h)) : p[<<Low(w) + c[1], Low(h) + c[2]>>] \in Int
  BY <1>3, <1>5 DEF Cells
<1> QED
  BY <1>6, <1>7, <1>8, <1>9 DEF Detail, DetailSet

LEMMA PackedTyped ==
  ASSUME NEW w \in Nat, NEW h \in Nat, NEW low \in [Cells(Low(w), Low(h)) -> Int],
         NEW d \in DetailSet(w, h)
  PROVE  Packed(low, d, w, h) \in [Cells(w, h) -> Int]
<1>1. ASSUME NEW c \in Cells(w, h) PROVE Packed(low, d, w, h)[c] \in Int
  <2> DEFINE x == c[1]
             y == c[2]
  <2>1. x \in Line(w) /\ y \in Line(h) /\ c = <<x, y>>
    BY DEF Cells
  <2>2. x < Low(w) => x \in Line(Low(w))
    BY <2>1 DEF Line, Low
  <2>3. ~(x < Low(w)) => x - Low(w) \in Line(High(w))
    BY <2>1 DEF Line, Low, High
  <2>4. y < Low(h) => y \in Line(Low(h))
    BY <2>1 DEF Line, Low
  <2>5. ~(y < Low(h)) => y - Low(h) \in Line(High(h))
    BY <2>1 DEF Line, Low, High
  <2> HIDE DEF x, y
  <2>6. CASE x < Low(w) /\ y < Low(h)
    BY <2>1, <2>2, <2>4, <2>6 DEF Packed, Cells, x, y
  <2>7. CASE x < Low(w) /\ ~(y < Low(h))
    <3>1. Packed(low, d, w, h)[c] = d.V[<<x, y - Low(h)>>]
      BY <2>7 DEF Packed, x, y
    <3>2. <<x, y - Low(h)>> \in Cells(Low(w), High(h))
      BY <2>2, <2>5, <2>7 DEF Cells
    <3> QED
      BY <3>1, <3>2 DEF DetailSet
  <2>8. CASE ~(x < Low(w)) /\ y < Low(h)
    <3>1. Packed(low, d, w, h)[c] = d.H[<<x - Low(w), y>>]
      BY <2>8 DEF Packed, x, y
    <3>2. <<x - Low(w), y>> \in Cells(High(w), Low(h))
      BY <2>3, <2>4, <2>8 DEF Cells
    <3> QED
      BY <3>1, <3>2 DEF DetailSet
  <2>9. CASE ~(x < Low(w)) /\ ~(y < Low(h))
    <3>1. Packed(low, d, w, h)[c] = d.D[<<x - Low(w), y - Low(h)>>]
      BY <2>9 DEF Packed, x, y
    <3>2. <<x - Low(w), y - Low(h)>> \in Cells(High(w), High(h))
      BY <2>3, <2>5, <2>9 DEF Cells
    <3> QED
      BY <3>1, <3>2 DEF DetailSet
  <2> QED
    BY <2>6, <2>7, <2>8, <2>9
<1> QED
  BY <1>1 DEF Packed

\* inverse_level packs the bands where extract_detail found them.
LEMMA PackedUndoesExtract ==
  ASSUME NEW w \in Nat, NEW h \in Nat, NEW p \in [Cells(w, h) -> Int]
  PROVE  Packed(LowBand(p, w, h), Detail(p, w, h), w, h) = p
<1> DEFINE low == LowBand(p, w, h)
           d == Detail(p, w, h)
<1>1. ASSUME NEW c \in Cells(w, h) PROVE Packed(low, d, w, h)[c] = p[c]
  <2> DEFINE x == c[1]
             y == c[2]
  <2>1. x \in Line(w) /\ y \in Line(h) /\ c = <<x, y>>
    BY DEF Cells
  <2>2. x < Low(w) => x \in Line(Low(w))
    BY <2>1 DEF Line, Low
  <2>3. ~(x < Low(w)) => x - Low(w) \in Line(High(w)) /\ Low(w) + (x - Low(w)) = x
    BY <2>1 DEF Line, Low, High
  <2>4. y < Low(h) => y \in Line(Low(h))
    BY <2>1 DEF Line, Low
  <2>5. ~(y < Low(h)) => y - Low(h) \in Line(High(h)) /\ Low(h) + (y - Low(h)) = y
    BY <2>1 DEF Line, Low, High
  <2> HIDE DEF x, y
  <2>6. CASE x < Low(w) /\ y < Low(h)
    <3>1. Packed(low, d, w, h)[c] = low[c]
      BY <2>6 DEF Packed, x, y
    <3>2. c \in Cells(Low(w), Low(h))
      BY <2>1, <2>2, <2>4, <2>6 DEF Cells
    <3> QED
      BY <3>1, <3>2 DEF LowBand
  <2>7. CASE x < Low(w) /\ ~(y < Low(h))
    <3>1. Packed(low, d, w, h)[c] = d.V[<<x, y - Low(h)>>]
      BY <2>7 DEF Packed, x, y
    <3>2. <<x, y - Low(h)>> \in Cells(Low(w), High(h))
      BY <2>2, <2>5, <2>7 DEF Cells
    <3>3. d.V[<<x, y - Low(h)>>] = p[<<x, Low(h) + (y - Low(h))>>]
      BY <3>2 DEF Detail
    <3> QED
      BY <2>1, <2>5, <2>7, <3>1, <3>3
  <2>8. CASE ~(x < Low(w)) /\ y < Low(h)
    <3>1. Packed(low, d, w, h)[c] = d.H[<<x - Low(w), y>>]
      BY <2>8 DEF Packed, x, y
    <3>2. <<x - Low(w), y>> \in Cells(High(w), Low(h))
      BY <2>3, <2>4, <2>8 DEF Cells
    <3>3. d.H[<<x - Low(w), y>>] = p[<<Low(w) + (x - Low(w)), y>>]
      BY <3>2 DEF Detail
    <3> QED
      BY <2>1, <2>3, <2>8, <3>1, <3>3
  <2>9. CASE ~(x < Low(w)) /\ ~(y < Low(h))
    <3>1. Packed(low, d, w, h)[c] = d.D[<<x - Low(w), y - Low(h)>>]
      BY <2>9 DEF Packed, x, y
    <3>2. <<x - Low(w), y - Low(h)>> \in Cells(High(w), High(h))
      BY <2>3, <2>5, <2>9 DEF Cells
    <3>3. d.D[<<x - Low(w), y - Low(h)>>]
            = p[<<Low(w) + (x - Low(w)), Low(h) + (y - Low(h))>>]
      BY <3>2 DEF Detail
    <3> QED
      BY <2>1, <2>3, <2>5, <2>9, <3>1, <3>3
  <2> QED
    BY <2>6, <2>7, <2>8, <2>9
<1>2. Packed(low, d, w, h) = [c \in Cells(w, h) |-> Packed(low, d, w, h)[c]]
  BY DEF Packed
<1> HIDE DEF low, d
<1>3. Packed(low, d, w, h) = p
  BY <1>1, <1>2
<1> QED
  BY <1>3 DEF low, d
--------------------------------------------------------------------------------
(* Errors of the bands spread by no more than LineError and LevelError *)

LEMMA OddNeighbours ==
  ASSUME NEW n \in Nat, NEW i \in Line(n), i % 2 = 1
  PROVE  /\ i - 1 \in Line(n) /\ (i - 1) % 2 = 0
         /\ i + 1 < n => (i + 1 \in Line(n) /\ (i + 1) % 2 = 0)
<1>1. i \in Nat /\ i < n /\ i >= 1
  BY DEF Line
<1>2. PICK k \in Nat : i = 2 * k + 1
  <2>1. i \div 2 \in Nat /\ i = 2 * (i \div 2) + 1
    BY <1>1
  <2> QED
    BY <2>1
<1>3. (2 * k) % 2 = 0 /\ (2 * (k + 1)) % 2 = 0
  OBVIOUS
<1>4. i - 1 = 2 * k /\ i + 1 = 2 * (k + 1)
  BY <1>2
<1> QED
  BY <1>1, <1>3, <1>4 DEF Line

LEMMA PredictedClose ==
  ASSUME NEW n \in Nat, NEW x \in [Line(n) -> Int], NEW z \in [Line(n) -> Int], NEW e \in Nat,
         \A i \in Line(n) : i % 2 = 0 => Close(x[i], z[i], e),
         NEW i \in Line(n), i % 2 = 1
  PROVE  Close(Predicted(x, n, i), Predicted(z, n, i), e)
<1> DEFINE lx == x[i - 1]
           rx == IF i + 1 < n THEN x[i + 1] ELSE lx
           lz == z[i - 1]
           rz == IF i + 1 < n THEN z[i + 1] ELSE lz
<1>1. /\ i - 1 \in Line(n) /\ (i - 1) % 2 = 0
      /\ i + 1 < n => (i + 1 \in Line(n) /\ (i + 1) % 2 = 0)
  BY OddNeighbours
<1>2. lx \in Int /\ rx \in Int /\ lz \in Int /\ rz \in Int
      /\ Close(lx, lz, e) /\ Close(rx, rz, e)
  BY <1>1
<1> HIDE DEF lx, rx, lz, rz
<1>3. FloorDiv(lx + rx, 2) = (lx + rx) \div 2 /\ FloorDiv(lz + rz, 2) = (lz + rz) \div 2
  <2>1. lx + rx \in Int /\ lz + rz \in Int
    BY <1>2
  <2> QED
    BY <2>1, FloorDivInt
<1>4. Close((lx + rx) \div 2, (lz + rz) \div 2, e)
  BY <1>2 DEF Close
<1> QED
  BY <1>3, <1>4 DEF Predicted, lx, rx, lz, rz

LEMMA UpdateClose ==
  ASSUME NEW n \in Nat, n >= 2, NEW x \in [Line(n) -> Int], NEW z \in [Line(n) -> Int],
         NEW e \in Nat,
         \A i \in Line(n) : i % 2 = 1 => Close(x[i], z[i], e),
         NEW i \in Line(n), i % 2 = 0
  PROVE  Close(Update(x, n, i), Update(z, n, i), (e + 1) \div 2)
<1> DEFINE j == IF i > 0 THEN i - 1 ELSE i + 1
           k == IF i + 1 < n THEN i + 1 ELSE j
<1>1. j \in Line(n) /\ j % 2 = 1 /\ k \in Line(n) /\ k % 2 = 1
  BY DEF Line
<1>2. /\ Update(x, n, i) = FloorDiv(x[j] + x[k] + 2, 4)
      /\ Update(z, n, i) = FloorDiv(z[j] + z[k] + 2, 4)
  BY DEF Update, Line
<1> HIDE DEF j, k
<1>3. /\ x[j] \in Int /\ x[k] \in Int /\ z[j] \in Int /\ z[k] \in Int
      /\ Close(x[j], z[j], e) /\ Close(x[k], z[k], e)
  BY <1>1
<1> DEFINE a == x[j] + x[k] + 2
           b == z[j] + z[k] + 2
<1>4. a \in Int /\ b \in Int /\ a - b <= 2 * e /\ b - a <= 2 * e
  BY <1>3 DEF Close
<1> HIDE DEF a, b
<1>5. FloorDiv(a, 4) = a \div 4 /\ FloorDiv(b, 4) = b \div 4
  BY <1>4, FloorDivInt
<1>6. Close(a \div 4, b \div 4, (e + 1) \div 2)
  BY <1>4 DEF Close
<1> QED
  BY <1>2, <1>5, <1>6 DEF a, b

LEMMA InterleaveTyped ==
  ASSUME NEW n \in Nat, NEW x \in [Line(n) -> Int]
  PROVE  /\ Interleave(x, n) \in [Line(n) -> Int]
         /\ \A i \in Line(n) : i % 2 = 0 => i \div 2 \in Line(n) /\ i \div 2 < Low(n)
                                            /\ Interleave(x, n)[i] = x[i \div 2]
         /\ \A i \in Line(n) : i % 2 = 1 => Low(n) + i \div 2 \in Line(n)
                                            /\ Interleave(x, n)[i] = x[Low(n) + i \div 2]
<1>1. \A i \in Line(n) : i % 2 = 0 => i \div 2 \in Line(n) /\ i \div 2 < Low(n)
                                      /\ Interleave(x, n)[i] = x[i \div 2]
  BY DEF Interleave, Line, Low
<1>2. \A i \in Line(n) : i % 2 = 1 => Low(n) + i \div 2 \in Line(n)
                                      /\ Interleave(x, n)[i] = x[Low(n) + i \div 2]
  BY DEF Interleave, Line, Low
<1>3. ASSUME NEW i \in Line(n) PROVE Interleave(x, n)[i] \in Int
  <2>1. i % 2 = 0 \/ i % 2 = 1
    BY DEF Line
  <2> QED
    BY <1>1, <1>2, <2>1
<1> QED
  BY <1>1, <1>2, <1>3 DEF Interleave

\* Lines whose low and high halves are close are close after inverse_line.
LEMMA InverseLineClose ==
  ASSUME NEW n \in Nat, n >= 2, NEW x \in [Line(n) -> Int], NEW z \in [Line(n) -> Int],
         NEW low \in Nat, NEW high \in Nat,
         \A i \in Line(n) : i < Low(n) => Close(x[i], z[i], low),
         \A i \in Line(n) : ~(i < Low(n)) => Close(x[i], z[i], high)
  PROVE  /\ LineError(low, high) \in Nat
         /\ \A i \in Line(n) : Close(InverseLine(x, n)[i], InverseLine(z, n)[i],
                                     LineError(low, high))
<1> DEFINE a == Interleave(x, n)
           b == Interleave(z, n)
           c == InverseEven(a, n)
           d == InverseEven(b, n)
           mid == low + (high + 1) \div 2
           all == LineError(low, high)
<1>1. a \in [Line(n) -> Int] /\ b \in [Line(n) -> Int]
  BY InterleaveTyped
<1>2. \A i \in Line(n) : i % 2 = 0 => Close(a[i], b[i], low)
  BY InterleaveTyped
<1>3. \A i \in Line(n) : i % 2 = 1 => Close(a[i], b[i], high)
  <2> SUFFICES ASSUME NEW i \in Line(n), i % 2 = 1 PROVE Close(a[i], b[i], high)
    OBVIOUS
  <2> DEFINE j == Low(n) + i \div 2
  <2>1. j \in Line(n) /\ a[i] = x[j] /\ b[i] = z[j]
    BY InterleaveTyped
  <2>2. ~(j < Low(n))
    BY DEF Line, Low
  <2> QED
    BY <2>1, <2>2
<1> HIDE DEF a, b
<1>4. mid \in Nat /\ all \in Nat /\ all = mid + high
  BY DEF LineError
<1> HIDE DEF mid, all
<1>5. c \in [Line(n) -> Int] /\ d \in [Line(n) -> Int]
  BY <1>1, UpdateInt DEF InverseEven
<1>6. \A i \in Line(n) : i % 2 = 0 => Close(c[i], d[i], mid)
  <2> SUFFICES ASSUME NEW i \in Line(n), i % 2 = 0 PROVE Close(c[i], d[i], mid)
    OBVIOUS
  <2>1. c[i] = a[i] - Update(a, n, i) /\ d[i] = b[i] - Update(b, n, i)
    BY DEF InverseEven
  <2>2. Close(Update(a, n, i), Update(b, n, i), (high + 1) \div 2)
    BY <1>1, <1>3, UpdateClose
  <2>3. Update(a, n, i) \in Int /\ Update(b, n, i) \in Int /\ a[i] \in Int /\ b[i] \in Int
    BY <1>1, UpdateInt
  <2>4. Close(a[i], b[i], low)
    BY <1>2
  <2> HIDE DEF c, d
  <2> QED
    BY <2>1, <2>2, <2>3, <2>4 DEF Close, mid
<1>7. \A i \in Line(n) : i % 2 = 1 => Close(c[i], d[i], high)
  BY <1>3 DEF InverseEven
<1>8. InverseLine(x, n) = InverseOdd(c, n) /\ InverseLine(z, n) = InverseOdd(d, n)
  BY DEF InverseLine, a, b
<1> HIDE DEF c, d
<1>9. ASSUME NEW i \in Line(n) PROVE Close(InverseOdd(c, n)[i], InverseOdd(d, n)[i], all)
  <2>0. c[i] \in Int /\ d[i] \in Int
    BY <1>5
  <2>1. CASE i % 2 = 0
    <3>1. InverseOdd(c, n)[i] = c[i] /\ InverseOdd(d, n)[i] = d[i]
      BY <2>1 DEF InverseOdd
    <3>2. Close(c[i], d[i], mid)
      BY <1>6, <2>1
    <3> QED
      BY <1>4, <2>0, <3>1, <3>2 DEF Close
  <2>2. CASE i % 2 = 1
    <3>1. InverseOdd(c, n)[i] = c[i] + Predicted(c, n, i)
          /\ InverseOdd(d, n)[i] = d[i] + Predicted(d, n, i)
      BY <2>2 DEF InverseOdd
    <3>2. Close(Predicted(c, n, i), Predicted(d, n, i), mid)
      BY <1>4, <1>5, <1>6, <2>2, PredictedClose
    <3>3. Close(c[i], d[i], high)
      BY <1>7, <2>2
    <3>4. Predicted(c, n, i) \in Int /\ Predicted(d, n, i) \in Int
      BY <1>5, <2>2, PredictedInt
    <3> QED
      BY <1>4, <2>0, <3>1, <3>2, <3>3, <3>4 DEF Close
  <2> QED
    BY <2>1, <2>2 DEF Line
<1> QED
  BY <1>4, <1>8, <1>9 DEF all

\* The bands that inverse_level packs into the two planes differ by at most low, hv and d.
BandsClose(p, q, w, h, low, hv, d) ==
  \A x \in Line(w), y \in Line(h) :
    /\ x < Low(w) /\ y < Low(h) => Close(p[<<x, y>>], q[<<x, y>>], low)
    /\ x < Low(w) /\ ~(y < Low(h)) => Close(p[<<x, y>>], q[<<x, y>>], hv)
    /\ ~(x < Low(w)) /\ y < Low(h) => Close(p[<<x, y>>], q[<<x, y>>], hv)
    /\ ~(x < Low(w)) /\ ~(y < Low(h)) => Close(p[<<x, y>>], q[<<x, y>>], d)

LEMMA ColumnClose ==
  ASSUME NEW w \in Nat, NEW h \in Nat, h >= 2,
         NEW p \in [Cells(w, h) -> Int], NEW q \in [Cells(w, h) -> Int],
         NEW low \in Nat, NEW high \in Nat, NEW x \in Line(w),
         \A y \in Line(h) : y < Low(h) => Close(p[<<x, y>>], q[<<x, y>>], low),
         \A y \in Line(h) : ~(y < Low(h)) => Close(p[<<x, y>>], q[<<x, y>>], high)
  PROVE  \A y \in Line(h) : Close(InverseColumns(p, w, h)[<<x, y>>],
                                  InverseColumns(q, w, h)[<<x, y>>], LineError(low, high))
<1> DEFINE a == Column(p, h, x)
           b == Column(q, h, x)
<1>1. a \in [Line(h) -> Int] /\ b \in [Line(h) -> Int]
  BY DEF Column, Cells
<1>2. \A y \in Line(h) : a[y] = p[<<x, y>>] /\ b[y] = q[<<x, y>>]
  BY DEF Column
<1>3. \A y \in Line(h) : /\ InverseColumns(p, w, h)[<<x, y>>] = InverseLine(a, h)[y]
                         /\ InverseColumns(q, w, h)[<<x, y>>] = InverseLine(b, h)[y]
  BY DEF InverseColumns, OfColumns, Cells
<1> HIDE DEF a, b
<1>4. \A y \in Line(h) : Close(InverseLine(a, h)[y], InverseLine(b, h)[y], LineError(low, high))
  BY <1>1, <1>2, InverseLineClose
<1> QED
  BY <1>3, <1>4

LEMMA RowClose ==
  ASSUME NEW w \in Nat, NEW h \in Nat, w >= 2,
         NEW p \in [Cells(w, h) -> Int], NEW q \in [Cells(w, h) -> Int],
         NEW low \in Nat, NEW high \in Nat, NEW y \in Line(h),
         \A x \in Line(w) : x < Low(w) => Close(p[<<x, y>>], q[<<x, y>>], low),
         \A x \in Line(w) : ~(x < Low(w)) => Close(p[<<x, y>>], q[<<x, y>>], high)
  PROVE  \A x \in Line(w) : Close(InverseRows(p, w, h)[<<x, y>>],
                                  InverseRows(q, w, h)[<<x, y>>], LineError(low, high))
<1> DEFINE a == Row(p, w, y)
           b == Row(q, w, y)
<1>1. a \in [Line(w) -> Int] /\ b \in [Line(w) -> Int]
  BY DEF Row, Cells
<1>2. \A x \in Line(w) : a[x] = p[<<x, y>>] /\ b[x] = q[<<x, y>>]
  BY DEF Row
<1>3. \A x \in Line(w) : /\ InverseRows(p, w, h)[<<x, y>>] = InverseLine(a, w)[x]
                         /\ InverseRows(q, w, h)[<<x, y>>] = InverseLine(b, w)[x]
  BY DEF InverseRows, OfRows, Cells
<1> HIDE DEF a, b
<1>4. \A x \in Line(w) : Close(InverseLine(a, w)[x], InverseLine(b, w)[x], LineError(low, high))
  BY <1>1, <1>2, InverseLineClose
<1> QED
  BY <1>3, <1>4

\* Planes whose bands are close are close after inverse_level.
THEOREM LevelClose ==
  ASSUME NEW w \in Nat, NEW h \in Nat, w >= 2, h >= 2,
         NEW p \in [Cells(w, h) -> Int], NEW q \in [Cells(w, h) -> Int],
         NEW low \in Nat, NEW hv \in Nat, NEW d \in Nat,
         BandsClose(p, q, w, h, low, hv, d)
  PROVE  /\ LevelError(low, hv, d) \in Nat
         /\ \A c \in Cells(w, h) : Close(InverseLevel(p, w, h)[c], InverseLevel(q, w, h)[c],
                                         LevelError(low, hv, d))
<1> DEFINE f == InverseColumns(p, w, h)
           g == InverseColumns(q, w, h)
           el == LineError(low, hv)
           eh == LineError(hv, d)
<1>1. f \in [Cells(w, h) -> Int] /\ g \in [Cells(w, h) -> Int]
  BY InverseColumnsTyped
<1>2. el \in Nat /\ eh \in Nat
  BY DEF LineError
<1>3. \A x \in Line(w) : x < Low(w) => \A y \in Line(h) : Close(f[<<x, y>>], g[<<x, y>>], el)
  <2> SUFFICES ASSUME NEW x \in Line(w), x < Low(w)
               PROVE  \A y \in Line(h) : Close(f[<<x, y>>], g[<<x, y>>], el)
    OBVIOUS
  <2>1. /\ \A y \in Line(h) : y < Low(h) => Close(p[<<x, y>>], q[<<x, y>>], low)
        /\ \A y \in Line(h) : ~(y < Low(h)) => Close(p[<<x, y>>], q[<<x, y>>], hv)
    BY DEF BandsClose
  <2> QED
    BY <2>1, ColumnClose
<1>4. \A x \in Line(w) : ~(x < Low(w)) => \A y \in Line(h) : Close(f[<<x, y>>], g[<<x, y>>], eh)
  <2> SUFFICES ASSUME NEW x \in Line(w), ~(x < Low(w))
               PROVE  \A y \in Line(h) : Close(f[<<x, y>>], g[<<x, y>>], eh)
    OBVIOUS
  <2>1. /\ \A y \in Line(h) : y < Low(h) => Close(p[<<x, y>>], q[<<x, y>>], hv)
        /\ \A y \in Line(h) : ~(y < Low(h)) => Close(p[<<x, y>>], q[<<x, y>>], d)
    BY DEF BandsClose
  <2> QED
    BY <2>1, ColumnClose
<1> HIDE DEF f, g, el, eh
<1>5. \A y \in Line(h) : \A x \in Line(w) :
        Close(InverseRows(f, w, h)[<<x, y>>], InverseRows(g, w, h)[<<x, y>>], LineError(el, eh))
  BY <1>1, <1>2, <1>3, <1>4, RowClose
<1>6. ASSUME NEW c \in Cells(w, h)
      PROVE  Close(InverseRows(f, w, h)[c], InverseRows(g, w, h)[c], LineError(el, eh))
  <2>1. c[1] \in Line(w) /\ c[2] \in Line(h) /\ c = <<c[1], c[2]>>
    BY DEF Cells
  <2> QED
    BY <1>5, <2>1
<1>7. LineError(el, eh) \in Nat
  BY <1>2 DEF LineError
<1> QED
  BY <1>6, <1>7 DEF LevelError, InverseLevel, f, g, el, eh

LEMMA PackedClose ==
  ASSUME NEW w \in Nat, NEW h \in Nat,
         NEW l \in [Cells(Low(w), Low(h)) -> Int], NEW m \in [Cells(Low(w), Low(h)) -> Int],
         NEW a \in DetailSet(w, h), NEW b \in DetailSet(w, h),
         NEW low \in Nat, NEW hv \in Nat, NEW d \in Nat,
         \A c \in Cells(Low(w), Low(h)) : Close(l[c], m[c], low),
         \A c \in Cells(High(w), Low(h)) : Close(a.H[c], b.H[c], hv),
         \A c \in Cells(Low(w), High(h)) : Close(a.V[c], b.V[c], hv),
         \A c \in Cells(High(w), High(h)) : Close(a.D[c], b.D[c], d)
  PROVE  BandsClose(Packed(l, a, w, h), Packed(m, b, w, h), w, h, low, hv, d)
<1> DEFINE p == Packed(l, a, w, h)
           q == Packed(m, b, w, h)
<1> SUFFICES ASSUME NEW x \in Line(w), NEW y \in Line(h)
             PROVE  /\ x < Low(w) /\ y < Low(h) => Close(p[<<x, y>>], q[<<x, y>>], low)
                    /\ x < Low(w) /\ ~(y < Low(h)) => Close(p[<<x, y>>], q[<<x, y>>], hv)
                    /\ ~(x < Low(w)) /\ y < Low(h) => Close(p[<<x, y>>], q[<<x, y>>], hv)
                    /\ ~(x < Low(w)) /\ ~(y < Low(h)) => Close(p[<<x, y>>], q[<<x, y>>], d)
  BY DEF BandsClose
<1>0. <<x, y>> \in Cells(w, h)
  BY DEF Cells
<1>1. x < Low(w) => x \in Line(Low(w))
  BY DEF Line, Low
<1>2. ~(x < Low(w)) => x - Low(w) \in Line(High(w))
  BY DEF Line, Low, High
<1>3. y < Low(h) => y \in Line(Low(h))
  BY DEF Line, Low
<1>4. ~(y < Low(h)) => y - Low(h) \in Line(High(h))
  BY DEF Line, Low, High
<1>5. ASSUME x < Low(w), y < Low(h) PROVE Close(p[<<x, y>>], q[<<x, y>>], low)
  <2>1. p[<<x, y>>] = l[<<x, y>>] /\ q[<<x, y>>] = m[<<x, y>>]
    BY <1>0, <1>5 DEF Packed
  <2>2. <<x, y>> \in Cells(Low(w), Low(h))
    BY <1>1, <1>3, <1>5 DEF Cells
  <2> QED
    BY <2>1, <2>2
<1>6. ASSUME x < Low(w), ~(y < Low(h)) PROVE Close(p[<<x, y>>], q[<<x, y>>], hv)
  <2>1. p[<<x, y>>] = a.V[<<x, y - Low(h)>>] /\ q[<<x, y>>] = b.V[<<x, y - Low(h)>>]
    BY <1>0, <1>6 DEF Packed
  <2>2. <<x, y - Low(h)>> \in Cells(Low(w), High(h))
    BY <1>1, <1>4, <1>6 DEF Cells
  <2> QED
    BY <2>1, <2>2
<1>7. ASSUME ~(x < Low(w)), y < Low(h) PROVE Close(p[<<x, y>>], q[<<x, y>>], hv)
  <2>1. p[<<x, y>>] = a.H[<<x - Low(w), y>>] /\ q[<<x, y>>] = b.H[<<x - Low(w), y>>]
    BY <1>0, <1>7 DEF Packed
  <2>2. <<x - Low(w), y>> \in Cells(High(w), Low(h))
    BY <1>2, <1>3, <1>7 DEF Cells
  <2> QED
    BY <2>1, <2>2
<1>8. ASSUME ~(x < Low(w)), ~(y < Low(h)) PROVE Close(p[<<x, y>>], q[<<x, y>>], d)
  <2>1. /\ p[<<x, y>>] = a.D[<<x - Low(w), y - Low(h)>>]
        /\ q[<<x, y>>] = b.D[<<x - Low(w), y - Low(h)>>]
    BY <1>0, <1>8 DEF Packed
  <2>2. <<x - Low(w), y - Low(h)>> \in Cells(High(w), High(h))
    BY <1>2, <1>4, <1>8 DEF Cells
  <2> QED
    BY <2>1, <2>2
<1> QED
  BY <1>5, <1>6, <1>7, <1>8

--------------------------------------------------------------------------------
(* The quantiser *)

LEMMA DivBounds ==
  ASSUME NEW n \in Nat, NEW d \in Nat, d > 0
  PROVE  /\ n \div d \in Nat
         /\ d * (n \div d) <= n
         /\ n < d * (n \div d) + d
BY SMT

\* The quotient of a coefficient that is not negative, by its bounds.
LEMMA QuantizedPositive ==
  ASSUME NEW v \in Nat, NEW step \in Nat \ {0}
  PROVE  LET q == Quantized(v, step)
         IN  /\ q \in Nat
             /\ 2 * (q * step) <= 2 * v + step
             /\ 2 * v < 2 * (q * step) + step \/ (step = 1 /\ q = v)
<1> DEFINE k == (2 * v + step) \div (2 * step)
<1>1. CASE step = 1
  BY <1>1 DEF Quantized
<1>2. CASE step # 1
  <2>1. 2 * v + step \in Nat /\ 2 * step \in Nat /\ 2 * step > 0
    OBVIOUS
  <2>2. k \in Nat /\ (2 * step) * k <= 2 * v + step /\ 2 * v + step < (2 * step) * k + 2 * step
    BY <2>1, DivBounds
  <2>3. Quantized(v, step) = k
    BY <1>2 DEF Quantized
  <2> HIDE DEF k
  <2>4. (2 * step) * k = 2 * (k * step) /\ k * step \in Nat
    BY <2>2
  <2> QED
    BY <2>2, <2>3, <2>4
<1> QED
  BY <1>1, <1>2

\* A zero coefficient stays zero: quantisation never fills an empty band.
THEOREM ZeroKept ==
  ASSUME NEW step \in Nat \ {0}
  PROVE  Quantized(0, step) = 0
<1> DEFINE k == Quantized(0, step)
<1>1. k \in Nat /\ 2 * (k * step) <= step
  BY QuantizedPositive
<1> HIDE DEF k
<1>2. ASSUME k >= 1 PROVE FALSE
  <2>1. k * step >= step
    BY <1>1, <1>2
  <2> QED
    BY <1>1, <2>1
<1>3. k = 0
  BY <1>1, <1>2
<1> QED
  BY <1>3 DEF k

\* Negative coefficients mirror positive ones, as llround does.
THEOREM SignSymmetric ==
  ASSUME NEW v \in Int, NEW step \in Nat \ {0}
  PROVE  Quantized(-v, step) = -Quantized(v, step)
<1>1. ASSUME NEW u \in Nat, u > 0 PROVE Quantized(-u, step) = -Quantized(u, step)
  BY <1>1 DEF Quantized
<1>2. CASE v > 0
  BY <1>1, <1>2
<1>3. CASE v < 0
  <2>1. -v \in Nat /\ -v > 0 /\ -(-v) = v
    BY <1>3
  <2>2. Quantized(v, step) = -Quantized(-v, step)
    BY <1>1, <2>1
  <2>3. Quantized(-v, step) \in Nat
    BY <2>1, QuantizedPositive
  <2> QED
    BY <2>2, <2>3
<1>4. CASE v = 0
  BY <1>4, ZeroKept
<1> QED
  BY <1>2, <1>3, <1>4

LEMMA QuantizedInt ==
  ASSUME NEW v \in Int, NEW step \in Nat \ {0}
  PROVE  Quantized(v, step) \in Int
<1>1. CASE v >= 0
  BY <1>1, QuantizedPositive
<1>2. CASE v < 0
  <2>1. -v \in Nat /\ -(-v) = v
    BY <1>2
  <2>2. Quantized(-v, step) \in Nat
    BY <2>1, QuantizedPositive
  <2>3. Quantized(-(-v), step) = -Quantized(-v, step)
    BY <2>1, SignSymmetric
  <2>4. Quantized(v, step) = -Quantized(-v, step)
    BY <2>1, <2>3
  <2> QED
    BY <2>2, <2>4
<1> QED
  BY <1>1, <1>2

LEMMA RestoredInt ==
  ASSUME NEW v \in Int, NEW step \in Nat \ {0}
  PROVE  Restored(v, step) \in Int
BY QuantizedInt DEF Restored, Dequantized

LEMMA RestoredMirrors ==
  ASSUME NEW v \in Int, NEW step \in Nat \ {0}
  PROVE  Restored(-v, step) = -Restored(v, step)
<1> DEFINE q == Quantized(v, step)
<1>1. q \in Int /\ Quantized(-v, step) = -q
  BY QuantizedInt, SignSymmetric
<1> HIDE DEF q
<1>2. (-q) * step = -(q * step)
  BY <1>1
<1> QED
  BY <1>1, <1>2 DEF Restored, Dequantized, q

\* The decoder's coefficient is at most half a step away; with step 1 it is the same.
THEOREM ErrorAtMostHalfAStep ==
  ASSUME NEW v \in Int, NEW step \in Nat \ {0}
  PROVE  /\ 2 * (v - Restored(v, step)) <= step
         /\ 2 * (Restored(v, step) - v) <= step
         /\ step = 1 => Restored(v, step) = v
<1>1. ASSUME NEW u \in Nat
      PROVE  /\ Restored(u, step) \in Int
             /\ 2 * (u - Restored(u, step)) <= step
             /\ 2 * (Restored(u, step) - u) <= step
  <2> DEFINE r == Quantized(u, step) * step
  <2>1. r \in Int /\ 2 * r <= 2 * u + step /\ (2 * u < 2 * r + step \/ (step = 1 /\ r = u))
    <3> DEFINE k == Quantized(u, step)
    <3>1. /\ k \in Nat /\ 2 * (k * step) <= 2 * u + step
          /\ 2 * u < 2 * (k * step) + step \/ (step = 1 /\ k = u)
      BY QuantizedPositive
    <3> HIDE DEF k
    <3>2. k * step \in Int /\ (step = 1 => k * step = k)
      BY <3>1
    <3> QED
      BY <3>1, <3>2 DEF k
  <2>2. Restored(u, step) = r
    BY DEF Restored, Dequantized
  <2> HIDE DEF r
  <2> QED
    BY <2>1, <2>2
<1>2. CASE v >= 0
  BY <1>1, <1>2 DEF Restored, Dequantized, Quantized
<1>3. CASE v < 0
  <2>1. -v \in Nat /\ Restored(-v, step) = -Restored(v, step) /\ Restored(v, step) \in Int
    BY <1>3, RestoredMirrors, RestoredInt
  <2>2. 2 * (-v - Restored(-v, step)) <= step /\ 2 * (Restored(-v, step) - (-v)) <= step
    BY <1>1, <2>1
  <2>3. step = 1 => Restored(v, step) = v
    BY DEF Restored, Dequantized, Quantized
  <2> QED
    BY <2>1, <2>2, <2>3
<1> QED
  BY <1>2, <1>3

\* Quantising what the decoder restored, with the same step, changes nothing: coding a
\* decoded image again with the same table loses nothing more in this stage.
THEOREM RestoredIsFixed ==
  ASSUME NEW v \in Int, NEW step \in Nat \ {0}
  PROVE  Quantized(Restored(v, step), step) = Quantized(v, step)
<1>1. ASSUME NEW q \in Nat PROVE Quantized(q * step, step) = q
  <2> DEFINE p == Quantized(q * step, step)
  <2>1. q * step \in Nat
    OBVIOUS
  <2>2. /\ p \in Nat /\ 2 * (p * step) <= 2 * (q * step) + step
        /\ 2 * (q * step) < 2 * (p * step) + step \/ (step = 1 /\ p = q * step)
    BY <2>1, QuantizedPositive
  <2> HIDE DEF p
  <2>3. CASE p > q
    <3>1. p * step >= q * step + step
      BY <2>2, <2>3
    <3> QED
      BY <2>1, <2>2, <3>1
  <2>4. CASE p < q
    <3>1. q * step >= p * step + step
      BY <2>2, <2>4
    <3> QED
      BY <2>1, <2>2, <2>4, <3>1
  <2> QED
    BY <2>2, <2>3, <2>4 DEF p
<1> DEFINE q == Quantized(v, step)
<1>2. q \in Int
  BY QuantizedInt
<1> HIDE DEF q
<1>3. CASE q >= 0
  BY <1>1, <1>2, <1>3 DEF Restored, Dequantized, q
<1>4. CASE q < 0
  <2>1. -q \in Nat /\ (-q) * step = -(q * step) /\ q * step \in Int
    BY <1>2, <1>4
  <2>2. Quantized((-q) * step, step) = -q
    BY <1>1, <2>1
  <2>3. Quantized(-(q * step), step) = -Quantized(q * step, step) /\ Quantized(q * step, step) \in Int
    BY <2>1, SignSymmetric, QuantizedInt
  <2>4. Quantized(q * step, step) = q
    BY <1>2, <2>1, <2>2, <2>3
  <2> QED
    BY <2>4 DEF Restored, Dequantized, q
<1> QED
  BY <1>2, <1>3, <1>4
================================================================================
