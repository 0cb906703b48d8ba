------------------------------ MODULE PyramidProofs ------------------------------
(***************************************************************************)
(* Proofs about Pyramid, for every plane, every target, every table of     *)
(* steps and every prefix of the layers: the shapes of the bands fit       *)
(* (TypeCorrect), and synthesis retraces the planes the encoder split as   *)
(* closely as the steps allow (PrefixClose), so that a whole stream at     *)
(* quality 100 restores the plane (Lossless); a flat plane stays flat      *)
(* (FlatShownFlat); and resampling to the size the stream declares adds no *)
(* extreme of its own and keeps the corners (NothingRings).                *)
(***************************************************************************)
EXTENDS Pyramid, ArithmeticProofs

Planes == UNION {[Cells(s[1], s[2]) -> Int] : s \in Nat \X Nat}
LevelSet(a, b) == [w : {a}, h : {b}, detail : DetailSet(a, b)]
Levels == UNION {LevelSet(s[1], s[2]) : s \in (Nat \ {0, 1}) \X (Nat \ {0, 1})}

Encoding == phase \in {"start", "build"}

\* The level that cur is the low band of, 0 if there is none.
Rest == IF Encoding THEN Len(levels) ELSE ri

\* The transformed plane of level i.
Analysed(i) == ForwardLevel(before[i], levels[i].w, levels[i].h)
LowOf(i) == LowBand(Analysed(i), levels[i].w, levels[i].h)

\* The size of the plane that build_band_pyramid is given.
FirstW == IF subsampled THEN Low(given.w) ELSE given.w
FirstH == IF subsampled THEN Low(given.h) ELSE given.h

\* The types, with the sets of sequences that TLC cannot enumerate.
Typed == /\ TypeOK /\ target \in Nat /\ subsampled \in BOOLEAN
         /\ given.w \in Nat \ {0} /\ given.h \in Nat \ {0}
         /\ levels \in Seq(Levels) /\ before \in Seq(Planes)
         /\ ~Encoding => steps \in [1 .. Len(levels) -> Steps]

\* The sizes follow from the one that was given.
SizesHeld == /\ phase = "start" => levels = <<>> /\ w = given.w /\ h = given.h
             /\ phase # "start" /\ Len(levels) = 0 => w = FirstW /\ h = FirstH
             /\ Len(levels) >= 1 => levels[1].w = FirstW /\ levels[1].h = FirstH
             /\ ~Encoding /\ ri < Len(levels) => w = levels[ri + 1].w /\ h = levels[ri + 1].h

\* Each level has half the size of the finer one, and so has the plane.
Halved == /\ \A i \in 1 .. Len(levels) - 1 : /\ levels[i + 1].w = Low(levels[i].w)
                                             /\ levels[i + 1].h = Low(levels[i].h)
          /\ Rest >= 1 => w = Low(levels[Rest].w) /\ h = Low(levels[Rest].h)

\* The cells of two sets of bands differ by at most half a step.
DetailClose(a, b, s, m, n) ==
  /\ \A c \in Cells(High(m), Low(n)) : Close(a.H[c], b.H[c], s.hv \div 2)
  /\ \A c \in Cells(Low(m), High(n)) : Close(a.V[c], b.V[c], s.hv \div 2)
  /\ \A c \in Cells(High(m), High(n)) : Close(a.D[c], b.D[c], s.d \div 2)

\* A level holds the detail bands of its plane; as quantised, once it has been delivered.
BandsHeld ==
  \A i \in 1 .. Len(levels) :
    LET d == Detail(Analysed(i), levels[i].w, levels[i].h)
    IN  /\ Encoding => levels[i].detail = d
        /\ ~Encoding /\ i > missing
             => DetailClose(levels[i].detail, d, steps[i], levels[i].w, levels[i].h)

\* The low band of a level is the next plane, and of the last delivered one it is cur, but
\* for the error that is allowed.
LowHeld == /\ \A i \in 1 .. Len(levels) - 1 : LowOf(i) = before[i + 1]
           /\ Encoding /\ Rest >= 1 => LowOf(Rest) = cur
           /\ ~Encoding /\ Rest >= 1 /\ Rest >= missing
                => \A c \in Cells(w, h) : Close(cur[c], LowOf(Rest)[c], allowed)

IInv == /\ Typed /\ SizesHeld /\ Halved /\ BandsHeld /\ LowHeld /\ PrefixWithin
        /\ phase = "done" => ri = 0

--------------------------------------------------------------------------------
LEMMA LevelSetInLevels ==
  ASSUME NEW a \in Nat \ {0, 1}, NEW b \in Nat \ {0, 1}, NEW level \in LevelSet(a, b)
  PROVE  level \in Levels
<1> DEFINE s == <<a, b>>
<1>1. s \in (Nat \ {0, 1}) \X (Nat \ {0, 1}) /\ s[1] = a /\ s[2] = b
  OBVIOUS
<1> HIDE DEF s
<1>2. level \in LevelSet(s[1], s[2])
  BY <1>1
<1> QED
  BY <1>1, <1>2 DEF Levels

LEMMA PlaneInPlanes ==
  ASSUME NEW a \in Nat, NEW b \in Nat, NEW p \in [Cells(a, b) -> Int]
  PROVE  p \in Planes
<1> DEFINE s == <<a, b>>
<1>1. s \in Nat \X Nat /\ s[1] = a /\ s[2] = b
  OBVIOUS
<1> HIDE DEF s
<1>2. p \in [Cells(s[1], s[2]) -> Int]
  BY <1>1
<1> QED
  BY <1>1, <1>2 DEF Planes

LEMMA LevelTyped ==
  ASSUME Typed, NEW i \in 1 .. Len(levels)
  PROVE  /\ levels[i].w \in Nat /\ levels[i].w >= 2
         /\ levels[i].h \in Nat /\ levels[i].h >= 2
         /\ levels[i].detail \in DetailSet(levels[i].w, levels[i].h)
         /\ before[i] \in [Cells(levels[i].w, levels[i].h) -> Int]
         /\ Analysed(i) \in [Cells(levels[i].w, levels[i].h) -> Int]
<1>1. i \in DOMAIN levels /\ TypeOK
  BY DEF Typed
<1>2. /\ levels[i].w \in Nat /\ levels[i].w >= 2
      /\ levels[i].h \in Nat /\ levels[i].h >= 2
      /\ levels[i].detail \in DetailSet(levels[i].w, levels[i].h)
      /\ before[i] \in [Cells(levels[i].w, levels[i].h) -> Int]
  BY <1>1, SMTT(30) DEF TypeOK, DetailSet
<1> QED
  BY <1>2, ForwardLevelTyped DEF Analysed

LEMMA LevelErrorNat ==
  ASSUME NEW low \in Nat, NEW s \in Steps
  PROVE  /\ s.hv \in Nat \ {0} /\ s.d \in Nat \ {0} /\ s.hv \div 2 \in Nat /\ s.d \div 2 \in Nat
         /\ LevelError(low, s.hv \div 2, s.d \div 2) \in Nat
<1>1. s.hv \in Nat \ {0} /\ s.d \in Nat \ {0}
  BY PyramidAssumption
<1>2. s.hv \div 2 \in Nat /\ s.d \div 2 \in Nat
  BY <1>1
<1>3. \A a \in Nat, b \in Nat : LineError(a, b) \in Nat
  BY DEF LineError
<1> QED
  BY <1>1, <1>2, <1>3 DEF LevelError

\* Synthesis of a delivered level whose low band is close gives a plane that is close.
LEMMA LevelSynthesised ==
  ASSUME Typed, ~Encoding, BandsHeld, NEW i \in 1 .. Len(levels), i > missing, allowed \in Nat,
         cur \in [Cells(Low(levels[i].w), Low(levels[i].h)) -> Int],
         \A c \in Cells(Low(levels[i].w), Low(levels[i].h)) : Close(cur[c], LowOf(i)[c], allowed)
  PROVE  \A c \in Cells(levels[i].w, levels[i].h) :
           Close(InverseLevel(Packed(cur, levels[i].detail, levels[i].w, levels[i].h),
                              levels[i].w, levels[i].h)[c],
                 before[i][c],
                 LevelError(allowed, steps[i].hv \div 2, steps[i].d \div 2))
<1> DEFINE m == levels[i].w
           n == levels[i].h
           d == Detail(Analysed(i), m, n)
           s == steps[i]
           p == Packed(cur, levels[i].detail, m, n)
           q == Packed(LowOf(i), d, m, n)
<1>1. /\ m \in Nat /\ m >= 2 /\ n \in Nat /\ n >= 2 /\ levels[i].detail \in DetailSet(m, n)
      /\ Analysed(i) \in [Cells(m, n) -> Int] /\ before[i] \in [Cells(m, n) -> Int]
  BY LevelTyped
<1>2. d \in DetailSet(m, n) /\ LowOf(i) \in [Cells(Low(m), Low(n)) -> Int]
  BY <1>1, BandsTyped DEF LowOf
<1>3. s \in Steps /\ s.hv \div 2 \in Nat /\ s.d \div 2 \in Nat
  <2>1. s \in Steps
    BY DEF Typed
  <2> QED
    BY <2>1, LevelErrorNat
<1>4. DetailClose(levels[i].detail, d, s, m, n)
  BY DEF BandsHeld
<1>5. q = Analysed(i)
  BY <1>1, PackedUndoesExtract DEF LowOf
<1>6. InverseLevel(q, m, n) = before[i]
  BY <1>1, <1>5, LevelReversible DEF Analysed
<1>7. p \in [Cells(m, n) -> Int] /\ q \in [Cells(m, n) -> Int]
  BY <1>1, <1>2, PackedTyped
<1>8. BandsClose(p, q, m, n, allowed, s.hv \div 2, s.d \div 2)
  <2> HIDE DEF d, s, m, n
  <2>1. /\ \A c \in Cells(Low(m), Low(n)) : Close(cur[c], LowOf(i)[c], allowed)
        /\ cur \in [Cells(Low(m), Low(n)) -> Int]
    BY DEF m, n
  <2>2. /\ \A c \in Cells(High(m), Low(n)) : Close(levels[i].detail.H[c], d.H[c], s.hv \div 2)
        /\ \A c \in Cells(Low(m), High(n)) : Close(levels[i].detail.V[c], d.V[c], s.hv \div 2)
        /\ \A c \in Cells(High(m), High(n)) : Close(levels[i].detail.D[c], d.D[c], s.d \div 2)
    BY <1>4 DEF DetailClose
  <2> QED
    BY <1>1, <1>2, <1>3, <2>1, <2>2, PackedClose
<1> HIDE DEF p, q, d, s, m, n
<1>9. \A c \in Cells(m, n) : Close(InverseLevel(p, m, n)[c], InverseLevel(q, m, n)[c],
                                   LevelError(allowed, s.hv \div 2, s.d \div 2))
  BY <1>1, <1>3, <1>7, <1>8, LevelClose
<1> QED
  BY <1>6, <1>9 DEF p, m, n, s

--------------------------------------------------------------------------------
(* Quantised bands and resampled planes *)

LEMMA RestoredClose ==
  ASSUME NEW S, NEW p \in [S -> Int], NEW step \in Nat \ {0}
  PROVE  /\ RestoredBand(p, step) \in [S -> Int]
         /\ \A c \in S : Close(RestoredBand(p, step)[c], p[c], step \div 2)
<1>1. ASSUME NEW c \in S
      PROVE  /\ RestoredBand(p, step)[c] \in Int
             /\ Close(RestoredBand(p, step)[c], p[c], step \div 2)
  <2> DEFINE r == Restored(p[c], step)
  <2>1. p[c] \in Int /\ RestoredBand(p, step)[c] = r
    BY DEF RestoredBand
  <2>2. r \in Int /\ 2 * (p[c] - r) <= step /\ 2 * (r - p[c]) <= step
    BY <2>1, RestoredInt, ErrorAtMostHalfAStep
  <2> HIDE DEF r
  <2>3. Close(r, p[c], step \div 2)
    BY <2>1, <2>2 DEF Close
  <2> QED
    BY <2>1, <2>2, <2>3
<1> QED
  BY <1>1 DEF RestoredBand

LEMMA TruncatedInt ==
  ASSUME NEW a \in Int, NEW n \in Nat \ {0}
  PROVE  Truncated(a, n) \in Int
<1>1. CASE a >= 0
  BY <1>1, DivBounds DEF Truncated
<1>2. CASE a < 0
  <2>1. -a \in Nat
    BY <1>2
  <2>2. (-a) \div n \in Nat
    BY <2>1, DivBounds
  <2> QED
    BY <1>2, <2>2 DEF Truncated
<1> QED
  BY <1>1, <1>2

LEMMA Halved2xTyped ==
  ASSUME NEW m \in Nat \ {0}, NEW n \in Nat \ {0}, NEW p \in [Cells(m, n) -> Int]
  PROVE  Halved2x(p, m, n) \in [Cells(Low(m), Low(n)) -> Int]
<1>1. ASSUME NEW c \in Cells(Low(m), Low(n)) PROVE Halved2x(p, m, n)[c] \in Int
  <2> DEFINE x == 2 * c[1]
             y == 2 * c[2]
             right == Span(c[1], m) - 1
             below == Span(c[2], n) - 1
             k == (right + 1) * (below + 1)
             sum == p[<<x, y>>] + right * p[<<x + right, y>>] + below * p[<<x, y + below>>]
                      + right * below * p[<<x + right, y + below>>]
  <2>1. c[1] \in Line(Low(m)) /\ c[2] \in Line(Low(n))
    BY DEF Cells
  <2>2. x \in Line(m) /\ x + right \in Line(m) /\ right \in {0, 1}
    BY <2>1 DEF Line, Low, Span
  <2>3. y \in Line(n) /\ y + below \in Line(n) /\ below \in {0, 1}
    BY <2>1 DEF Line, Low, Span
  <2> HIDE DEF x, y, right, below
  <2>4. /\ p[<<x, y>>] \in Int /\ p[<<x + right, y>>] \in Int
        /\ p[<<x, y + below>>] \in Int /\ p[<<x + right, y + below>>] \in Int
    BY <2>2, <2>3 DEF Cells
  <2>5. sum \in Int /\ k \in {1, 2, 4}
    BY <2>2, <2>3, <2>4
  <2> HIDE DEF sum, k
  <2>6. sum + k \div 2 \in Int
    BY <2>5
  <2>7. Truncated(sum + k \div 2, k) \in Int
    BY <2>5, <2>6, TruncatedInt
  <2> QED
    BY <2>7 DEF Halved2x, sum, k, x, y, right, below
<1> QED
  BY <1>1 DEF Halved2x

LEMMA PlaceTyped ==
  ASSUME NEW n \in Nat \ {0}, NEW out \in Nat, out >= n, NEW i \in Line(out)
  PROVE  LET x == Place(i, n, out)
         IN  /\ x.at \in Line(n) /\ x.next \in Line(n)
             /\ x.part \in Nat /\ x.whole \in Nat \ {0}
<1>1. CASE n = 1
  BY <1>1 DEF Place, Line
<1>2. CASE n # 1
  <2> DEFINE whole == out - 1
             a == i * (n - 1)
             k == a \div whole
  <2>1. whole \in Nat \ {0} /\ i \in Nat /\ i <= whole /\ n - 1 \in Nat
    BY <1>2 DEF Line
  <2>2. a \in Nat /\ a <= whole * (n - 1)
    BY <2>1
  <2> HIDE DEF a
  <2>3. k \in Nat /\ whole * k <= a /\ a % whole \in Nat
    BY <2>1, <2>2, DivBounds
  <2> HIDE DEF k
  <2>4. k <= n - 1
    <3>1. ASSUME k >= n PROVE FALSE
      <4>1. whole * k >= whole * n
        BY <2>1, <2>3, <3>1
      <4>2. whole * n > whole * (n - 1)
        BY <2>1
      <4>3. whole * k \in Int /\ whole * n \in Int /\ whole * (n - 1) \in Int
        BY <2>1, <2>3
      <4> HIDE DEF whole
      <4> QED
        BY <2>2, <2>3, <4>1, <4>2, <4>3
    <3> QED
      BY <2>3, <3>1
  <2>5. /\ Place(i, n, out).at = k /\ Place(i, n, out).part = a % whole
        /\ Place(i, n, out).whole = whole
        /\ Place(i, n, out).next = IF k + 1 < n THEN k + 1 ELSE n - 1
    BY <1>2 DEF Place, k, a
  <2> QED
    BY <1>2, <2>1, <2>3, <2>4, <2>5 DEF Line
<1> QED
  BY <1>1, <1>2

LEMMA RoundedHalfInt ==
  ASSUME NEW a \in Int, NEW b \in Nat \ {0}, NEW up \in BOOLEAN
  PROVE  RoundedHalf(a, b, up) \in Int
BY DEF RoundedHalf

LEMMA UpsampledTyped ==
  ASSUME NEW m \in Nat \ {0}, NEW n \in Nat \ {0}, NEW om \in Nat, NEW on \in Nat,
         om >= m, on >= n, NEW p \in [Cells(m, n) -> Int], NEW ups
  PROVE  Upsampled(p, m, n, om, on, ups) \in [Cells(om, on) -> Int]
<1>1. ASSUME NEW c \in Cells(om, on) PROVE Upsampled(p, m, n, om, on, ups)[c] \in Int
  <2> DEFINE x == Place(c[1], m, om)
             y == Place(c[2], n, on)
  <2>1. c[1] \in Line(om) /\ c[2] \in Line(on)
    BY DEF Cells
  <2>2. /\ x.at \in Line(m) /\ x.next \in Line(m) /\ x.part \in Nat /\ x.whole \in Nat \ {0}
        /\ y.at \in Line(n) /\ y.next \in Line(n) /\ y.part \in Nat /\ y.whole \in Nat \ {0}
    BY <2>1, PlaceTyped
  <2> HIDE DEF x, y
  <2>3. /\ p[<<x.at, y.at>>] \in Int /\ p[<<x.next, y.at>>] \in Int
        /\ p[<<x.at, y.next>>] \in Int /\ p[<<x.next, y.next>>] \in Int
    BY <2>2 DEF Cells
  <2>4. Blend(p, x, y) \in Int
    BY <2>2, <2>3 DEF Blend
  <2>5. x.whole * y.whole \in Nat \ {0}
    BY <2>2
  <2>6. RoundedHalf(Blend(p, x, y), x.whole * y.whole, c \in ups) \in Int
    BY <2>4, <2>5, RoundedHalfInt, (c \in ups) \in BOOLEAN
  <2> QED
    BY <2>6 DEF Upsampled, x, y
<1> QED
  BY <1>1 DEF Upsampled

LEMMA InitInvariant == Init => IInv
<1> SUFFICES ASSUME Init PROVE IInv
  OBVIOUS
<1>1. w \in Nat \ {0} /\ h \in Nat \ {0} /\ target \in Nat
  BY PyramidAssumption DEF Init
<1>2. cur \in [Cells(w, h) -> Int]
  BY PyramidAssumption DEF Init
<1>3. /\ levels = <<>> /\ before = <<>> /\ Len(levels) = 0 /\ Len(before) = 0
      /\ phase = "start" /\ Encoding /\ missing = 0 /\ ri = 0 /\ baseStep = 1 /\ allowed = 0
      /\ given.w = w /\ given.h = h /\ subsampled \in BOOLEAN
  BY DEF Init, Encoding
<1>4. TypeOK
  BY <1>1, <1>2, <1>3 DEF TypeOK
<1>5. Typed
  BY <1>1, <1>3, <1>4 DEF Typed
<1> QED
  BY <1>3, <1>5 DEF IInv, SizesHeld, Halved, BandsHeld, LowHeld, PrefixWithin, Rest

--------------------------------------------------------------------------------
(* The steps *)

LEMMA DownsampleInvariant == ASSUME IInv, Downsample PROVE IInv'
<1>1. /\ Typed /\ TypeOK /\ phase = "start" /\ phase' = "build" /\ levels = <<>>
      /\ w = given.w /\ h = given.h /\ subsampled \in BOOLEAN
      /\ UNCHANGED <<target, subsampled, levels, missing, ri, shown, given, before, baseStep,
                     steps, allowed>>
  BY DEF IInv, Downsample, SizesHeld, Typed
<1>2. Encoding /\ Encoding' /\ Len(levels) = 0
  BY <1>1 DEF Encoding
<1>3. /\ w' \in Nat \ {0} /\ h' \in Nat \ {0} /\ cur' \in [Cells(w', h') -> Int]
      /\ w' = FirstW /\ h' = FirstH
  <2>1. w \in Nat \ {0} /\ h \in Nat \ {0} /\ cur \in [Cells(w, h) -> Int]
    BY <1>1 DEF TypeOK
  <2>2. CASE subsampled
    <3>1. cur' = Halved2x(cur, w, h) /\ w' = Low(w) /\ h' = Low(h)
      BY <2>2 DEF Downsample
    <3>2. Low(w) \in Nat \ {0} /\ Low(h) \in Nat \ {0}
      BY <2>1 DEF Low
    <3> QED
      BY <1>1, <2>1, <2>2, <3>1, <3>2, Halved2xTyped DEF FirstW, FirstH
  <2>3. CASE ~subsampled
    <3>1. UNCHANGED <<cur, w, h>>
      BY <2>3 DEF Downsample
    <3> QED
      BY <1>1, <2>1, <2>3, <3>1 DEF FirstW, FirstH
  <2> QED
    BY <2>2, <2>3
<1>4. TypeOK'
  BY <1>1, <1>3 DEF TypeOK
<1>5. Typed'
  BY <1>1, <1>2, <1>4 DEF Typed
<1> QED
  BY <1>1, <1>2, <1>3, <1>5
     DEF IInv, SizesHeld, Halved, BandsHeld, LowHeld, PrefixWithin, Rest, FirstW, FirstH

LEMMA SplitTyped ==
  ASSUME Typed, Split
  PROVE  /\ Typed'
         /\ Len(levels') = Len(levels) + 1
         /\ \A i \in 1 .. Len(levels) : levels'[i] = levels[i] /\ before'[i] = before[i]
         /\ levels'[Len(levels')]
              = [w |-> w, h |-> h, detail |-> Detail(ForwardLevel(cur, w, h), w, h)]
         /\ before'[Len(levels')] = cur
<1> DEFINE p == ForwardLevel(cur, w, h)
           new == [w |-> w, h |-> h, detail |-> Detail(p, w, h)]
           n == Len(levels)
<1>1. w \in Nat /\ w >= 2 /\ h \in Nat /\ h >= 2 /\ cur \in [Cells(w, h) -> Int]
  BY DEF Typed, TypeOK, Split, Large
<1>2. p \in [Cells(w, h) -> Int]
  BY <1>1, ForwardLevelTyped
<1>3. /\ levels' = Append(levels, new) /\ before' = Append(before, cur)
      /\ cur' = LowBand(p, w, h) /\ w' = Low(w) /\ h' = Low(h)
      /\ UNCHANGED <<target, subsampled, phase, missing, ri, shown, given, baseStep, steps,
                     allowed>>
      /\ phase = "build"
  BY DEF Split
<1> HIDE DEF p
<1>4. LowBand(p, w, h) \in [Cells(Low(w), Low(h)) -> Int] /\ Detail(p, w, h) \in DetailSet(w, h)
  BY <1>1, <1>2, BandsTyped
<1>5. new \in LevelSet(w, h)
  BY <1>4 DEF LevelSet
<1>6. new \in Levels
  BY <1>1, <1>5, LevelSetInLevels
<1>7. cur \in Planes
  BY <1>1, PlaneInPlanes
<1> HIDE DEF new
<1>8. n \in Nat /\ Len(before) = n /\ levels \in Seq(Levels) /\ before \in Seq(Planes)
  BY DEF Typed, TypeOK
<1>9. /\ levels' \in Seq(Levels) /\ before' \in Seq(Planes)
      /\ Len(levels') = n + 1 /\ Len(before') = n + 1
      /\ \A i \in 1 .. n : levels'[i] = levels[i] /\ before'[i] = before[i]
      /\ levels'[n + 1] = new /\ before'[n + 1] = cur
  BY <1>3, <1>6, <1>7, <1>8
<1>10. Low(w) \in Nat \ {0} /\ Low(h) \in Nat \ {0}
  BY <1>1 DEF Low
<1>11. ASSUME NEW i \in DOMAIN levels'
       PROVE  /\ levels'[i].w \in Nat \ {0, 1} /\ levels'[i].h \in Nat \ {0, 1}
              /\ before'[i] \in [Cells(levels'[i].w, levels'[i].h) -> Int]
              /\ levels'[i].detail \in DetailSet(levels'[i].w, levels'[i].h)
  <2>1. i \in 1 .. n + 1
    BY <1>9
  <2>2. CASE i \in 1 .. n
    BY <1>9, <2>2, LevelTyped
  <2>3. CASE i = n + 1
    BY <1>1, <1>4, <1>9, <2>3 DEF new
  <2> QED
    BY <2>1, <2>2, <2>3, <1>8
<1>12. TypeOK'
  <2>1. w' \in Nat \ {0} /\ h' \in Nat \ {0} /\ cur' \in [Cells(w', h') -> Int]
    BY <1>3, <1>4, <1>10
  <2>2. /\ phase' \in {"start", "build", "synthesize", "done"} /\ phase' # "done"
        /\ missing' \in 0 .. Len(levels') /\ ri' \in 0 .. Len(levels')
        /\ Len(before') = Len(levels') /\ baseStep' \in Nat \ {0} /\ allowed' \in Nat
    BY <1>3, <1>8, <1>9 DEF Typed, TypeOK
  <2> QED
    BY <1>11, <2>1, <2>2 DEF TypeOK, DetailSet
<1>13. Typed'
  BY <1>3, <1>9, <1>12 DEF Typed, Encoding
<1> QED
  BY <1>8, <1>9, <1>13 DEF new, p

LEMMA SplitInvariant == ASSUME IInv, Split PROVE IInv'
<1> DEFINE n == Len(levels)
<1>1. /\ Typed /\ phase = "build" /\ phase' = "build" /\ Encoding /\ Encoding'
      /\ UNCHANGED <<subsampled, given, ri>>
      /\ w' = Low(w) /\ h' = Low(h) /\ cur' = LowBand(ForwardLevel(cur, w, h), w, h)
      /\ n \in Nat
  BY DEF IInv, Split, Typed, TypeOK, Encoding
<1>2. /\ Typed' /\ Len(levels') = n + 1
      /\ \A i \in 1 .. n : levels'[i] = levels[i] /\ before'[i] = before[i]
      /\ levels'[n + 1] = [w |-> w, h |-> h, detail |-> Detail(ForwardLevel(cur, w, h), w, h)]
      /\ before'[n + 1] = cur
  BY <1>1, SplitTyped
<1> DEFINE A(i) == ForwardLevel(before'[i], levels'[i].w, levels'[i].h)
<1>3. A(n + 1) = ForwardLevel(cur, w, h) /\ \A i \in 1 .. n : A(i) = Analysed(i)
  BY <1>2 DEF Analysed
<1>4. levels'[n + 1].w = w /\ levels'[n + 1].h = h
  BY <1>2
<1>5. Halved'
  <2>1. ASSUME NEW i \in 1 .. n
        PROVE  levels'[i + 1].w = Low(levels'[i].w) /\ levels'[i + 1].h = Low(levels'[i].h)
    <3>1. CASE i < n
      <4>1. i \in 1 .. n - 1 /\ i + 1 \in 1 .. n
        BY <1>1, <3>1
      <4> QED
        BY <1>2, <4>1 DEF IInv, Halved
    <3>2. CASE i = n
      BY <1>1, <1>2, <1>4, <3>2 DEF IInv, Halved, Rest
    <3> QED
      BY <1>1, <3>1, <3>2
  <2> QED
    BY <1>1, <1>2, <1>4, <2>1 DEF Halved, Rest
<1>5a. SizesHeld'
  <2>1. CASE n = 0
    BY <1>1, <1>2, <1>4, <2>1 DEF IInv, SizesHeld, FirstW, FirstH
  <2>2. CASE n >= 1
    BY <1>1, <1>2, <2>2 DEF IInv, SizesHeld, FirstW, FirstH
  <2> QED
    BY <1>1, <2>1, <2>2
<1>6. BandsHeld'
  <2>1. ASSUME NEW i \in 1 .. n + 1
        PROVE  levels'[i].detail = Detail(A(i), levels'[i].w, levels'[i].h)
    <3>1. CASE i \in 1 .. n
      BY <1>1, <1>2, <1>3, <3>1 DEF IInv, BandsHeld
    <3>2. CASE i = n + 1
      BY <1>2, <1>3, <1>4, <3>2
    <3> QED
      BY <1>1, <3>1, <3>2
  <2> QED
    BY <1>1, <1>2, <2>1 DEF BandsHeld, Analysed
<1>7. LowHeld'
  <2>1. ASSUME NEW i \in 1 .. n
        PROVE  LowBand(A(i), levels'[i].w, levels'[i].h) = before'[i + 1]
    <3>1. CASE i < n
      <4>1. i \in 1 .. n - 1 /\ i + 1 \in 1 .. n
        BY <1>1, <3>1
      <4> QED
        BY <1>2, <1>3, <4>1 DEF IInv, LowHeld, LowOf
    <3>2. CASE i = n
      BY <1>1, <1>2, <1>3, <3>2 DEF IInv, LowHeld, LowOf, Rest
    <3> QED
      BY <1>1, <3>1, <3>2
  <2>2. LowBand(A(n + 1), levels'[n + 1].w, levels'[n + 1].h) = cur'
    BY <1>1, <1>3, <1>4
  <2> QED
    BY <1>1, <1>2, <2>1, <2>2 DEF LowHeld, LowOf, Analysed, Rest
<1> QED
  BY <1>1, <1>2, <1>5, <1>5a, <1>6, <1>7 DEF IInv, PrefixWithin

LEMMA RestoredDetailTyped ==
  ASSUME NEW a \in Nat, NEW b \in Nat, NEW d \in DetailSet(a, b), NEW s \in Steps
  PROVE  /\ RestoredDetail(d, s) \in DetailSet(a, b)
         /\ NoDetail(d) \in DetailSet(a, b)
         /\ DetailClose(RestoredDetail(d, s), d, s, a, b)
<1> DEFINE r == RestoredDetail(d, s)
           z == NoDetail(d)
<1>1. s.hv \in Nat \ {0} /\ s.d \in Nat \ {0}
  BY PyramidAssumption
<1>2. /\ d.H \in [Cells(High(a), Low(b)) -> Int] /\ d.V \in [Cells(Low(a), High(b)) -> Int]
      /\ d.D \in [Cells(High(a), High(b)) -> Int]
  BY DEF DetailSet
<1>3. r.H = RestoredBand(d.H, s.hv) /\ r.V = RestoredBand(d.V, s.hv) /\ r.D = RestoredBand(d.D, s.d)
  BY DEF RestoredDetail
<1>4. r = [H |-> r.H, V |-> r.V, D |-> r.D]
  BY DEF RestoredDetail
<1>5. r \in DetailSet(a, b)
  <2>1. /\ r.H \in [Cells(High(a), Low(b)) -> Int] /\ r.V \in [Cells(Low(a), High(b)) -> Int]
        /\ r.D \in [Cells(High(a), High(b)) -> Int]
    BY <1>1, <1>2, <1>3, RestoredClose
  <2> HIDE DEF r
  <2> QED
    BY <1>4, <2>1 DEF DetailSet
<1>6. DetailClose(r, d, s, a, b)
  <2> HIDE DEF r
  <2> QED
    BY <1>1, <1>2, <1>3, RestoredClose DEF DetailClose
<1>7. DOMAIN d["H"] = Cells(High(a), Low(b)) /\ DOMAIN d["V"] = Cells(Low(a), High(b))
      /\ DOMAIN d["D"] = Cells(High(a), High(b))
  BY DEF DetailSet
<1>8. z = [H |-> [c \in Cells(High(a), Low(b)) |-> 0],
           V |-> [c \in Cells(Low(a), High(b)) |-> 0],
           D |-> [c \in Cells(High(a), High(b)) |-> 0]]
  BY <1>7 DEF NoDetail
<1>9. z \in DetailSet(a, b)
  BY <1>8 DEF DetailSet
<1> QED
  BY <1>5, <1>6, <1>9

LEMMA DeliverTyped ==
  ASSUME Typed, Deliver
  PROVE  /\ Typed'
         /\ Len(levels') = Len(levels)
         /\ \A i \in 1 .. Len(levels) :
              /\ levels'[i].w = levels[i].w /\ levels'[i].h = levels[i].h
              /\ i > missing' => levels'[i].detail = RestoredDetail(levels[i].detail, steps'[i])
              /\ steps'[i] \in Steps
         /\ \A c \in Cells(w, h) : Close(cur'[c], cur[c], allowed')
<1> DEFINE n == Len(levels)
<1>1. PICK m \in 0 .. n, s \in [1 .. n -> Steps] :
        /\ missing' = m
        /\ steps' = s
        /\ levels' = [i \in DOMAIN levels |->
                       [levels[i] EXCEPT !.detail = IF i <= m THEN NoDetail(@)
                                                    ELSE RestoredDetail(@, s[i])]]
  BY DEF Deliver
<1>2. PICK b \in BaseSteps : baseStep' = b /\ cur' = RestoredBand(cur, b) /\ allowed' = b \div 2
  BY DEF Deliver
<1>3. /\ phase = "build" /\ n \in Nat /\ DOMAIN levels = 1 .. n
      /\ Len(before) = n /\ TypeOK
      /\ ri' = n /\ phase' = "synthesize" /\ ~Encoding'
      /\ UNCHANGED <<target, subsampled, w, h, shown, given, before>>
  BY SMTT(30) DEF Deliver, Typed, TypeOK, Encoding
<1>4. ASSUME NEW i \in 1 .. n
      PROVE  /\ levels'[i] \in LevelSet(levels[i].w, levels[i].h)
             /\ levels'[i] \in Levels
             /\ levels'[i].w = levels[i].w /\ levels'[i].h = levels[i].h
             /\ i > m => levels'[i].detail = RestoredDetail(levels[i].detail, s[i])
  <2> DEFINE d == levels[i].detail
             e == IF i <= m THEN NoDetail(d) ELSE RestoredDetail(d, s[i])
  <2>1. /\ levels[i] \in Levels /\ levels[i].w \in Nat \ {0, 1} /\ levels[i].h \in Nat \ {0, 1}
        /\ d \in DetailSet(levels[i].w, levels[i].h)
    BY <1>3, LevelTyped DEF Typed
  <2>2. PICK t \in (Nat \ {0, 1}) \X (Nat \ {0, 1}) : levels[i] \in LevelSet(t[1], t[2])
    BY <2>1 DEF Levels
  <2>3. t[1] = levels[i].w /\ t[2] = levels[i].h
    BY <2>2 DEF LevelSet
  <2>4. levels[i] \in LevelSet(levels[i].w, levels[i].h)
    BY <2>2, <2>3
  <2>5. e \in DetailSet(levels[i].w, levels[i].h)
    BY <2>1, RestoredDetailTyped
  <2>6. levels'[i] = [levels[i] EXCEPT !.detail = e]
    BY <1>1, <1>3
  <2>7. i > m => e = RestoredDetail(d, s[i])
    BY <1>1, <1>3
  <2> HIDE DEF e, d
  <2>8. levels'[i] \in LevelSet(levels[i].w, levels[i].h) /\ levels'[i].detail = e
    BY <2>4, <2>5, <2>6 DEF LevelSet
  <2>9. levels'[i] \in Levels
    BY <2>1, <2>8, LevelSetInLevels
  <2>10. levels'[i].w = levels[i].w /\ levels'[i].h = levels[i].h
    BY <2>8 DEF LevelSet
  <2> QED
    BY <2>7, <2>8, <2>9, <2>10 DEF d
<1>5. levels' \in Seq(Levels) /\ Len(levels') = n /\ DOMAIN levels' = 1 .. n
  <2>1. levels' \in [1 .. n -> Levels]
    BY <1>1, <1>3, <1>4
  <2> QED
    BY <1>3, <2>1
<1>6. b \in Nat \ {0} /\ b \div 2 \in Nat
  BY PyramidAssumption
<1>7. /\ w \in Nat \ {0} /\ h \in Nat \ {0} /\ cur \in [Cells(w, h) -> Int]
      /\ cur' \in [Cells(w, h) -> Int]
      /\ \A c \in Cells(w, h) : Close(cur'[c], cur[c], allowed')
  BY <1>2, <1>3, <1>6, RestoredClose DEF TypeOK
<1>8. TypeOK'
  <2>1. ASSUME NEW i \in DOMAIN levels'
        PROVE  /\ levels'[i].w \in Nat \ {0, 1} /\ levels'[i].h \in Nat \ {0, 1}
               /\ before'[i] \in [Cells(levels'[i].w, levels'[i].h) -> Int]
               /\ levels'[i].detail \in DetailSet(levels'[i].w, levels'[i].h)
    <3>1. i \in 1 .. n
      BY <1>5
    <3>2. levels'[i].detail \in DetailSet(levels[i].w, levels[i].h)
      BY <1>4, <3>1 DEF LevelSet
    <3> QED
      BY <1>3, <1>4, <3>1, <3>2, LevelTyped
  <2>2. /\ w' \in Nat \ {0} /\ h' \in Nat \ {0} /\ cur' \in [Cells(w', h') -> Int]
        /\ phase' \in {"start", "build", "synthesize", "done"} /\ phase' # "done"
        /\ missing' \in 0 .. Len(levels') /\ ri' \in 0 .. Len(levels')
        /\ Len(before') = Len(levels') /\ baseStep' \in Nat \ {0} /\ allowed' \in Nat
    BY <1>1, <1>2, <1>3, <1>5, <1>6, <1>7
  <2> QED
    BY <2>1, <2>2 DEF TypeOK, DetailSet
<1>9. Typed'
  BY <1>1, <1>3, <1>5, <1>8 DEF Typed
<1> QED
  BY <1>1, <1>4, <1>5, <1>7, <1>9

LEMMA DeliverInvariant == ASSUME IInv, Deliver PROVE IInv'
<1> DEFINE n == Len(levels)
           A(i) == ForwardLevel(before'[i], levels'[i].w, levels'[i].h)
<1>1. /\ Typed /\ n \in Nat /\ phase = "build" /\ Encoding /\ Rest = n
      /\ phase' = "synthesize" /\ ~Encoding' /\ ri' = n
      /\ UNCHANGED <<target, subsampled, w, h, shown, given, before>>
  BY SMTT(30) DEF IInv, Deliver, Typed, TypeOK, Encoding, Rest
<1>2. /\ Typed'
      /\ Len(levels') = n
      /\ \A i \in 1 .. n :
           /\ levels'[i].w = levels[i].w /\ levels'[i].h = levels[i].h
           /\ i > missing' => levels'[i].detail = RestoredDetail(levels[i].detail, steps'[i])
           /\ steps'[i] \in Steps
      /\ \A c \in Cells(w, h) : Close(cur'[c], cur[c], allowed')
  BY <1>1, DeliverTyped
<1>3. Halved'
  <2>1. ASSUME NEW i \in 1 .. n - 1
        PROVE  levels'[i + 1].w = Low(levels'[i].w) /\ levels'[i + 1].h = Low(levels'[i].h)
    <3>1. i \in 1 .. n /\ i + 1 \in 1 .. n
      BY <1>1
    <3> QED
      BY <1>2, <3>1 DEF IInv, Halved
  <2>2. ASSUME n >= 1 PROVE w' = Low(levels'[n].w) /\ h' = Low(levels'[n].h)
    BY <1>1, <1>2, <2>2 DEF IInv, Halved
  <2> QED
    BY <1>1, <1>2, <2>1, <2>2 DEF Halved, Rest
<1>4. SizesHeld'
  BY <1>1, <1>2 DEF IInv, SizesHeld, FirstW, FirstH
<1>5. \A i \in 1 .. n : A(i) = Analysed(i)
  BY <1>1, <1>2 DEF Analysed
<1>6. BandsHeld'
  <2>1. ASSUME NEW i \in 1 .. n, i > missing'
        PROVE  DetailClose(levels'[i].detail, Detail(A(i), levels'[i].w, levels'[i].h), steps'[i],
                           levels'[i].w, levels'[i].h)
    <3>1. levels[i].detail = Detail(Analysed(i), levels[i].w, levels[i].h)
      BY <1>1 DEF IInv, BandsHeld
    <3>2. /\ levels[i].w \in Nat /\ levels[i].h \in Nat
          /\ levels[i].detail \in DetailSet(levels[i].w, levels[i].h)
      BY <1>1, LevelTyped
    <3>3. DetailClose(RestoredDetail(levels[i].detail, steps'[i]), levels[i].detail, steps'[i],
                      levels[i].w, levels[i].h)
      BY <1>2, <3>2, RestoredDetailTyped
    <3> QED
      BY <1>2, <1>5, <2>1, <3>1, <3>3
  <2> QED
    BY <1>1, <1>2, <2>1 DEF BandsHeld, Analysed
<1>7. LowHeld'
  <2>1. ASSUME NEW i \in 1 .. n - 1
        PROVE  LowBand(A(i), levels'[i].w, levels'[i].h) = before'[i + 1]
    <3>1. i \in 1 .. n
      BY <1>1
    <3> QED
      BY <1>1, <1>2, <1>5, <3>1 DEF IInv, LowHeld, LowOf
  <2>2. ASSUME n >= 1
        PROVE  LowBand(A(n), levels'[n].w, levels'[n].h) = cur
    BY <1>1, <1>2, <1>5, <2>2 DEF IInv, LowHeld, LowOf
  <2> QED
    BY <1>1, <1>2, <2>1, <2>2 DEF LowHeld, LowOf, Analysed, Rest
<1> QED
  BY <1>1, <1>2, <1>3, <1>4, <1>6, <1>7 DEF IInv, PrefixWithin

LEMMA SynthesizeInvariant == ASSUME IInv, Synthesize PROVE IInv'
<1> DEFINE n == Len(levels)
           lev == levels[ri]
<1>1. /\ Typed /\ TypeOK /\ phase = "synthesize" /\ phase' = "synthesize" /\ n \in Nat
      /\ ~Encoding /\ ~Encoding' /\ Rest = ri
      /\ ri \in 1 .. n /\ ri' = ri - 1
      /\ UNCHANGED <<target, subsampled, levels, missing, shown, given, before, baseStep, steps>>
      /\ w' = lev.w /\ h' = lev.h
      /\ cur' = InverseLevel(Packed(cur, lev.detail, lev.w, lev.h), lev.w, lev.h)
      /\ allowed' = LevelError(allowed, steps[ri].hv \div 2, steps[ri].d \div 2)
      /\ missing \in 0 .. n /\ allowed \in Nat
  BY SMTT(30) DEF IInv, Synthesize, Typed, TypeOK, Encoding, Rest
<1>2. /\ lev.w \in Nat /\ lev.w >= 2 /\ lev.h \in Nat /\ lev.h >= 2
      /\ lev.detail \in DetailSet(lev.w, lev.h)
  BY <1>1, LevelTyped
<1>3. w = Low(lev.w) /\ h = Low(lev.h) /\ cur \in [Cells(Low(lev.w), Low(lev.h)) -> Int]
  BY <1>1 DEF IInv, Halved, TypeOK
<1>4. cur' \in [Cells(lev.w, lev.h) -> Int]
  BY <1>1, <1>2, <1>3, PackedTyped, InverseLevelTyped
<1>5. Typed'
  <2>1. /\ w' \in Nat \ {0} /\ h' \in Nat \ {0} /\ cur' \in [Cells(w', h') -> Int]
        /\ ri' \in 0 .. Len(levels)
    BY <1>1, <1>2, <1>4
  <2>2. allowed' \in Nat
    <3>1. steps[ri] \in Steps
      BY <1>1 DEF Typed
    <3> QED
      BY <1>1, <3>1, LevelErrorNat
  <2>3. TypeOK'
    BY <1>1, <2>1, <2>2 DEF TypeOK
  <2> QED
    BY <1>1, <2>3 DEF Typed
<1>6. Halved'
  <2>1. ASSUME ri - 1 >= 1 PROVE w' = Low(levels[ri - 1].w) /\ h' = Low(levels[ri - 1].h)
    <3>1. ri - 1 \in 1 .. n - 1 /\ (ri - 1) + 1 = ri
      BY <1>1, <2>1
    <3> QED
      BY <1>1, <3>1 DEF IInv, Halved
  <2> QED
    BY <1>1, <2>1 DEF IInv, Halved, Rest
<1>7. SizesHeld'
  <2>1. (ri - 1) + 1 = ri
    BY <1>1
  <2> QED
    BY <1>1, <2>1 DEF IInv, SizesHeld, FirstW, FirstH
<1>8. BandsHeld'
  BY <1>1 DEF IInv, BandsHeld, Analysed
<1>9. ASSUME ri - 1 >= missing
      PROVE  \A c \in Cells(w', h') : Close(cur'[c], before[ri][c], allowed')
  <2>1. \A c \in Cells(Low(lev.w), Low(lev.h)) : Close(cur[c], LowOf(ri)[c], allowed)
    BY <1>1, <1>3, <1>9 DEF IInv, LowHeld
  <2>2. ri > missing /\ BandsHeld
    BY <1>1, <1>9 DEF IInv
  <2> QED
    BY <1>1, <1>3, <2>1, <2>2, LevelSynthesised
<1>10. LowHeld'
  <2>1. ASSUME ri - 1 >= 1, ri - 1 >= missing
        PROVE  \A c \in Cells(w', h') : Close(cur'[c], LowOf(ri - 1)[c], allowed')
    <3>1. ri - 1 \in 1 .. n - 1 /\ (ri - 1) + 1 = ri
      BY <1>1, <2>1
    <3>2. LowOf(ri - 1) = before[ri]
      BY <3>1 DEF IInv, LowHeld
    <3> QED
      BY <1>9, <2>1, <3>2
  <2> QED
    BY <1>1, <2>1 DEF IInv, LowHeld, LowOf, Analysed, Rest
<1>11. PrefixWithin'
  <2>1. (ri - 1) + 1 = ri
    BY <1>1
  <2> QED
    BY <1>1, <1>9, <2>1 DEF PrefixWithin
<1> QED
  BY <1>1, <1>5, <1>6, <1>7, <1>8, <1>10, <1>11 DEF IInv

LEMMA FinishInvariant == ASSUME IInv, Finish PROVE IInv'
<1>1. /\ Typed /\ TypeOK /\ phase = "synthesize" /\ phase' = "done" /\ ri = 0
      /\ ~Encoding /\ ~Encoding'
      /\ UNCHANGED <<target, subsampled, w, h, cur, levels, missing, ri, given, before,
                     baseStep, steps, allowed>>
  BY DEF IInv, Finish, Typed, Encoding
<1>2. w = FirstW /\ h = FirstH
  <2>1. Len(levels) \in Nat
    BY <1>1 DEF Typed
  <2>2. CASE Len(levels) = 0
    BY <1>1, <2>2 DEF IInv, SizesHeld
  <2>3. CASE Len(levels) >= 1
    <3>1. w = levels[0 + 1].w /\ h = levels[0 + 1].h
      BY <1>1, <2>1, <2>3 DEF IInv, SizesHeld
    <3>2. levels[1].w = FirstW /\ levels[1].h = FirstH
      BY <2>3 DEF IInv, SizesHeld
    <3> QED
      BY <3>1, <3>2
  <2> QED
    BY <2>1, <2>2, <2>3
<1>3. shown' \in [Cells(given.w, given.h) -> Int]
  <2>1. /\ w \in Nat \ {0} /\ h \in Nat \ {0} /\ cur \in [Cells(w, h) -> Int]
        /\ given.w \in Nat \ {0} /\ given.h \in Nat \ {0}
    BY <1>1 DEF TypeOK, Typed
  <2>2. CASE subsampled
    <3>1. PICK ups : shown' = Upsampled(cur, w, h, given.w, given.h, ups)
      BY <2>2 DEF Finish
    <3>2. given.w >= w /\ given.h >= h
      BY <1>2, <2>1, <2>2 DEF FirstW, FirstH, Low
    <3> QED
      BY <2>1, <3>1, <3>2, UpsampledTyped
  <2>3. CASE ~subsampled
    <3>1. shown' = cur
      BY <2>3 DEF Finish
    <3> QED
      BY <1>2, <2>1, <2>3, <3>1 DEF FirstW, FirstH
  <2> QED
    BY <2>2, <2>3
<1>4. TypeOK'
  BY <1>1, <1>3 DEF TypeOK
<1>5. Typed'
  BY <1>1, <1>4 DEF Typed
<1> QED
  BY <1>1, <1>5 DEF IInv, SizesHeld, FirstW, FirstH, Halved, BandsHeld, LowHeld, LowOf,
                    Analysed, PrefixWithin, Rest

LEMMA StutterInvariant == ASSUME IInv, UNCHANGED vars PROVE IInv'
<1>1. Typed'
  BY DEF IInv, vars, Typed, TypeOK, Encoding
<1> QED
  BY <1>1 DEF IInv, vars, SizesHeld, FirstW, FirstH, Halved, BandsHeld, LowHeld, LowOf,
              Analysed, PrefixWithin, Rest, Encoding

\* The inductive invariant holds of every state.
THEOREM Invariance == Spec => []IInv
<1>1. Init => IInv
  BY InitInvariant
<1>2. IInv /\ [Next]_vars => IInv'
  BY DownsampleInvariant, SplitInvariant, DeliverInvariant, SynthesizeInvariant,
     FinishInvariant, StutterInvariant DEF Next
<1> QED
  BY <1>1, <1>2, PTL DEF Spec

\* The sizes of planes and bands fit each other in downsample_2x, build_band_pyramid, the
\* synthesis of decode_v2 and upsample_plane, for every size, target and prefix.
THEOREM TypeCorrect == Spec => []TypeOK
<1>1. IInv => TypeOK
  BY DEF IInv, Typed
<1> QED
  BY <1>1, Invariance, PTL

\* Every prefix of the layers gives the plane the encoder had at that level, but for what
\* the steps of the delivered bands account for.
THEOREM PrefixClose == Spec => []PrefixWithin
<1>1. IInv => PrefixWithin
  BY DEF IInv
<1> QED
  BY <1>1, Invariance, PTL

\* Steps of 1 allow no error.
LEMMA NoErrorAllowed ==
  ASSUME NEW s \in Steps, s.hv = 1, s.d = 1
  PROVE  LevelError(0, s.hv \div 2, s.d \div 2) = 0
<1>1. s.hv \div 2 = 0 /\ s.d \div 2 = 0 /\ LineError(0, 0) = 0
  BY DEF LineError
<1> QED
  BY <1>1 DEF LevelError

\* When all steps are 1, as at quality 100, nothing is allowed to differ.
Exact ==
  (/\ ~Encoding /\ baseStep = 1
   /\ \A i \in 1 .. Len(levels) : steps[i].hv = 1 /\ steps[i].d = 1) => allowed = 0

LEMMA ExactInductive ==
  ASSUME IInv, Exact, [Next]_vars
  PROVE  Exact'
<1>1. CASE Downsample \/ Split
  BY <1>1 DEF Downsample, Split, Exact, Encoding
<1>2. CASE Deliver
  <2>1. PICK b \in BaseSteps : baseStep' = b /\ allowed' = b \div 2
    BY <1>2 DEF Deliver
  <2> QED
    BY <2>1 DEF Exact
<1>3. CASE Synthesize
  <2>1. /\ Typed /\ ~Encoding /\ ri \in 1 .. Len(levels)
        /\ UNCHANGED <<levels, baseStep, steps>>
        /\ allowed' = LevelError(allowed, steps[ri].hv \div 2, steps[ri].d \div 2)
    BY <1>3 DEF IInv, Synthesize, Typed, TypeOK, Encoding
  <2>2. steps[ri] \in Steps
    BY <2>1 DEF Typed
  <2> QED
    BY <2>1, <2>2, NoErrorAllowed DEF Exact
<1>4. CASE Finish \/ UNCHANGED vars
  BY <1>4 DEF Finish, vars, Exact, Encoding
<1> QED
  BY <1>1, <1>2, <1>3, <1>4 DEF Next

\* With all layers delivered and all steps 1, decode_v2 ends with the plane that was split.
THEOREM Lossless ==
  Spec => [](phase = "done" /\ missing = 0 /\ levels # <<>> /\ baseStep = 1
               /\ (\A i \in 1 .. Len(levels) : steps[i].hv = 1 /\ steps[i].d = 1)
             => cur = before[1])
<1> DEFINE All == phase = "done" /\ missing = 0 /\ levels # <<>> /\ baseStep = 1
                    /\ (\A i \in 1 .. Len(levels) : steps[i].hv = 1 /\ steps[i].d = 1)
                  => cur = before[1]
<1>1. IInv /\ Exact => All
  <2> SUFFICES ASSUME IInv, Exact, phase = "done", missing = 0, levels # <<>>, baseStep = 1,
                      \A i \in 1 .. Len(levels) : steps[i].hv = 1 /\ steps[i].d = 1
               PROVE  cur = before[1]
    OBVIOUS
  <2>1. /\ Typed /\ ~Encoding /\ ri = 0 /\ Len(levels) \in Nat /\ Len(levels) >= 1 /\ ri + 1 = 1
    BY DEF IInv, Typed, Encoding
  <2>2. allowed = 0
    BY <2>1 DEF Exact
  <2>3. w = levels[1].w /\ h = levels[1].h
    BY <2>1 DEF IInv, SizesHeld
  <2>4. cur \in [Cells(w, h) -> Int] /\ before[1] \in [Cells(w, h) -> Int]
    BY <2>1, <2>3, LevelTyped DEF Typed, TypeOK
  <2>5. \A c \in Cells(w, h) : Close(cur[c], before[1][c], 0)
    BY <2>1, <2>2 DEF IInv, PrefixWithin
  <2>6. \A c \in Cells(w, h) : cur[c] = before[1][c]
    BY <2>4, <2>5 DEF Close
  <2> QED
    BY <2>4, <2>6
<1>2. Init => Exact
  BY DEF Init, Exact, Encoding
<1> HIDE DEF All
<1>3. Spec => []All
  BY <1>1, <1>2, ExactInductive, Invariance, PTL DEF Spec
<1> QED
  BY <1>3 DEF All

--------------------------------------------------------------------------------
(* A flat plane stays flat *)

\* A line of equal samples is a low half of them and nothing in the high half.
LEMMA FlatLine ==
  ASSUME NEW n \in Nat, n >= 2, NEW v \in Int, NEW x \in [Line(n) -> Int],
         \A i \in Line(n) : x[i] = v
  PROVE  \A i \in Line(n) : ForwardLine(x, n)[i] = IF i < Low(n) THEN v ELSE 0
<1> DEFINE a == ForwardOdd(x, n)
           b == ForwardEven(a, n)
<1>1. FloorDiv(v + v, 2) = v /\ FloorDiv(0 + 0 + 2, 4) = 0
  <2>1. (v + v) \div 2 = v /\ (0 + 0 + 2) \div 4 = 0
    OBVIOUS
  <2>2. v + v \in Int /\ 0 + 0 + 2 \in Int
    OBVIOUS
  <2> QED
    BY <2>1, <2>2, FloorDivInt
<1>2. ASSUME NEW i \in Line(n), i % 2 = 1 PROVE a[i] = 0
  <2>1. i - 1 \in Line(n) /\ (i + 1 < n => i + 1 \in Line(n))
    BY <1>2, OddNeighbours
  <2>2. Predicted(x, n, i) = v
    BY <1>1, <2>1 DEF Predicted
  <2> QED
    BY <1>2, <2>2 DEF ForwardOdd
<1>3. ASSUME NEW i \in Line(n), i % 2 = 0 PROVE a[i] = v
  BY <1>3 DEF ForwardOdd
<1> HIDE DEF a
<1>4. ASSUME NEW i \in Line(n), i % 2 = 0 PROVE b[i] = v
  <2>1. i \in Nat /\ i < n
    BY DEF Line
  <2>2. i > 0 => i - 1 \in Line(n) /\ (i - 1) % 2 = 1
    BY <1>4, <2>1 DEF Line
  <2>3. i + 1 < n => i + 1 \in Line(n) /\ (i + 1) % 2 = 1
    BY <1>4, <2>1 DEF Line
  <2>4. i > 0 => a[i - 1] = 0
    BY <1>2, <2>2
  <2>5. i + 1 < n => a[i + 1] = 0
    BY <1>2, <2>3
  <2>6. i = 0 => i + 1 < n
    OBVIOUS
  <2>7. Update(a, n, i) = FloorDiv(0 + 0 + 2, 4)
    BY <2>1, <2>4, <2>5, <2>6 DEF Update
  <2> QED
    BY <1>1, <1>3, <1>4, <2>7 DEF ForwardEven
<1>5. ASSUME NEW i \in Line(n), i % 2 = 1 PROVE b[i] = 0
  BY <1>2, <1>5 DEF ForwardEven
<1> HIDE DEF b
<1>6. ASSUME NEW i \in Line(n)
      PROVE  Deinterleave(b, n)[i] = IF i < Low(n) THEN v ELSE 0
  <2>1. CASE i < Low(n)
    <3>1. 2 * i \in Line(n) /\ (2 * i) % 2 = 0
      BY <2>1 DEF Line, Low
    <3> QED
      BY <1>4, <2>1, <3>1 DEF Deinterleave
  <2>2. CASE ~(i < Low(n))
    <3>1. 2 * (i - Low(n)) + 1 \in Line(n) /\ (2 * (i - Low(n)) + 1) % 2 = 1
      BY <2>2 DEF Line, Low
    <3> QED
      BY <1>5, <2>2, <3>1 DEF Deinterleave
  <2> QED
    BY <2>1, <2>2
<1> QED
  BY <1>6 DEF ForwardLine, a, b

\* A flat plane has a flat low band and details of zeros.
LEMMA FlatLevel ==
  ASSUME NEW m \in Nat, NEW n \in Nat, m >= 2, n >= 2, NEW v \in Int,
         NEW p \in [Cells(m, n) -> Int], \A c \in Cells(m, n) : p[c] = v
  PROVE  \A c \in Cells(m, n) :
           ForwardLevel(p, m, n)[c] = IF c[1] < Low(m) /\ c[2] < Low(n) THEN v ELSE 0
<1> DEFINE f == ForwardRows(p, m, n)
<1>1. ASSUME NEW c \in Cells(m, n) PROVE f[c] = IF c[1] < Low(m) THEN v ELSE 0
  <2>1. c[1] \in Line(m) /\ c[2] \in Line(n)
    BY DEF Cells
  <2>2. PICK y : y = c[2]
    OBVIOUS
  <2>3. \A x \in Line(m) : Row(p, m, y)[x] = v
    BY <2>1, <2>2 DEF Row, Cells
  <2>4. Row(p, m, y) \in [Line(m) -> Int]
    BY <2>3 DEF Row
  <2>5. ForwardLine(Row(p, m, y), m)[c[1]] = IF c[1] < Low(m) THEN v ELSE 0
    BY <2>1, <2>3, <2>4, FlatLine
  <2> QED
    BY <2>1, <2>2, <2>5 DEF ForwardRows, OfRows
<1> HIDE DEF f
<1>2. ASSUME NEW c \in Cells(m, n)
      PROVE  ForwardColumns(f, m, n)[c] = IF c[1] < Low(m) /\ c[2] < Low(n) THEN v ELSE 0
  <2>1. c[1] \in Line(m) /\ c[2] \in Line(n)
    BY DEF Cells
  <2>2. PICK x, u : x = c[1] /\ u = (IF x < Low(m) THEN v ELSE 0)
    OBVIOUS
  <2>3. \A y \in Line(n) : Column(f, n, x)[y] = u
    <3> TAKE y \in Line(n)
    <3>1. <<x, y>> \in Cells(m, n) /\ <<x, y>>[1] = x
      BY <2>1, <2>2 DEF Cells
    <3> QED
      BY <1>1, <2>2, <3>1 DEF Column
  <2>4. u \in Int /\ Column(f, n, x) \in [Line(n) -> Int]
    <3>1. u \in Int
      BY <2>2
    <3> QED
      BY <2>3, <3>1 DEF Column
  <2>5. ForwardLine(Column(f, n, x), n)[c[2]] = IF c[2] < Low(n) THEN u ELSE 0
    BY <2>1, <2>3, <2>4, FlatLine
  <2>6. ForwardColumns(f, m, n)[c] = ForwardLine(Column(f, n, x), n)[c[2]]
    BY <2>1, <2>2 DEF ForwardColumns, OfColumns
  <2> QED
    BY <2>2, <2>5, <2>6
<1> QED
  BY <1>2 DEF ForwardLevel, f

\* The bands of a flat plane.
Blank(d) == \A b \in {"H", "V", "D"} : \A c \in DOMAIN d[b] : d[b][c] = 0

LEMMA FlatBands ==
  ASSUME NEW m \in Nat, NEW n \in Nat, m >= 2, n >= 2, NEW v \in Int,
         NEW p \in [Cells(m, n) -> Int], \A c \in Cells(m, n) : p[c] = v
  PROVE  /\ \A c \in Cells(Low(m), Low(n)) : LowBand(ForwardLevel(p, m, n), m, n)[c] = v
         /\ Blank(Detail(ForwardLevel(p, m, n), m, n))
<1> DEFINE q == ForwardLevel(p, m, n)
<1>1. \A c \in Cells(m, n) : q[c] = IF c[1] < Low(m) /\ c[2] < Low(n) THEN v ELSE 0
  BY FlatLevel
<1>2. /\ Low(m) + High(m) = m /\ Low(n) + High(n) = n
      /\ Low(m) \in Nat /\ High(m) \in Nat /\ Low(n) \in Nat /\ High(n) \in Nat
  BY DEF Low, High
<1> HIDE DEF q
<1>3. ASSUME NEW c \in Cells(Low(m), Low(n)) PROVE LowBand(q, m, n)[c] = v
  <2>1. c \in Cells(m, n) /\ c[1] < Low(m) /\ c[2] < Low(n)
    BY <1>2 DEF Cells, Line
  <2> QED
    BY <1>1, <2>1 DEF LowBand
<1>4. ASSUME NEW c \in Cells(High(m), Low(n)) PROVE q[<<Low(m) + c[1], c[2]>>] = 0
  <2>1. c[1] \in Line(High(m)) /\ c[2] \in Line(Low(n))
    BY DEF Cells
  <2>2. PICK x, y : x = Low(m) + c[1] /\ y = c[2]
    OBVIOUS
  <2>3. x \in Line(m) /\ y \in Line(n) /\ ~(x < Low(m))
    BY <1>2, <2>1, <2>2 DEF Line
  <2>4. <<x, y>> \in Cells(m, n) /\ <<x, y>>[1] = x
    BY <2>3 DEF Cells
  <2> QED
    BY <1>1, <2>2, <2>3, <2>4
<1>5. ASSUME NEW c \in Cells(Low(m), High(n)) PROVE q[<<c[1], Low(n) + c[2]>>] = 0
  <2>1. c[1] \in Line(Low(m)) /\ c[2] \in Line(High(n))
    BY DEF Cells
  <2>2. PICK x, y : x = c[1] /\ y = Low(n) + c[2]
    OBVIOUS
  <2>3. x \in Line(m) /\ y \in Line(n) /\ ~(y < Low(n))
    BY <1>2, <2>1, <2>2 DEF Line
  <2>4. <<x, y>> \in Cells(m, n) /\ <<x, y>>[2] = y
    BY <2>3 DEF Cells
  <2> QED
    BY <1>1, <2>2, <2>3, <2>4
<1>6. ASSUME NEW c \in Cells(High(m), High(n)) PROVE q[<<Low(m) + c[1], Low(n) + c[2]>>] = 0
  <2>1. c[1] \in Line(High(m)) /\ c[2] \in Line(High(n))
    BY DEF Cells
  <2>2. PICK x, y : x = Low(m) + c[1] /\ y = Low(n) + c[2]
    OBVIOUS
  <2>3. x \in Line(m) /\ y \in Line(n) /\ ~(y < Low(n))
    BY <1>2, <2>1, <2>2 DEF Line
  <2>4. <<x, y>> \in Cells(m, n) /\ <<x, y>>[2] = y
    BY <2>3 DEF Cells
  <2> QED
    BY <1>1, <2>2, <2>3, <2>4
<1>7. Blank(Detail(q, m, n))
  <2> DEFINE d == Detail(q, m, n)
  <2>1. /\ d.H = [c \in Cells(High(m), Low(n)) |-> q[<<Low(m) + c[1], c[2]>>]]
        /\ d.V = [c \in Cells(Low(m), High(n)) |-> q[<<c[1], Low(n) + c[2]>>]]
        /\ d.D = [c \in Cells(High(m), High(n)) |-> q[<<Low(m) + c[1], Low(n) + c[2]>>]]
    BY DEF Detail
  <2> HIDE DEF d
  <2>2. \A c \in DOMAIN d.H : d.H[c] = 0
    BY <1>4, <2>1
  <2>3. \A c \in DOMAIN d.V : d.V[c] = 0
    BY <1>5, <2>1
  <2>4. \A c \in DOMAIN d.D : d.D[c] = 0
    BY <1>6, <2>1
  <2>5. Blank(d)
    BY <2>2, <2>3, <2>4 DEF Blank
  <2> QED
    BY <2>5 DEF d
<1> QED
  BY <1>3, <1>7 DEF q

\* A flat low band and details of zeros are synthesised to a flat plane.
LEMMA FlatSynthesis ==
  ASSUME NEW m \in Nat, NEW n \in Nat, m >= 2, n >= 2, NEW u \in Int,
         NEW low \in [Cells(Low(m), Low(n)) -> Int],
         \A c \in Cells(Low(m), Low(n)) : low[c] = u,
         NEW d \in DetailSet(m, n), Blank(d)
  PROVE  \A c \in Cells(m, n) : InverseLevel(Packed(low, d, m, n), m, n)[c] = u
<1> DEFINE p == [c \in Cells(m, n) |-> u]
           q == Packed(low, d, m, n)
<1>1. p \in [Cells(m, n) -> Int] /\ \A c \in Cells(m, n) : p[c] = u
  OBVIOUS
<1> HIDE DEF p
<1>2. \A c \in Cells(m, n) :
        ForwardLevel(p, m, n)[c] = IF c[1] < Low(m) /\ c[2] < Low(n) THEN u ELSE 0
  BY <1>1, FlatLevel
<1>3. ForwardLevel(p, m, n) \in [Cells(m, n) -> Int]
  BY <1>1, ForwardLevelTyped
<1>4. q \in [Cells(m, n) -> Int]
  BY PackedTyped
<1>5. ASSUME NEW c \in Cells(m, n)
      PROVE  q[c] = IF c[1] < Low(m) /\ c[2] < Low(n) THEN u ELSE 0
  <2>1. /\ c[1] \in Nat /\ c[1] < m /\ c[2] \in Nat /\ c[2] < n
        /\ Low(m) + High(m) = m /\ Low(n) + High(n) = n
        /\ Low(m) \in Nat /\ Low(n) \in Nat /\ High(m) \in Nat /\ High(n) \in Nat
    BY DEF Cells, Line, Low, High
  <2>2. /\ \A e \in Cells(High(m), Low(n)) : d.H[e] = 0
        /\ \A e \in Cells(Low(m), High(n)) : d.V[e] = 0
        /\ \A e \in Cells(High(m), High(n)) : d.D[e] = 0
    BY DEF DetailSet, Blank
  <2>3. CASE c[1] < Low(m) /\ c[2] < Low(n)
    <3>1. c \in Cells(Low(m), Low(n))
      BY <2>1, <2>3 DEF Cells, Line
    <3> QED
      BY <2>3, <3>1 DEF Packed
  <2>4. CASE c[1] < Low(m) /\ ~(c[2] < Low(n))
    <3>1. <<c[1], c[2] - Low(n)>> \in Cells(Low(m), High(n))
      BY <2>1, <2>4 DEF Cells, Line
    <3> QED
      BY <2>2, <2>4, <3>1 DEF Packed
  <2>5. CASE ~(c[1] < Low(m)) /\ c[2] < Low(n)
    <3>1. <<c[1] - Low(m), c[2]>> \in Cells(High(m), Low(n))
      BY <2>1, <2>5 DEF Cells, Line
    <3> QED
      BY <2>2, <2>5, <3>1 DEF Packed
  <2>6. CASE ~(c[1] < Low(m)) /\ ~(c[2] < Low(n))
    <3>1. <<c[1] - Low(m), c[2] - Low(n)>> \in Cells(High(m), High(n))
      BY <2>1, <2>6 DEF Cells, Line
    <3> QED
      BY <2>2, <2>6, <3>1 DEF Packed
  <2> QED
    BY <2>3, <2>4, <2>5, <2>6
<1> HIDE DEF q
<1>6. q = ForwardLevel(p, m, n)
  BY <1>2, <1>3, <1>4, <1>5
<1>7. InverseLevel(q, m, n) = p
  BY <1>1, <1>6, LevelReversible
<1> QED
  BY <1>1, <1>7 DEF q

--------------------------------------------------------------------------------
(* Resampling makes no sample that is not between its neighbours *)

LEMMA DivBoundsInt ==
  ASSUME NEW a \in Int, NEW d \in Nat \ {0}
  PROVE  /\ a \div d \in Int
         /\ d * (a \div d) <= a
         /\ a < d * (a \div d) + d
BY SMT

LEMMA ExactQuotient ==
  ASSUME NEW d \in Nat \ {0}, NEW j \in Nat
  PROVE  (d * j) \div d = j /\ (d * j) % d = 0
<1> DEFINE a == d * j
           k == a \div d
<1>1. a \in Int /\ a = d * j
  OBVIOUS
<1> HIDE DEF a
<1>2. k \in Int /\ d * k <= a /\ a < d * k + d /\ a = (d * k) + (a % d) /\ a % d \in Int
  BY <1>1, DivBoundsInt
<1> HIDE DEF k
<1>3. k < j + 1
  <2>1. ASSUME k >= j + 1 PROVE FALSE
    <3>1. d * k >= d * (j + 1)
      BY <1>2, <2>1
    <3>2. d * (j + 1) = d * j + d
      OBVIOUS
    <3> QED
      BY <1>1, <1>2, <3>1, <3>2
  <2> QED
    BY <1>2, <2>1
<1>4. k > j - 1
  <2>1. ASSUME k <= j - 1 PROVE FALSE
    <3>1. d * k <= d * (j - 1)
      BY <1>2, <2>1
    <3>2. d * (j - 1) = d * j - d
      OBVIOUS
    <3> QED
      BY <1>1, <1>2, <3>1, <3>2
  <2> QED
    BY <1>2, <2>1
<1>5. k = j
  BY <1>2, <1>3, <1>4
<1> QED
  BY <1>1, <1>2, <1>5 DEF a, k

\* Rounding a quotient leaves it between two integers.
LEMMA RoundedBetween ==
  ASSUME NEW a \in Int, NEW b \in Nat \ {0}, NEW up \in BOOLEAN, NEW lo \in Int, NEW hi \in Int,
         lo * b <= a, a <= hi * b
  PROVE  lo <= RoundedHalf(a, b, up) /\ RoundedHalf(a, b, up) <= hi
<1>1. \A q \in Int : (q >= hi + 1 => q * b >= hi * b + b) /\ (q <= lo - 1 => q * b <= lo * b - b)
  <2> TAKE q \in Int
  <2>1. ASSUME q >= hi + 1 PROVE q * b >= hi * b + b
    <3>1. (q - (hi + 1)) * b >= 0
      BY <2>1
    <3> QED
      BY <3>1
  <2>2. ASSUME q <= lo - 1 PROVE q * b <= lo * b - b
    <3>1. ((lo - 1) - q) * b >= 0
      BY <2>2
    <3> QED
      BY <3>1
  <2> QED
    BY <2>1, <2>2
<1>2. CASE up
  <2> DEFINE q == (2 * a + b) \div (2 * b)
  <2>1. q \in Int /\ (2 * b) * q <= 2 * a + b /\ 2 * a + b < (2 * b) * q + 2 * b
    <3>1. 2 * a + b \in Int /\ 2 * b \in Nat \ {0}
      OBVIOUS
    <3> QED
      BY <3>1, DivBoundsInt
  <2>2. RoundedHalf(a, b, up) = q
    BY <1>2 DEF RoundedHalf
  <2> HIDE DEF q
  <2>3. (2 * b) * q = 2 * (q * b) /\ q * b \in Int /\ lo * b \in Int /\ hi * b \in Int
    BY <2>1
  <2>4. q < hi + 1
    <3>1. ASSUME q >= hi + 1 PROVE FALSE
      BY <1>1, <2>1, <2>3, <3>1
    <3> QED
      BY <2>1, <3>1
  <2>5. q > lo - 1
    <3>1. ASSUME q <= lo - 1 PROVE FALSE
      BY <1>1, <2>1, <2>3, <3>1
    <3> QED
      BY <2>1, <3>1
  <2> QED
    BY <2>1, <2>2, <2>4, <2>5
<1>3. CASE ~up
  <2> DEFINE k == (b - 2 * a) \div (2 * b)
             q == -k
  <2>1. k \in Int /\ (2 * b) * k <= b - 2 * a /\ b - 2 * a < (2 * b) * k + 2 * b
    <3>1. b - 2 * a \in Int /\ 2 * b \in Nat \ {0}
      OBVIOUS
    <3> QED
      BY <3>1, DivBoundsInt
  <2>2. RoundedHalf(a, b, up) = q
    BY <1>3 DEF RoundedHalf
  <2> HIDE DEF k
  <2>3. q \in Int /\ k = -q
    BY <2>1
  <2> HIDE DEF q
  <2>4. (2 * b) * k = -(2 * (q * b)) /\ q * b \in Int /\ lo * b \in Int /\ hi * b \in Int
    BY <2>1, <2>3
  <2>5. q < hi + 1
    <3>1. ASSUME q >= hi + 1 PROVE FALSE
      BY <1>1, <2>1, <2>3, <2>4, <3>1
    <3> QED
      BY <2>3, <3>1
  <2>6. q > lo - 1
    <3>1. ASSUME q <= lo - 1 PROVE FALSE
      BY <1>1, <2>1, <2>3, <2>4, <3>1
    <3> QED
      BY <2>3, <3>1
  <2> QED
    BY <2>2, <2>3, <2>5, <2>6
<1> QED
  BY <1>2, <1>3

\* A weighted mean lies between its values.
LEMMA MixBetween ==
  ASSUME NEW a \in Int, NEW b \in Int, NEW k \in Nat, NEW t \in Nat, t <= k,
         NEW lo \in Int, NEW hi \in Int, lo <= a, a <= hi, lo <= b, b <= hi
  PROVE  lo * k <= a * (k - t) + b * t /\ a * (k - t) + b * t <= hi * k
<1>1. \A x \in Int, y \in Int : x >= 0 /\ y >= 0 => x * y >= 0
  OBVIOUS
<1>2. /\ (a - lo) * (k - t) >= 0 /\ (b - lo) * t >= 0
      /\ (hi - a) * (k - t) >= 0 /\ (hi - b) * t >= 0
  BY <1>1
<1>3. (a - lo) * (k - t) + (b - lo) * t = a * (k - t) + b * t - lo * k
  OBVIOUS
<1>4. (hi - a) * (k - t) + (hi - b) * t = hi * k - (a * (k - t) + b * t)
  OBVIOUS
<1> DEFINE s == a * (k - t) + b * t
           l == lo * k
           r == hi * k
           u == (a - lo) * (k - t)
           z == (b - lo) * t
           y == (hi - a) * (k - t)
           x == (hi - b) * t
<1>5. s \in Int /\ l \in Int /\ r \in Int /\ u \in Int /\ z \in Int /\ y \in Int /\ x \in Int
  OBVIOUS
<1>6. u >= 0 /\ z >= 0 /\ y >= 0 /\ x >= 0 /\ u + z = s - l /\ y + x = r - s
  BY <1>2, <1>3, <1>4
<1> HIDE DEF s, l, r, u, z, y, x
<1>7. l <= s /\ s <= r
  BY <1>5, <1>6
<1> QED
  BY <1>7 DEF s, l, r

LEMMA PlacePart ==
  ASSUME NEW n \in Nat \ {0}, NEW out \in Nat, out >= n, NEW i \in Line(out)
  PROVE  Place(i, n, out).part <= Place(i, n, out).whole
<1>1. CASE n = 1
  BY <1>1 DEF Place
<1>2. CASE n # 1
  <2> DEFINE whole == out - 1
             a == i * (n - 1)
  <2>1. whole \in Nat \ {0} /\ a \in Nat
    BY <1>2 DEF Line
  <2>2. Place(i, n, out).part = a % whole /\ Place(i, n, out).whole = whole
    BY <1>2 DEF Place
  <2> HIDE DEF whole, a
  <2>3. a % whole <= whole
    BY <2>1
  <2> QED
    BY <2>2, <2>3
<1> QED
  BY <1>1, <1>2

\* The four neighbours of a sample of the wider plane.
LEMMA Neighbours ==
  ASSUME NEW m \in Nat \ {0}, NEW n \in Nat \ {0}, NEW om \in Nat, NEW on \in Nat,
         om >= m, on >= n, NEW c \in Cells(om, on), NEW x, NEW y,
         x = Place(c[1], m, om), y = Place(c[2], n, on)
  PROVE  /\ <<x.at, y.at>> \in Cells(m, n) /\ <<x.next, y.at>> \in Cells(m, n)
         /\ <<x.at, y.next>> \in Cells(m, n) /\ <<x.next, y.next>> \in Cells(m, n)
         /\ x.part \in Nat /\ x.whole \in Nat \ {0} /\ x.part <= x.whole
         /\ y.part \in Nat /\ y.whole \in Nat \ {0} /\ y.part <= y.whole
<1>1. c[1] \in Line(om) /\ c[2] \in Line(on)
  BY DEF Cells
<1>2. /\ x.at \in Line(m) /\ x.next \in Line(m) /\ x.part \in Nat /\ x.whole \in Nat \ {0}
      /\ x.part <= x.whole
  BY <1>1, PlaceTyped, PlacePart
<1>3. /\ y.at \in Line(n) /\ y.next \in Line(n) /\ y.part \in Nat /\ y.whole \in Nat \ {0}
      /\ y.part <= y.whole
  BY <1>1, PlaceTyped, PlacePart
<1> QED
  BY <1>2, <1>3 DEF Cells

\* A blend of samples between lo and hi lies between lo and hi.
LEMMA BlendBetween ==
  ASSUME NEW p, NEW x, NEW y, NEW lo \in Int, NEW hi \in Int,
         x.part \in Nat, x.whole \in Nat \ {0}, x.part <= x.whole,
         y.part \in Nat, y.whole \in Nat \ {0}, y.part <= y.whole,
         \A e \in {<<x.at, y.at>>, <<x.next, y.at>>, <<x.at, y.next>>, <<x.next, y.next>>} :
            p[e] \in Int /\ lo <= p[e] /\ p[e] <= hi
  PROVE  /\ Blend(p, x, y) \in Int
         /\ lo * (x.whole * y.whole) <= Blend(p, x, y)
         /\ Blend(p, x, y) <= hi * (x.whole * y.whole)
<1>1. PICK k, t, l, s : k = x.whole /\ t = x.part /\ l = y.whole /\ s = y.part
  OBVIOUS
<1>2. PICK p1, p2, p3, p4 : /\ p1 = p[<<x.at, y.at>>] /\ p2 = p[<<x.next, y.at>>]
                            /\ p3 = p[<<x.at, y.next>>] /\ p4 = p[<<x.next, y.next>>]
  OBVIOUS
<1>3. /\ k \in Nat \ {0} /\ t \in Nat /\ t <= k /\ l \in Nat \ {0} /\ s \in Nat /\ s <= l
      /\ p1 \in Int /\ lo <= p1 /\ p1 <= hi /\ p2 \in Int /\ lo <= p2 /\ p2 <= hi
      /\ p3 \in Int /\ lo <= p3 /\ p3 <= hi /\ p4 \in Int /\ lo <= p4 /\ p4 <= hi
  BY <1>1, <1>2
<1> DEFINE a == p1 * (k - t) + p2 * t
           b == p3 * (k - t) + p4 * t
<1>4. Blend(p, x, y) = a * (l - s) + b * s
  BY <1>1, <1>2 DEF Blend
<1>5. a \in Int /\ b \in Int /\ lo * k \in Int /\ hi * k \in Int
  BY <1>3
<1>6. lo * k <= a /\ a <= hi * k
  BY <1>3, MixBetween
<1>7. lo * k <= b /\ b <= hi * k
  BY <1>3, MixBetween
<1> HIDE DEF a, b
<1>8. (lo * k) * l <= a * (l - s) + b * s /\ a * (l - s) + b * s <= (hi * k) * l
  BY <1>3, <1>5, <1>6, <1>7, MixBetween
<1>9. (lo * k) * l = lo * (k * l) /\ (hi * k) * l = hi * (k * l)
  BY <1>3
<1>10. a * (l - s) + b * s \in Int
  BY <1>3, <1>5
<1> QED
  BY <1>1, <1>4, <1>8, <1>9, <1>10

LEMMA LeastAndGreatest ==
  ASSUME NEW a \in Int, NEW b \in Int, NEW c \in Int, NEW d \in Int
  PROVE  \E lo \in {a, b, c, d}, hi \in {a, b, c, d} :
            \A v \in {a, b, c, d} : lo <= v /\ v <= hi
<1>1. \E lo \in {a, b, c, d} : \A v \in {a, b, c, d} : lo <= v
  OBVIOUS
<1>2. \E hi \in {a, b, c, d} : \A v \in {a, b, c, d} : v <= hi
  OBVIOUS
<1> QED
  BY <1>1, <1>2

\* upsample_plane does not ring: no sample is beyond those it is made of.
LEMMA UpsampledBetween ==
  ASSUME NEW m \in Nat \ {0}, NEW n \in Nat \ {0}, NEW om \in Nat, NEW on \in Nat,
         om >= m, on >= n, NEW p \in [Cells(m, n) -> Int], NEW ups, NEW c \in Cells(om, on)
  PROVE  LET v == Upsampled(p, m, n, om, on, ups)[c]
         IN  \E d \in Cells(m, n), e \in Cells(m, n) : p[d] <= v /\ v <= p[e]
<1>1. PICK x, y : x = Place(c[1], m, om) /\ y = Place(c[2], n, on)
  OBVIOUS
<1>2. PICK c1, c2, c3, c4 : /\ c1 = <<x.at, y.at>> /\ c2 = <<x.next, y.at>>
                            /\ c3 = <<x.at, y.next>> /\ c4 = <<x.next, y.next>>
  OBVIOUS
<1>3. /\ {c1, c2, c3, c4} \subseteq Cells(m, n)
      /\ x.part \in Nat /\ x.whole \in Nat \ {0} /\ x.part <= x.whole
      /\ y.part \in Nat /\ y.whole \in Nat \ {0} /\ y.part <= y.whole
  <2>1. /\ <<x.at, y.at>> \in Cells(m, n) /\ <<x.next, y.at>> \in Cells(m, n)
        /\ <<x.at, y.next>> \in Cells(m, n) /\ <<x.next, y.next>> \in Cells(m, n)
        /\ x.part \in Nat /\ x.whole \in Nat \ {0} /\ x.part <= x.whole
        /\ y.part \in Nat /\ y.whole \in Nat \ {0} /\ y.part <= y.whole
    BY <1>1, Neighbours
  <2> QED
    BY <1>2, <2>1
<1>4. p[c1] \in Int /\ p[c2] \in Int /\ p[c3] \in Int /\ p[c4] \in Int
  BY <1>3
<1>5. PICK lo \in {p[c1], p[c2], p[c3], p[c4]}, hi \in {p[c1], p[c2], p[c3], p[c4]} :
        \A v \in {p[c1], p[c2], p[c3], p[c4]} : lo <= v /\ v <= hi
  BY <1>4, LeastAndGreatest
<1>6. lo \in Int /\ hi \in Int
  BY <1>4
<1>7. \A e \in {c1, c2, c3, c4} : p[e] \in Int /\ lo <= p[e] /\ p[e] <= hi
  BY <1>4, <1>5
<1>8. /\ Blend(p, x, y) \in Int
      /\ lo * (x.whole * y.whole) <= Blend(p, x, y)
      /\ Blend(p, x, y) <= hi * (x.whole * y.whole)
  BY <1>2, <1>3, <1>6, <1>7, BlendBetween
<1>9. x.whole * y.whole \in Nat \ {0}
  BY <1>3
<1>10. PICK u \in BOOLEAN : u <=> c \in ups
  <2>1. CASE c \in ups
    BY <2>1
  <2>2. CASE c \notin ups
    BY <2>2
  <2> QED
    BY <2>1, <2>2
<1>11. Upsampled(p, m, n, om, on, ups)[c] = RoundedHalf(Blend(p, x, y), x.whole * y.whole, u)
  BY <1>1, <1>10 DEF Upsampled
<1>12. LET v == Upsampled(p, m, n, om, on, ups)[c] IN lo <= v /\ v <= hi
  BY <1>6, <1>8, <1>9, <1>11, RoundedBetween
<1>13. PICK d \in Cells(m, n) : lo = p[d]
  BY <1>3
<1>14. PICK e \in Cells(m, n) : hi = p[e]
  BY <1>3
<1> QED
  BY <1>12, <1>13, <1>14

LEMMA CornerPlace ==
  ASSUME NEW n \in Nat \ {0}, NEW out \in Nat, out >= n, NEW i \in {0, out - 1}
  PROVE  /\ Place(i, n, out).at = IF i = 0 THEN 0 ELSE n - 1
         /\ Place(i, n, out).part = 0
         /\ i \in Line(out)
<1>1. CASE n = 1
  BY <1>1 DEF Place, Line
<1>2. CASE n # 1
  <2> DEFINE whole == out - 1
  <2>1. whole \in Nat \ {0} /\ n - 1 \in Nat /\ i \in Line(out)
    BY <1>2 DEF Line
  <2>2. PICK j \in Nat : j = (IF i = 0 THEN 0 ELSE n - 1)
    BY <2>1
  <2>3. i * (n - 1) = whole * j
    BY <2>1, <2>2
  <2> HIDE DEF whole
  <2>4. (whole * j) \div whole = j /\ (whole * j) % whole = 0
    BY <2>1, ExactQuotient
  <2>5. /\ Place(i, n, out).at = (i * (n - 1)) \div whole
        /\ Place(i, n, out).part = (i * (n - 1)) % whole
    BY <1>2 DEF Place, whole
  <2> QED
    BY <2>1, <2>2, <2>3, <2>4, <2>5
<1> QED
  BY <1>1, <1>2

\* The corners of the narrow plane are those of the wide one.
LEMMA UpsampledCorners ==
  ASSUME NEW m \in Nat \ {0}, NEW n \in Nat \ {0}, NEW om \in Nat, NEW on \in Nat,
         om >= m, on >= n, NEW p \in [Cells(m, n) -> Int], NEW ups,
         NEW c \in Cells(om, on), NEW d \in Cells(m, n),
         c[1] \in {0, om - 1}, c[2] \in {0, on - 1},
         d[1] = (IF c[1] = 0 THEN 0 ELSE m - 1), d[2] = (IF c[2] = 0 THEN 0 ELSE n - 1)
  PROVE  Upsampled(p, m, n, om, on, ups)[c] = p[d]
<1>1. d = <<d[1], d[2]>>
  BY DEF Cells
<1>2. Place(c[1], m, om).at = d[1] /\ Place(c[1], m, om).part = 0
  BY CornerPlace
<1>3. Place(c[2], n, on).at = d[2] /\ Place(c[2], n, on).part = 0
  BY CornerPlace
<1>4. PICK x, y : x = Place(c[1], m, om) /\ y = Place(c[2], n, on)
  OBVIOUS
<1>5. /\ <<x.at, y.at>> \in Cells(m, n) /\ <<x.next, y.at>> \in Cells(m, n)
      /\ <<x.at, y.next>> \in Cells(m, n) /\ <<x.next, y.next>> \in Cells(m, n)
      /\ x.whole \in Nat \ {0} /\ y.whole \in Nat \ {0}
  BY <1>4, Neighbours
<1>6. x.part = 0 /\ y.part = 0
  BY <1>2, <1>3, <1>4
<1>7. PICK v, k, l : v = p[<<x.at, y.at>>] /\ k = x.whole /\ l = y.whole
  OBVIOUS
<1>8. v \in Int /\ k \in Nat \ {0} /\ l \in Nat \ {0}
  BY <1>5, <1>7
<1>9. Blend(p, x, y) = v * (k * l)
  <2>1. PICK p2, p3, p4 : /\ p2 = p[<<x.next, y.at>>] /\ p3 = p[<<x.at, y.next>>]
                          /\ p4 = p[<<x.next, y.next>>]
    OBVIOUS
  <2>2. p2 \in Int /\ p3 \in Int /\ p4 \in Int
    BY <1>5, <2>1
  <2>3. Blend(p, x, y) = (v * (k - 0) + p2 * 0) * (l - 0) + (p3 * (k - 0) + p4 * 0) * 0
    BY <1>6, <1>7, <2>1 DEF Blend
  <2>4. p2 * 0 = 0 /\ p4 * 0 = 0 /\ k - 0 = k /\ l - 0 = l
    BY <1>8, <2>2
  <2>5. (p3 * k + 0) * 0 = 0
    BY <1>8, <2>2
  <2>6. (v * k + 0) * l + 0 = v * (k * l)
    BY <1>8
  <2> QED
    BY <2>3, <2>4, <2>5, <2>6
<1>10. k * l \in Nat \ {0} /\ v * (k * l) \in Int
  BY <1>8
<1>11. PICK u \in BOOLEAN : u <=> c \in ups
  <2>1. CASE c \in ups
    BY <2>1
  <2>2. CASE c \notin ups
    BY <2>2
  <2> QED
    BY <2>1, <2>2
<1>12. Upsampled(p, m, n, om, on, ups)[c] = RoundedHalf(v * (k * l), k * l, u)
  BY <1>4, <1>7, <1>9, <1>11 DEF Upsampled
<1>13. RoundedHalf(v * (k * l), k * l, u) \in Int
  BY <1>10, RoundedHalfInt
<1>14. v <= RoundedHalf(v * (k * l), k * l, u) /\ RoundedHalf(v * (k * l), k * l, u) <= v
  BY <1>8, <1>10, RoundedBetween
<1>15. RoundedHalf(v * (k * l), k * l, u) = v
  BY <1>8, <1>13, <1>14
<1> QED
  BY <1>1, <1>2, <1>3, <1>4, <1>7, <1>12, <1>15

\* downsample_2x: the rounded division that truncates toward zero leaves its bounds by one at
\* most, and only upwards.
LEMMA TruncatedBetween ==
  ASSUME NEW sum \in Int, NEW k \in {1, 2, 4}, NEW lo \in Int, NEW hi \in Int,
         lo * k <= sum, sum <= hi * k
  PROVE  lo <= Truncated(sum + k \div 2, k) /\ Truncated(sum + k \div 2, k) <= hi + 1
<1>1. CASE k = 1
  BY <1>1 DEF Truncated
<1>2. CASE k = 2
  BY <1>2 DEF Truncated
<1>3. CASE k = 4
  BY <1>3 DEF Truncated
<1> QED
  BY <1>1, <1>2, <1>3

\* downsample_2x: an average is between its samples, but for the division that truncates.
LEMMA HalvedBetween ==
  ASSUME NEW m \in Nat \ {0}, NEW n \in Nat \ {0}, NEW p \in [Cells(m, n) -> Int],
         NEW c \in Cells(Low(m), Low(n))
  PROVE  LET v == Halved2x(p, m, n)[c]
         IN  \E d \in Cells(m, n), e \in Cells(m, n) : p[d] <= v /\ v <= p[e] + 1
<1>1. PICK x, y, right, below : /\ x = 2 * c[1] /\ y = 2 * c[2]
                                /\ right = Span(c[1], m) - 1 /\ below = Span(c[2], n) - 1
  OBVIOUS
<1>2. c[1] \in Line(Low(m)) /\ c[2] \in Line(Low(n))
  BY DEF Cells
<1>3. x \in Line(m) /\ x + right \in Line(m) /\ right \in {0, 1}
  BY <1>1, <1>2 DEF Line, Low, Span
<1>4. y \in Line(n) /\ y + below \in Line(n) /\ below \in {0, 1}
  BY <1>1, <1>2 DEF Line, Low, Span
<1>5. PICK c1, c2, c3, c4 : /\ c1 = <<x, y>> /\ c2 = <<x + right, y>>
                            /\ c3 = <<x, y + below>> /\ c4 = <<x + right, y + below>>
  OBVIOUS
<1>6. {c1, c2, c3, c4} \subseteq Cells(m, n)
  BY <1>3, <1>4, <1>5 DEF Cells
<1>7. PICK p1, p2, p3, p4 : p1 = p[c1] /\ p2 = p[c2] /\ p3 = p[c3] /\ p4 = p[c4]
  OBVIOUS
<1>8. p1 \in Int /\ p2 \in Int /\ p3 \in Int /\ p4 \in Int
  BY <1>6, <1>7
<1>9. PICK lo \in {p1, p2, p3, p4}, hi \in {p1, p2, p3, p4} :
        \A v \in {p1, p2, p3, p4} : lo <= v /\ v <= hi
  BY <1>8, LeastAndGreatest
<1>10. PICK k, sum : /\ k = (right + 1) * (below + 1)
                     /\ sum = p1 + right * p2 + below * p3 + right * below * p4
  OBVIOUS
<1>11. /\ lo \in Int /\ hi \in Int /\ lo <= p1 /\ p1 <= hi /\ lo <= p2 /\ p2 <= hi
       /\ lo <= p3 /\ p3 <= hi /\ lo <= p4 /\ p4 <= hi
  BY <1>8, <1>9
<1>12. k \in {1, 2, 4} /\ sum \in Int /\ lo * k <= sum /\ sum <= hi * k
  <2>1. CASE right = 0 /\ below = 0
    BY <1>8, <1>10, <1>11, <2>1
  <2>2. CASE right = 1 /\ below = 0
    BY <1>8, <1>10, <1>11, <2>2
  <2>3. CASE right = 0 /\ below = 1
    BY <1>8, <1>10, <1>11, <2>3
  <2>4. CASE right = 1 /\ below = 1
    BY <1>8, <1>10, <1>11, <2>4
  <2> QED
    BY <1>3, <1>4, <2>1, <2>2, <2>3, <2>4
<1>13. Halved2x(p, m, n)[c] = Truncated(sum + k \div 2, k)
  BY <1>1, <1>5, <1>7, <1>10 DEF Halved2x
<1>14. LET v == Halved2x(p, m, n)[c] IN lo <= v /\ v <= hi + 1
  BY <1>11, <1>12, <1>13, TruncatedBetween
<1>15. PICK d \in Cells(m, n) : lo = p[d]
  BY <1>6, <1>7
<1>16. PICK e \in Cells(m, n) : hi = p[e]
  BY <1>6, <1>7
<1> QED
  BY <1>14, <1>15, <1>16

\* A flat plane and nothing but zeros beside it, from the first split to the end.
FlatHeld ==
  levels # <<>> /\ Flat(before[1]) =>
    LET v == before[1][<<0, 0>>]
    IN  /\ \A i \in 1 .. Len(levels) : Blank(levels[i].detail)
        /\ \A c \in Cells(w, h) : cur[c] = IF Encoding THEN v ELSE Restored(v, baseStep)
        /\ phase = "done" => \A c \in Cells(given.w, given.h) : shown[c] = Restored(v, baseStep)

LEMMA BlankRestored ==
  ASSUME NEW m \in Nat, NEW n \in Nat, NEW d \in DetailSet(m, n), Blank(d), NEW s \in Steps
  PROVE  Blank(RestoredDetail(d, s)) /\ Blank(NoDetail(d))
<1>1. s.hv \in Nat \ {0} /\ s.d \in Nat \ {0}
  BY PyramidAssumption
<1>2. \A step \in Nat \ {0} : Restored(0, step) = 0
  BY ZeroKept DEF Restored, Dequantized
<1>3. /\ \A c \in DOMAIN d.H : d.H[c] = 0
      /\ \A c \in DOMAIN d.V : d.V[c] = 0
      /\ \A c \in DOMAIN d.D : d.D[c] = 0
  BY DEF Blank
<1> DEFINE r == RestoredDetail(d, s)
<1>4. /\ r.H = [c \in DOMAIN d.H |-> Restored(d.H[c], s.hv)]
      /\ r.V = [c \in DOMAIN d.V |-> Restored(d.V[c], s.hv)]
      /\ r.D = [c \in DOMAIN d.D |-> Restored(d.D[c], s.d)]
  BY DEF RestoredDetail, RestoredBand
<1> HIDE DEF r
<1>5. \A c \in DOMAIN r.H : r.H[c] = 0
  BY <1>1, <1>2, <1>3, <1>4
<1>6. \A c \in DOMAIN r.V : r.V[c] = 0
  BY <1>1, <1>2, <1>3, <1>4
<1>7. \A c \in DOMAIN r.D : r.D[c] = 0
  BY <1>1, <1>2, <1>3, <1>4
<1>8. Blank(r)
  BY <1>5, <1>6, <1>7 DEF Blank
<1>9. Blank(NoDetail(d))
  BY DEF Blank, NoDetail
<1> QED
  BY <1>8, <1>9 DEF r

\* The corner of the plane that was split first.
LEMMA FirstCorner ==
  ASSUME Typed, levels # <<>>
  PROVE  /\ 1 \in 1 .. Len(levels) /\ Len(levels) \in Nat
         /\ before[1] \in [Cells(levels[1].w, levels[1].h) -> Int]
         /\ <<0, 0>> \in Cells(levels[1].w, levels[1].h)
         /\ before[1][<<0, 0>>] \in Int
<1>1. Len(levels) \in Nat /\ 1 \in 1 .. Len(levels)
  BY DEF Typed
<1>2. /\ before[1] \in [Cells(levels[1].w, levels[1].h) -> Int]
      /\ levels[1].w \in Nat /\ levels[1].w >= 2 /\ levels[1].h \in Nat /\ levels[1].h >= 2
  BY <1>1, LevelTyped
<1>3. <<0, 0>> \in Cells(levels[1].w, levels[1].h)
  BY <1>2 DEF Cells, Line
<1> QED
  BY <1>1, <1>2, <1>3

LEMMA FlatSplit ==
  ASSUME IInv, IInv', FlatHeld, Split
  PROVE  FlatHeld'
<1> SUFFICES ASSUME levels' # <<>>, Flat(before'[1])
             PROVE  LET v == before'[1][<<0, 0>>]
                    IN  /\ \A i \in 1 .. Len(levels') : Blank(levels'[i].detail)
                        /\ \A c \in Cells(w', h') : cur'[c] = v
  BY DEF FlatHeld, Split, Encoding
<1> DEFINE n == Len(levels)
<1>1. /\ Typed /\ phase = "build" /\ Encoding
      /\ w' = Low(w) /\ h' = Low(h) /\ cur' = LowBand(ForwardLevel(cur, w, h), w, h)
      /\ n \in Nat /\ w \in Nat /\ w >= 2 /\ h \in Nat /\ h >= 2 /\ cur \in [Cells(w, h) -> Int]
  BY SMTT(30) DEF IInv, Split, Large, Typed, TypeOK, Encoding
<1>2. /\ Len(levels') = n + 1
      /\ \A i \in 1 .. n : levels'[i] = levels[i] /\ before'[i] = before[i]
      /\ levels'[n + 1] = [w |-> w, h |-> h, detail |-> Detail(ForwardLevel(cur, w, h), w, h)]
      /\ before'[n + 1] = cur
  BY <1>1, SplitTyped
<1>3. PICK v : v = before'[1][<<0, 0>>]
  OBVIOUS
<1>4. v \in Int /\ (\A c \in Cells(w, h) : cur[c] = v)
      /\ \A i \in 1 .. n : Blank(levels[i].detail)
  <2>1. CASE n = 0
    <3>1. before'[1] = cur
      BY <1>2, <2>1
    <3>2. <<0, 0>> \in Cells(w, h)
      BY <1>1 DEF Cells, Line
    <3> QED
      BY <1>1, <1>3, <2>1, <3>1, <3>2 DEF Flat
  <2>2. CASE n >= 1
    <3>1. before'[1] = before[1] /\ levels # <<>>
      BY <1>1, <1>2, <2>2
    <3>2. v \in Int
      BY <1>1, <1>3, <3>1, FirstCorner
    <3> QED
      BY <1>1, <1>3, <3>1, <3>2 DEF FlatHeld
  <2> QED
    BY <1>1, <2>1, <2>2
<1>5. /\ \A c \in Cells(Low(w), Low(h)) : LowBand(ForwardLevel(cur, w, h), w, h)[c] = v
      /\ Blank(Detail(ForwardLevel(cur, w, h), w, h))
  BY <1>1, <1>4, FlatBands
<1>6. ASSUME NEW i \in 1 .. Len(levels') PROVE Blank(levels'[i].detail)
  <2>1. CASE i = n + 1
    BY <1>2, <1>5, <2>1
  <2>2. CASE i # n + 1
    <3>1. i \in 1 .. n
      BY <1>1, <1>2, <2>2
    <3> QED
      BY <1>2, <1>4, <3>1
  <2> QED
    BY <2>1, <2>2
<1> QED
  BY <1>1, <1>3, <1>5, <1>6

LEMMA FlatDeliver ==
  ASSUME IInv, FlatHeld, Deliver
  PROVE  FlatHeld'
<1>1. /\ Typed /\ phase = "build" /\ phase' = "synthesize" /\ Encoding /\ ~Encoding'
      /\ w' = w /\ h' = h /\ before' = before /\ Len(levels) \in Nat
      /\ DOMAIN levels = 1 .. Len(levels) /\ cur \in [Cells(w, h) -> Int]
  BY DEF IInv, Deliver, Typed, TypeOK, Encoding
<1>2. PICK m \in 0 .. Len(levels), s \in [1 .. Len(levels) -> Steps] :
        levels' = [i \in DOMAIN levels |->
                       [levels[i] EXCEPT !.detail = IF i <= m THEN NoDetail(@)
                                                    ELSE RestoredDetail(@, s[i])]]
  BY DEF Deliver
<1>3. PICK b \in BaseSteps : baseStep' = b /\ cur' = RestoredBand(cur, b)
  BY DEF Deliver
<1>4. Len(levels') = Len(levels)
  BY DeliverTyped, <1>1
<1> SUFFICES ASSUME levels' # <<>>, Flat(before[1])
             PROVE  LET v == before[1][<<0, 0>>]
                    IN  /\ \A i \in 1 .. Len(levels') : Blank(levels'[i].detail)
                        /\ \A c \in Cells(w, h) : cur'[c] = Restored(v, b)
  BY <1>1, <1>3 DEF FlatHeld
<1>5. PICK v : v = before[1][<<0, 0>>]
  OBVIOUS
<1>6. levels # <<>>
  <2>1. levels' \in Seq(Levels)
    BY <1>1, DeliverTyped DEF Typed
  <2> QED
    BY <1>1, <1>4, <2>1
<1>7. /\ \A i \in 1 .. Len(levels) : Blank(levels[i].detail)
      /\ \A c \in Cells(w, h) : cur[c] = v
  BY <1>1, <1>5, <1>6 DEF FlatHeld
<1>8. \A c \in Cells(w, h) : cur'[c] = Restored(v, b)
  BY <1>1, <1>3, <1>7 DEF RestoredBand
<1>9. ASSUME NEW i \in 1 .. Len(levels) PROVE Blank(levels'[i].detail)
  <2>1. PICK d : d = levels[i].detail
    OBVIOUS
  <2>2. /\ levels[i].w \in Nat /\ levels[i].h \in Nat
        /\ d \in DetailSet(levels[i].w, levels[i].h) /\ Blank(d)
    BY <1>1, <1>7, <2>1, LevelTyped
  <2>3. Blank(RestoredDetail(d, s[i])) /\ Blank(NoDetail(d))
    <3>1. s[i] \in Steps
      BY <1>2
    <3> QED
      BY <2>2, <3>1, BlankRestored
  <2>4. levels'[i].detail = IF i <= m THEN NoDetail(d) ELSE RestoredDetail(d, s[i])
    <3>1. levels[i] = [w |-> levels[i].w, h |-> levels[i].h, detail |-> d]
      <4>1. levels[i] \in Levels
        BY <1>1 DEF Typed
      <4> QED
        BY <2>1, <4>1 DEF Levels, LevelSet
    <3> QED
      BY <1>1, <1>2, <2>1, <3>1
  <2> QED
    BY <2>3, <2>4
<1> QED
  BY <1>4, <1>5, <1>8, <1>9

LEMMA FlatSynthesize ==
  ASSUME IInv, FlatHeld, Synthesize
  PROVE  FlatHeld'
<1> DEFINE lev == levels[ri]
<1>1. /\ Typed /\ phase = "synthesize" /\ phase' = "synthesize" /\ ~Encoding /\ ~Encoding'
      /\ ri \in 1 .. Len(levels) /\ UNCHANGED <<levels, before, baseStep>>
      /\ w' = lev.w /\ h' = lev.h
      /\ cur' = InverseLevel(Packed(cur, lev.detail, lev.w, lev.h), lev.w, lev.h)
      /\ baseStep \in Nat \ {0}
  BY SMTT(30) DEF IInv, Synthesize, Typed, TypeOK, Encoding
<1> SUFFICES ASSUME levels # <<>>, Flat(before[1])
             PROVE  LET v == before[1][<<0, 0>>]
                    IN  /\ \A i \in 1 .. Len(levels) : Blank(levels[i].detail)
                        /\ \A c \in Cells(lev.w, lev.h) : cur'[c] = Restored(v, baseStep)
  BY <1>1 DEF FlatHeld
<1>2. PICK v, u : v = before[1][<<0, 0>>] /\ u = Restored(v, baseStep)
  OBVIOUS
<1>3. u \in Int
  BY <1>1, <1>2, FirstCorner, RestoredInt
<1>4. /\ lev.w \in Nat /\ lev.w >= 2 /\ lev.h \in Nat /\ lev.h >= 2
      /\ lev.detail \in DetailSet(lev.w, lev.h)
  BY <1>1, LevelTyped
<1>5. w = Low(lev.w) /\ h = Low(lev.h) /\ cur \in [Cells(Low(lev.w), Low(lev.h)) -> Int]
  BY <1>1 DEF IInv, Halved, Rest, Typed, TypeOK
<1>6. /\ \A i \in 1 .. Len(levels) : Blank(levels[i].detail)
      /\ \A c \in Cells(w, h) : cur[c] = u
  BY <1>1, <1>2 DEF FlatHeld
<1>7. \A c \in Cells(lev.w, lev.h) : cur'[c] = u
  <2>1. PICK m, n, d : m = lev.w /\ n = lev.h /\ d = lev.detail
    OBVIOUS
  <2>2. /\ m \in Nat /\ m >= 2 /\ n \in Nat /\ n >= 2 /\ d \in DetailSet(m, n) /\ Blank(d)
        /\ cur \in [Cells(Low(m), Low(n)) -> Int]
        /\ \A c \in Cells(Low(m), Low(n)) : cur[c] = u
    BY <1>1, <1>4, <1>5, <1>6, <2>1
  <2>3. \A c \in Cells(m, n) : InverseLevel(Packed(cur, d, m, n), m, n)[c] = u
    BY <1>3, <2>2, FlatSynthesis
  <2> QED
    BY <1>1, <2>1, <2>3
<1> QED
  BY <1>2, <1>6, <1>7

\* The sizes when the last level has been synthesised.
LEMMA FinishSizes ==
  ASSUME IInv, phase \in {"synthesize", "done"}, ri = 0
  PROVE  /\ w = FirstW /\ h = FirstH
         /\ w \in Nat \ {0} /\ h \in Nat \ {0} /\ cur \in [Cells(w, h) -> Int]
         /\ given.w \in Nat \ {0} /\ given.h \in Nat \ {0} /\ subsampled \in BOOLEAN
         /\ subsampled => w = Low(given.w) /\ h = Low(given.h) /\ given.w >= w /\ given.h >= h
         /\ ~subsampled => w = given.w /\ h = given.h
<1>1. /\ ~Encoding /\ Len(levels) \in Nat
      /\ w \in Nat \ {0} /\ h \in Nat \ {0} /\ cur \in [Cells(w, h) -> Int]
      /\ given.w \in Nat \ {0} /\ given.h \in Nat \ {0} /\ subsampled \in BOOLEAN
  BY DEF IInv, Typed, TypeOK, Encoding
<1>2. w = FirstW /\ h = FirstH
  <2>1. CASE Len(levels) = 0
    BY <1>1, <2>1 DEF IInv, SizesHeld
  <2>2. CASE Len(levels) >= 1
    <3>1. w = levels[0 + 1].w /\ h = levels[0 + 1].h
      BY <1>1, <2>2 DEF IInv, SizesHeld
    <3>2. levels[1].w = FirstW /\ levels[1].h = FirstH
      BY <2>2 DEF IInv, SizesHeld
    <3> QED
      BY <3>1, <3>2
  <2> QED
    BY <1>1, <2>1, <2>2
<1>3. subsampled => w = Low(given.w) /\ h = Low(given.h)
  BY <1>2 DEF FirstW, FirstH
<1>4. Low(given.w) <= given.w /\ Low(given.h) <= given.h
  BY <1>1 DEF Low
<1>5. ~subsampled => w = given.w /\ h = given.h
  BY <1>2 DEF FirstW, FirstH
<1> QED
  BY <1>1, <1>2, <1>3, <1>4, <1>5

LEMMA FlatFinish ==
  ASSUME IInv, FlatHeld, Finish
  PROVE  FlatHeld'
<1>1. /\ Typed /\ phase = "synthesize" /\ phase' = "done" /\ ~Encoding /\ ~Encoding' /\ ri = 0
      /\ UNCHANGED <<levels, before, baseStep, w, h, cur, given>>
      /\ baseStep \in Nat \ {0}
  BY DEF IInv, Finish, Typed, TypeOK, Encoding
<1> SUFFICES ASSUME levels # <<>>, Flat(before[1])
             PROVE  LET v == before[1][<<0, 0>>]
                    IN  /\ \A i \in 1 .. Len(levels) : Blank(levels[i].detail)
                        /\ \A c \in Cells(w, h) : cur[c] = Restored(v, baseStep)
                        /\ \A c \in Cells(given.w, given.h) : shown'[c] = Restored(v, baseStep)
  BY <1>1 DEF FlatHeld
<1>2. PICK v, u : v = before[1][<<0, 0>>] /\ u = Restored(v, baseStep)
  OBVIOUS
<1>3. u \in Int
  BY <1>1, <1>2, FirstCorner, RestoredInt
<1>4. /\ \A i \in 1 .. Len(levels) : Blank(levels[i].detail)
      /\ \A c \in Cells(w, h) : cur[c] = u
  BY <1>1, <1>2 DEF FlatHeld
<1>5. /\ w \in Nat \ {0} /\ h \in Nat \ {0} /\ cur \in [Cells(w, h) -> Int]
      /\ given.w \in Nat \ {0} /\ given.h \in Nat \ {0} /\ subsampled \in BOOLEAN
      /\ subsampled => given.w >= w /\ given.h >= h
      /\ ~subsampled => w = given.w /\ h = given.h
  BY <1>1, FinishSizes
<1>6. ASSUME NEW c \in Cells(given.w, given.h) PROVE shown'[c] = u
  <2>1. CASE subsampled
    <3>1. PICK ups : shown' = Upsampled(cur, w, h, given.w, given.h, ups)
      BY <2>1 DEF Finish
    <3>2. shown'[c] \in Int
      BY <1>5, <2>1, <3>1, UpsampledTyped
    <3>3. PICK d \in Cells(w, h), e \in Cells(w, h) : cur[d] <= shown'[c] /\ shown'[c] <= cur[e]
      BY <1>5, <2>1, <3>1, UpsampledBetween
    <3> QED
      BY <1>3, <1>4, <3>2, <3>3
  <2>2. CASE ~subsampled
    BY <1>4, <1>5, <2>2 DEF Finish
  <2> QED
    BY <2>1, <2>2
<1> QED
  BY <1>2, <1>4, <1>6

\* A flat plane has nothing but a base: decode_v2 shows it flat, off by at most half the
\* step of the base, for every size, table of steps, prefix and rounding of upsample_plane.
THEOREM FlatShownFlat == Spec => []FlatStaysFlat
<1>1. IInv /\ FlatHeld => FlatStaysFlat
  <2> SUFFICES ASSUME IInv, FlatHeld, phase = "done", levels # <<>>, Flat(before[1])
               PROVE  Flat(shown) /\ Close(2 * shown[<<0, 0>>], 2 * before[1][<<0, 0>>], baseStep)
    BY DEF FlatStaysFlat
  <2>1. PICK v, u : v = before[1][<<0, 0>>] /\ u = Restored(v, baseStep)
    OBVIOUS
  <2>2. /\ Typed /\ shown \in [Cells(given.w, given.h) -> Int] /\ baseStep \in Nat \ {0}
        /\ given.w \in Nat \ {0} /\ given.h \in Nat \ {0}
    BY DEF IInv, Typed, TypeOK
  <2>3. v \in Int /\ u \in Int
    BY <2>1, <2>2, FirstCorner, RestoredInt
  <2>4. \A c \in Cells(given.w, given.h) : shown[c] = u
    BY <2>1 DEF FlatHeld
  <2>5. <<0, 0>> \in Cells(given.w, given.h)
    BY <2>2 DEF Cells, Line
  <2>6. 2 * (v - u) <= baseStep /\ 2 * (u - v) <= baseStep
    BY <2>1, <2>2, <2>3, ErrorAtMostHalfAStep
  <2>7. Close(2 * u, 2 * v, baseStep)
    BY <2>2, <2>3, <2>6 DEF Close
  <2> QED
    BY <2>1, <2>2, <2>4, <2>5, <2>7 DEF Flat
<1>2. Init => FlatHeld
  BY DEF Init, FlatHeld
<1>3. IInv /\ IInv' /\ FlatHeld /\ [Next]_vars => FlatHeld'
  <2> SUFFICES ASSUME IInv, IInv', FlatHeld, [Next]_vars
               PROVE  FlatHeld'
    OBVIOUS
  <2>1. CASE Downsample
    BY <2>1 DEF IInv, SizesHeld, Downsample, FlatHeld
  <2>2. CASE UNCHANGED vars
    BY <2>2 DEF vars, FlatHeld, Encoding
  <2> QED
    BY <2>1, <2>2, FlatSplit, FlatDeliver, FlatSynthesize, FlatFinish DEF Next
<1> QED
  BY <1>1, <1>2, <1>3, Invariance, PTL DEF Spec

--------------------------------------------------------------------------------
(* What is shown lies between what was given *)

\* The plane that build_band_pyramid is given.
FirstPlane == IF subsampled THEN Halved2x(given.plane, given.w, given.h) ELSE given.plane

\* Where the planes come from.
GivenHeld ==
  /\ given.plane \in [Cells(given.w, given.h) -> Int]
  /\ phase = "start" => cur = given.plane
  /\ phase = "build" /\ Len(levels) = 0 => cur = FirstPlane
  /\ Len(levels) >= 1 => before[1] = FirstPlane
  /\ ~Encoding /\ Len(levels) = 0 => \A c \in Cells(w, h) : Close(cur[c], FirstPlane[c], allowed)
  /\ phase = "done" => \/ ~subsampled /\ shown = cur
                       \/ subsampled /\ \E ups : shown = Upsampled(cur, w, h, given.w, given.h, ups)

LEMMA GivenInductive ==
  ASSUME IInv, IInv', GivenHeld, [Next]_vars
  PROVE  GivenHeld'
<1>0. Typed /\ Len(levels) \in Nat /\ subsampled \in BOOLEAN
  BY DEF IInv, Typed
<1>1. CASE Downsample
  <2>1. /\ phase = "start" /\ phase' = "build" /\ levels = <<>> /\ w = given.w /\ h = given.h
        /\ UNCHANGED <<subsampled, given, levels, before>> /\ cur = given.plane
    BY <1>1 DEF IInv, SizesHeld, Downsample, GivenHeld
  <2>2. Len(levels) = 0
    BY <2>1
  <2>3. cur' = FirstPlane
    BY <1>0, <1>1, <2>1 DEF Downsample, FirstPlane
  <2> QED
    BY <2>1, <2>2, <2>3 DEF GivenHeld, FirstPlane, Encoding
<1>2. CASE Split
  <2>1. /\ phase = "build" /\ phase' = "build" /\ UNCHANGED <<subsampled, given>>
    BY <1>2 DEF Split
  <2>2. /\ Len(levels') = Len(levels) + 1
        /\ \A i \in 1 .. Len(levels) : before'[i] = before[i]
        /\ before'[Len(levels) + 1] = cur
    BY <1>0, <1>2, SplitTyped
  <2>3. before'[1] = FirstPlane
    <3>1. CASE Len(levels) = 0
      BY <2>1, <2>2, <3>1 DEF GivenHeld
    <3>2. CASE Len(levels) >= 1
      BY <1>0, <2>2, <3>2 DEF GivenHeld
    <3> QED
      BY <1>0, <3>1, <3>2
  <2> QED
    BY <1>0, <2>1, <2>2, <2>3 DEF GivenHeld, FirstPlane, Encoding
<1>3. CASE Deliver
  <2>1. /\ phase = "build" /\ phase' = "synthesize" /\ UNCHANGED <<subsampled, given, w, h, before>>
    BY <1>3 DEF Deliver
  <2>2. /\ Len(levels') = Len(levels)
        /\ \A c \in Cells(w, h) : Close(cur'[c], cur[c], allowed')
    BY <1>0, <1>3, DeliverTyped
  <2> QED
    BY <2>1, <2>2 DEF GivenHeld, FirstPlane, Encoding
<1>4. CASE Synthesize
  <2>1. /\ phase = "synthesize" /\ phase' = "synthesize" /\ ri \in 1 .. Len(levels)
        /\ UNCHANGED <<subsampled, given, levels, before>>
    BY <1>0, <1>4 DEF Synthesize, Typed, TypeOK
  <2>2. Len(levels) # 0
    BY <1>0, <2>1
  <2> QED
    BY <2>1, <2>2 DEF GivenHeld, FirstPlane, Encoding
<1>5. CASE Finish
  <2>1. /\ phase = "synthesize" /\ phase' = "done"
        /\ UNCHANGED <<subsampled, given, w, h, cur, levels, before, allowed>>
    BY <1>5 DEF Finish
  <2>2. \/ ~subsampled /\ shown' = cur
        \/ subsampled /\ \E ups : shown' = Upsampled(cur, w, h, given.w, given.h, ups)
    BY <1>0, <1>5 DEF Finish
  <2> QED
    BY <2>1, <2>2 DEF GivenHeld, FirstPlane, Encoding
<1>6. CASE UNCHANGED vars
  BY <1>6 DEF vars, GivenHeld, FirstPlane, Encoding
<1> QED
  BY <1>1, <1>2, <1>3, <1>4, <1>5, <1>6 DEF Next

LEMMA InitGiven == Init => GivenHeld
<1> SUFFICES ASSUME Init PROVE GivenHeld
  OBVIOUS
<1>1. /\ cur \in [Cells(w, h) -> Int] /\ given = [w |-> w, h |-> h, plane |-> cur]
      /\ phase = "start" /\ levels = <<>>
  BY PyramidAssumption DEF Init
<1>2. Len(levels) = 0 /\ given.w = w /\ given.h = h /\ given.plane = cur
  BY <1>1
<1> QED
  BY <1>1, <1>2 DEF GivenHeld, Encoding

\* With all layers and no error allowed, what is synthesised is the plane that was split.
LEMMA ShownFirst ==
  ASSUME IInv, GivenHeld, phase = "done", missing = 0, allowed = 0,
         FirstPlane \in [Cells(w, h) -> Int]
  PROVE  \A c \in Cells(w, h) : cur[c] = FirstPlane[c]
<1>1. /\ Typed /\ ~Encoding /\ ri = 0 /\ Len(levels) \in Nat /\ cur \in [Cells(w, h) -> Int]
  BY DEF IInv, Typed, TypeOK, Encoding
<1>2. \A c \in Cells(w, h) : Close(cur[c], FirstPlane[c], 0)
  <2>1. CASE Len(levels) = 0
    BY <1>1, <2>1 DEF GivenHeld
  <2>2. CASE Len(levels) >= 1
    <3>1. \A c \in Cells(w, h) : Close(cur[c], before[0 + 1][c], allowed)
      BY <1>1, <2>2 DEF IInv, PrefixWithin
    <3>2. before[0 + 1] = FirstPlane
      BY <2>2 DEF GivenHeld
    <3> QED
      BY <3>1, <3>2
  <2> QED
    BY <1>1, <2>1, <2>2
<1>3. \A c \in Cells(w, h) : cur[c] \in Int /\ FirstPlane[c] \in Int
  BY <1>1
<1> QED
  BY <1>2, <1>3 DEF Close

\* upsample_plane neither rings nor moves the corners, and at quality 100 what decode_v2
\* shows lies between the samples encode was given, but for the rounding of downsample_2x;
\* for every plane, size and rounding.
THEOREM NothingRings == Spec => []ShownBetween
<1>1. IInv /\ GivenHeld => ShownBetween
  <2> SUFFICES ASSUME IInv, GivenHeld, phase = "done" PROVE ShownBetween
    BY DEF ShownBetween
  <2>1. ri = 0
    BY DEF IInv
  <2>2. /\ w \in Nat \ {0} /\ h \in Nat \ {0} /\ cur \in [Cells(w, h) -> Int]
        /\ given.w \in Nat \ {0} /\ given.h \in Nat \ {0} /\ subsampled \in BOOLEAN
        /\ subsampled => w = Low(given.w) /\ h = Low(given.h) /\ given.w >= w /\ given.h >= h
        /\ ~subsampled => w = given.w /\ h = given.h
    BY <2>1, FinishSizes
  <2>3. /\ shown \in [Cells(given.w, given.h) -> Int]
        /\ given.plane \in [Cells(given.w, given.h) -> Int]
    BY DEF IInv, Typed, TypeOK, GivenHeld
  <2>4. \/ ~subsampled /\ shown = cur
        \/ subsampled /\ \E ups : shown = Upsampled(cur, w, h, given.w, given.h, ups)
    BY DEF GivenHeld
  <2>5. ASSUME NEW c \in Cells(given.w, given.h)
        PROVE  \E d \in Cells(w, h), e \in Cells(w, h) : cur[d] <= shown[c] /\ shown[c] <= cur[e]
    <3>1. CASE ~subsampled
      <4>1. c \in Cells(w, h) /\ shown[c] = cur[c] /\ cur[c] \in Int
        BY <2>2, <2>4, <3>1
      <4>2. cur[c] <= shown[c] /\ shown[c] <= cur[c]
        BY <4>1
      <4> QED
        BY <4>1, <4>2
    <3>2. CASE subsampled
      <4>1. PICK ups : shown = Upsampled(cur, w, h, given.w, given.h, ups)
        BY <2>4, <3>2
      <4> QED
        BY <2>2, <3>2, <4>1, UpsampledBetween
    <3> QED
      BY <3>1, <3>2
  <2>6. ASSUME NEW x \in {0, given.w - 1}, NEW y \in {0, given.h - 1}
        PROVE  shown[<<x, y>>] = cur[<<IF x = 0 THEN 0 ELSE w - 1, IF y = 0 THEN 0 ELSE h - 1>>]
    <3>1. CASE ~subsampled
      <4>1. w = given.w /\ h = given.h /\ shown = cur
        BY <2>2, <2>4, <3>1
      <4>2. x = (IF x = 0 THEN 0 ELSE w - 1) /\ y = (IF y = 0 THEN 0 ELSE h - 1)
        BY <4>1
      <4> QED
        BY <4>1, <4>2
    <3>2. CASE subsampled
      <4>1. PICK ups : shown = Upsampled(cur, w, h, given.w, given.h, ups)
        BY <2>4, <3>2
      <4>2. PICK om, on, m, n, p :
              om = given.w /\ on = given.h /\ m = w /\ n = h /\ p = cur
        OBVIOUS
      <4>3. /\ om \in Nat /\ on \in Nat /\ m \in Nat \ {0} /\ n \in Nat \ {0}
            /\ om >= m /\ on >= n /\ p \in [Cells(m, n) -> Int]
        BY <2>2, <3>2, <4>2
      <4>4. PICK c, d :
              c = <<x, y>> /\ d = <<IF x = 0 THEN 0 ELSE m - 1, IF y = 0 THEN 0 ELSE n - 1>>
        OBVIOUS
      <4>5. Upsampled(p, m, n, om, on, ups)[c] = p[d]
        <5>1. m \in Nat \ {0}
          BY <4>3
        <5>2. n \in Nat \ {0}
          BY <4>3
        <5>3. om \in Nat
          BY <4>3
        <5>4. on \in Nat
          BY <4>3
        <5>5. om >= m
          BY <4>3
        <5>6. on >= n
          BY <4>3
        <5>7. p \in [Cells(m, n) -> Int]
          BY <4>3
        <5>8. c \in Cells(om, on)
          BY <4>2, <4>3, <4>4 DEF Cells, Line
        <5>9. d \in Cells(m, n)
          BY <4>3, <4>4 DEF Cells, Line
        <5>10. c[1] \in {0, om - 1}
          BY <4>2, <4>4
        <5>11. c[2] \in {0, on - 1}
          BY <4>2, <4>4
        <5>12. d[1] = (IF c[1] = 0 THEN 0 ELSE m - 1)
          BY <4>4
        <5>13. d[2] = (IF c[2] = 0 THEN 0 ELSE n - 1)
          BY <4>4
        <5> QED
          BY <5>1, <5>2, <5>3, <5>4, <5>5, <5>6, <5>7, <5>8, <5>9, <5>10, <5>11, <5>12, <5>13,
             UpsampledCorners
      <4> QED
        BY <4>1, <4>2, <4>4, <4>5
    <3> QED
      BY <3>1, <3>2
  <2>7. ASSUME missing = 0, allowed = 0, NEW c \in Cells(given.w, given.h)
        PROVE  /\ \E d \in Cells(given.w, given.h) : given.plane[d] <= shown[c]
               /\ \E d \in Cells(given.w, given.h) :
                     given.plane[d] + (IF subsampled THEN 1 ELSE 0) >= shown[c]
    <3>1. PICK d \in Cells(w, h), e \in Cells(w, h) : cur[d] <= shown[c] /\ shown[c] <= cur[e]
      BY <2>5
    <3>2. shown[c] \in Int /\ cur[d] \in Int /\ cur[e] \in Int
      BY <2>2, <2>3
    <3>3. CASE ~subsampled
      <4>1. FirstPlane = given.plane /\ w = given.w /\ h = given.h
        BY <2>2, <3>3 DEF FirstPlane
      <4>2. \A a \in Cells(w, h) : cur[a] = given.plane[a]
        BY <2>3, <2>7, <4>1, ShownFirst
      <4>3. given.plane[d] <= shown[c] /\ shown[c] <= given.plane[e] /\ given.plane[e] \in Int
        BY <3>1, <3>2, <4>2
      <4> QED
        BY <3>2, <3>3, <4>1, <4>3
    <3>4. CASE subsampled
      <4>1. /\ FirstPlane = Halved2x(given.plane, given.w, given.h)
            /\ w = Low(given.w) /\ h = Low(given.h)
        BY <2>2, <3>4 DEF FirstPlane
      <4>2. FirstPlane \in [Cells(w, h) -> Int]
        BY <2>2, <2>3, <4>1, Halved2xTyped
      <4>3. \A a \in Cells(w, h) : cur[a] = FirstPlane[a]
        BY <2>7, <4>2, ShownFirst
      <4>4. PICK l \in Cells(given.w, given.h) : given.plane[l] <= FirstPlane[d]
        BY <2>2, <2>3, <4>1, HalvedBetween
      <4>5. PICK g \in Cells(given.w, given.h) : FirstPlane[e] <= given.plane[g] + 1
        BY <2>2, <2>3, <4>1, HalvedBetween
      <4>6. given.plane[l] \in Int /\ given.plane[g] \in Int
        BY <2>3
      <4>7. cur[d] = FirstPlane[d] /\ cur[e] = FirstPlane[e]
        BY <4>3
      <4>8. given.plane[l] <= shown[c] /\ given.plane[g] + 1 >= shown[c]
        BY <3>1, <3>2, <4>4, <4>5, <4>6, <4>7
      <4> QED
        BY <3>4, <4>8
    <3> QED
      BY <2>2, <3>3, <3>4
  <2>8. /\ DOMAIN shown = Cells(given.w, given.h) /\ DOMAIN cur = Cells(w, h)
        /\ DOMAIN given.plane = Cells(given.w, given.h)
    BY <2>2, <2>3
  <2>9. \A c \in Cells(given.w, given.h) : /\ \E d \in Cells(w, h) : cur[d] <= shown[c]
                                           /\ \E d \in Cells(w, h) : cur[d] >= shown[c]
    <3> TAKE c \in Cells(given.w, given.h)
    <3>1. PICK d \in Cells(w, h), e \in Cells(w, h) : cur[d] <= shown[c] /\ shown[c] <= cur[e]
      BY <2>5
    <3>2. shown[c] \in Int /\ cur[e] \in Int
      BY <2>2, <2>3
    <3>3. cur[e] >= shown[c]
      BY <3>1, <3>2
    <3> QED
      BY <3>1, <3>3
  <2> QED
    BY <2>6, <2>7, <2>8, <2>9 DEF ShownBetween
<1> QED
  BY <1>1, InitGiven, GivenInductive, Invariance, PTL DEF Spec
=================================================================================
