-------------------------- MODULE LevelTransformProofs --------------------------
(***************************************************************************)
(* The four passes over a level compute what a sequential loop would, for  *)
(* planes of every size and values of every size, any number of workers    *)
(* and any interleaving of them, and both directions together restore the  *)
(* plane.  The argument: a pass changes every line once, a worker's copy   *)
(* is the line the pass started with, and the lines of one pass have no    *)
(* sample in common.                                                       *)
(***************************************************************************)
EXTENDS LevelTransform, ArithmeticProofs, FiniteSetTheorems

Indices == Line(count)
RowPass == pass \in {"forward rows", "inverse rows"}

\* The plane that a pass starts from, and the one it has computed when it is over.
Given == CASE pass = "forward rows" -> source
           [] pass = "forward columns" -> ForwardRows(source, w, h)
           [] pass = "inverse columns" -> ForwardLevel(source, w, h)
           [] pass = "inverse rows" -> ForwardRows(source, w, h)
           [] pass = "done" -> source

Computed == CASE pass = "forward rows" -> ForwardRows(source, w, h)
              [] pass = "forward columns" -> ForwardLevel(source, w, h)
              [] pass = "inverse columns" -> ForwardRows(source, w, h)
              [] pass = "inverse rows" -> source
              [] pass = "done" -> source

\* The line of a plane that call i of the pass works on, and the line that holds a cell.
LineAt(p, i) == IF RowPass THEN Row(p, w, i) ELSE Column(p, h, i)
LineOf(c) == IF RowPass THEN c[2] ELSE c[1]

Typed == /\ <<w, h>> \in Sizes
         /\ source \in [Cells(w, h) -> Samples]
         /\ plane \in [Cells(w, h) -> Int]
         /\ pass \in {"forward rows", "forward columns", "inverse columns", "inverse rows", "done"}
         /\ count = LinesOf(pass)
         /\ status \in {"running", "returned"}
         /\ calls \in [Indices -> {0, 1}]
         /\ DOMAIN line = Indices
         /\ Cardinality(Busy) <= Threads

\* A line has the values the pass found until its worker has stored the new ones.
Progress == \A c \in Cells(w, h) :
              plane[c] = IF pass # "done" /\ calls[LineOf(c)] = 1 THEN Computed[c] ELSE Given[c]

\* A worker holds a line that no call has touched.
Copies == \A i \in Indices :
            line[i] # <<>> => /\ pass # "done" /\ status = "running" /\ calls[i] = 0
                              /\ line[i] = <<LineAt(Given, i)>>

Ended == status = "returned" => pass # "done" /\ \A i \in Indices : calls[i] = 1

IInv == Typed /\ Progress /\ Copies /\ Ended

--------------------------------------------------------------------------------
LEMMA SizeFacts ==
  ASSUME Typed
  PROVE  /\ w \in Nat /\ h \in Nat /\ w >= 2 /\ h >= 2
         /\ source \in [Cells(w, h) -> Int]
<1>1. w \in Nat \ {0, 1} /\ h \in Nat \ {0, 1}
  BY LevelAssumption DEF Typed
<1>2. source \in [Cells(w, h) -> Int]
  BY LevelAssumption DEF Typed
<1> QED BY <1>1, <1>2

\* Both planes of a pass, and how a line of the second follows from that of the first.
LEMMA PassComputes ==
  ASSUME Typed, pass # "done"
  PROVE  /\ Given \in [Cells(w, h) -> Int] /\ Computed \in [Cells(w, h) -> Int]
         /\ \A c \in Cells(w, h) :
              Computed[c] = IF RowPass THEN Transformed(Row(Given, w, c[2]))[c[1]]
                                       ELSE Transformed(Column(Given, h, c[1]))[c[2]]
<1> DEFINE f == ForwardRows(source, w, h)
           g == ForwardLevel(source, w, h)
<1>1. w \in Nat /\ h \in Nat /\ w >= 2 /\ h >= 2 /\ source \in [Cells(w, h) -> Int]
  BY SizeFacts
<1>2. f \in [Cells(w, h) -> Int] /\ InverseRows(f, w, h) = source
  BY <1>1, RowsReversible
<1>3. g = ForwardColumns(f, w, h)
  BY DEF ForwardLevel
<1> HIDE DEF f
<1>4. g \in [Cells(w, h) -> Int] /\ InverseColumns(g, w, h) = f
  BY <1>1, <1>2, <1>3, ColumnsReversible
<1> HIDE DEF g
<1>5. ASSUME NEW c \in Cells(w, h) PROVE c[1] \in Line(w) /\ c[2] \in Line(h)
  BY DEF Cells
<1>6. CASE pass = "forward rows"
  <2>1. Given = source /\ Computed = f /\ RowPass
    BY <1>6 DEF Given, Computed, RowPass, f
  <2>2. ASSUME NEW c \in Cells(w, h) PROVE f[c] = ForwardLine(Row(source, w, c[2]), w)[c[1]]
    BY <1>5 DEF f, ForwardRows, OfRows
  <2>3. ASSUME NEW v PROVE Transformed(v) = ForwardLine(v, w)
    BY <1>6 DEF Transformed
  <2> QED BY <1>1, <1>2, <2>1, <2>2, <2>3
<1>7. CASE pass = "forward columns"
  <2>1. Given = f /\ Computed = g /\ ~RowPass
    BY <1>7 DEF Given, Computed, RowPass, f, g
  <2>2. ASSUME NEW c \in Cells(w, h) PROVE g[c] = ForwardLine(Column(f, h, c[1]), h)[c[2]]
    BY <1>3, <1>5 DEF ForwardColumns, OfColumns
  <2>3. ASSUME NEW v PROVE Transformed(v) = ForwardLine(v, h)
    BY <1>7 DEF Transformed
  <2> QED BY <1>2, <1>4, <2>1, <2>2, <2>3
<1>8. CASE pass = "inverse columns"
  <2>1. Given = g /\ Computed = f /\ ~RowPass
    BY <1>8 DEF Given, Computed, RowPass, f, g
  <2>2. ASSUME NEW c \in Cells(w, h) PROVE f[c] = InverseLine(Column(g, h, c[1]), h)[c[2]]
    BY <1>4, <1>5 DEF InverseColumns, OfColumns
  <2>3. ASSUME NEW v PROVE Transformed(v) = InverseLine(v, h)
    BY <1>8 DEF Transformed
  <2> QED BY <1>2, <1>4, <2>1, <2>2, <2>3
<1>9. CASE pass = "inverse rows"
  <2>1. Given = f /\ Computed = source /\ RowPass
    BY <1>9 DEF Given, Computed, RowPass, f
  <2>2. ASSUME NEW c \in Cells(w, h) PROVE source[c] = InverseLine(Row(f, w, c[2]), w)[c[1]]
    BY <1>2, <1>5 DEF InverseRows, OfRows
  <2>3. ASSUME NEW v PROVE Transformed(v) = InverseLine(v, w)
    BY <1>9 DEF Transformed
  <2> QED BY <1>1, <1>2, <2>1, <2>2, <2>3
<1> QED BY <1>6, <1>7, <1>8, <1>9 DEF Typed

\* Every cell is on exactly one line of a pass.
LEMMA CellsOnLines ==
  ASSUME Typed, pass # "done"
  PROVE  /\ count = IF RowPass THEN h ELSE w
         /\ \A c \in Cells(w, h) : LineOf(c) \in Indices
BY DEF Typed, LinesOf, RowPass, LineOf, Indices, Cells

LEMMA SameIndices == Call!Indices = Indices
BY DEF Call!Indices, Indices, Line

LEMMA BusyFinite ==
  ASSUME Typed
  PROVE  IsFiniteSet(Busy)
<1>1. count \in Nat
  BY SizeFacts DEF Typed, LinesOf
<1>2. IsFiniteSet(Indices)
  BY <1>1, FS_Interval DEF Indices, Line
<1> QED BY <1>2, SameIndices, FS_Subset DEF Busy

--------------------------------------------------------------------------------
LEMMA InitInv == Init => IInv
<1> SUFFICES ASSUME Init PROVE IInv
  OBVIOUS
<1>1. <<w, h>> \in Sizes
  <2>1. PICK s \in Sizes : w = s[1] /\ h = s[2]
    BY DEF Init
  <2>2. s = <<s[1], s[2]>>
    BY LevelAssumption
  <2> QED BY <2>1, <2>2
<1>2. Busy = {}
  BY SameIndices DEF Init, Busy, Indices, Line
<1>3. Cardinality(Busy) <= Threads
  BY <1>2, FS_EmptySet, LevelAssumption
<1>4. Typed
  BY <1>1, <1>3, LevelAssumption DEF Init, Typed, LinesOf, Indices
<1>5. Progress
  <2>1. pass = "forward rows" /\ Given = source /\ plane = source
    BY DEF Init, Given
  <2>2. ASSUME NEW c \in Cells(w, h) PROVE calls[LineOf(c)] = 0
    <3>1. LineOf(c) \in Indices /\ pass # "done"
      BY <1>4, <2>1, CellsOnLines
    <3> QED BY <3>1 DEF Init, Indices
  <2>3. \A c \in Cells(w, h) : calls[LineOf(c)] # 1
    BY <2>2
  <2> QED BY <2>1, <2>3 DEF Progress
<1>6. Copies /\ Ended
  BY DEF Init, Copies, Ended, Indices
<1> QED BY <1>4, <1>5, <1>6 DEF IInv

LEMMA BeginInv == ASSUME IInv, NEW i \in Call!Indices, Begin(i) PROVE IInv'
<1>1. /\ pass # "done" /\ status = "running" /\ calls[i] = 0 /\ line[i] = <<>>
      /\ Cardinality(Busy) < Threads
      /\ line' = [line EXCEPT ![i] = <<LineAt(plane, i)>>]
      /\ UNCHANGED <<w, h, source, plane, bands, pass, count, calls, status>>
  BY DEF Begin, size, LineAt, RowPass
<1>2. i \in Indices
  BY SameIndices
<1>3. /\ Given' = Given /\ Computed' = Computed /\ Indices' = Indices /\ RowPass' = RowPass
      /\ Call!Indices' = Call!Indices
  BY <1>1 DEF Given, Computed, Indices, RowPass, Call!Indices
<1>4. DOMAIN line' = Indices
  BY <1>1 DEF IInv, Typed
<1>5. Busy' \subseteq Busy \cup {i}
  BY <1>1, <1>2, <1>3, SameIndices DEF Busy, IInv, Typed
<1>6. Cardinality(Busy') <= Threads
  <2>1. IsFiniteSet(Busy)
    BY BusyFinite DEF IInv
  <2>2. i \notin Busy
    BY <1>1 DEF Busy
  <2>3. IsFiniteSet(Busy \cup {i}) /\ Cardinality(Busy \cup {i}) = Cardinality(Busy) + 1
    BY <2>1, <2>2, FS_AddElement
  <2>4. Cardinality(Busy') <= Cardinality(Busy \cup {i}) /\ IsFiniteSet(Busy')
    BY <1>5, <2>3, FS_Subset
  <2>5. Cardinality(Busy') \in Nat /\ Cardinality(Busy) \in Nat
    BY <2>1, <2>4, FS_CardinalityType
  <2> QED BY <1>1, <2>3, <2>4, <2>5, LevelAssumption
<1>7. Typed'
  BY <1>1, <1>3, <1>4, <1>6 DEF IInv, Typed, LinesOf
<1>8. Progress'
  BY <1>1, <1>3 DEF IInv, Progress, LineOf
<1>9. LineAt(plane, i) = LineAt(Given, i)
  <2>1. ASSUME NEW c \in Cells(w, h), LineOf(c) = i PROVE plane[c] = Given[c]
    BY <1>1, <2>1 DEF IInv, Progress
  <2>2. CASE RowPass
    <3>1. ASSUME NEW x \in Line(w) PROVE <<x, i>> \in Cells(w, h) /\ LineOf(<<x, i>>) = i
      BY <1>1, <1>2, <2>2, CellsOnLines DEF IInv, Cells, LineOf, Indices
    <3> QED BY <2>1, <2>2, <3>1 DEF LineAt, Row
  <2>3. CASE ~RowPass
    <3>1. ASSUME NEW y \in Line(h) PROVE <<i, y>> \in Cells(w, h) /\ LineOf(<<i, y>>) = i
      BY <1>1, <1>2, <2>3, CellsOnLines DEF IInv, Cells, LineOf, Indices
    <3> QED BY <2>1, <2>3, <3>1 DEF LineAt, Column
  <2> QED BY <2>2, <2>3
<1>10. Copies'
  <2> SUFFICES ASSUME NEW j \in Indices, line'[j] # <<>>
               PROVE  calls[j] = 0 /\ line'[j] = <<LineAt(Given, j)>>
    BY <1>1, <1>3 DEF Copies, LineAt
  <2>1. CASE j = i
    BY <2>1, <1>1, <1>2, <1>9 DEF IInv, Typed
  <2>2. CASE j # i
    BY <2>2, <1>1 DEF IInv, Typed, Copies
  <2> QED BY <2>1, <2>2
<1>11. Ended'
  BY <1>1, <1>3 DEF Ended
<1> QED BY <1>7, <1>8, <1>10, <1>11 DEF IInv

LEMMA EndInv == ASSUME IInv, NEW i \in Call!Indices, End(i) PROVE IInv'
<1> DEFINE new == Transformed(line[i][1])
<1>1. /\ line[i] # <<>> /\ status = "running" /\ calls[i] = 0
      /\ plane' = [c \in Cells(w, h) |->
                     IF RowPass /\ c[2] = i THEN new[c[1]]
                     ELSE IF ~RowPass /\ c[1] = i THEN new[c[2]]
                     ELSE plane[c]]
      /\ calls' = [calls EXCEPT ![i] = 1]
      /\ line' = [line EXCEPT ![i] = <<>>]
      /\ UNCHANGED <<w, h, source, bands, pass, count, status>>
  BY DEF End, Call!Apply, RowPass
<1>2. i \in Indices
  BY SameIndices
<1>3. /\ Given' = Given /\ Computed' = Computed /\ Indices' = Indices /\ RowPass' = RowPass
      /\ Call!Indices' = Call!Indices
  BY <1>1 DEF Given, Computed, Indices, RowPass, Call!Indices
<1>4. pass # "done" /\ line[i][1] = LineAt(Given, i)
  BY <1>1, <1>2 DEF IInv, Copies
<1>5. ASSUME NEW c \in Cells(w, h)
      PROVE  plane'[c] = IF LineOf(c) = i THEN Computed[c] ELSE plane[c]
  <2>1. Computed[c] = IF RowPass THEN Transformed(Row(Given, w, c[2]))[c[1]]
                                 ELSE Transformed(Column(Given, h, c[1]))[c[2]]
    BY <1>4, PassComputes DEF IInv
  <2>2. new = Transformed(LineAt(Given, i))
    BY <1>4
  <2> HIDE DEF new
  <2>3. CASE RowPass
    BY <2>1, <2>2, <2>3, <1>1 DEF LineOf, LineAt
  <2>4. CASE ~RowPass
    BY <2>1, <2>2, <2>4, <1>1 DEF LineOf, LineAt
  <2> QED BY <2>3, <2>4
<1>6. plane' \in [Cells(w, h) -> Int]
  <2>1. ASSUME NEW c \in Cells(w, h) PROVE plane'[c] \in Int
    BY <1>4, <1>5, PassComputes DEF IInv, Typed
  <2> HIDE DEF new
  <2> QED BY <1>1, <2>1
<1> HIDE DEF new
<1>7. DOMAIN line' = Indices /\ calls' \in [Indices -> {0, 1}]
  BY <1>1, <1>2 DEF IInv, Typed
<1>8. Cardinality(Busy') <= Threads
  <2>1. Busy' \subseteq Busy
    BY <1>1, <1>3, SameIndices DEF Busy, IInv, Typed
  <2>2. IsFiniteSet(Busy)
    BY BusyFinite DEF IInv
  <2>3. Cardinality(Busy') <= Cardinality(Busy) /\ IsFiniteSet(Busy')
    BY <2>1, <2>2, FS_Subset
  <2>4. Cardinality(Busy') \in Nat /\ Cardinality(Busy) \in Nat
    BY <2>2, <2>3, FS_CardinalityType
  <2>5. Cardinality(Busy) <= Threads
    BY DEF IInv, Typed
  <2> QED BY <2>3, <2>4, <2>5, LevelAssumption
<1>9. Typed'
  BY <1>1, <1>3, <1>6, <1>7, <1>8 DEF IInv, Typed, LinesOf
<1>10. Progress'
  <2> SUFFICES ASSUME NEW c \in Cells(w, h)
               PROVE  plane'[c] = IF calls'[LineOf(c)] = 1 THEN Computed[c] ELSE Given[c]
    BY <1>1, <1>3, <1>4 DEF Progress, LineOf
  <2>1. LineOf(c) \in Indices
    BY <1>4, CellsOnLines DEF IInv
  <2>2. CASE LineOf(c) = i
    BY <2>1, <2>2, <1>1, <1>5 DEF IInv, Typed
  <2>3. CASE LineOf(c) # i
    <3>1. calls'[LineOf(c)] = calls[LineOf(c)]
      BY <2>1, <2>3, <1>1 DEF IInv, Typed
    <3>2. plane'[c] = plane[c]
      BY <2>3, <1>5
    <3> QED BY <3>1, <3>2, <1>4 DEF IInv, Progress
  <2> QED BY <2>2, <2>3
<1>11. Copies'
  <2> SUFFICES ASSUME NEW j \in Indices, line'[j] # <<>>
               PROVE  calls'[j] = 0 /\ line'[j] = <<LineAt(Given, j)>>
    BY <1>1, <1>3, <1>4 DEF Copies, LineAt
  <2>1. j # i
    BY <1>1, <1>2 DEF IInv, Typed
  <2> QED BY <2>1, <1>1 DEF IInv, Typed, Copies
<1>12. Ended'
  BY <1>1 DEF Ended
<1> QED BY <1>9, <1>10, <1>11, <1>12 DEF IInv

LEMMA ReturnInv == IInv /\ Return => IInv'
<1> SUFFICES ASSUME IInv, Return PROVE IInv'
  OBVIOUS
<1>1. /\ pass # "done" /\ status = "running" /\ \A i \in Indices : calls[i] = 1
      /\ status' = "returned"
      /\ UNCHANGED <<w, h, source, plane, bands, pass, line, count, calls>>
  BY SameIndices DEF Return, Call!Return, size
<1>2. /\ Given' = Given /\ Computed' = Computed /\ Indices' = Indices /\ RowPass' = RowPass
      /\ Busy' = Busy
  BY <1>1 DEF Given, Computed, Indices, RowPass, Call!Indices, Busy
<1>3. Typed'
  BY <1>1, <1>2 DEF IInv, Typed, LinesOf
<1>4. Progress'
  BY <1>1, <1>2 DEF IInv, Progress, LineOf
<1>5. Copies' /\ Ended'
  BY <1>1, <1>2 DEF IInv, Copies, Ended
<1> QED BY <1>3, <1>4, <1>5 DEF IInv

LEMMA NextPassInv == IInv /\ NextPass => IInv'
<1> SUFFICES ASSUME IInv, NextPass PROVE IInv'
  OBVIOUS
<1>1. status = "returned" /\ UNCHANGED <<w, h, source>>
  BY DEF NextPass, size
<1>2. pass # "done" /\ \A i \in Indices : calls[i] = 1
  BY <1>1 DEF IInv, Ended
<1>3. PICK k \in 1 .. 4 :
        /\ pass = Passes[k] /\ pass' = Passes[k + 1]
        /\ IF k = 2 THEN /\ bands' = [low |-> LowBand(plane, w, h), detail |-> Detail(plane, w, h)]
                         /\ plane' = Packed(bands'.low, bands'.detail, w, h)
                    ELSE UNCHANGED <<bands, plane>>
        /\ StartCall(Passes[k + 1])
  BY DEF NextPass
<1>4. plane = Computed
  <2>1. \A c \in Cells(w, h) : plane[c] = Computed[c]
    BY <1>2, CellsOnLines DEF IInv, Progress
  <2>2. Computed \in [Cells(w, h) -> Int] /\ plane \in [Cells(w, h) -> Int]
    BY <1>2, PassComputes DEF IInv, Typed
  <2> QED BY <2>1, <2>2
<1>5. plane' = plane
  <2>1. CASE k = 2
    <3>1. plane' = Packed(LowBand(plane, w, h), Detail(plane, w, h), w, h)
      BY <1>3, <2>1
    <3>2. w \in Nat /\ h \in Nat /\ plane \in [Cells(w, h) -> Int]
      BY SizeFacts DEF IInv, Typed
    <3> QED BY <3>1, <3>2, PackedUndoesExtract
  <2>2. CASE k # 2
    BY <1>3, <2>2
  <2> QED BY <2>1, <2>2
<1>6. /\ pass' \in {"forward columns", "inverse columns", "inverse rows", "done"}
      /\ Given' = Computed
  <2>1. k \in {1, 2, 3, 4} /\ 1 + 1 = 2 /\ 2 + 1 = 3 /\ 3 + 1 = 4 /\ 4 + 1 = 5
    OBVIOUS
  <2>0. pass = Passes[k] /\ pass' = Passes[k + 1]
    BY <1>3
  <2>2. Passes[1] = "forward rows" /\ Passes[2] = "forward columns" /\ Passes[3] = "inverse columns"
        /\ Passes[4] = "inverse rows" /\ Passes[5] = "done"
    BY DEF Passes
  <2>3. CASE k = 1
    <3>1. pass = "forward rows" /\ pass' = "forward columns"
      BY <2>0, <2>1, <2>2, <2>3
    <3> QED BY <3>1, <1>1 DEF Given, Computed
  <2>4. CASE k = 2
    <3>1. pass = "forward columns" /\ pass' = "inverse columns"
      BY <2>0, <2>1, <2>2, <2>4
    <3> QED BY <3>1, <1>1 DEF Given, Computed
  <2>5. CASE k = 3
    <3>1. pass = "inverse columns" /\ pass' = "inverse rows"
      BY <2>0, <2>1, <2>2, <2>5
    <3> QED BY <3>1, <1>1 DEF Given, Computed
  <2>6. CASE k = 4
    <3>1. pass = "inverse rows" /\ pass' = "done"
      BY <2>0, <2>1, <2>2, <2>6
    <3> QED BY <3>1, <1>1 DEF Given, Computed
  <2> QED BY <2>1, <2>3, <2>4, <2>5, <2>6
<1>7. /\ count' = LinesOf(pass')
      /\ calls' = [i \in Line(count') |-> 0]
      /\ status' = "running"
      /\ line' = [i \in Line(count') |-> <<>>]
  BY <1>3 DEF StartCall
<1>8. Busy' = {}
  BY <1>7, SameIndices DEF Busy, Call!Indices, Line
<1>9. Typed'
  <2>1. Cardinality(Busy') <= Threads
    BY <1>8, FS_EmptySet, LevelAssumption
  <2>2. LinesOf(pass)' = LinesOf(pass')
    BY <1>1 DEF LinesOf
  <2>3. calls' \in [Indices' -> {0, 1}] /\ DOMAIN line' = Indices'
    BY <1>7 DEF Indices
  <2> QED BY <1>1, <1>5, <1>6, <1>7, <2>1, <2>2, <2>3 DEF IInv, Typed
<1>10. Progress'
  <2>1. ASSUME NEW c \in Cells(w, h), pass' # "done" PROVE calls'[LineOf(c)'] = 0
    <3>1. LineOf(c)' \in Indices'
      BY <1>1, <1>9, <2>1, CellsOnLines DEF Typed, LinesOf, RowPass, LineOf, Indices, Cells
    <3> QED BY <3>1, <1>7 DEF Indices
  <2>2. \A c \in Cells(w, h) : plane'[c] = Given'[c]
    BY <1>4, <1>5, <1>6
  <2>3. ASSUME NEW c \in Cells(w, h), pass' # "done"
        PROVE  plane'[c] = IF calls'[LineOf(c)'] = 1 THEN Computed'[c] ELSE Given'[c]
    <3>1. calls'[LineOf(c)'] # 1
      BY <2>1, <2>3
    <3> QED BY <3>1, <2>2
  <2>4. Cells(w, h)' = Cells(w, h)
    BY <1>1 DEF Cells
  <2>5. CASE pass' = "done"
    BY <2>2, <2>4, <2>5 DEF Progress
  <2>6. CASE pass' # "done"
    BY <2>3, <2>4, <2>6 DEF Progress, LineOf
  <2> QED BY <2>5, <2>6
<1>11. Copies' /\ Ended'
  BY <1>7 DEF Copies, Ended, Indices
<1> QED BY <1>9, <1>10, <1>11 DEF IInv

LEMMA StutterInv == IInv /\ UNCHANGED vars => IInv'
<1> SUFFICES ASSUME IInv, UNCHANGED vars PROVE IInv'
  OBVIOUS
<1>1. /\ Given' = Given /\ Computed' = Computed /\ Indices' = Indices /\ RowPass' = RowPass
      /\ Busy' = Busy
  BY DEF vars, Given, Computed, Indices, RowPass, Call!Indices, Busy
<1> QED BY <1>1 DEF vars, IInv, Typed, Progress, Copies, Ended, LinesOf, LineOf, LineAt

--------------------------------------------------------------------------------
\* The lines of a pass are independent, at every step of every interleaving.
THEOREM Invariance == Spec => []IInv
<1>1. IInv /\ [Next]_vars => IInv'
  BY BeginInv, EndInv, ReturnInv, NextPassInv, StutterInv DEF Next
<1> QED BY InitInv, <1>1, PTL DEF Spec

\* The plane keeps its shape, the calls their range, and no more workers are busy than
\* there are threads.
THEOREM TypeCorrect == Spec => []TypeOK
<1>1. IInv => TypeOK
  <2> SUFFICES ASSUME IInv PROVE TypeOK
    OBVIOUS
  <2>1. \E k \in DOMAIN Passes : pass = Passes[k]
    <3>1. DOMAIN Passes = 1 .. 5
      BY DEF Passes
    <3>2. /\ Passes[1] = "forward rows" /\ Passes[2] = "forward columns"
          /\ Passes[3] = "inverse columns" /\ Passes[4] = "inverse rows" /\ Passes[5] = "done"
      BY DEF Passes
    <3>3. 1 \in 1 .. 5 /\ 2 \in 1 .. 5 /\ 3 \in 1 .. 5 /\ 4 \in 1 .. 5 /\ 5 \in 1 .. 5
      OBVIOUS
    <3> QED BY <3>1, <3>2, <3>3 DEF IInv, Typed
  <2>2. DOMAIN plane = Cells(w, h) /\ \A c \in Cells(w, h) : plane[c] \in Int
    BY DEF IInv, Typed
  <2> QED BY <2>1, <2>2, SameIndices DEF IInv, Typed, TypeOK
<1> QED BY Invariance, <1>1, PTL

\* Whatever the workers do, a pass that is over has computed the sequential transform,
\* and the last one has restored the plane.
THEOREM PassesSequential == Spec => []PassesAreSequential
<1>1. IInv => PassesAreSequential
  <2> SUFFICES ASSUME IInv, status = "returned" PROVE PassesAreSequential
    BY DEF PassesAreSequential
  <2>1. pass # "done" /\ \A i \in Indices : calls[i] = 1
    BY DEF IInv, Ended
  <2>2. \A c \in Cells(w, h) : plane[c] = Computed[c]
    BY <2>1, CellsOnLines DEF IInv, Progress
  <2>3. plane = Computed
    <3>1. Computed \in [Cells(w, h) -> Int]
      BY <2>1, PassComputes DEF IInv
    <3>2. plane \in [Cells(w, h) -> Int]
      BY DEF IInv, Typed
    <3> QED BY <2>2, <3>1, <3>2
  <2>4. InverseColumns(ForwardLevel(source, w, h), w, h) = ForwardRows(source, w, h)
    BY SizeFacts, RowsReversible, ColumnsReversible DEF IInv, ForwardLevel
  <2>5. CASE pass = "forward rows"
    BY <2>3, <2>5 DEF PassesAreSequential, Computed
  <2>6. CASE pass = "forward columns"
    BY <2>3, <2>6 DEF PassesAreSequential, Computed
  <2>7. CASE pass = "inverse columns"
    BY <2>3, <2>4, <2>7 DEF PassesAreSequential, Computed
  <2>8. CASE pass = "inverse rows"
    BY <2>3, <2>8 DEF PassesAreSequential, Computed
  <2> QED BY <2>1, <2>5, <2>6, <2>7, <2>8 DEF IInv, Typed
<1> QED BY Invariance, <1>1, PTL
================================================================================
