----------------------------- MODULE LevelTransform -----------------------------
(***************************************************************************)
(* One level of the pyramid, analysed by build_band_pyramid and then       *)
(* synthesised by inverse_level.  Each direction is two calls of           *)
(* parallel_for over the lines of a shared plane; the calls are used       *)
(* through their promise, ForEach.  A worker copies its line out of the    *)
(* plane, transforms it and copies it back, so lines in progress overlap.  *)
(* (The last pass of inverse_level reads packed and writes output; a line  *)
(* is read before it is written, so one plane stands for both.)            *)
(***************************************************************************)
EXTENDS Lifting, Sequences, FiniteSets

CONSTANTS Sizes,    \* the pairs <<w, h>> to transform
          Samples,  \* the values of a sample
          Threads   \* the number of workers

ASSUME LevelAssumption == /\ Sizes \subseteq (Nat \ {0, 1}) \X (Nat \ {0, 1})
                          /\ Samples \subseteq Int
                          /\ Threads \in Nat \ {0}

VARIABLES w, h,      \* the size of the plane
          source,    \* the plane that was given
          plane,     \* cur in build_band_pyramid, packed and output in inverse_level
          bands,     \* the low band and the three detail bands, once extracted
          pass,      \* the call of parallel_for that is running
          count, calls, status,  \* the state of that call, see ForEach
          line       \* line[i]: the values the worker on line i has copied, or <<>>

vars == <<w, h, source, plane, bands, pass, count, calls, status, line>>
size == <<w, h, source>>

Call == INSTANCE ForEach

Passes == <<"forward rows", "forward columns", "inverse columns", "inverse rows", "done">>
Busy == {i \in Call!Indices : line[i] # <<>>}

\* The argument count of the parallel_for call that makes a pass.
LinesOf(p) == IF p \in {"forward rows", "inverse rows"} THEN h ELSE w

StartCall(p) == /\ count' = LinesOf(p)
                /\ calls' = [i \in Line(LinesOf(p)) |-> 0]
                /\ status' = "running"
                /\ line' = [i \in Line(LinesOf(p)) |-> <<>>]

--------------------------------------------------------------------------------
Init == /\ \E s \in Sizes : w = s[1] /\ h = s[2]
        /\ source \in [Cells(w, h) -> Samples]
        /\ plane = source
        /\ bands = <<>>
        /\ pass = "forward rows"
        /\ count = h
        /\ calls = [i \in Line(h) |-> 0]
        /\ status = "running"
        /\ line = [i \in Line(h) |-> <<>>]

\* Mutant: as many workers as lines.
BeginUnbounded(i) ==
  /\ pass # "done"
  /\ status = "running"
  /\ calls[i] = 0
  /\ line[i] = <<>>
  /\ line' = [line EXCEPT ![i] =
       IF pass \in {"forward rows", "inverse rows"} THEN <<Row(plane, w, i)>>
                                                    ELSE <<Column(plane, h, i)>>]
  /\ UNCHANGED <<size, plane, bands, pass, count, calls, status>>

\* A worker copies line i out of the plane.
Begin(i) == /\ pass # "done"
            /\ status = "running"
            /\ calls[i] = 0
            /\ line[i] = <<>>
            /\ Cardinality(Busy) < Threads
            /\ line' = [line EXCEPT ![i] =
                 IF pass \in {"forward rows", "inverse rows"} THEN <<Row(plane, w, i)>>
                                                              ELSE <<Column(plane, h, i)>>]
            /\ UNCHANGED <<size, plane, bands, pass, count, calls, status>>

\* The transformed values of a copied line.
Transformed(v) == CASE pass = "forward rows" -> ForwardLine(v, w)
                    [] pass = "forward columns" -> ForwardLine(v, h)
                    [] pass = "inverse columns" -> InverseLine(v, h)
                    [] pass = "inverse rows" -> InverseLine(v, w)

\* Mutant: a column is stored as a row.
EndAsRow(i) == /\ line[i] # <<>>
               /\ LET new == Transformed(line[i][1])
                  IN  plane' = [c \in Cells(w, h) |->
                                  IF c[2] = i /\ c[1] \in DOMAIN new THEN new[c[1]] ELSE plane[c]]
               /\ Call!Apply(i)
               /\ line' = [line EXCEPT ![i] = <<>>]
               /\ UNCHANGED <<w, h, source, bands, pass>>

\* Mutant: the worker never becomes free.
EndStaysBusy(i) == /\ line[i] # <<>>
                   /\ LET new == Transformed(line[i][1])
                          rows == pass \in {"forward rows", "inverse rows"}
                      IN  plane' = [c \in Cells(w, h) |->
                                      IF rows /\ c[2] = i THEN new[c[1]]
                                      ELSE IF ~rows /\ c[1] = i THEN new[c[2]]
                                      ELSE plane[c]]
                   /\ Call!Apply(i)
                   /\ UNCHANGED <<w, h, source, bands, pass, line>>

\* The worker stores the transformed line; this is the end of fn(i).
End(i) == /\ line[i] # <<>>
          /\ LET new == Transformed(line[i][1])
                 rows == pass \in {"forward rows", "inverse rows"}
             IN  plane' = [c \in Cells(w, h) |->
                             IF rows /\ c[2] = i THEN new[c[1]]
                             ELSE IF ~rows /\ c[1] = i THEN new[c[2]]
                             ELSE plane[c]]
          /\ Call!Apply(i)
          /\ line' = [line EXCEPT ![i] = <<>>]
          /\ UNCHANGED <<w, h, source, bands, pass>>

\* parallel_for returns.
Return == /\ pass # "done"
          /\ Call!Return
          /\ UNCHANGED <<size, plane, bands, pass, line>>

\* The code between two calls: after the forward columns the bands are extracted,
\* and inverse_level packs them again.
NextPass == /\ status = "returned"
            /\ \E k \in 1 .. 4 :
                 /\ pass = Passes[k]
                 /\ pass' = Passes[k + 1]
                 /\ IF k = 2 THEN /\ bands' = [low |-> LowBand(plane, w, h), detail |-> Detail(plane, w, h)]
                                  /\ plane' = Packed(bands'.low, bands'.detail, w, h)
                             ELSE UNCHANGED <<bands, plane>>
                 /\ StartCall(Passes[k + 1])
            /\ UNCHANGED size

Next == Return \/ NextPass \/ \E i \in Call!Indices : Begin(i) \/ End(i)

Spec == Init /\ [][Next]_vars /\ WF_vars(Next)

--------------------------------------------------------------------------------
\* The plane keeps its shape and the calls their range.
TypeOK == /\ <<w, h>> \in Sizes
          /\ source \in [Cells(w, h) -> Samples]
          /\ DOMAIN plane = Cells(w, h)
          /\ \A c \in Cells(w, h) : plane[c] \in Int
          /\ \E k \in DOMAIN Passes : pass = Passes[k]
          /\ count = LinesOf(pass)
          /\ DOMAIN line = Call!Indices
          /\ Cardinality(Busy) <= Threads

\* Whatever the order and overlap of the workers, a finished pass has computed the
\* sequential transform of the plane, and both directions together restore it.
PassesAreSequential ==
  status = "returned" =>
    plane = CASE pass = "forward rows" -> ForwardRows(source, w, h)
              [] pass = "forward columns" -> ForwardLevel(source, w, h)
              [] pass = "inverse columns" -> InverseColumns(ForwardLevel(source, w, h), w, h)
              [] pass = "inverse rows" -> source
              [] OTHER -> plane

\* Both directions end.
Completes == <>(pass = "done")
================================================================================
