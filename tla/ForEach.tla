-------------------------------- MODULE ForEach --------------------------------
(***************************************************************************)
(* What parallel_for(count, requested, fn) promises its callers: fn is     *)
(* applied to every index below count exactly once, in some order, and the *)
(* call returns only after the last application has ended.  A call may     *)
(* also fail (a thread cannot be created, fn throws); nothing is promised  *)
(* about the indices it left out.                                          *)
(***************************************************************************)
EXTENDS Naturals

VARIABLES count,   \* the number of indices
          calls,   \* calls[i]: how many applications of fn to i have ended
          status   \* "running", "returned" or "failed"

vars == <<count, calls, status>>

Indices == 0 .. (count - 1)

Init == /\ count \in Nat
        /\ calls = [i \in Indices |-> 0]
        /\ status = "running"

Apply(i) == /\ status = "running"
            /\ calls[i] = 0
            /\ calls' = [calls EXCEPT ![i] = 1]
            /\ UNCHANGED <<count, status>>

Return == /\ status = "running"
          /\ \A i \in Indices : calls[i] = 1
          /\ status' = "returned"
          /\ UNCHANGED <<count, calls>>

Fail == /\ status = "running"
        /\ status' = "failed"
        /\ UNCHANGED <<count, calls>>

Next == Return \/ Fail \/ \E i \in Indices : Apply(i)

Spec == Init /\ [][Next]_vars
================================================================================
