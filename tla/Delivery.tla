-------------------------------- MODULE Delivery --------------------------------
(***************************************************************************)
(* What a layered stream promises a reader who asks for a number of        *)
(* layers: the bands of those layers arrive, one after the other, none     *)
(* before the band it is predicted from, and nothing else arrives.  The    *)
(* reader is told that decoding has ended when all are there.              *)
(***************************************************************************)
CONSTANTS Bands,      \* what the stream can carry
          Parent(_)   \* the band another one is predicted from, itself if there is none

VARIABLES carried,  \* the bands in the stream
          wanted,   \* those the reader asked for
          got,      \* those that have arrived
          ended

vars == <<carried, wanted, got, ended>>

Init == /\ carried \in SUBSET Bands
        /\ wanted = {}
        /\ got = {}
        /\ ended = FALSE

\* A reader asks for a set that is closed under parents.
Ask == /\ got = {}
       /\ \E asked \in SUBSET carried :
            /\ \A b \in asked : Parent(b) \in carried => Parent(b) \in asked
            /\ wanted' = asked
       /\ UNCHANGED <<carried, got, ended>>

Deliver(b) == /\ b \in wanted \ got
              /\ Parent(b) = b \/ Parent(b) \notin wanted \ got
              /\ got' = got \cup {b}
              /\ UNCHANGED <<carried, wanted, ended>>

End == /\ ~ended
       /\ got = wanted
       /\ ended' = TRUE
       /\ UNCHANGED <<carried, wanted, got>>

Next == Ask \/ End \/ \E b \in Bands : Deliver(b)

Spec == Init /\ [][Next]_vars
================================================================================
