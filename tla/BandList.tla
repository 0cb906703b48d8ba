--------------------------------- MODULE BandList ---------------------------------
(***************************************************************************)
(* The references encode makes to the bands of all pyramids, from coarse   *)
(* to fine: a base for each channel on layer 0, three details for each     *)
(* layer above it.                                                         *)
(***************************************************************************)
EXTENDS Integers

CONSTANTS Levels,        \* of luma and alpha, the count in the header
          ChromaLevels,  \* of channels 1 and 2
          Channels

ASSUME BandListAssumption == /\ Levels \in Nat
                             /\ ChromaLevels \in 0 .. Levels
                             /\ 0 \in Channels /\ Channels \subseteq 0 .. 3

LevelsOf(c) == IF c \in {0, 3} THEN Levels ELSE ChromaLevels

Bands == UNION {{[layer |-> 0, channel |-> c, band |-> 0]}
                  \cup [layer : 1 .. LevelsOf(c), channel : {c}, band : 1 .. 3] : c \in Channels}

\* Mutant: the finest layer comes first.
BeforeFineFirst(r, s) == \/ r.layer > s.layer
                         \/ r.layer = s.layer /\ r.channel < s.channel
                         \/ r.layer = s.layer /\ r.channel = s.channel /\ r.band < s.band

\* The order in which encode pushes the references.
Before(r, s) == \/ r.layer < s.layer
                \/ r.layer = s.layer /\ r.channel < s.channel
                \/ r.layer = s.layer /\ r.channel = s.channel /\ r.band < s.band

Sibling(r, band) == [r EXCEPT !.band = band]

ParentOf(r) == CASE r.layer = 0 -> r
                 [] r.layer = 1 -> [r EXCEPT !.layer = 0, !.band = 0]
                 [] r.layer > 1 -> [r EXCEPT !.layer = r.layer - 1]
================================================================================
