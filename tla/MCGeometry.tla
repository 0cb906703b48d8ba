------------------------------- MODULE MCGeometry -------------------------------
(* Sizes on both sides of the powers of two where the base targets bite: the *)
(* default of 32 or 64, and requested targets of 16, 33 and 128.             *)
EXTENDS Geometry

MCSides == (1 .. 3) \cup (15 .. 18) \cup (30 .. 35) \cup (62 .. 67) \cup (125 .. 132) \cup (255 .. 259)
MCTargets == {0, 16, 33, 128}
================================================================================
