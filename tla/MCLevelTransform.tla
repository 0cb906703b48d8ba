---------------------------- MODULE MCLevelTransform ----------------------------
(* Planes of two and three rows and columns, two workers. *)
EXTENDS LevelTransform

MCSizes == {<<2, 3>>, <<3, 2>>, <<3, 3>>}
MCSamples == {-3, 4}
================================================================================
