-------------------------------- MODULE MCPyramid --------------------------------
(* Model values of Pyramid: odd, even and flat sides, samples of both signs and parities, *)
(* steps of 1 (quality 100) and larger ones that are even, odd and unequal.               *)
EXTENDS Pyramid

MCSizes == {<<3, 3>>, <<4, 2>>, <<5, 2>>, <<1, 4>>}
MCSamples == {-7, 4}
MCTargets == {1, 2}
MCBaseSteps == {1, 4}
MCSteps == {[hv |-> 1, d |-> 1], [hv |-> 3, d |-> 6]}
================================================================================
