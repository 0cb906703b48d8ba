------------------------------- MODULE MCBandCoder -------------------------------
(* Model values of BandCoder: small bands. *)
EXTENDS BandCoder

\* Details in every mode that BRUSHIE_ENTROPY accepts, and in 24, which encode also chooses
\* itself; mode 16, which does not look at a parent and has one prediction for details and
\* base bands, is among the base modes.  PlaneKinds has the base modes that remain.
MCKinds == {<<m, FALSE>> : m \in ((3 .. 18) \ {16}) \cup {24}}
           \cup {<<3, TRUE>>, <<7, TRUE>>, <<16, TRUE>>}
\* Modes 5, 10 and 11 have no formula of their own, and smaller bands do.
MCSizes(m) == IF m = 16 THEN {<<3, 3>>, <<1, 3>>}
              ELSE IF m \in {5, 10, 11} THEN {<<2, 2>>} ELSE {<<3, 2>>, <<1, 3>>}
MCSamples(m) == IF m = 16 THEN {-3, 1} ELSE {-3, 0, 1}
MCParentSize == <<2, 1>>
MCParentSamples == {-2, 0}
MCSteps == <<2, 3>>
MCGapLimits == <<4, 2, 1>>

\* A base band in the plane-predicted modes.
PlaneKinds == {<<13, TRUE>>, <<14, TRUE>>}
SmallSize(m) == {<<2, 1>>}

\* README.md:100, "100 is exactly lossless": at quality 100 every step is 1 and a base band
\* is decoded to what was coded, in every base mode that can be selected.
LosslessBase == phase = "done" => dest = band
================================================================================
