------------------------------- MODULE MCContainer -------------------------------
(* Model values of Container: every setting of the environment that changes the stream, *)
(* with steps and sizes that tell the bands apart; block mode is chosen for V.          *)
EXTENDS Container

MCStepOf == [r \in Bands |-> 1 + 2 * r.layer + (IF r.band = 3 THEN 1 ELSE 0)]
MCSizeOf == [r \in Bands |-> 1 + ((r.layer + r.band) % 2)]
Modes(detail) == [r \in Bands |-> IF r.layer = 0 THEN 3
                                  ELSE IF r.band = 2 /\ detail # 3 THEN 24 ELSE detail]
MCSettings == {<<Modes(3), FALSE>>, <<Modes(8), FALSE>>, <<Modes(8), TRUE>>}
================================================================================
