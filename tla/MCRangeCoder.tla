------------------------------ MODULE MCRangeCoder ------------------------------
(* The range coder with 4-valued bytes and probabilities in eighths: a model starts *)
(* from the value of BandProbs or from one text_init may write.                     *)
EXTENDS RangeCoder

MCInitProbs == {3, BandProbsInit}
================================================================================
