--------------------------------- MODULE MCRans ---------------------------------
(* The rANS coder with 4-valued bytes and probabilities in eighths. *)
EXTENDS Rans
================================================================================
