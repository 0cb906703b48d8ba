------------------------------- MODULE MCRateSearch -------------------------------
(* Model values of RateSearch.  The steps are so small that a multiplier changes some  *)
(* and not others; the coefficients lie where such a change lets them round differently *)
(* or vanish. *)
EXTENDS RateSearch, TLC

MCTable == [t \in Tabled |->
              CASE t[1] = 0 -> IF t[2] = 0 THEN 6 ELSE 4
                [] t[1] = 1 -> IF t[2] # 0 THEN 2 ELSE IF t[3] THEN 10 ELSE 8
                [] t[1] = 2 -> IF t[3] THEN 5 ELSE 1]

\* Per kind of band one of two pairs of coefficients: around the half of a step, and large.
Pair(a, b) == (1 :> a) @@ (2 :> b)
MCRaws == {[r \in Bands |-> CASE r.layer = 0 -> base
                              [] r.layer = 1 -> mid
                              [] r.layer = 2 -> fine] :
             base \in {Pair(13, -3), Pair(3, 0)},
             mid \in {Pair(4, -5), Pair(-13, 0)},
             fine \in {Pair(1, -3), Pair(0, 2)}}

MCSettings == [search : BOOLEAN, override : {FALSE}, grain : BOOLEAN, merge : {TRUE}]
                \cup [search : {FALSE}, override : {TRUE}, grain : BOOLEAN, merge : {TRUE}]
                \cup [search : {TRUE}, override : {FALSE}, grain : {FALSE}, merge : {FALSE}]
================================================================================
