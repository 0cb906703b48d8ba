----------------------------- MODULE RateSearchProofs -----------------------------
(***************************************************************************)
(* Proofs about RateSearch, for every list of bands, every table of steps  *)
(* and every environment: the arrays of the search stay in step            *)
(* (StaysCommitted), each chunk is coded against its parent as the decoder *)
(* has it (ParentsAsReceived), and each coefficient arrives within half    *)
(* the step chosen for its band (ErrorBounded).                            *)
(***************************************************************************)
EXTENDS RateSearch, ArithmeticProofs, FiniteSetTheorems

(* The list of bands *)

LEMMA BandFields ==
  ASSUME NEW r \in Bands
  PROVE  /\ r = [layer |-> r.layer, channel |-> r.channel, band |-> r.band]
         /\ r.layer \in 0 .. Levels
         /\ r.channel \in Channels /\ r.channel \in 0 .. 3
         /\ r.layer <= LevelsOf(r.channel)
         /\ r.layer = 0 => r.band = 0
         /\ r.layer > 0 => r.band \in 1 .. 3
<1>1. PICK c \in Channels : r \in {[layer |-> 0, channel |-> c, band |-> 0]}
                                    \cup [layer : 1 .. LevelsOf(c), channel : {c}, band : 1 .. 3]
  BY DEF Bands
<1>2. LevelsOf(c) \in 0 .. Levels /\ c \in 0 .. 3
  BY BandListAssumption DEF LevelsOf
<1>3. CASE r = [layer |-> 0, channel |-> c, band |-> 0]
  BY <1>2, <1>3, BandListAssumption
<1>4. CASE r \in [layer : 1 .. LevelsOf(c), channel : {c}, band : 1 .. 3]
  BY <1>2, <1>4, BandListAssumption
<1> QED
  BY <1>1, <1>3, <1>4

LEMMA BaseMade ==
  ASSUME NEW c \in Channels
  PROVE  [layer |-> 0, channel |-> c, band |-> 0] \in Bands
BY DEF Bands

LEMMA DetailMade ==
  ASSUME NEW c \in Channels, NEW k \in 1 .. LevelsOf(c), NEW b \in 1 .. 3
  PROVE  [layer |-> k, channel |-> c, band |-> b] \in Bands
BY DEF Bands

\* The parent of a band is a band of the same channel, one layer coarser.
LEMMA ParentFields ==
  ASSUME NEW r \in Bands
  PROVE  /\ ParentOf(r) \in Bands
         /\ ParentOf(r).channel = r.channel
         /\ r.layer = 0 => ParentOf(r) = r
         /\ r.layer > 0 => ParentOf(r).layer = r.layer - 1
<1> DEFINE k == r.layer
           c == r.channel
           b == r.band
<1>1. /\ r = [layer |-> k, channel |-> c, band |-> b]
      /\ k \in 0 .. Levels /\ c \in Channels /\ k <= LevelsOf(c)
      /\ k > 0 => b \in 1 .. 3
  BY BandFields
<1>2. LevelsOf(c) \in Nat /\ Levels \in Nat
  BY BandListAssumption DEF LevelsOf
<1>3. CASE k = 0
  BY <1>1, <1>3 DEF ParentOf
<1>4. CASE k = 1
  <2>1. ParentOf(r) = [r EXCEPT !.layer = 0, !.band = 0]
    BY <1>4 DEF ParentOf
  <2> HIDE DEF k, c, b
  <2>2. ParentOf(r) = [layer |-> 0, channel |-> c, band |-> 0]
    BY <1>1, <2>1
  <2>3. ParentOf(r) \in Bands
    BY <1>1, <2>2, BaseMade
  <2> QED
    BY <1>4, <2>2, <2>3 DEF k, c
<1>5. CASE k > 1
  <2>1. ParentOf(r) = [r EXCEPT !.layer = k - 1]
    BY <1>1, <1>2, <1>5 DEF ParentOf
  <2> HIDE DEF k, c, b
  <2>2. ParentOf(r) = [layer |-> k - 1, channel |-> c, band |-> b]
    BY <1>1, <2>1
  <2>3. k - 1 \in 1 .. LevelsOf(c) /\ b \in 1 .. 3
    BY <1>1, <1>2, <1>5
  <2>4. ParentOf(r) \in Bands
    BY <1>1, <2>2, <2>3, DetailMade
  <2>5. ParentOf(r).layer = k - 1 /\ ParentOf(r).channel = c /\ k # 0
    BY <1>5, <2>2
  <2> QED
    BY <2>4, <2>5 DEF k, c
<1> QED
  BY <1>1, <1>2, <1>3, <1>4, <1>5

\* The horizontal sibling of a vertical band has the same place in every group.
LEMMA SiblingFields ==
  ASSUME NEW r \in Bands, r.band = 2
  PROVE  /\ Sibling(r, 1) \in Bands
         /\ Sibling(r, 1).layer = r.layer
         /\ Sibling(r, 1).channel = r.channel
         /\ Sibling(r, 1).band = 1
         /\ BaseStep(Sibling(r, 1)) = BaseStep(r)
         /\ Grouped(Sibling(r, 1)) <=> Grouped(r)
         /\ GroupOf(Sibling(r, 1)) = GroupOf(r)
<1> DEFINE k == r.layer
           c == r.channel
<1>1. r = [layer |-> k, channel |-> c, band |-> 2] /\ c \in Channels
  BY BandFields
<1>2. k \in 1 .. LevelsOf(c)
  BY BandFields, BandListAssumption DEF LevelsOf
<1> HIDE DEF k, c
<1>3. Sibling(r, 1) = [layer |-> k, channel |-> c, band |-> 1]
  BY <1>1 DEF Sibling
<1>4. Sibling(r, 1) \in Bands
  <2>1. \A b \in 1 .. 3 : [layer |-> k, channel |-> c, band |-> b] \in Bands
    BY <1>1, <1>2, DetailMade
  <2>2. 1 \in 1 .. 3
    OBVIOUS
  <2> QED
    BY <1>3, <2>1, <2>2
<1> QED
  BY <1>3, <1>4 DEF BaseStep, Grouped, GroupOf, k, c

\* Groups follow each other from coarse to fine: a later group has neither a band of an
\* earlier one nor the parent of such a band.
LEMMA LaterGroup ==
  ASSUME NEW g \in Groups, NEW h \in Groups, g < h, NEW r \in Group(g)
  PROVE  r \notin Group(h) /\ ParentOf(r) \notin Group(h)
<1>1. r \in Bands /\ GroupOf(r) = g
  BY DEF Group
<1>2. /\ ParentOf(r).channel = r.channel /\ r.layer \in Nat
      /\ ParentOf(r).layer \in Nat /\ ParentOf(r).layer <= r.layer
  BY <1>1, ParentFields, BandFields
<1>3. GroupOf(ParentOf(r)) <= g /\ GroupOf(ParentOf(r)) \in Nat
  BY <1>1, <1>2 DEF GroupOf
<1>4. g \in Nat /\ h \in Nat
  BY DEF Groups
<1> QED
  BY <1>1, <1>3, <1>4 DEF Group

(* The operators of the search *)

LEMMA StepsPositive == MaxStep \in Nat /\ MaxStep >= 1 /\ 1 \in Steps /\ Steps \subseteq Nat \ {0}
<1>1. MaxStep \in Nat /\ MaxStep >= 1
  BY DEF MaxStep
<1> QED
  BY <1>1 DEF Steps

LEMMA BaseStepTyped ==
  ASSUME NEW r \in Bands
  PROVE  BaseStep(r) \in Steps
<1> DEFINE d == r.band = 3
<1>1. r.layer \in 0 .. Levels /\ r.channel \in 0 .. 3
  BY BandFields
<1>2. d \in BOOLEAN
  OBVIOUS
<1> HIDE DEF d
<1>3. <<r.layer, r.channel, d>> \in Tabled
  BY <1>1, <1>2 DEF Tabled
<1>4. BaseStep(r) = Table[<<r.layer, r.channel, d>>]
  BY DEF BaseStep, d
<1> QED
  BY <1>3, <1>4, RateSearchAssumption

LEMMA ScaledTyped ==
  ASSUME NEW s \in Steps, NEW m \in Nat
  PROVE  Scaled(s, m) \in Steps
<1> DEFINE n == (2 * s * m + 100) \div 200
<1>1. s \in Nat
  BY StepsPositive
<1>2. n \in Nat
  <2>1. s * m \in Nat /\ 2 * s * m = 2 * (s * m)
    BY <1>1
  <2> HIDE DEF n
  <2>2. n = (2 * (s * m) + 100) \div 200
    BY <2>1 DEF n
  <2> QED
    BY <2>1, <2>2
<1> HIDE DEF n
<1>3. Scaled(s, m) = IF n < 1 THEN 1 ELSE Smaller(MaxStep, n)
  BY DEF Scaled, n
<1> QED
  BY <1>2, <1>3, StepsPositive DEF Smaller, Steps

LEMMA QuantizedTyped ==
  ASSUME NEW p \in [Places -> Int], NEW s \in Steps
  PROVE  QuantizedBand(p, s) \in [Places -> Int]
<1>1. ASSUME NEW x \in Places PROVE Quantized(p[x], s) \in Int
  BY QuantizedInt, StepsPositive
<1> QED
  BY <1>1 DEF QuantizedBand

LEMMA CountsOfNz ==
  ASSUME NEW q
  PROVE  CountsOf(q).nz # 0 <=> NonZeros(q) # {}
<1>1. IsFiniteSet(NonZeros(q))
  <2>1. NonZeros(q) \in SUBSET Places
    BY DEF NonZeros
  <2> QED
    BY <2>1, FS_Subset, RateSearchAssumption
<1>2. CountsOf(q).nz = Cardinality(NonZeros(q))
  BY DEF CountsOf
<1> QED
  BY <1>1, <1>2, FS_EmptySet

(* The invariant *)

\* What the emitting loop leaves of a coefficient v that was quantised with the step s.
LeftOf(r, q, v, s) == \/ q = Quantized(v, s)
                      \/ Probed(r) /\ q = 0 /\ Magnitude(Quantized(v, s)) <= MaxQ

\* H and V of a level have one step, now and in the best pass.
TriplesShare == \A r \in Bands : r.band = 2 =>
  /\ step[Sibling(r, 1)] = step[r]
  /\ best # <<>> => best[Sibling(r, 1)] = best[r]

\* The counts and the active bands are those of quant, and the groups that were tried in
\* this pass were measured as they are.
CountsHeld == phase # "baseline" =>
  /\ counts = [r \in Bands |-> CountsOf(quant[r])]
  /\ active = {r \in Bands : NonZeros(quant[r]) # {}}
TriedHeld == phase = "groups" =>
  \A g \in Groups : g < group => \A r \in Group(g) :
    measured[r] = IF r \in active THEN Measured(r, quant, step) ELSE <<>>

\* The bands that wait are quantised with their steps; the probe touched only others.
QuantHeld == phase # "baseline" =>
  /\ \A r \in pending : quant[r] = QuantizedBand(raw[r], step[r])
  /\ \A r \in Bands \ pending, x \in Places : LeftOf(r, quant[r][x], raw[r][x], step[r])

\* A parent is emitted before its children, and a chunk is what was emitted.
ChunksHeld ==
  /\ phase # "emit" => pending = Bands
  /\ phase = "adopt" => best # <<>>
  /\ pass > 1 => best # <<>>
  /\ phase \in {"baseline", "restore", "groups"} => pass <= Lambdas
  /\ chunk = [r \in Bands |-> IF r \in active /\ r \notin pending
                               THEN Measured(r, quant, step) ELSE <<>>]
  /\ \A r \in Bands : ParentOf(r) \in pending => r \in pending

IInv == /\ TypeOK /\ TriplesShare /\ CountsHeld /\ TriedHeld /\ QuantHeld /\ ChunksHeld

(* Steps that encode every band *)

LEMMA EncodedAll ==
  ASSUME raw \in Raws, NEW s \in [Bands -> Steps], EncodeAll(s)
  PROVE  /\ step' = s
         /\ quant' \in [Bands -> [Places -> Int]]
         /\ \A r \in Bands : quant'[r] = QuantizedBand(raw[r], s[r])
         /\ counts' = [r \in Bands |-> CountsOf(quant'[r])]
         /\ active' = {r \in Bands : NonZeros(quant'[r]) # {}}
<1>1. /\ step' = s
      /\ quant' = [r \in Bands |-> QuantizedBand(raw[r], s[r])]
      /\ counts' = [r \in Bands |-> CountsOf(quant'[r])]
      /\ active' = {r \in Bands : counts'[r].nz # 0}
  BY DEF EncodeAll
<1>2. ASSUME NEW r \in Bands PROVE QuantizedBand(raw[r], s[r]) \in [Places -> Int]
  <2>1. raw[r] \in [Places -> Int] /\ s[r] \in Steps
    BY RateSearchAssumption
  <2> QED
    BY <2>1, QuantizedTyped
<1>3. ASSUME NEW r \in Bands PROVE counts'[r].nz # 0 <=> NonZeros(quant'[r]) # {}
  <2>1. counts'[r] = CountsOf(quant'[r])
    BY <1>1
  <2> QED
    BY <2>1, CountsOfNz
<1> QED
  BY <1>1, <1>2, <1>3

LEMMA EncodeAllKeeps ==
  ASSUME IInv, NEW s \in [Bands -> Steps], EncodeAll(s),
         \A r \in Bands : r.band = 2 => s[Sibling(r, 1)] = s[r],
         phase # "emit", UNCHANGED <<settings, raw, pass, best, pending, chunk>>,
         phase' \in {"override", "restore", "groups", "emit"},
         phase' \in {"restore", "groups"} => phase \in {"baseline", "restore"},
         group' \in 1 .. 2 * Levels + 3, phase' = "groups" => group' = 1
  PROVE  IInv'
<1>0. raw \in Raws /\ raw' = raw
  BY DEF IInv, TypeOK
<1>1. /\ step' = s
      /\ quant' \in [Bands -> [Places -> Int]]
      /\ \A r \in Bands : quant'[r] = QuantizedBand(raw[r], s[r])
      /\ counts' = [r \in Bands |-> CountsOf(quant'[r])]
      /\ active' = {r \in Bands : NonZeros(quant'[r]) # {}}
  BY <1>0, EncodedAll
<1>2. pending = Bands /\ pending' = Bands
  BY DEF IInv, ChunksHeld
<1>3. TypeOK'
  BY <1>1 DEF IInv, TypeOK
<1>4. TriplesShare'
  BY <1>1 DEF IInv, TriplesShare
<1>5. CountsHeld'
  BY <1>1 DEF CountsHeld
<1>6. TriedHeld'
  BY BandListAssumption DEF TriedHeld, Groups
<1>7. QuantHeld'
  BY <1>0, <1>1, <1>2 DEF QuantHeld
<1>8. ChunksHeld'
  <2>1. chunk = [r \in Bands |-> <<>>]
    BY <1>2 DEF IInv, ChunksHeld
  <2>2. chunk' = [r \in Bands |-> IF r \in active' /\ r \notin pending'
                                  THEN Measured(r, quant', step') ELSE <<>>]
    BY <1>2, <2>1
  <2> QED
    BY <1>2, <2>2 DEF IInv, ChunksHeld
<1> QED
  BY <1>3, <1>4, <1>5, <1>6, <1>7, <1>8 DEF IInv

LEMMA TableShared ==
  /\ [r \in Bands |-> BaseStep(r)] \in [Bands -> Steps]
  /\ \A r \in Bands : r.band = 2 => Sibling(r, 1) \in Bands /\ BaseStep(Sibling(r, 1)) = BaseStep(r)
BY BaseStepTyped, SiblingFields

LEMMA BaselineKeeps == ASSUME IInv, Baseline PROVE IInv'
<1> DEFINE s == [r \in Bands |-> BaseStep(r)]
<1>1. s \in [Bands -> Steps] /\ \A r \in Bands : r.band = 2 => s[Sibling(r, 1)] = s[r]
  BY TableShared
<1>2. EncodeAll(s) /\ phase # "emit" /\ phase' \in {"override", "restore", "emit"} /\ phase = "baseline"
  BY DEF Baseline
<1>3. /\ UNCHANGED <<settings, raw, pass, best, pending, chunk>>
      /\ group' \in 1 .. 2 * Levels + 3
  BY DEF Baseline, IInv, TypeOK
<1> HIDE DEF s
<1> QED
  BY <1>1, <1>2, <1>3, EncodeAllKeeps

LEMMA RestoreKeeps == ASSUME IInv, Restore PROVE IInv'
<1> DEFINE s == [r \in Bands |-> BaseStep(r)]
<1>1. s \in [Bands -> Steps] /\ \A r \in Bands : r.band = 2 => s[Sibling(r, 1)] = s[r]
  BY TableShared
<1>2. EncodeAll(s) /\ phase # "emit" /\ phase' = "groups" /\ phase = "restore"
  BY DEF Restore
<1>3. UNCHANGED <<settings, raw, pass, best, pending, chunk>> /\ group' = 1
  BY DEF Restore
<1>4. group' \in 1 .. 2 * Levels + 3
  BY <1>3, BandListAssumption
<1> HIDE DEF s
<1> QED
  BY <1>1, <1>2, <1>3, <1>4, EncodeAllKeeps

LEMMA AdoptKeeps == ASSUME IInv, Adopt PROVE IInv'
<1>1. best \in [Bands -> Steps] /\ \A r \in Bands : r.band = 2 => best[Sibling(r, 1)] = best[r]
  BY DEF IInv, TypeOK, ChunksHeld, TriplesShare, Adopt
<1>2. EncodeAll(best) /\ phase # "emit" /\ phase' = "emit"
  BY DEF Adopt
<1>3. /\ UNCHANGED <<settings, raw, pass, best, pending, chunk>>
      /\ group' \in 1 .. 2 * Levels + 3
  BY DEF Adopt, IInv, TypeOK
<1> QED
  BY <1>1, <1>2, <1>3, EncodeAllKeeps

LEMMA OverrideKeeps == ASSUME IInv, Override PROVE IInv'
<1>1. PICK given \in SUBSET Groups : \E m \in [given -> Overrides] :
        EncodeAll([r \in Bands |-> IF Grouped(r) /\ GroupOf(r) \in given
                                   THEN Scaled(BaseStep(r), m[GroupOf(r)])
                                   ELSE BaseStep(r)])
  BY DEF Override
<1>2. PICK m \in [given -> Overrides] :
        EncodeAll([r \in Bands |-> IF Grouped(r) /\ GroupOf(r) \in given
                                   THEN Scaled(BaseStep(r), m[GroupOf(r)])
                                   ELSE BaseStep(r)])
  BY <1>1
<1> DEFINE Of(r) == IF Grouped(r) /\ GroupOf(r) \in given
                    THEN Scaled(BaseStep(r), m[GroupOf(r)]) ELSE BaseStep(r)
           s == [r \in Bands |-> Of(r)]
<1>3. ASSUME NEW r \in Bands PROVE Of(r) \in Steps
  <2>1. GroupOf(r) \in given => m[GroupOf(r)] \in Nat
    BY RateSearchAssumption
  <2> QED
    BY <2>1, BaseStepTyped, ScaledTyped
<1>4. ASSUME NEW r \in Bands, r.band = 2 PROVE Sibling(r, 1) \in Bands /\ Of(Sibling(r, 1)) = Of(r)
  BY <1>4, SiblingFields
<1>5. s \in [Bands -> Steps] /\ \A r \in Bands : r.band = 2 => s[Sibling(r, 1)] = s[r]
  <2> HIDE DEF Of
  <2> QED
    BY <1>3, <1>4
<1>6. EncodeAll(s) /\ phase # "emit" /\ phase' = "emit"
  BY <1>2 DEF Override
<1>7. /\ UNCHANGED <<settings, raw, pass, best, pending, chunk>>
      /\ group' \in 1 .. 2 * Levels + 3
  BY DEF Override, IInv, TypeOK
<1> HIDE DEF s
<1> QED
  BY <1>5, <1>6, <1>7, EncodeAllKeeps

(* Steps of a pass *)

LEMMA TryGroupKeeps == ASSUME IInv, TryGroup PROVE IInv'
<1> DEFINE G == Group(group)
<1>1. PICK m \in Multipliers :
        step' = [r \in Bands |-> IF r \in Group(group) THEN Scaled(BaseStep(r), m) ELSE step[r]]
  BY DEF TryGroup
<1>2. /\ phase = "groups" /\ phase' = "groups"
      /\ group \in Groups /\ group' = group + 1
      /\ UNCHANGED <<settings, raw, pass, best, pending, chunk>>
      /\ quant' = [r \in Bands |-> IF r \in G THEN QuantizedBand(raw[r], step'[r]) ELSE quant[r]]
      /\ counts' = [r \in Bands |-> IF r \in G THEN CountsOf(quant'[r]) ELSE counts[r]]
      /\ active' = {r \in Bands : IF r \in G THEN counts'[r].nz # 0 ELSE r \in active}
      /\ measured' = [r \in Bands |-> IF r \notin G THEN measured[r]
                                      ELSE IF r \in active' THEN Measured(r, quant', step')
                                      ELSE <<>>]
  BY DEF TryGroup
<1>3. m \in Nat /\ raw \in Raws /\ pending = Bands /\ Levels \in Nat
  BY <1>2, BandListAssumption DEF Multipliers, IInv, TypeOK, ChunksHeld
<1>4. step' \in [Bands -> Steps]
  <2>1. ASSUME NEW r \in Bands PROVE Scaled(BaseStep(r), m) \in Steps
    BY <1>3, BaseStepTyped, ScaledTyped
  <2>2. step \in [Bands -> Steps]
    BY DEF IInv, TypeOK
  <2> QED
    BY <1>1, <2>1, <2>2
<1>5. quant' \in [Bands -> [Places -> Int]]
  <2>1. ASSUME NEW r \in Bands PROVE QuantizedBand(raw[r], step'[r]) \in [Places -> Int]
    <3>1. raw[r] \in [Places -> Int] /\ step'[r] \in Steps
      BY <1>3, <1>4, RateSearchAssumption
    <3> QED
      BY <3>1, QuantizedTyped
  <2>2. quant \in [Bands -> [Places -> Int]]
    BY DEF IInv, TypeOK
  <2> HIDE DEF G
  <2> QED
    BY <1>2, <2>1, <2>2
<1>6. TypeOK'
  <2>1. active' \subseteq Bands
    BY <1>2
  <2>2. group' \in 1 .. 2 * Levels + 3
    BY <1>2, <1>3 DEF Groups
  <2> HIDE DEF G
  <2> QED
    BY <1>2, <1>4, <1>5, <2>1, <2>2 DEF IInv, TypeOK
<1>7. TriplesShare'
  <2>1. ASSUME NEW r \in Bands, r.band = 2
        PROVE  step'[Sibling(r, 1)] = step'[r]
    <3>1. /\ Sibling(r, 1) \in Bands /\ BaseStep(Sibling(r, 1)) = BaseStep(r)
          /\ Sibling(r, 1) \in Group(group) <=> r \in Group(group)
      BY <1>2, <2>1, SiblingFields DEF Group
    <3>2. step[Sibling(r, 1)] = step[r]
      BY <2>1 DEF IInv, TriplesShare
    <3> QED
      BY <1>1, <3>1, <3>2
  <2> QED
    BY <1>2, <2>1 DEF IInv, TriplesShare
<1>8. CountsHeld'
  <2>1. /\ counts = [r \in Bands |-> CountsOf(quant[r])]
        /\ active = {r \in Bands : NonZeros(quant[r]) # {}}
    BY <1>2 DEF IInv, CountsHeld
  <2> HIDE DEF G
  <2>2. ASSUME NEW r \in Bands PROVE counts'[r] = CountsOf(quant'[r])
    BY <1>2, <2>1
  <2>3. ASSUME NEW r \in Bands PROVE r \in active' <=> NonZeros(quant'[r]) # {}
    <3>1. CASE r \in G
      BY <1>2, <2>2, <3>1, CountsOfNz
    <3>2. CASE r \notin G
      BY <1>2, <2>1, <3>2
    <3> QED
      BY <3>1, <3>2
  <2>4. active' = {r \in Bands : NonZeros(quant'[r]) # {}}
    BY <1>2, <2>3
  <2>5. counts' = [r \in Bands |-> CountsOf(quant'[r])]
    BY <1>2, <2>2
  <2> QED
    BY <2>4, <2>5 DEF CountsHeld
<1>9. TriedHeld'
  <2> SUFFICES ASSUME NEW g \in Groups, g < group', NEW r \in Group(g)
               PROVE  measured'[r] = IF r \in active' THEN Measured(r, quant', step') ELSE <<>>
    BY DEF TriedHeld
  <2>1. r \in Bands
    BY DEF Group
  <2>2. CASE g = group
    <3>1. r \in G
      BY <2>2
    <3> HIDE DEF G
    <3> QED
      BY <1>2, <2>1, <3>1
  <2>3. CASE g < group
    <3>1. r \notin G /\ ParentOf(r) \notin G /\ ParentOf(r) \in Bands
      BY <1>2, <2>1, <2>3, LaterGroup, ParentFields
    <3>2. measured[r] = IF r \in active THEN Measured(r, quant, step) ELSE <<>>
      BY <1>2, <2>3 DEF IInv, TriedHeld
    <3>3. measured'[r] = measured[r] /\ (r \in active' <=> r \in active)
      <4> HIDE DEF G
      <4> QED
        BY <1>2, <2>1, <3>1
    <3>4. /\ quant'[r] = quant[r] /\ quant'[ParentOf(r)] = quant[ParentOf(r)]
          /\ step'[r] = step[r] /\ step'[ParentOf(r)] = step[ParentOf(r)]
      BY <1>1, <1>2, <2>1, <3>1
    <3>5. Measured(r, quant', step') = Measured(r, quant, step)
      BY <3>4 DEF Measured
    <3> QED
      BY <3>2, <3>3, <3>5
  <2> QED
    BY <1>2, <1>3, <2>2, <2>3 DEF Groups
<1>10. QuantHeld'
  <2>1. \A r \in Bands : quant[r] = QuantizedBand(raw[r], step[r])
    BY <1>2, <1>3 DEF IInv, QuantHeld
  <2>2. ASSUME NEW r \in Bands PROVE quant'[r] = QuantizedBand(raw'[r], step'[r])
    <3> HIDE DEF G
    <3>1. CASE r \in G
      BY <1>2, <3>1
    <3>2. CASE r \notin G
      BY <1>1, <1>2, <2>1, <3>2 DEF G
    <3> QED
      BY <3>1, <3>2
  <2> QED
    BY <1>2, <1>3, <2>2 DEF QuantHeld
<1>11. ChunksHeld'
  <2>1. chunk = [r \in Bands |-> <<>>]
    BY <1>3 DEF IInv, ChunksHeld
  <2>2. chunk' = [r \in Bands |-> IF r \in active' /\ r \notin pending'
                                  THEN Measured(r, quant', step') ELSE <<>>]
    <3>1. chunk' = [r \in Bands |-> <<>>] /\ pending' = Bands
      BY <1>2, <1>3, <2>1
    <3> QED
      BY <3>1
  <2>3. /\ phase' # "emit" => pending' = Bands
        /\ phase' = "adopt" => best' # <<>>
        /\ pass' > 1 => best' # <<>>
        /\ phase' \in {"baseline", "restore", "groups"} => pass' <= Lambdas
        /\ \A r \in Bands : ParentOf(r) \in pending' => r \in pending'
    BY <1>2, <1>3 DEF IInv, ChunksHeld
  <2> QED
    BY <2>2, <2>3 DEF ChunksHeld
<1> QED
  BY <1>6, <1>7, <1>8, <1>9, <1>10, <1>11 DEF IInv

LEMMA SkipGroupKeeps == ASSUME IInv, SkipGroup PROVE IInv'
<1>1. /\ phase = "groups" /\ group \in Groups /\ Group(group) = {} /\ group' = group + 1
      /\ UNCHANGED <<phase, settings, raw, step, quant, counts, active, measured, pass,
                     best, pending, chunk>>
  BY DEF SkipGroup
<1>2. group' \in 1 .. 2 * Levels + 3
  BY <1>1, BandListAssumption DEF Groups
<1>3. TypeOK' /\ TriplesShare' /\ CountsHeld' /\ QuantHeld'
  <2>1. TypeOK'
    BY <1>1, <1>2 DEF IInv, TypeOK
  <2>2. TriplesShare' /\ CountsHeld'
    BY <1>1 DEF IInv, TriplesShare, CountsHeld
  <2>3. QuantHeld'
    BY <1>1 DEF IInv, QuantHeld, LeftOf, Probed
  <2> QED
    BY <2>1, <2>2, <2>3
<1>4. ChunksHeld'
  BY <1>1 DEF IInv, ChunksHeld
<1>5. TriedHeld'
  <2>1. ASSUME NEW g \in Groups, g < group', NEW r \in Group(g)
        PROVE  measured'[r] = IF r \in active' THEN Measured(r, quant', step') ELSE <<>>
    <3>1. g < group
      BY <1>1, <2>1, BandListAssumption DEF Groups
    <3> QED
      BY <1>1, <3>1 DEF IInv, TriedHeld
  <2> QED
    BY <2>1 DEF TriedHeld
<1> QED
  BY <1>3, <1>4, <1>5 DEF IInv

LEMMA EndPassKeeps == ASSUME IInv, EndPass PROVE IInv'
<1>1. /\ phase = "groups" /\ phase' \in {"adopt", "restore"}
      /\ best' = step \/ (best # <<>> /\ best' = best)
      /\ pass' = pass + 1
      /\ pass = Lambdas => phase' = "adopt"
      /\ UNCHANGED <<settings, raw, step, quant, counts, active, measured, group, pending, chunk>>
  BY DEF EndPass
<1>2. best' \in [Bands -> Steps] /\ step \in [Bands -> Steps]
  BY <1>1 DEF IInv, TypeOK
<1>3. best' # <<>>
  <2>1. Bands # {}
    BY BaseMade, BandListAssumption
  <2>2. DOMAIN best' # {}
    BY <1>2, <2>1
  <2> QED
    BY <2>2
<1>4. pass \in Nat /\ pass >= 1 /\ pass <= Lambdas /\ Lambdas \in Nat
  BY <1>1, RateSearchAssumption DEF IInv, TypeOK, ChunksHeld
<1>5. TypeOK'
  BY <1>1, <1>2, <1>4 DEF IInv, TypeOK
<1>6. TriplesShare' /\ CountsHeld' /\ TriedHeld' /\ QuantHeld'
  BY <1>1, SMTT(30) DEF IInv, TriplesShare, CountsHeld, TriedHeld, QuantHeld, LeftOf, Probed
<1>7. ChunksHeld'
  BY <1>1, <1>3, <1>4 DEF IInv, ChunksHeld
<1> QED
  BY <1>5, <1>6, <1>7 DEF IInv

(* Steps of the emitting loop *)

\* The band whose turn it is is nobody's parent that waits with it: its own parent is done.
LEMMA ParentStays ==
  ASSUME NEW P \in SUBSET Bands, NEW r \in P, \A s \in P \ {r} : Before(r, s),
         \A s \in Bands : ParentOf(s) \in P => s \in P,
         NEW s \in Bands, ParentOf(s) \in P \ {r}
  PROVE  s \in P \ {r}
<1>1. s \in P
  OBVIOUS
<1>2. ASSUME s = r PROVE FALSE
  <2>1. Before(r, ParentOf(r)) /\ ParentOf(r) # r
    BY <1>2
  <2>2. r.layer # 0 /\ ParentOf(r).layer = r.layer - 1 /\ r.layer \in Nat
    BY <2>1, ParentFields, BandFields
  <2> QED
    BY <2>1, <2>2 DEF Before
<1> QED
  BY <1>1, <1>2

LEMMA SkipInactiveKeeps ==
  ASSUME IInv, NEW r \in Bands, SkipInactive(r)
  PROVE  IInv'
<1>1. /\ phase = "emit" /\ r \in pending /\ r \notin active
      /\ \A s \in pending \ {r} : Before(r, s)
      /\ pending' = pending \ {r}
      /\ UNCHANGED <<phase, settings, raw, step, quant, counts, active, measured, pass, group,
                     best, chunk>>
  BY DEF SkipInactive, Turn
<1>2. TypeOK' /\ TriplesShare' /\ CountsHeld' /\ TriedHeld'
  BY <1>1 DEF IInv, TypeOK, TriplesShare, CountsHeld, TriedHeld
<1>3. QuantHeld'
  <2>1. \A s \in pending : quant[s] = QuantizedBand(raw[s], step[s])
    BY <1>1 DEF IInv, QuantHeld
  <2>2. \A x \in Places : quant[r][x] = Quantized(raw[r][x], step[r])
    BY <1>1, <2>1 DEF QuantizedBand
  <2> QED
    BY <1>1, <2>1, <2>2 DEF IInv, QuantHeld, LeftOf, Probed
<1>4. ChunksHeld'
  <2>1. chunk = [s \in Bands |-> IF s \in active /\ s \notin pending
                                THEN Measured(s, quant, step) ELSE <<>>]
    BY DEF IInv, ChunksHeld
  <2>2. chunk' = [s \in Bands |-> IF s \in active' /\ s \notin pending'
                                 THEN Measured(s, quant', step') ELSE <<>>]
    BY <1>1, <2>1
  <2>3. ASSUME NEW s \in Bands, ParentOf(s) \in pending' PROVE s \in pending'
    <3>1. /\ pending \in SUBSET Bands
          /\ \A t \in Bands : ParentOf(t) \in pending => t \in pending
      BY DEF IInv, TypeOK, ChunksHeld
    <3> QED
      BY <1>1, <2>3, <3>1, ParentStays
  <2> QED
    BY <1>1, <2>2, <2>3 DEF IInv, ChunksHeld
<1> QED
  BY <1>2, <1>3, <1>4 DEF IInv

LEMMA EmitKeeps ==
  ASSUME IInv, NEW r \in Bands, Emit(r)
  PROVE  IInv'
<1>1. PICK q \in Remains(r) :
        /\ quant' = [quant EXCEPT ![r] = q]
        /\ counts' = [counts EXCEPT ![r] = CountsOf(q)]
        /\ IF counts'[r].nz = 0
           THEN active' = active \ {r} /\ UNCHANGED chunk
           ELSE chunk' = [chunk EXCEPT ![r] = Measured(r, quant', step)] /\ UNCHANGED active
  BY DEF Emit
<1>2. /\ phase = "emit" /\ r \in pending /\ r \in active
      /\ \A s \in pending \ {r} : Before(r, s)
      /\ pending' = pending \ {r}
      /\ UNCHANGED <<phase, settings, raw, step, measured, pass, group, best>>
  BY DEF Emit, Turn
<1>3. /\ quant \in [Bands -> [Places -> Int]] /\ step \in [Bands -> Steps]
      /\ raw \in Raws /\ active \subseteq Bands
  BY DEF IInv, TypeOK
<1>4. quant[r] = QuantizedBand(raw[r], step[r])
  BY <1>2 DEF IInv, QuantHeld
<1>5. q \in [Places -> Int] /\ \A x \in Places : LeftOf(r, q[x], raw[r][x], step[r])
  <2>1. CASE Probed(r)
    <3>1. PICK zeroed \in SUBSET {x \in Places : Magnitude(quant[r][x]) <= MaxQ} :
            q = [x \in Places |-> IF x \in zeroed THEN 0 ELSE quant[r][x]]
      BY <1>1, <2>1 DEF Remains
    <3>2. q \in [Places -> Int]
      BY <1>3, <3>1
    <3>3. ASSUME NEW x \in Places PROVE LeftOf(r, q[x], raw[r][x], step[r])
      <4>1. quant[r][x] = Quantized(raw[r][x], step[r])
        BY <1>4 DEF QuantizedBand
      <4> QED
        BY <2>1, <3>1, <4>1 DEF LeftOf
    <3> QED
      BY <3>2, <3>3
  <2>2. CASE ~Probed(r)
    <3>1. q = quant[r]
      BY <1>1, <2>2 DEF Remains
    <3>2. \A x \in Places : q[x] = Quantized(raw[r][x], step[r])
      BY <1>4, <3>1 DEF QuantizedBand
    <3> QED
      BY <1>3, <3>1, <3>2 DEF LeftOf
  <2> QED
    BY <2>1, <2>2
<1>6. /\ quant' \in [Bands -> [Places -> Int]] /\ quant'[r] = q
      /\ \A s \in Bands : s # r => quant'[s] = quant[s]
  BY <1>1, <1>3, <1>5
<1>7. /\ counts = [s \in Bands |-> CountsOf(quant[s])]
      /\ active = {s \in Bands : NonZeros(quant[s]) # {}}
  BY <1>2 DEF IInv, CountsHeld
<1>8. TypeOK'
  <2>1. active' \subseteq Bands
    BY <1>1, <1>3
  <2> QED
    BY <1>2, <1>6, <2>1 DEF IInv, TypeOK
<1>9. TriplesShare' /\ TriedHeld'
  BY <1>2 DEF IInv, TriplesShare, TriedHeld
<1>10. /\ \A s \in Bands : counts'[s] = CountsOf(quant'[s])
       /\ active' = {s \in Bands : NonZeros(quant'[s]) # {}}
  <2>1. counts' = [s \in Bands |-> CountsOf(quant'[s])]
    BY <1>1, <1>6, <1>7
  <2>2. r \in active' <=> NonZeros(quant'[r]) # {}
    BY <1>1, <1>2, <2>1, CountsOfNz
  <2>3. \A s \in Bands : s # r => (s \in active' <=> s \in active)
    BY <1>1
  <2>4. active' \subseteq Bands
    BY <1>1, <1>3
  <2>5. \A s \in Bands : s \in active' <=> NonZeros(quant'[s]) # {}
    BY <1>6, <1>7, <2>2, <2>3
  <2> QED
    BY <2>1, <2>4, <2>5
<1>11. CountsHeld'
  <2>1. counts' = [s \in Bands |-> CountsOf(quant'[s])]
    BY <1>1, <1>6, <1>7
  <2> QED
    BY <1>10, <2>1 DEF CountsHeld
<1>12. QuantHeld'
  <2>1. /\ \A s \in pending : quant[s] = QuantizedBand(raw[s], step[s])
        /\ \A s \in Bands \ pending, x \in Places : LeftOf(s, quant[s][x], raw[s][x], step[s])
    BY <1>2 DEF IInv, QuantHeld
  <2>2. ASSUME NEW s \in pending' PROVE quant'[s] = QuantizedBand(raw'[s], step'[s])
    <3>1. s \in Bands /\ s # r /\ s \in pending
      BY <1>2 DEF IInv, TypeOK
    <3> QED
      BY <1>2, <1>6, <2>1, <3>1
  <2>3. ASSUME NEW s \in Bands \ pending', NEW x \in Places
        PROVE  LeftOf(s, quant'[s][x], raw'[s][x], step'[s])
    <3>1. CASE s = r
      BY <1>2, <1>5, <1>6, <3>1
    <3>2. CASE s # r
      BY <1>2, <1>6, <2>1, <3>2
    <3> QED
      BY <3>1, <3>2
  <2>4. \A s : Probed(s)' <=> Probed(s)
    BY <1>2 DEF Probed
  <2>5. \A s \in Bands \ pending', x \in Places : LeftOf(s, quant[s][x], raw[s][x], step[s])'
    BY <2>3, <2>4 DEF LeftOf
  <2> QED
    BY <2>2, <2>5 DEF QuantHeld
<1>13. ChunksHeld'
  <2>1. /\ chunk = [s \in Bands |-> IF s \in active /\ s \notin pending
                                   THEN Measured(s, quant, step) ELSE <<>>]
        /\ pending \in SUBSET Bands
        /\ \A s \in Bands : ParentOf(s) \in pending => s \in pending
    BY DEF IInv, TypeOK, ChunksHeld
  <2>2. ASSUME NEW s \in Bands, s \notin pending
        PROVE  Measured(s, quant', step') = Measured(s, quant, step)
    <3>1. ParentOf(s) \in Bands /\ ParentOf(s) # r /\ s # r
      BY <1>2, <2>1, <2>2, ParentFields
    <3> QED
      BY <1>2, <1>6, <3>1 DEF Measured
  <2>3. DOMAIN chunk' = Bands
    BY <1>1, <2>1
  <2>4. ASSUME NEW s \in Bands, s # r
        PROVE  chunk'[s] = IF s \in active' /\ s \notin pending'
                           THEN Measured(s, quant', step') ELSE <<>>
    <3>1. chunk'[s] = chunk[s] /\ (s \in active' <=> s \in active)
          /\ (s \in pending' <=> s \in pending)
      BY <1>1, <1>2, <2>1, <2>4
    <3> QED
      BY <2>1, <2>2, <3>1
  <2>5. chunk'[r] = IF r \in active' /\ r \notin pending'
                    THEN Measured(r, quant', step') ELSE <<>>
    BY <1>1, <1>2, <2>1
  <2>6. chunk' = [s \in Bands |-> IF s \in active' /\ s \notin pending'
                                 THEN Measured(s, quant', step') ELSE <<>>]
    <3>1. \A s \in Bands : chunk'[s] = IF s \in active' /\ s \notin pending'
                                      THEN Measured(s, quant', step') ELSE <<>>
      BY <2>4, <2>5
    <3>2. chunk' = [s \in Bands |-> chunk'[s]]
      BY <1>1, <2>1
    <3> QED
      BY <3>1, <3>2
  <2>7. ASSUME NEW s \in Bands, ParentOf(s) \in pending' PROVE s \in pending'
    BY <1>2, <2>1, <2>7, ParentStays
  <2> QED
    BY <1>2, <2>6, <2>7 DEF IInv, ChunksHeld
<1> QED
  BY <1>8, <1>9, <1>11, <1>12, <1>13 DEF IInv

(* The theorems *)

LEMMA InitHolds == ASSUME Init PROVE IInv
<1>1. TypeOK
  <2>1. step \in [Bands -> Steps] /\ quant \in [Bands -> [Places -> Int]]
    BY BaseStepTyped, RateSearchAssumption DEF Init
  <2>2. pass \in 1 .. Lambdas + 1 /\ group \in 1 .. 2 * Levels + 3
    BY RateSearchAssumption, BandListAssumption DEF Init
  <2> QED
    BY <2>1, <2>2 DEF Init, TypeOK
<1>2. TriplesShare
  BY TableShared DEF Init, TriplesShare
<1>3. CountsHeld /\ TriedHeld /\ QuantHeld
  BY DEF Init, CountsHeld, TriedHeld, QuantHeld
<1>4. ChunksHeld
  BY RateSearchAssumption DEF Init, ChunksHeld
<1> QED
  BY <1>1, <1>2, <1>3, <1>4 DEF IInv

LEMMA StutterKeeps == ASSUME IInv, UNCHANGED vars PROVE IInv'
<1>1. TypeOK' /\ TriplesShare' /\ CountsHeld' /\ TriedHeld' /\ ChunksHeld'
  BY DEF vars, IInv, TypeOK, TriplesShare, CountsHeld, TriedHeld, ChunksHeld
<1>2. QuantHeld'
  BY DEF vars, IInv, QuantHeld, LeftOf, Probed
<1> QED
  BY <1>1, <1>2 DEF IInv

\* The invariant of the search and of the emitting loop is inductive.
THEOREM Invariance == Spec => []IInv
<1>1. Init => IInv
  BY InitHolds
<1>2. IInv /\ [Next]_vars => IInv'
  BY BaselineKeeps, OverrideKeeps, RestoreKeeps, TryGroupKeeps, SkipGroupKeeps, EndPassKeeps,
     AdoptKeeps, SkipInactiveKeeps, EmitKeeps, StutterKeeps DEF Next
<1> QED
  BY <1>1, <1>2, PTL DEF Spec

\* Steps stay positive and within 16 bits, whatever the table and the multipliers.
THEOREM TypeCorrect == Spec => []TypeOK
<1>1. IInv => TypeOK
  BY DEF IInv
<1> QED
  BY <1>1, Invariance, PTL

\* No candidate leaves an array of the search behind: counts and active bands are those of
\* the quantised bands, and a pass is judged by fresh measurements.
THEOREM StaysCommitted == Spec => []Committed
<1>1. ASSUME IInv PROVE Committed
  <2> SUFFICES ASSUME phase # "baseline" PROVE Committed
    BY DEF Committed
  <2>1. /\ \A r \in Bands : counts[r] = CountsOf(quant[r])
        /\ active = {r \in Bands : NonZeros(quant[r]) # {}}
    BY <1>1 DEF IInv, CountsHeld
  <2>2. ASSUME phase = "groups", group \notin Groups, NEW g \in Groups, NEW r \in Group(g)
        PROVE  measured[r] = IF r \in active THEN Measured(r, quant, step) ELSE <<>>
    <3>1. g < group
      BY <1>1, <2>2, BandListAssumption DEF IInv, TypeOK, Groups
    <3> QED
      BY <1>1, <2>2, <3>1 DEF IInv, TriedHeld
  <2> QED
    BY <2>1, <2>2 DEF Committed
<1> QED
  BY <1>1, Invariance, PTL

\* What the invariant says of a band that has been passed.
LEMMA Passed ==
  ASSUME IInv, phase = "emit", NEW r \in Bands \ pending
  PROVE  /\ Emitted(r) <=> r \in active
         /\ Emitted(r) => chunk[r] = Measured(r, quant, step) /\ StepRead(r) = step[r]
         /\ Received(r) = [x \in Places |-> Dequantized(quant[r][x], step[r])]
<1>1. /\ chunk = [s \in Bands |-> IF s \in active /\ s \notin pending
                                 THEN Measured(s, quant, step) ELSE <<>>]
      /\ active = {s \in Bands : NonZeros(quant[s]) # {}}
      /\ step \in [Bands -> Steps] /\ quant \in [Bands -> [Places -> Int]]
  BY DEF IInv, TypeOK, ChunksHeld, CountsHeld
<1>2. ASSUME NEW s \in Bands
      PROVE  /\ Emitted(s) <=> s \in active /\ s \notin pending
             /\ Emitted(s) => chunk[s] = Measured(s, quant, step) /\ chunk[s][2] = step[s]
  <2>1. Measured(s, quant, step) # <<>> /\ Measured(s, quant, step)[2] = step[s]
    BY DEF Measured
  <2> QED
    BY <1>1, <2>1 DEF Emitted
<1>3. Emitted(r) => StepRead(r) = step[r]
  <2>1. CASE r.band = 2
    <3>1. Sibling(r, 1) \in Bands /\ step[Sibling(r, 1)] = step[r]
      BY <2>1, SiblingFields DEF IInv, TriplesShare
    <3> QED
      BY <1>2, <3>1 DEF StepRead
  <2>2. CASE r.band # 2
    BY <1>2, <2>2 DEF StepRead
  <2> QED
    BY <2>1, <2>2
<1>4. ASSUME NEW x \in Places
      PROVE  (IF Emitted(r) THEN Dequantized(chunk[r][1][x], StepRead(r)) ELSE 0)
               = Dequantized(quant[r][x], step[r])
  <2>1. CASE Emitted(r)
    <3>1. chunk[r][1] = quant[r]
      BY <1>2, <2>1 DEF Measured
    <3> QED
      BY <1>3, <2>1, <3>1
  <2>2. CASE ~Emitted(r)
    <3>1. quant[r][x] = 0
      BY <1>1, <1>2, <2>2 DEF NonZeros
    <3>2. step[r] \in Nat
      BY <1>1, StepsPositive
    <3> QED
      BY <2>2, <3>1, <3>2 DEF Dequantized
  <2> QED
    BY <2>1, <2>2
<1> QED
  BY <1>2, <1>3, <1>4 DEF Received

\* The encoder's parent is the decoder's, scaled as the decoder scales it, for every band
\* of every stream: the condition under which both sides choose the same contexts.
THEOREM ParentsAsReceived == Spec => []CodedAgainstReceived
<1>1. ASSUME IInv PROVE CodedAgainstReceived
  <2> SUFFICES ASSUME NEW r \in Bands, Emitted(r)
               PROVE  /\ StepRead(r) = chunk[r][2]
                      /\ r.layer > 0 =>
                           Received(ParentOf(r)) =
                             [x \in Places |-> Dequantized(chunk[r][3][x], chunk[r][4])]
    BY DEF CodedAgainstReceived
  <2>1. r \notin pending /\ phase = "emit"
    BY <1>1 DEF IInv, ChunksHeld, Emitted
  <2>2. ParentOf(r) \in Bands \ pending
    BY <1>1, <2>1, ParentFields DEF IInv, ChunksHeld
  <2>3. chunk[r] = Measured(r, quant, step) /\ StepRead(r) = step[r]
    BY <1>1, <2>1, Passed
  <2>4. Received(ParentOf(r)) =
          [x \in Places |-> Dequantized(quant[ParentOf(r)][x], step[ParentOf(r)])]
    BY <1>1, <2>1, <2>2, Passed
  <2>5. /\ chunk[r][2] = step[r]
        /\ chunk[r][3] = quant[ParentOf(r)]
        /\ chunk[r][4] = step[ParentOf(r)]
    BY <2>3 DEF Measured
  <2> QED
    BY <2>3, <2>4, <2>5
<1> QED
  BY <1>1, Invariance, PTL

\* The error of one coefficient.
LEMMA LeftClose ==
  ASSUME NEW r \in Bands, NEW v \in Int, NEW s \in Steps, NEW q \in Int, LeftOf(r, q, v, s)
  PROVE  Magnitude(2 * (Dequantized(q, s) - v)) <= s * (IF Probed(r) THEN 2 * MaxQ + 1 ELSE 1)
<1> DEFINE k == Quantized(v, s)
<1>1. /\ s \in Nat \ {0} /\ MaxQ \in Nat /\ k \in Int
  BY StepsPositive, QuantizedInt, RateSearchAssumption
<1>2. /\ 2 * (v - k * s) <= s /\ 2 * (k * s - v) <= s
  BY <1>1, ErrorAtMostHalfAStep DEF Restored, Dequantized
<1> HIDE DEF k
<1>3. s * (2 * MaxQ + 1) = 2 * (s * MaxQ) + s /\ s * MaxQ \in Nat /\ k * s \in Int
  BY <1>1
<1>4. CASE q = k
  BY <1>1, <1>2, <1>3, <1>4 DEF Magnitude, Dequantized
<1>5. CASE Probed(r) /\ q = 0 /\ Magnitude(k) <= MaxQ
  <2>1. k <= MaxQ /\ -k <= MaxQ
    BY <1>1, <1>5 DEF Magnitude
  <2>2. k * s <= s * MaxQ /\ -(k * s) <= s * MaxQ
    <3>1. s * (MaxQ - k) >= 0 /\ s * (MaxQ + k) >= 0
      <4>1. MaxQ - k \in Nat /\ MaxQ + k \in Nat
        BY <1>1, <2>1
      <4>2. \A n \in Nat : s * n >= 0
        BY <1>1
      <4> QED
        BY <4>1, <4>2
    <3>2. /\ s * (MaxQ - k) = s * MaxQ - k * s
          /\ s * (MaxQ + k) = s * MaxQ + k * s
      BY <1>1
    <3> QED
      BY <1>3, <3>1, <3>2
  <2>3. Dequantized(q, s) = 0
    BY <1>1, <1>5 DEF Dequantized
  <2> QED
    BY <1>1, <1>2, <1>3, <1>5, <2>2, <2>3 DEF Magnitude
<1> QED
  BY <1>4, <1>5 DEF LeftOf, k

\* Every coefficient reaches the decoder within half the step of its band, however the
\* steps were found.  This is the assumption that Pyramid makes of what it is delivered.
THEOREM ErrorBounded == Spec => []WithinHalfAStep
<1>1. ASSUME IInv PROVE WithinHalfAStep
  <2> SUFFICES ASSUME phase = "emit", NEW r \in Bands \ pending, NEW x \in Places
               PROVE  Magnitude(2 * (Received(r)[x] - raw[r][x]))
                        <= step[r] * (IF Probed(r) THEN 2 * MaxQ + 1 ELSE 1)
    BY DEF WithinHalfAStep
  <2>1. Received(r)[x] = Dequantized(quant[r][x], step[r])
    BY <1>1, Passed
  <2>2. LeftOf(r, quant[r][x], raw[r][x], step[r])
    BY <1>1 DEF IInv, QuantHeld
  <2>3. raw[r][x] \in Int /\ step[r] \in Steps /\ quant[r][x] \in Int
    BY <1>1, RateSearchAssumption DEF IInv, TypeOK
  <2> QED
    BY <2>1, <2>2, <2>3, LeftClose
<1> QED
  BY <1>1, Invariance, PTL
================================================================================
