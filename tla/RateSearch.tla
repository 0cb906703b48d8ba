-------------------------------- MODULE RateSearch --------------------------------
(***************************************************************************)
(* How encode settles the steps of its bands and turns the bands into      *)
(* chunks: it quantises and codes every band with the steps of the table,  *)
(* may search, group by group and once for each lambda, for steps that     *)
(* spend the same bytes better, quantises everything again with the steps  *)
(* of the best pass, and emits the bands that have a nonzero value from    *)
(* coarse to fine.  Scores are real numbers: any candidate and any pass    *)
(* may turn out the best.  The size of a payload stands as the inputs of   *)
(* the coder that was run to measure it.                                   *)
(***************************************************************************)
EXTENDS BandList, Quantizer, FiniteSetsExt

CONSTANTS Table,        \* steps by <<layer, channel, band is the diagonal one>>
          Overrides,    \* multipliers that BRUSHIE_STEPMUL may give, in hundredths
          Lambdas,      \* the number of passes
          Places,       \* of the coefficients of a band
          Raws,         \* bands before quantisation
          MaxQ,         \* the largest magnitude the grain probe zeroes
          Settings      \* the environment: [search, override, grain, merge : BOOLEAN]

MaxStep == 65535  \* of a std::uint16_t
Steps == 1 .. MaxStep

Tabled == (0 .. Levels) \X (0 .. 3) \X BOOLEAN

ASSUME RateSearchAssumption ==
  /\ Table \in [Tabled -> Steps]
  /\ Overrides \subseteq Nat
  /\ Lambdas \in Nat \ {0}
  /\ IsFiniteSet(Places)
  /\ Raws \subseteq [Bands -> [Places -> Int]]
  /\ MaxQ \in Nat
  /\ Settings \subseteq [search : BOOLEAN, override : BOOLEAN, grain : BOOLEAN, merge : BOOLEAN]

VARIABLES phase,     \* "baseline", "override", "restore", "groups", "adopt" or "emit"
          settings, raw,
          step,      \* chosen_step
          quant,
          counts,    \* nz_list and as_list
          active,    \* the bands marked in band_active
          measured,  \* what each entry of band_bytes was measured from, <<>> for no bytes
          pass, group,
          best,      \* best_steps
          pending,   \* the bands that the emitting loop has not reached
          chunk      \* of each band, <<>> if it has none

vars == <<phase, settings, raw, step, quant, counts, active, measured, pass, group, best,
          pending, chunk>>

\* quant_step and base_quant_step tell only the diagonal band from the other two.
BaseStep(r) == Table[<<r.layer, r.channel, r.band = 3>>]

Smaller(a, b) == IF a < b THEN a ELSE b

\* Mutant: nothing keeps a step within 16 bits.
ScaledUncapped(s, m) == LET n == (2 * s * m + 100) \div 200
                        IN  IF n < 1 THEN 1 ELSE n

\* llround(step * m), at least 1 and at most 65535.
Scaled(s, m) == LET n == (2 * s * m + 100) \div 200
                IN  IF n < 1 THEN 1 ELSE Smaller(MaxStep, n)

\* Mutant: a group takes one detail of each direction that the table tells apart.
GroupedOncePerStep(r) == (r.channel # 3 \/ r.layer = 0) /\ r.band # 2

\* The details of alpha are in no group.
Grouped(r) == r.channel # 3 \/ r.layer = 0

\* Mutant: from the finest layer to the base.
GroupOfFineFirst(r) == 2 * (Levels - r.layer) + (IF r.channel \in {1, 2} THEN 2 ELSE 1)

\* Layer by layer the bands of luma, with the base of alpha, and those of chroma.
GroupOf(r) == 2 * r.layer + (IF r.channel \in {1, 2} THEN 2 ELSE 1)

Group(g) == {r \in Bands : Grouped(r) /\ GroupOf(r) = g}

Groups == 1 .. (2 * Levels + 2)

\* The candidates for a group, in hundredths of the steps of the table.
Multipliers == {89, 100, 112}

Magnitude(q) == IF q < 0 THEN -q ELSE q

NonZeros(q) == {x \in Places : q[x] # 0}

\* What the coder takes its first Rice parameter from.
CountsOf(q) == [nz |-> Cardinality(NonZeros(q)),
                as |-> MapThenSumSet(LAMBDA x : Magnitude(q[x]), Places)]

QuantizedBand(p, s) == [x \in Places |-> Quantized(p[x], s)]

\* The inputs of encode_band_arith for r: the band, its parent and their steps.
Measured(r, q, s) == <<q[r], s[r], q[ParentOf(r)], s[ParentOf(r)]>>

Init == /\ phase = "baseline"
        /\ settings \in Settings
        /\ raw \in Raws
        /\ step = [r \in Bands |-> BaseStep(r)]
        /\ quant = raw
        /\ counts = [r \in Bands |-> [nz |-> 0, as |-> 0]]
        /\ active = {}
        /\ measured = [r \in Bands |-> <<>>]
        /\ pass = 1
        /\ group = 1
        /\ best = <<>>
        /\ pending = Bands
        /\ chunk = [r \in Bands |-> <<>>]

\* quantize_state and encode_state for every band.
EncodeAll(s) ==
  /\ step' = s
  /\ quant' = [r \in Bands |-> QuantizedBand(raw[r], s[r])]
  /\ counts' = [r \in Bands |-> CountsOf(quant'[r])]
  /\ active' = {r \in Bands : counts'[r].nz # 0}
  /\ measured' = [r \in Bands |-> IF r \in active' THEN Measured(r, quant', s) ELSE <<>>]

Baseline ==
  /\ phase = "baseline"
  /\ EncodeAll([r \in Bands |-> BaseStep(r)])
  /\ phase' = IF settings.override THEN "override"
              ELSE IF settings.search /\ active' # {} THEN "restore" ELSE "emit"
  /\ UNCHANGED <<settings, raw, pass, group, best, pending, chunk>>

\* BRUSHIE_STEPMUL gives groups multipliers of their own.
Override ==
  /\ phase = "override"
  /\ \E given \in SUBSET Groups : \E m \in [given -> Overrides] :
       EncodeAll([r \in Bands |-> IF Grouped(r) /\ GroupOf(r) \in given
                                  THEN Scaled(BaseStep(r), m[GroupOf(r)])
                                  ELSE BaseStep(r)])
  /\ phase' = "emit"
  /\ UNCHANGED <<settings, raw, pass, group, best, pending, chunk>>

\* A pass of the search starts from the table.
Restore == /\ phase = "restore"
           /\ EncodeAll([r \in Bands |-> BaseStep(r)])
           /\ group' = 1
           /\ phase' = "groups"
           /\ UNCHANGED <<settings, raw, pass, best, pending, chunk>>

\* The best candidate for a group is committed: its bands are quantised with a multiple of
\* their steps and measured against parents that earlier groups have settled.
TryGroup ==
  /\ phase = "groups"
  /\ group \in Groups
  /\ Group(group) # {}
  /\ \E m \in Multipliers :
       step' = [r \in Bands |-> IF r \in Group(group) THEN Scaled(BaseStep(r), m) ELSE step[r]]
  /\ quant' = [r \in Bands |-> IF r \in Group(group) THEN QuantizedBand(raw[r], step'[r])
                               ELSE quant[r]]
  /\ counts' = [r \in Bands |-> IF r \in Group(group) THEN CountsOf(quant'[r]) ELSE counts[r]]
  /\ active' = {r \in Bands : IF r \in Group(group) THEN counts'[r].nz # 0 ELSE r \in active}
  /\ measured' = [r \in Bands |-> IF r \notin Group(group) THEN measured[r]
                                  ELSE IF r \in active' THEN Measured(r, quant', step')
                                  ELSE <<>>]
  /\ group' = group + 1
  /\ UNCHANGED <<phase, settings, raw, pass, best, pending, chunk>>

SkipGroup == /\ phase = "groups"
             /\ group \in Groups
             /\ Group(group) = {}
             /\ group' = group + 1
             /\ UNCHANGED <<phase, settings, raw, step, quant, counts, active, measured, pass,
                            best, pending, chunk>>

\* The pass whose bytes come closest to the baseline is kept; the first one always is.
EndPass == /\ phase = "groups"
           /\ group \notin Groups
           /\ \/ best' = step
              \/ best # <<>> /\ best' = best
           /\ pass' = pass + 1
           /\ phase' = IF pass = Lambdas THEN "adopt" ELSE "restore"
           /\ UNCHANGED <<settings, raw, step, quant, counts, active, measured, group, pending,
                          chunk>>

\* Mutant: the steps of the best pass, the bands of the last one.
AdoptStepsOnly ==
  /\ phase = "adopt"
  /\ step' = best
  /\ phase' = "emit"
  /\ UNCHANGED <<settings, raw, quant, counts, active, measured, pass, group, best, pending,
                 chunk>>

Adopt == /\ phase = "adopt"
         /\ EncodeAll(best)
         /\ phase' = "emit"
         /\ UNCHANGED <<settings, raw, pass, group, best, pending, chunk>>

--------------------------------------------------------------------------------
(* The emitting loop *)

Turn(r) == /\ phase = "emit"
           /\ r \in pending
           /\ \A s \in pending \ {r} : Before(r, s)

SkipInactive(r) == /\ Turn(r)
                   /\ r \notin active
                   /\ pending' = pending \ {r}
                   /\ UNCHANGED <<phase, settings, raw, step, quant, counts, active, measured,
                                  pass, group, best, chunk>>

\* The grain probe works on the finest details of luma.
Probed(r) == settings.grain /\ r.channel = 0 /\ r.layer = Levels

\* What the probe may leave of a band: blocks of small values are zeroed if they look
\* like noise.
Remains(r) ==
  IF Probed(r) THEN {[x \in Places |-> IF x \in zeroed THEN 0 ELSE quant[r][x]] :
                       zeroed \in SUBSET {x \in Places : Magnitude(quant[r][x]) <= MaxQ}}
               ELSE {quant[r]}

Emit(r) ==
  /\ Turn(r)
  /\ r \in active
  /\ pending' = pending \ {r}
  /\ \E q \in Remains(r) :
       /\ quant' = [quant EXCEPT ![r] = q]
       /\ counts' = [counts EXCEPT ![r] = CountsOf(q)]
       /\ IF counts'[r].nz = 0
          THEN active' = active \ {r} /\ UNCHANGED chunk
          ELSE chunk' = [chunk EXCEPT ![r] = Measured(r, quant', step)] /\ UNCHANGED active
  /\ UNCHANGED <<phase, settings, raw, step, measured, pass, group, best>>

Next == \/ Baseline \/ Override \/ Restore \/ TryGroup \/ SkipGroup \/ EndPass \/ Adopt
        \/ \E r \in Bands : SkipInactive(r) \/ Emit(r)

Spec == Init /\ [][Next]_vars

--------------------------------------------------------------------------------
(* What the decoder makes of the chunks *)

Emitted(r) == chunk[r] # <<>>

\* A merged chunk has one step for H and V: that of H.
StepRead(r) == IF settings.merge /\ r.band = 2 /\ Emitted(Sibling(r, 1))
               THEN chunk[Sibling(r, 1)][2] ELSE chunk[r][2]

Received(r) == [x \in Places |-> IF Emitted(r) THEN Dequantized(chunk[r][1][x], StepRead(r))
                                 ELSE 0]

--------------------------------------------------------------------------------
\* Steps are positive and fit 16 bits, and the loops stay inside their ranges.
TypeOK ==
  /\ phase \in {"baseline", "override", "restore", "groups", "adopt", "emit"}
  /\ settings \in Settings /\ raw \in Raws
  /\ step \in [Bands -> Steps]
  /\ quant \in [Bands -> [Places -> Int]]
  /\ active \subseteq Bands
  /\ pass \in 1 .. Lambdas + 1
  /\ group \in 1 .. 2 * Levels + 3
  /\ best = <<>> \/ best \in [Bands -> Steps]
  /\ pending \subseteq Bands

\* The five arrays of the search stay in step.  Whatever candidates were tried and passes
\* given up, the counts are those of the quantised bands, and a band is active exactly if
\* it has a nonzero value.  When a pass is judged by its bytes, each band of a group was
\* measured as it is now, against its parent as it is now: groups follow each other from
\* coarse to fine.
Committed ==
  phase # "baseline" =>
    /\ \A r \in Bands : counts[r] = CountsOf(quant[r])
    /\ active = {r \in Bands : NonZeros(quant[r]) # {}}
    /\ phase = "groups" /\ group \notin Groups =>
         \A g \in Groups : \A r \in Group(g) :
           measured[r] = IF r \in active THEN Measured(r, quant, step) ELSE <<>>

\* Every chunk is coded against its parent as the decoder has it by then, scaled by the
\* steps the decoder reads: the contexts of a band depend on the products of the two.
CodedAgainstReceived ==
  \A r \in Bands : Emitted(r) =>
    /\ StepRead(r) = chunk[r][2]
    /\ r.layer > 0 =>
         Received(ParentOf(r)) = [x \in Places |-> Dequantized(chunk[r][3][x], chunk[r][4])]

\* However the search ended, each coefficient reaches the decoder within half the step
\* that was chosen for its band, the bands that are not emitted included; the probe may
\* take away MaxQ steps more.
WithinHalfAStep ==
  phase = "emit" =>
    \A r \in Bands \ pending : \A x \in Places :
      LET error == Magnitude(2 * (Received(r)[x] - raw[r][x]))
      IN  error <= step[r] * (IF Probed(r) THEN 2 * MaxQ + 1 ELSE 1)
================================================================================
