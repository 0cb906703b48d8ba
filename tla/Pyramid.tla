--------------------------------- MODULE Pyramid ---------------------------------
(***************************************************************************)
(* One channel of an image, from the plane that encode was given to the    *)
(* plane that decode_v2 shows: a chroma plane may be halved; the plane is  *)
(* split until the base is small enough (build_band_pyramid); the bands    *)
(* are quantised, and a stream or a prefix of it delivers those of the     *)
(* coarsest layers; decode_v2 synthesises all levels, with zeros for the   *)
(* bands it has not got, and widens a halved plane again.  One level is    *)
(* one step here; LevelTransform shows how the workers of parallel_for     *)
(* share it, Container how the bands travel.                               *)
(***************************************************************************)
EXTENDS Resampling, Quantizer, Sequences, FiniteSetsExt

CONSTANTS Sizes,      \* the pairs <<w, h>> of the plane
          Samples,    \* the values of a sample
          Targets,    \* the values of target, the side at which a base is small enough
          BaseSteps,  \* the steps of the base
          Steps       \* the steps [hv, d] of a level: of H and V, and of D

ASSUME PyramidAssumption == /\ Sizes \subseteq (Nat \ {0}) \X (Nat \ {0})
                            /\ Samples \subseteq Int
                            /\ Targets \subseteq Nat
                            /\ BaseSteps \subseteq Nat \ {0}
                            /\ Steps \subseteq [hv : Nat \ {0}, d : Nat \ {0}]

VARIABLES target,
          subsampled, \* the plane is a chroma plane and the quality below 95
          w, h,       \* the size of cur
          cur,        \* the plane being split, then the one being synthesised
          levels,     \* the levels, finest first: their size and detail bands
          phase,      \* "start", "build", "synthesize" or "done"
          missing,    \* the number of finest layers that were not delivered
          ri,         \* the levels still to be synthesised
          shown,      \* the plane that the decoder shows
          given,      \* history: the plane and size that the encoder was given
          before,     \* history: the plane each level was split from
          baseStep,   \* history: the step of the base
          steps,      \* history: the steps of the levels
          allowed     \* history: by how much the steps used so far can change a sample

vars == <<target, subsampled, w, h, cur, levels, phase, missing, ri, shown, given, before,
          baseStep, steps, allowed>>

Init == /\ target \in Targets
        /\ subsampled \in BOOLEAN
        /\ \E s \in Sizes : w = s[1] /\ h = s[2]
        /\ cur \in [Cells(w, h) -> Samples]
        /\ given = [w |-> w, h |-> h, plane |-> cur]
        /\ levels = <<>>
        /\ phase = "start"
        /\ missing = 0
        /\ ri = 0
        /\ shown = <<>>
        /\ before = <<>>
        /\ baseStep = 1
        /\ steps = <<>>
        /\ allowed = 0

Downsample ==
  /\ phase = "start"
  /\ IF subsampled THEN cur' = Halved2x(cur, w, h) /\ w' = Low(w) /\ h' = Low(h)
     ELSE UNCHANGED <<cur, w, h>>
  /\ phase' = "build"
  /\ UNCHANGED <<target, subsampled, levels, missing, ri, shown, given, before, baseStep,
                 steps, allowed>>

\* The condition of the loop of build_band_pyramid.
Large == w > target /\ h > target /\ w > 1 /\ h > 1

\* Mutant: the shorter half of an odd height is kept.
SplitShort ==
  /\ phase = "build"
  /\ Large
  /\ LET p == ForwardLevel(cur, w, h)
     IN  /\ levels' = Append(levels, [w |-> w, h |-> h, detail |-> Detail(p, w, h)])
         /\ cur' = LowBand(p, w, h)
  /\ before' = Append(before, cur)
  /\ w' = Low(w)
  /\ h' = High(h)
  /\ UNCHANGED <<target, subsampled, phase, missing, ri, shown, given, baseStep, steps,
                 allowed>>

Split ==
  /\ phase = "build"
  /\ Large
  /\ LET p == ForwardLevel(cur, w, h)
     IN  /\ levels' = Append(levels, [w |-> w, h |-> h, detail |-> Detail(p, w, h)])
         /\ cur' = LowBand(p, w, h)
  /\ before' = Append(before, cur)
  /\ w' = Low(w)
  /\ h' = Low(h)
  /\ UNCHANGED <<target, subsampled, phase, missing, ri, shown, given, baseStep, steps,
                 allowed>>

\* A band as the decoder has it after quantisation with the given step, and a band that was
\* not delivered, as the decoder allocates it.
RestoredBand(p, step) == [c \in DOMAIN p |-> Restored(p[c], step)]
RestoredDetail(d, s) == [H |-> RestoredBand(d.H, s.hv),
                         V |-> RestoredBand(d.V, s.hv),
                         D |-> RestoredBand(d.D, s.d)]
NoDetail(d) == [b \in {"H", "V", "D"} |-> [c \in DOMAIN d[b] |-> 0]]

\* The base and the layers up to the finest delivered one reach the decoder; layer 1 is
\* the last level.  The rate search may give every layer steps of its own.
Deliver ==
  /\ phase = "build"
  /\ ~Large
  /\ \E n \in 0 .. Len(levels), s \in [1 .. Len(levels) -> Steps] :
       /\ missing' = n
       /\ steps' = s
       /\ levels' = [i \in DOMAIN levels |->
                       [levels[i] EXCEPT !.detail = IF i <= n THEN NoDetail(@)
                                                    ELSE RestoredDetail(@, s[i])]]
  /\ \E b \in BaseSteps :
       /\ baseStep' = b
       /\ cur' = RestoredBand(cur, b)
       /\ allowed' = b \div 2
  /\ ri' = Len(levels)
  /\ phase' = "synthesize"
  /\ UNCHANGED <<target, subsampled, w, h, shown, given, before>>

Synthesize ==
  /\ phase = "synthesize"
  /\ ri > 0
  /\ LET lev == levels[ri]
     IN  /\ cur' = InverseLevel(Packed(cur, lev.detail, lev.w, lev.h), lev.w, lev.h)
         /\ w' = lev.w
         /\ h' = lev.h
  /\ allowed' = LevelError(allowed, steps[ri].hv \div 2, steps[ri].d \div 2)
  /\ ri' = ri - 1
  /\ UNCHANGED <<target, subsampled, levels, phase, missing, shown, given, before, baseStep, steps>>

Finish ==
  /\ phase = "synthesize"
  /\ ri = 0
  /\ IF subsampled
     THEN \E ups \in SUBSET Ties(cur, w, h, given.w, given.h) :
            shown' = Upsampled(cur, w, h, given.w, given.h, ups)
     ELSE shown' = cur
  /\ phase' = "done"
  /\ UNCHANGED <<target, subsampled, w, h, cur, levels, missing, ri, given, before, baseStep,
                 steps, allowed>>

Next == Downsample \/ Split \/ Deliver \/ Synthesize \/ Finish

Spec == Init /\ [][Next]_vars

--------------------------------------------------------------------------------
\* The plane has the size w * h, the levels halve it, and their bands fill the rest; the
\* plane shown has the size of the one that was given.
TypeOK ==
  /\ w \in Nat \ {0} /\ h \in Nat \ {0}
  /\ cur \in [Cells(w, h) -> Int]
  /\ phase \in {"start", "build", "synthesize", "done"}
  /\ missing \in 0 .. Len(levels) /\ ri \in 0 .. Len(levels)
  /\ Len(before) = Len(levels)
  /\ baseStep \in Nat \ {0} /\ allowed \in Nat
  /\ phase = "done" => shown \in [Cells(given.w, given.h) -> Int]
  /\ \A i \in DOMAIN levels :
       /\ levels[i].w \in Nat \ {0, 1} /\ levels[i].h \in Nat \ {0, 1}
       /\ before[i] \in [Cells(levels[i].w, levels[i].h) -> Int]
       /\ levels[i].detail \in [H : [Cells(High(levels[i].w), Low(levels[i].h)) -> Int],
                                V : [Cells(Low(levels[i].w), High(levels[i].h)) -> Int],
                                D : [Cells(High(levels[i].w), High(levels[i].h)) -> Int]]

\* As long as no missing layer has been used, each synthesised plane differs from the plane
\* that build_band_pyramid split by no more than the steps account for.  With steps of 1
\* that is nothing: a prefix shows the image exactly at its own resolution, and the whole
\* stream restores it ("100 is exactly lossless").
PrefixWithin ==
  phase \in {"synthesize", "done"} /\ ri >= missing /\ ri < Len(levels)
    => \A c \in Cells(w, h) : Close(cur[c], before[ri + 1][c], allowed)

Flat(p) == \A c, d \in DOMAIN p : p[c] = p[d]

\* A flat plane has nothing but a base: whatever layers are missing and whatever the steps,
\* it is shown flat, and off by at most half the step of the base.
FlatStaysFlat ==
  phase = "done" /\ levels # <<>> /\ Flat(before[1])
    => Flat(shown) /\ Close(2 * shown[<<0, 0>>], 2 * before[1][<<0, 0>>], baseStep)

\* upsample_plane does not ring (the comment above it rejects a variant that does): what it
\* shows lies between the smallest and the largest decoded sample, with the corners in
\* place.  Nothing rings on the way there either: at quality 100 what is shown lies between
\* the samples that were given, but for the rounding of downsample_2x.
ShownBetween ==
  phase = "done" =>
    /\ \A c \in DOMAIN shown : /\ \E d \in DOMAIN cur : cur[d] <= shown[c]
                               /\ \E d \in DOMAIN cur : cur[d] >= shown[c]
    /\ \A x \in {0, given.w - 1}, y \in {0, given.h - 1} :
         shown[<<x, y>>] = cur[<<IF x = 0 THEN 0 ELSE w - 1, IF y = 0 THEN 0 ELSE h - 1>>]
    /\ missing = 0 /\ allowed = 0 =>
         \A c \in DOMAIN shown :
           /\ \E d \in DOMAIN given.plane : given.plane[d] <= shown[c]
           /\ \E d \in DOMAIN given.plane : given.plane[d] + (IF subsampled THEN 1 ELSE 0) >= shown[c]

\* "2x2 box-average chroma downsample" (codec.cpp:2325): a flat plane is its own average.
BoxAverage ==
  phase = "build" /\ subsampled /\ levels = <<>> /\ Flat(given.plane)
    => \A c \in DOMAIN cur : cur[c] = given.plane[<<0, 0>>]
================================================================================
