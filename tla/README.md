# brushie: specifications, model checks and proofs

brushie is a wavelet image codec: `encode` turns an RGB image into a stream of
layers, `decode` turns a stream, or a prefix of it, back into an image.  The codec
is `src/src/codec.cpp` (4,000 lines) behind `src/include/brushie/codec.hpp`; the
command line, the prototypes and the benchmarks only call it.

This directory holds TLA+ modules of the codec, the TLC runs that check them on
small instances, and proofs, checked by TLAPS, of what matters most.
`PROJECT.json` lists components, runs, mutants, hazards, findings and theorems, and
maps every definition to the lines it was translated from.

    tlc -workers 2 -config MCParallelFor.cfg MCParallelFor.tla   # a run
    tlapm FrameProofs.tla                                        # a proof

## 1. Inventory

| part of the codec | state it keeps | operations | module |
|---|---|---|---|
| `parallel_for` (41-64) | atomic counter, vector of threads | serial loop, spawn, claim, call, join | `ParallelFor`, promise in `ForEach` |
| lifting (35-173) | a line, a plane | `forward_line`, `inverse_line`, `inverse_level` | `Lifting`, `LevelTransform` |
| colour and resampling (175-239, 2326-2378) | pixels and planes | YCoCg-R and back, clamp, `downsample_2x`, `upsample_plane` | `Lifting`, `Resampling` |
| pyramid (2282-2318, 3776-3810) | plane being split, levels and their bands | halve, split, deliver, synthesise, widen | `Pyramid` |
| quantiser (1131-1158, 2216-2240) | a coefficient and its step | `quantize_band`, dequantisation | `Quantizer` |
| geometry (283-288, 2286-2323, 3388-3453) | level counts and sizes on both sides | split loop, header, `walk_shapes`, chroma walk | `Geometry` |
| range coder (444-526) | `low_`, `range_`, `cache_`, pending count; `code_`, `range_` | encode, shift, flush; decode | `BitCoder`, `RangeCoder` |
| rANS coder (561-685) | recorded bits, state, chunks; state, position | record, flush; open, decode | `BitCoder`, `Rans` |
| band coder (714-955, 1160-2215) | contexts, Rice parameter, scan, block flags | `encode_band_arith_impl`, `decode_band_arith_impl`, flat blocks of mode 16 | `BandCoder` |
| rate search, grain probe, emission (2605-3130) | steps, quantised bands, counts, activity, bytes, best pass | quantise and code all, override, search a group, adopt, probe, emit | `RateSearch`, list of bands in `BandList` |
| container (2542-2700, 3121-3235, 3474-3715) | directory, payload; expected offset, cursor | merge, emit, cut; check, skip, decode | `Container` over `BandList`, promise in `Delivery` |
| decoder of version 1, telemetry, command line, prototypes, benchmarks, tests | | | not modelled, section 7 |

**How the parts interact.**  `encode` converts the colours, halves the
chroma planes below quality 95, builds one pyramid per channel (`build_band_pyramid`, whose passes
run on the workers of `parallel_for`), quantises every band, may search for better
steps (off unless `BRUSHIE_RDO` is set), codes each
nonzero band into a section of bytes (`encode_band_arith`, over the rANS coder in streams of
version 7 and over the range coder in those of version 6), merges the three details of a level into one chunk and
writes directory and payload.  `decode_v2` derives the sizes of all bands from
the image size, the level count and the two base sizes, walks the directory,
decodes every section with the parent it has already decoded, synthesises, and widens the chroma planes.
Everything is one call on one thread, except the bodies of `parallel_for`, which share one
plane without a lock.  Nothing is persisted; there are no callbacks, timeouts or
retries.  So the hard behaviours of this code are

* **interleaving**, in `parallel_for` alone: the claims, the calls, the joins, and
  threads that cannot be created or whose body throws;
* **two programs that must mirror each other**: encoder and decoder keep separate copies
  of adaptive models, Rice parameters, contexts, sizes and positions, with nothing in the
  stream to resynchronise them; one stale or reordered update desynchronises all that follows;
* **arrays that must stay in step**: the search keeps steps, quantised bands, counts, activity and measured
  bytes, and replaces them group by group and pass by pass; the probe changes a band after all of these were taken;
* **order**: rANS codes backwards, rows and columns do not commute on integers,
  parents precede children, blocks are coded before their neighbours are;
* **prefixes**: a stream cut behind a layer is legal input and must decode;
* **edges of integers**: carries, window bounds, halves of odd sizes, floor against
  truncation against rounding, lines of two samples.

`PROJECT.json` lists the 40 places where this bites.  Correctness, part by part:

* `parallel_for`: each index exactly once, before the return; no worker alive after it.
* lifting, colour: exact inverse on all integers.
* pyramid and quantiser: any prefix of the layers shows the plane the encoder had at that resolution, to
  within what the steps account for, exactly at quality 100; no ringing from the resampling.
* geometry: the decoder derives the sizes the encoder had, for every image.
* bit coders: bits in, same bits out, the section consumed to its last byte.
* band coder: the decoder asks for each bit in the context it was coded in.
* rate search: what is written with a band is its own, and its contexts are taken from what the decoder has.
* container: every stream and every legal prefix is accepted and holds exactly
  the bands of the requested layers, parents first.

## 2. Modules

One action is one operation, or one turn of a loop, of the code.  Names follow the code
where they can.  Modified copies of a definition (`Mutant:` in its comment) are plausible
mistakes in that operation; every property of a passing run is violated by at least one of
them, and `PROJECT.json` says which.

**`ParallelFor`** -- `caller` and `cursor` are the position and loop variable of the calling
thread, `next` the atomic counter, `worker[t]` and `item[t]` a worker's position and
the index it claimed, `calls[i]` the completed calls of `fn(i)`.  `Claim` is the
`fetch_add`; `Finish` is the end of `fn`, a separate step, so that calls overlap.
`SpawnFails` is a throwing `std::thread` constructor: the vector of joinable threads is destroyed,
which is `std::terminate`; with no thread yet it is an ordinary exception.
`SerialCallFails` and `CallFails` are exceptions of `fn`, in the caller and in a worker.
The module implements **`ForEach`** (an index is applied at most once, the return comes
after all of them), and that promise is all that `LevelTransform` uses.

**`Lifting`** -- the pure arithmetic: `FloorDiv`, `Predicted`, `Update`, `ForwardLine`,
`InverseLine`, rows and columns, the extraction and packing of the four bands,
`ToYCoCg`, `FromYCoCg` and the clamp of `output_rgb` (`Pixel`).

**`LevelTransform`** -- one level, forward then inverse, as four calls of `parallel_for` on a shared
plane.  `Begin(i)` copies a line out, `End(i)` stores the transformed line, `Return` and
`NextPass` are the calling thread.  It composes `Lifting` with `ForEach`.

**`Quantizer`** -- `Quantized` is one coefficient of `quantize_band` (nearest multiple, halves away from zero,
a step of 1 leaves it alone), `Dequantized` the product the decoder forms.

**`Resampling`** -- `Halved2x` is `downsample_2x` with its rounding term and truncating division.  `Upsampled` is
`upsample_plane`: `Place` is the position of a sample between two decoded ones, `Blend` the weights as exact
fractions.  The code computes them as doubles: where the exact value is a half (`Ties`), either rounding is allowed.

**`Pyramid`** -- one channel from the plane given to `encode` to the plane shown.  `Downsample` halves a chroma plane,
`Split` is a turn of the loop of `build_band_pyramid`, `Deliver` quantises with any steps and
stands for a stream or prefix that carries all but the `missing` finest layers, `Synthesize` is a turn of the
synthesis loop, `Finish` widens a halved plane.  History variables remember the plane given, the planes that were split, the steps, and `allowed`:
the bound that the steps used so far put on the error of a sample.  It composes `Lifting`, `Quantizer` and `Resampling`.

**`Geometry`** -- the size arithmetic of both sides: two loops in the encoder, the checks of
the header, and the two different walks in the decoder (by the level count for luma; until
the stored base size is met for subsampled chroma).  No side is longer than `kMaxDimension`, which `encode` enforces.
Its specification is `SizesSpec`, so that one proof module can speak of it and of `ParallelFor`.

**`BitCoder`** -- what the two coders share: the section `out`, the script of contexts and rates that both sides know, the two
models, and `read_byte`, which yields zeros behind the section and counts them.

**`RangeCoder`** (extends `BitCoder`) -- `low`, `range`, `cache`, `cacheSize` of the encoder, with the carry and the run of digits
that wait for it; `code`, `drange`, `pos` of the decoder; both models.  A turn of each renormalisation loop, of `flush` and of
the decoder's constructor is an action.  **`Rans`** (extends `BitCoder`) --
the recorded bits, the state, the chunks, `flush` in reverse, both layouts of the final state, the decoder.
In both, the word size is scaled: `ByteBase` stands for 256, `M` or `P` for the scale of the
probabilities, and all other bounds are derived from them as in the code.  `trace` and `models` are history
variables that remember the encoder's states; in `RangeCoder`, `total` is `low_` as it would be if no digit ever left
it, and `path` has `total`, the range and the number of digits shifted out after every step.  The names of `RangeCoder`'s
actions begin with `Range` where `Rans` has an action of the same name, so that one module can speak of both.

**`BandCoder`** -- one band from its coefficients to bits and back.  A step is the flags, one coefficient or one flat block of
the encoder, then the same of the decoder; `at` is the position in the scan, `rice` and `valueRice` are the two adapted Rice parameters with their
sums and counts, `flags` is `block_nz` or `flat`, `dest` the decoder's plane.  The bit coder between the two is a list of coded bits, each with its
context and adaptation rate (`trace`, from `read` on).  Contexts, predictions and parameters are operators on a side, `Encoder` or `Decoder`: the
encoder's has the whole band and the quantised parent, the decoder's only what it has decoded and the dequantised parent, so that an operator
which looked too far ahead would break the agreement.  `agree` records whether each bit was asked for in the context it was coded in.  `past` is a history
variable, where the encoder stood before each step; `k0` is the header byte.  What is left uninitialised for base bands in modes 13 and 14 is any value (`Coded`).

**`BandList`** -- the bands of an image, their parents, siblings and the reference order in which they are written.  **`Container`** (extends it) -- the merging loop,
the directory, the cut and the decoding loop with its checks; **`Delivery`** is its promise, bands handed over one by one, a parent before its children.
**`RateSearch`** (extends `BandList` and `Quantizer`) -- the committed steps, counts and measurements, the passes of the search, the overrides, the probe, and the emission of the chunks.

The `MC*` modules give model values; the `*Proofs` modules hold the theorems.

## 3. Runs

| run | states | what it asks | bounds and why they are enough |
|---|---|---|---|
| `parallel_for` | 5,272 | all properties of `ParallelFor`, termination and refinement, with failures of spawn and of `fn` | up to 3 threads, counts 0 to 5, cutoff 3: more threads than indices, as many, fewer, and serial calls occur |
| `level_transform` | 65,408 | that interleaved workers compute the sequential transform and the level is restored | 2x3, 3x2, 3x3, two sample values of both signs and parities, two workers: a line starts while another is in progress, odd and even lines |
| `pyramid` | 157,962 | that every prefix shows the plane of its resolution to within the steps, that flat planes stay flat and nothing rings | 3x3, 4x2, 5x2, 1x4, halved or not; samples -7 and 4; targets 1 and 2: no, one and two levels, odd and even, a side of one; steps of 1, and 4 for the base, 3 and 6 for the details: even, odd, unequal |
| `geometry` | 53,694 | that both sides derive the same sizes | sides on both sides of every power of two at which 32, 64 and requested targets bite, both samplings |
| `rans` | 5,549,804 | that sections decode to the recorded bits and are consumed exactly | 4-valued bytes, probabilities in eighths, 5 bits over 2 contexts and 2 rates, each context starting at one half or at seven eighths: chunks are pushed and states of every size occur |
| `range_coder` | 324,700 | the same, that the decoder has the encoder's ranges, and that carries are absorbed | as above with 4 bits; models start at the code's value or in the middle, so carries run into several waiting digits |
| `band_coder` | 757,324 | that contexts, Rice parameters and scan agree, in detail modes 3 to 15, 17, 18 and 24 and base modes 3, 7 and 16; a detail in mode 16, which looks at no parent, is coded as a base band in it | bands 3x2 and 1x3 over -3, 0, 1, in modes 5, 10 and 11, which have no formula of their own, 2x2, in mode 16 3x3 and 1x3 over -3, 1; parent 2x1, window of 2, blocks of 2: full, skipped, flat and clipped blocks with neighbours of either kind, adaptation of `k`, parents beyond their edge |
| `container` | 671,232 | that streams and prefixes decode to their bands | every set of nonzero bands of two luma layers and one chroma layer, merging on and off, mode 3 and a mode with parents |
| `rate_search` | 252,264 | that the committed arrays stay in step, chunks are coded against what the decoder has, and the error is bounded | two luma layers, one of chroma, and alpha; 3 passes, two coefficients per band around the halves of steps and large; overrides of 0.40 and 20,000, which meet both ends of the range of a step; search, override, probe and merging on and off |

A bound of a model that is not one of the code is a CONSTANT (`MaxThreads`, `MaxSymbols`, `Window`, `Block`, the
sizes and sample sets).  `MaxLevels`, `MaxK`, `NumCtx`, `MaxDimension`, `MaxStep` are the code's own.
Deadlock is not checked: each model is one call, which ends.

Three further runs answer a question with a violation; section 6.

## 4. Fairness

Only `ParallelFor` and `LevelTransform` have liveness properties (`Termination`, `Completes`).
`ParallelFor` assumes weak fairness of the calling thread and of each worker: threads are
preemptive threads of the operating system, which runs every thread that can run, and `fn`
is a pass over one line.  A failure is never required to happen.  No strong fairness is needed:
nothing blocks but `join`, and a worker that has exited stays so.
`LevelTransform` assumes weak fairness of its next-state relation, i.e. that the
program goes on while it can, which `Termination` justifies for each of its calls.

## 5. Proofs

All theorems hold for every value of the constants that the named `ASSUME` of the module
allows.  Liveness is left to TLC.  Recursion is written as functions on an interval or a domain of prefixes, whose existence is proved where a theorem
speaks of their values; induction over the natural numbers is that of a set (`SetInduction`).

**`FrameProofs`** is about the frame in which the levels of a pyramid are transformed.  First `ParallelFor` (assumes `ArgumentsAssumption`).  The invariants are not inductive: a worker
that claims an index needs to know that it has not been run.  `IInv` adds `CallerInv` (which
workers exist at the caller's position, and that those already joined have exited), `SerialInv`, and
`CounterInv`: an index at or above `next` has never been called, one below it has been
called once or is held by a worker, and a worker exits only when `next` has reached `count`.  From it: `TypeCorrect`,
`EveryCallBeforeReturn`, `NoLineShared`, `NoDanglingWorker`; and `Refinement`, that
every step is a step of `ForEach` or leaves its state.  The proof covers
failures too.

Then the sizes, `Geometry` (assumes `GeometryAssumption`: sides up to `MaxDimension`).  Three sequences of sizes are compared: the levels the encoder
split (`Descends`), and the two walks of the decoder, which have found the first levels and stand at the next size (`Walked`).  `Room` bounds the width
left after each halving, so that there are at most 14 levels, below the 16 the header admits.  `SmallStaysSmall` gives that chroma is not deeper than luma.
From the invariant: `SizesTypeCorrect`, `StreamsAccepted`, `SizesAgree`, `ChromaShallower`.

**`ArithmeticProofs`** (about `Lifting` and `Quantizer`, for all integers).  `LineReversible`: the inverse recovers the even samples first, from the
odd details it was given (`EvenUndone`), then the odd ones from those (`OddUndone`); the lemmas
`PredictedReadsEven` and `UpdateReadsOdd` say that nothing else is read, which is why lifting is reversible
whatever the rounding.  `LevelReversible` composes columns and rows in the opposite order; `PackedUndoesExtract`: the four
bands fill the plane without a gap or an overlap, for odd sizes too.
`ColourReversible`, and `PixelRestored`: the clamp does nothing to an exactly decoded pixel.
`LevelClose` is about planes that are not exact: if the bands differ by at most so much, the synthesised level differs by at most
`LevelError`, the bound that the rounding of predictions and updates gives, once along columns and once along rows.
Of the quantiser: `ZeroKept`, `SignSymmetric`, `ErrorAtMostHalfAStep`, and `RestoredIsFixed`: quantising a restored value again changes nothing.

**`LevelTransformProofs`** (assumes `LevelAssumption`), for planes of every size, all samples, any number of threads.  `PassesSequential`
needs three facts that hold while a pass is under way: a line has its new values exactly if its call has ended (`Progress`),
the copy a worker holds is the line the pass started from (`Copies`), and the lines of one pass have no cell in common
(`CellsOnLines`).  The step between two passes cites `LevelReversible`.

**`PyramidProofs`** (assumes `PyramidAssumption`).  `IInv` keeps, besides the types, that the sizes follow from the one that was given (`SizesHeld`), that each level is half of
the one before (`Halved`), that the delivered bands are the encoder's to within half a step (`BandsHeld`), and that the low
band of each level is the plane the next one was split from, to within what is allowed (`LowHeld`).  `PrefixClose` follows: synthesis
undoes `Split` level by level as long as bands are there, and `LevelClose` bounds what the steps do to it.  `Lossless` is its
case with all layers delivered, steps of 1 and no halving.
Two further invariants stand on `IInv`.  `FlatHeld` says that once a flat plane has been split every detail is zero and the plane at hand is
its one value, before quantisation or restored from it: a line of equal samples has itself as low half and zeros as high half (`FlatLine`, then
`FlatBands` for a level), zeros are quantised to zeros, and a flat low band with zeros beside it is synthesised to a flat plane (`FlatSynthesis`).  From it:
`FlatShownFlat`.  `GivenHeld` keeps what the first split plane was made from and how the plane shown was widened, and with it
`NothingRings` is a statement about the two resamplings: every sample `upsample_plane` writes is a weighted mean of at most four decoded ones, so it lies between the least and
the greatest of them however halves are rounded (`MixBetween`, `RoundedBetween`, `UpsampledBetween`); in the corners one weight is everything (`UpsampledCorners`); and
`downsample_2x` leaves the range of its samples by at most 1, upwards, where it truncates a negative sum (`TruncatedBetween`, `HalvedBetween`).

**`BitCoderProofs`** (assumes `BitCoderAssumption`, `RansAssumption` and `RangeAssumption`), first about `Rans` (the scale divides the window's lower end, the contexts start anywhere
strictly inside the scale, not necessarily alike).  `TypeCorrect`: the adaptation never reaches 0 or the scale.  `PushOnce`: one chunk always brings the
state below the bound, so the `while` loop runs at most once.  `TakeUndoesPut`: one decoded bit undoes one coded bit.  `EncoderWindow`, from an invariant that also
says where the state stands before each bit (`StateReady`).  The round trip adds three parts to it: `TraceInv` relates two neighbouring entries of the
encoder's history by one coded bit, `ModelsInv` says that the recorded probabilities are those of the model before the bit, and
`DecodeInv` places the decoder between two entries of the history, with what is left of the section being the digits of the entry it stands at.
`PrefixStep` shows that the digits of the final state are read back in both layouts.  From it: `Retraces`, `BitsDecoded`, `ConsumedExactly`.

Then about `RangeCoder`, for every base, scale, set of initial probabilities and number of bits.  `CoderInv` (types, the conditions under which the loops go on,
and `CarryAbsorbed`) is inductive: both parts of a renormalised range are not empty (`BoundFacts`), so a probability inside the scale
keeps `low + range` within twice `Top`, and the digit that shift_low keeps back is not the highest one when a carry may still come.  This gives `RangeTypeCorrect` and
`CarryAlwaysAbsorbed`.  That sections decode needs to know which number a section is:

* `Val(s)` is the number that a sequence of bytes stands for, and `Waiting` the digits on their way: `out`, the cache and the run behind it.  `ShiftLowFacts`: `Val(Waiting) * Top + low` is
  multiplied by the base, in all three cases of shift_low, carries through runs included (`CarryRun`);
* `HistoryInv`: each step of `path` is a coded bit or a digit shifted out, and says which (`BitStep`, `ShiftStep`).  `Totals`: the digits on their way and `low` are `total`, also while `flush` empties
  `low`, so that the finished section is exactly the low end of the last range;
* `AllEnclosed`: what lies in a range lies in the one before it, so the section's first bytes lie in every range of the path, at that entry's precision (`Enclosed`);
* `DecoderInv`: the decoder stands at an entry of the path (`OnPath`): it has that range and model, and its `code` is what it has read, less the entry's `total`.  `Enclosed` then says that
  `code` is below the range, and the comparison with the bound can only go the way the bit went.

From `RangeInvariance`: `RangeBitsDecoded`, `RangeCodersAgree`, and `RangeConsumesExactly`, since the path's last entry is five digits from the end of the section.
`Val` is not a recursive operator: it is the last value of a function on prefixes (`Reads`), whose existence and uniqueness are proved.  `SetInduction`, which those and `AllEnclosed` use, is
induction over the natural numbers for a property given as a set; it rests on the least element of a set that is not empty (`LeastElement`), not on the library's schema with an operator parameter.

**`RateSearchProofs`** (assumes `RateSearchAssumption` and `BandListAssumption`).  The invariant: details H and V of a level and channel share a step at all times
(`TriplesShare`), counts and activity are those of the quantised bands (`CountsHeld`), the groups tried so far were measured on the present bands and parents
(`TriedHeld`), every band that is not yet emitted is its raw band quantised with its present step, the others that minus what the probe took (`QuantHeld`), and every chunk
was made from the present band, parent and steps (`ChunksHeld`).  `TriplesShare` is what makes the single step of a merged chunk right.  From it: `TypeCorrect`, `StaysCommitted`,
`ParentsAsReceived`, `ErrorBounded`.

**`ContainerProofs`** (assumes `ContainerAssumption` and `BandListAssumption`), for every set of channels and levels, every set of nonzero bands, all steps,
modes and lengths, merging on or off, and every cut.  None of the properties is inductive: whether the decoder accepts its next entry depends on what the merging
loop did to bands it took ahead of their turn.  `IInv` says what a stream is, independently of the loops that write and read it, and then where the two loops stand in it:

* `EntriesRight`: each entry describes one active band, or one active band H with all its active siblings (`EntryOf`);
  `PayloadRight`: the entries' payloads follow each other without a gap, each being the `Chunk` that its entry determines; `CarriedOnce`: no band is in two entries, and layers only grow;
* `MergeInv`: the bands the directory covers are exactly those behind the loop and those no longer pending, and only V and D of an H already
  passed leave `pending` early.  This makes the header, which is filled from `pending`, the one that is determined by the set of active bands (`HeaderOf`);
* `StreamInv`: a finished directory covers every active band, and a cut leaves the payloads of the requested layers whole;
* `DecodeInv`: the offset the decoder computes from the sizes is the place the entry was written at, inside a merged chunk its cursor is at the next section
  (`PartAt`), and it holds exactly the bands carried by what it has passed (`Received`).

`MergedAtHand` and `SectionStepKeeps` are the core: the three sizes and modes of a merged header lead the decoder to the three sections.  From `IInv`: `TypeCorrect`, `NeverRejectedHolds` (the phase "rejected" is not
admitted), `RequestedLayersHeld`, `BandsWrittenOnce`.  `DeliveryImplemented` is the refinement: the merging loop stutters, `Hand` states what is wanted, a decoded section is a delivery, and
the parent a detail needs is in a lower layer, all of which lies in entries already passed, because layers only grow along the directory.

**`BandCoderProofs`** (assumes `BandCoderAssumption`), for bands and parents of every size and of all values, every step, block, window and threshold.
`TypeCorrect` needs no more: `TypeInv` adds to the types that in mode 16 the scan comes to a flat block at its first cell, as a block's cells follow each other
in the scan (`BlockInScan`).  The other theorems assume `MagnitudesCoded`, that no base band is coded in mode 13 or 14: for these the encoder's
bits are arbitrary and the run `plane_base` shows that the round trip fails.  The argument has four parts.

* **The encoder's run is a function.**  What the encoder writes at a place (`Bits`) and where it stands afterwards (`After`) depend only on the job and on where it stood.
  `EncodeInv` says that `past` is such a run from `First` on, and that the coded bits are those of the flags followed by those of its places, each at the position
  noted there (`RunOK`).
* **The scan reaches neighbours first.**  `Rank` counts the cells before a cell, row by row or block by block; `CellAt` inverts it (`ScanFacts`).  All that a context, prediction
  or parameter looks at lies before the cell (`Neighbours`, and `BlockNeighbours` for flat blocks), the north-east neighbour of `gap_predict` included.
* **Both sides see the same.**  `Seen(t, s, n)`: side `t` agrees with `s` on flags, parameters, all cells before `n`, and on the parent up to its scale.  Then it computes the same
  contexts, predictions, Rice parameters and residues (`SeenContexts`, `SeenParent`, `SeenGap`, `SeenK`, `SeenValues`, `SeenResidues`): the decoder's dequantised parent, divided by the child's
  step, is what the encoder scaled itself.
* **What is read is what was written.**  A Rice code is read back as the number it was written for, whatever the parameter (`RiceUndone`: the first one ends the quotient, `QuotientIs`, and the
  low bits are the remainder, `RemainderIs`), a signed value as that value in the contexts in which it was written (`ZeroRead`, `SignedRead`), and the residuals of modes 9 and 14 unfold (`ZigzagUndone`, `PlainIs`).

`DecodeInv` places the decoder at an entry of `past`: it has that position, those parameters and that many bits behind it, and the cells in front hold what was
coded (`Decoded`).  Each of its steps leads to the next entry.  From `BandInvariance`: `ContextsAlwaysAgree`, `DecodedAsCoded`, `EveryBitRead` (only the last entry of a run is at the end of
the scan, and its bits are all there are), and `BandRestored`.  `TypeInv`, `EncodeInv` and `DecodeInv` were checked by TLC on the instance of `band_coder` before they were proved.

Only model-checked: `Termination` and `Completes` (liveness, which the prover cannot treat).  Every invariant of the passing runs is a theorem.

## 6. Findings

Three runs state what a comment or a document says and find it violated:

* `detail_subscript`: for a merged chunk above layer 1 `decode_v2` evaluates
  `pl.detail[3]` of a 3-element array before it looks at the sections; the pointer is replaced before use.
* `plane_base`: in modes 13 and 14 (selected by `BRUSHIE_BASE`) the quotient and remainder of a base
  band's magnitudes are never assigned, so quality 100 is not lossless there.
* `box_average`: `downsample_2x` adds half the number of samples whatever the sign of the sum and then truncates, so a flat plane of -7
  is halved to -6: below zero the "box-average" is drawn towards zero.

## 7. Not modelled, and why

* **Step tables** (`quant_step`, `base_quant_step`, the fine quality scale): doubles and environment variables.  They are a constant of `RateSearch`,
  which holds for every table.
* **Scores of the search and the noise test of the probe**: sums of doubles; modelled as free choices.
* **`BRUSHIE_DAMP`**, a shrinkage in the decoder that is switched on by an environment variable and meant for experiments.
* **The resize of `output_rgb`** to a size other than the original: bilinear interpolation on real numbers throughout.
* **Versions 1 to 5** of the format, with the contexts and directories they had: only read, and nothing in the repository writes them any more.
* **Two headers of sections**: the byte `sig0` of mode 18, which sets the initial probabilities of 32 contexts, and the bits beside `k0` in mode 24 that hold the size of the rANS state. `Rans` starts from any assignment of initial probabilities to contexts, the same on both sides, and has that size as `StateSize`; how the bytes are packed is left out.
* **Rejections that no stream of `encode` meets**: a quotient above 65536, a value beyond the range of dequantisation, and an entry whose `tw` and `th` are not the sizes of its band; that both sides derive the same sizes is `ShapesAgree` of `Geometry`.
* **Header, checksums, checks of damaged payloads**: no control that depends on another part; the models speak of streams that `encode` wrote and prefixes of these.
* **Telemetry** (`track.h`): one mutex around an append, never read by the codec.
* **Command line, prototypes, benchmarks, tests**: callers of the codec.

## 8. Plan

Done, in this order: `ParallelFor`/`ForEach`, `Lifting`, `LevelTransform`, `Rans`, `RangeCoder`, `Geometry`, `Container`/`Delivery`,
`BandCoder`, `Pyramid`; then `Quantizer`, `Resampling` and the lossy pyramid, mode 16, `BandList` and `RateSearch`; and the eight proof modules, the last of them about the band coder.

Left to model: a composition of colour, pyramids, search and container for a whole image; the context layouts of earlier versions.

Left to prove: a composition of `BandCoder` with the two bit coders, whose theorems meet at the list of bits, contexts and rates: `BandCoderProofs` shows that
the decoder asks in the order and contexts of the encoder, `BitCoderProofs` that a decoder which does so gets the coded bits.
