-------------------------------- MODULE Container --------------------------------
(***************************************************************************)
(* The stream around the bands: encode lists one reference per layer, band *)
(* and channel from coarse to fine, drops the bands without a nonzero      *)
(* value, merges the three details of a level into one chunk and writes a  *)
(* directory without offsets followed by the payloads; decode_v2 walks the *)
(* directory, skips the layers above the requested one, and rebuilds the   *)
(* place, the step, the mode and the parent of every section.              *)
(* A payload is a sequence of tokens <<band, k>>.  The coder of a section  *)
(* is external: it returns the band if section, step, mode and parent are  *)
(* those of the encoder, and something else otherwise.                     *)
(***************************************************************************)
EXTENDS BandList, Sequences, FiniteSets, Functions

CONSTANTS StepOf,   \* chosen_step of each band
          SizeOf,   \* the bytes that band_arith writes for it
          Settings  \* pairs <<modes, no_merge>>: the mode of each band, and BRUSHIE_NOMERGE

\* H and V of a level have one step: RateSearch keeps it so.  No section is empty: it
\* starts with the first Rice parameter.
ASSUME ContainerAssumption ==
  /\ StepOf \in [Bands -> Nat \ {0}]
  /\ \A r \in Bands : r.band = 2 => StepOf[r] = StepOf[Sibling(r, 1)]
  /\ SizeOf \in [Bands -> Nat \ {0}]
  /\ Settings \subseteq [Bands -> 3 .. 24] \X BOOLEAN

HeaderSize == 1  \* stands for the 13 bytes at the start of a merged payload

VARIABLES phase,      \* "merge", "decode", "sections", "decoded" or "rejected"
          settings,
          active,     \* the bands with a nonzero value
          pending,    \* the array active of the merging loop
          at,         \* i, or ci: the position in that loop and in decode_v2's
          directory, payload,
          highest,    \* highest_layer
          size,       \* the bytes of payload that are there
          offset,     \* expected_payload_offset
          cursor, bi, \* inside a merged chunk
          subscript,  \* of the last pl.detail[...], 0 if there was none
          values,     \* what each band of the decoder holds
          starts      \* history: where the payload of each entry starts

vars == <<phase, settings, active, pending, at, directory, payload, highest, size, offset,
          cursor, bi, subscript, values, starts>>
encVars == <<settings, active, pending, directory, payload, starts>>

Refs == [i \in 1 .. Cardinality(Bands) |->
           CHOOSE r \in Bands : Cardinality({s \in Bands : Before(s, r)}) = i - 1]

Step(r) == StepOf[r]

\* Base mode, detail mode, or block mode: chosen per band.
Mode(r) == settings[1][r]

\* What band_arith writes for r.
Section(r) == [k \in 1 .. SizeOf[r] |-> <<r, k>>]

Value(r) == IF r \in active THEN "band" ELSE "zero"

--------------------------------------------------------------------------------
(* encode: the merging loop *)

Init == /\ phase = "merge"
        /\ settings \in Settings
        /\ active \in SUBSET Bands
        /\ pending = active
        /\ at = 1
        /\ directory = <<>>
        /\ payload = <<>>
        /\ highest = Levels
        /\ size = 0
        /\ offset = 0
        /\ cursor = 0
        /\ bi = 1
        /\ subscript = 0
        /\ values = [r \in Bands |-> "zero"]
        /\ starts = <<>>

Turn == phase = "merge" /\ at <= Len(Refs)
decVars == <<phase, settings, active, highest, size, offset, cursor, bi, subscript, values>>

Merges(r) == /\ ~settings[2]
             /\ r.band = 1
             /\ Sibling(r, 2) \in pending \/ Sibling(r, 3) \in pending

SkipInactive == /\ Turn
                /\ Refs[at] \notin pending
                /\ at' = at + 1
                /\ UNCHANGED <<decVars, pending, directory, payload, starts>>

EmitAlone == /\ Turn
             /\ LET r == Refs[at]
                IN  /\ r \in pending
                    /\ ~Merges(r)
                    /\ directory' = Append(directory,
                         [layer |-> r.layer, channel |-> r.channel, band |-> r.band,
                          mode |-> Mode(r), step |-> Step(r), size |-> Len(Section(r))])
                    /\ payload' = payload \o Section(r)
             /\ starts' = Append(starts, Len(payload))
             /\ at' = at + 1
             /\ UNCHANGED <<decVars, pending>>

\* The merged chunk of r, its vertical and its diagonal sibling, if they are active.
Merged(r) ==
  LET part(b) == IF Sibling(r, b) \in pending THEN Section(Sibling(r, b)) ELSE <<>>
      mode(b) == IF Sibling(r, b) \in pending THEN Mode(Sibling(r, b)) ELSE 0
      header == [stepD |-> IF Sibling(r, 3) \in pending THEN Step(Sibling(r, 3)) ELSE 0,
                 modes |-> <<Mode(r), mode(2), mode(3)>>,
                 sizeH |-> Len(Section(r)), sizeV |-> Len(part(2))]
  IN  <<<<r, 0, header>>>> \o Section(r) \o part(2) \o part(3)

\* Mutant: the siblings stay active and are written again.
EmitMergedKeep == /\ Turn
                  /\ LET r == Refs[at]
                     IN  /\ r \in pending
                         /\ Merges(r)
                         /\ directory' = Append(directory,
                              [layer |-> r.layer, channel |-> r.channel, band |-> 4,
                               mode |-> 4, step |-> Step(r), size |-> Len(Merged(r))])
                         /\ payload' = payload \o Merged(r)
                  /\ starts' = Append(starts, Len(payload))
                  /\ at' = at + 1
                  /\ UNCHANGED <<decVars, pending>>

EmitMerged == /\ Turn
              /\ LET r == Refs[at]
                 IN  /\ r \in pending
                     /\ Merges(r)
                     /\ directory' = Append(directory,
                          [layer |-> r.layer, channel |-> r.channel, band |-> 4,
                           mode |-> 4, step |-> Step(r), size |-> Len(Merged(r))])
                     /\ payload' = payload \o Merged(r)
                     /\ pending' = pending \ {Sibling(r, 2), Sibling(r, 3)}
              /\ starts' = Append(starts, Len(payload))
              /\ at' = at + 1
              /\ UNCHANGED decVars

\* A prefix of n bytes holds all payloads of the layers up to the given one.
Holds(n, layer) == \A i \in (n + 1) .. Len(payload) : payload[i][1].layer > layer

\* The stream is handed over, whole or cut anywhere behind the requested layers.
Hand == /\ phase = "merge"
        /\ at = Len(Refs) + 1
        /\ phase' = "decode"
        /\ at' = 1
        /\ highest' \in 0 .. Levels
        /\ size' \in 0 .. Len(payload)
        /\ IF highest' = Levels THEN size' = Len(payload) ELSE Holds(size', highest')
        /\ UNCHANGED <<encVars, offset, cursor, bi, subscript, values>>

--------------------------------------------------------------------------------
(* decode_v2: the loop over the directory *)

Entry == directory[at]
Reading == phase = "decode" /\ at <= Len(directory)

Truncated(e) == offset > size \/ e.size > size - offset

\* Mutant: the payload is checked before the layer is.
AcceptedEager(e) == /\ e.channel \in Channels
                    /\ e.band \in 0 .. 4
                    /\ e.mode \in 3 .. 24
                    /\ e.step # 0
                    /\ e.layer <= Levels
                    /\ ~Truncated(e)
                    /\ e.layer <= LevelsOf(e.channel)
                    /\ (e.layer = 0) = (e.band = 0)

\* The checks of a directory entry, and of its place if its layer is wanted: the
\* payload of a later layer may lie beyond the end of a prefix.  The entry's tw and th are
\* those of its band if both sides derive the same sizes, which Geometry is about.
Accepted(e) == /\ e.channel \in Channels
               /\ e.band \in 0 .. 4
               /\ e.mode \in 3 .. 24
               /\ e.step # 0
               /\ e.layer <= Levels
               /\ e.layer <= highest => /\ ~Truncated(e)
                                        /\ e.layer <= LevelsOf(e.channel)
                                        /\ (e.layer = 0) = (e.band = 0)

Reject == phase' = "rejected" /\ UNCHANGED <<at, offset, cursor, bi, subscript, values>>

\* Mutant: payloads are aligned to two bytes.
NextEntryAligned == at' = at + 1 /\ offset' = offset + Entry.size + (Entry.size % 2)

NextEntry == at' = at + 1 /\ offset' = offset + Entry.size

\* decode_band_arith: what the destination r holds after it was given some bytes.
Decoded(r, section, step, mode, parent) ==
  IF /\ section = Section(r) /\ step = Step(r) /\ mode = Mode(r)
     /\ mode = 3 \/ r.layer = 0 \/ parent = Value(ParentOf(r))
  THEN "band" ELSE "other"

SkipLayer == /\ Reading
             /\ Entry.layer > highest
             /\ IF Accepted(Entry)
                  THEN NextEntry /\ UNCHANGED <<phase, cursor, bi, subscript, values>>
                  ELSE Reject
             /\ UNCHANGED <<encVars, highest, size>>

\* The parent is looked up before the band is known to be a merged one.
Subscript(e) == IF e.mode # 3 /\ e.layer > 1 THEN e.band - 1 ELSE subscript

DecodeAlone ==
  /\ Reading
  /\ Entry.layer <= highest
  /\ Entry.band # 4
  /\ IF Accepted(Entry)
       THEN /\ LET r == [layer |-> Entry.layer, channel |-> Entry.channel, band |-> Entry.band]
                   parent == IF Entry.mode # 3 THEN values[ParentOf(r)] ELSE "none"
                   section == SubSeq(payload, offset + 1, offset + Entry.size)
               IN  values' = [values EXCEPT ![r] =
                                Decoded(r, section, Entry.step, Entry.mode, parent)]
            /\ subscript' = Subscript(Entry)
            /\ NextEntry
            /\ UNCHANGED <<phase, cursor, bi>>
       ELSE Reject
  /\ UNCHANGED <<encVars, highest, size>>

Header == payload[offset + 1][3]

HeaderOK == /\ Header.modes[1] # 0
            /\ Header.modes[2] = 0 => Header.sizeV = 0
            /\ (Header.modes[3] = 0) = (Header.stepD = 0)
            /\ HeaderSize + Header.sizeH + Header.sizeV <= Entry.size

OpenMerged == /\ Reading
              /\ Entry.layer <= highest
              /\ Entry.band = 4
              /\ IF Accepted(Entry) /\ HeaderOK
                   THEN /\ phase' = "sections"
                        /\ cursor' = offset + HeaderSize
                        /\ bi' = 1
                        /\ subscript' = Subscript(Entry)
                        /\ UNCHANGED <<at, offset, values>>
                   ELSE Reject
              /\ UNCHANGED <<encVars, highest, size>>

SkipSection == /\ phase = "sections"
               /\ bi <= 3
               /\ Header.modes[bi] = 0
               /\ bi' = bi + 1
               /\ UNCHANGED <<encVars, phase, at, highest, size, offset, cursor, subscript, values>>

\* Where the section of the band bi ends: the diagonal one takes what is left.
SectionEnd == CASE bi = 1 -> cursor + Header.sizeH
                [] bi = 2 -> cursor + Header.sizeV
                [] bi = 3 -> offset + Entry.size

\* Mutant: only the horizontal section has the step of the entry.
SectionStepH == IF bi = 1 THEN Entry.step ELSE Header.stepD

SectionStep == IF bi = 3 THEN Header.stepD ELSE Entry.step

DecodeSection ==
  /\ phase = "sections"
  /\ bi <= 3
  /\ Header.modes[bi] # 0
  /\ IF SectionEnd <= offset + Entry.size
       THEN /\ LET r == [layer |-> Entry.layer, channel |-> Entry.channel, band |-> bi]
                   section == SubSeq(payload, cursor + 1, SectionEnd)
               IN  values' = [values EXCEPT ![r] =
                     Decoded(r, section, SectionStep, Header.modes[bi], values[ParentOf(r)])]
            /\ subscript' = IF Entry.layer > 1 THEN bi - 1 ELSE subscript
            /\ cursor' = SectionEnd
            /\ bi' = bi + 1
            /\ UNCHANGED <<phase, at, offset>>
       ELSE Reject
  /\ UNCHANGED <<encVars, highest, size>>

CloseMerged == /\ phase = "sections"
               /\ bi = 4
               /\ IF Header.modes[3] = 0 => cursor = offset + Entry.size
                    THEN phase' = "decode" /\ NextEntry /\ UNCHANGED <<cursor, bi, subscript, values>>
                    ELSE Reject
               /\ UNCHANGED <<encVars, highest, size>>

Finish == /\ phase = "decode"
          /\ at = Len(directory) + 1
          /\ phase' = IF highest >= Levels /\ offset # size THEN "rejected" ELSE "decoded"
          /\ UNCHANGED <<encVars, at, highest, size, offset, cursor, bi, subscript, values>>

Next == \/ SkipInactive \/ EmitAlone \/ EmitMerged \/ Hand
        \/ SkipLayer \/ DecodeAlone \/ OpenMerged \/ SkipSection \/ DecodeSection
        \/ CloseMerged \/ Finish

Spec == Init /\ [][Next]_vars

--------------------------------------------------------------------------------
\* The positions stay inside the loops and the payload.
TypeOK == /\ phase \in {"merge", "decode", "sections", "decoded", "rejected"}
          /\ pending \subseteq active
          /\ at \in 1 .. (IF phase = "merge" THEN Len(Refs) ELSE Len(directory)) + 1
          /\ highest \in 0 .. Levels
          /\ size \in 0 .. Len(payload)
          /\ offset \in 0 .. Len(payload)
          /\ cursor \in 0 .. Len(payload)
          /\ bi \in 1 .. 4
          /\ values \in [Bands -> {"zero", "band", "other"}]

\* Every stream encode writes is accepted, whole or cut behind the requested layers,
\* whichever bands it lacks and however its bands were merged.
NeverRejected == phase # "rejected"

\* A decoded stream holds exactly the bands of the requested layers that have a nonzero
\* value, each decoded from its own section with its own step, mode and parent.
HoldsRequestedLayers ==
  phase = "decoded" =>
    \A r \in Bands : values[r] = IF r.layer <= highest THEN Value(r) ELSE "zero"

\* No band is written to the stream twice, and none that has a value is left out,
\* though the merging loop takes V and D ahead of their turn.
EachBandOnce ==
  /\ \A i, j \in DOMAIN payload : payload[i] = payload[j] => i = j
  /\ phase # "merge" => \A r \in active : Section(r)[1] \in Range(payload)

Wanted == IF phase = "merge" THEN {} ELSE {r \in active : r.layer <= highest}
Got == {r \in Bands : values[r] # "zero"}

Promise == INSTANCE Delivery WITH Parent <- ParentOf, carried <- active, wanted <- Wanted,
                                  got <- Got, ended <- (phase = "decoded")

\* decode_v2 delivers the requested bands one by one, a parent always before its children.
ImplementsDelivery == Promise!Spec

\* "three detail bands (H, V, D)": the array detail of a level has three elements.
DetailSubscript == subscript \in 0 .. 2
================================================================================
