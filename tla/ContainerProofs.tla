----------------------------- MODULE ContainerProofs -----------------------------
(***************************************************************************)
(* Proofs about Container, for every list of bands, every set of steps,    *)
(* sizes and modes and every choice of nonzero bands: the stream encode    *)
(* writes holds each band once (EachBandOnce), decode_v2 accepts it whole  *)
(* or cut (NeverRejected), gives every band of the requested layers its    *)
(* own section, step, mode and parent (HoldsRequestedLayers), and delivers *)
(* them one by one, parents first (ImplementsDelivery).                    *)
(***************************************************************************)
EXTENDS Container, FiniteSetTheorems, SequenceTheorems, TLAPS

(* What the entries of the directory stand for *)

Count == Cardinality(Bands)

\* The band whose turn it was when the entry was written.
Lead(e) == [layer |-> e.layer, channel |-> e.channel, band |-> IF e.band = 4 THEN 1 ELSE e.band]

\* The bands in its payload: a merged chunk has all details of the level with a value.
CarriedBy(e) == IF e.band = 4 THEN {s \in active : s.layer = e.layer /\ s.channel = e.channel}
                ELSE {Lead(e)}

Part(e, b) == IF Sibling(Lead(e), b) \in active THEN Section(Sibling(Lead(e), b)) ELSE <<>>

\* Its payload, told from the bands with a value instead of those still pending.
HeaderOf(e) ==
  [stepD |-> IF Sibling(Lead(e), 3) \in active THEN Step(Sibling(Lead(e), 3)) ELSE 0,
   modes |-> <<Mode(Lead(e)),
               IF Sibling(Lead(e), 2) \in active THEN Mode(Sibling(Lead(e), 2)) ELSE 0,
               IF Sibling(Lead(e), 3) \in active THEN Mode(Sibling(Lead(e), 3)) ELSE 0>>,
   sizeH |-> Len(Section(Lead(e))), sizeV |-> Len(Part(e, 2))]

Chunk(e) == IF e.band = 4
            THEN <<<<Lead(e), 0, HeaderOf(e)>>>> \o Section(Lead(e)) \o Part(e, 2) \o Part(e, 3)
            ELSE Section(Lead(e))

\* Where the section of the band b begins in a merged chunk.
PartAt(e, b) == CASE b = 1 -> 1
                  [] b = 2 -> 1 + Len(Section(Lead(e)))
                  [] b = 3 -> 1 + Len(Section(Lead(e))) + Len(Part(e, 2))
                  [] b = 4 -> Len(Chunk(e))

EntryOf(r, merged) ==
  [layer |-> r.layer, channel |-> r.channel, band |-> IF merged THEN 4 ELSE r.band,
   mode |-> IF merged THEN 4 ELSE Mode(r), step |-> Step(r),
   size |-> Len(Chunk([layer |-> r.layer, channel |-> r.channel,
                       band |-> IF merged THEN 4 ELSE r.band]))]

--------------------------------------------------------------------------------
(* The list of bands *)

LEMMA BandFields ==
  ASSUME NEW r \in Bands
  PROVE  /\ r = [layer |-> r.layer, channel |-> r.channel, band |-> r.band]
         /\ r.layer \in 0 .. Levels
         /\ r.channel \in Channels /\ r.channel \in 0 .. 3
         /\ r.layer <= LevelsOf(r.channel)
         /\ r.layer = 0 => r.band = 0
         /\ r.layer > 0 => r.band \in 1 .. 3
<1>1. PICK c \in Channels : r \in {[layer |-> 0, channel |-> c, band |-> 0]}
                                    \cup [layer : 1 .. LevelsOf(c), channel : {c}, band : 1 .. 3]
  BY DEF Bands
<1>2. LevelsOf(c) \in 0 .. Levels /\ c \in 0 .. 3
  BY BandListAssumption DEF LevelsOf
<1>3. CASE r = [layer |-> 0, channel |-> c, band |-> 0]
  BY <1>2, <1>3, BandListAssumption
<1>4. CASE r \in [layer : 1 .. LevelsOf(c), channel : {c}, band : 1 .. 3]
  BY <1>2, <1>4, BandListAssumption
<1> QED
  BY <1>1, <1>3, <1>4

LEMMA BaseMade ==
  ASSUME NEW c \in Channels
  PROVE  [layer |-> 0, channel |-> c, band |-> 0] \in Bands
BY DEF Bands

LEMMA DetailMade ==
  ASSUME NEW c \in Channels, NEW k \in 1 .. LevelsOf(c), NEW b \in 1 .. 3
  PROVE  [layer |-> k, channel |-> c, band |-> b] \in Bands
BY DEF Bands

\* The parent of a band is a band of the same channel, one layer coarser.
LEMMA ParentFields ==
  ASSUME NEW r \in Bands
  PROVE  /\ ParentOf(r) \in Bands
         /\ ParentOf(r).channel = r.channel
         /\ r.layer = 0 => ParentOf(r) = r
         /\ r.layer > 0 => ParentOf(r).layer = r.layer - 1
<1> DEFINE k == r.layer
           c == r.channel
           b == r.band
<1>1. /\ r = [layer |-> k, channel |-> c, band |-> b]
      /\ k \in 0 .. Levels /\ c \in Channels /\ k <= LevelsOf(c)
      /\ k > 0 => b \in 1 .. 3
  BY BandFields
<1>2. LevelsOf(c) \in Nat /\ Levels \in Nat
  BY BandListAssumption DEF LevelsOf
<1>3. CASE k = 0
  BY <1>1, <1>3 DEF ParentOf
<1>4. CASE k = 1
  <2>1. ParentOf(r) = [r EXCEPT !.layer = 0, !.band = 0]
    BY <1>4 DEF ParentOf
  <2> HIDE DEF k, c, b
  <2>2. ParentOf(r) = [layer |-> 0, channel |-> c, band |-> 0]
    BY <1>1, <2>1
  <2>3. ParentOf(r) \in Bands
    BY <1>1, <2>2, BaseMade
  <2> QED
    BY <1>4, <2>2, <2>3 DEF k, c
<1>5. CASE k > 1
  <2>1. ParentOf(r) = [r EXCEPT !.layer = k - 1]
    BY <1>1, <1>2, <1>5 DEF ParentOf
  <2> HIDE DEF k, c, b
  <2>2. ParentOf(r) = [layer |-> k - 1, channel |-> c, band |-> b]
    BY <1>1, <2>1
  <2>3. k - 1 \in 1 .. LevelsOf(c) /\ b \in 1 .. 3
    BY <1>1, <1>2, <1>5
  <2>4. ParentOf(r) \in Bands
    BY <1>1, <2>2, <2>3, DetailMade
  <2>5. ParentOf(r).layer = k - 1 /\ ParentOf(r).channel = c /\ k # 0
    BY <1>5, <2>2
  <2> QED
    BY <2>4, <2>5 DEF k, c
<1> QED
  BY <1>1, <1>2, <1>3, <1>4, <1>5

LEMMA SiblingFields ==
  ASSUME NEW r \in Bands, r.band \in 1 .. 3, NEW b \in 1 .. 3
  PROVE  /\ Sibling(r, b) = [layer |-> r.layer, channel |-> r.channel, band |-> b]
         /\ Sibling(r, b) \in Bands
         /\ r.layer \in 1 .. LevelsOf(r.channel)
<1> DEFINE k == r.layer
           c == r.channel
           d == r.band
<1>1. r = [layer |-> k, channel |-> c, band |-> d] /\ c \in Channels
  BY BandFields
<1>2. k \in 1 .. LevelsOf(c)
  BY BandFields, BandListAssumption DEF LevelsOf
<1> HIDE DEF k, c, d
<1>3. Sibling(r, b) = [layer |-> k, channel |-> c, band |-> b]
  BY <1>1 DEF Sibling
<1> QED
  BY <1>1, <1>2, <1>3, DetailMade DEF k, c

\* Before is a strict total order of the bands.
LEMMA BeforeIsTotal ==
  ASSUME NEW r \in Bands, NEW s \in Bands
  PROVE  /\ ~Before(r, r)
         /\ r # s => Before(r, s) \/ Before(s, r)
         /\ Before(r, s) => r.layer <= s.layer /\ r # s
         /\ \A t \in Bands : Before(t, r) /\ Before(r, s) => Before(t, s)
<1>1. \A t \in Bands : /\ t = [layer |-> t.layer, channel |-> t.channel, band |-> t.band]
                      /\ t.layer \in Int /\ t.channel \in Int /\ t.band \in Int
  <2> TAKE t \in Bands
  <2>1. /\ t = [layer |-> t.layer, channel |-> t.channel, band |-> t.band]
        /\ t.layer \in 0 .. Levels /\ t.channel \in 0 .. 3
        /\ t.layer = 0 => t.band = 0
        /\ t.layer > 0 => t.band \in 1 .. 3
    BY BandFields
  <2> QED
    BY <2>1, BandListAssumption
<1>2. ~Before(r, r)
  BY <1>1 DEF Before
<1>3. r # s => Before(r, s) \/ Before(s, r)
  <2>1. CASE r.layer = s.layer /\ r.channel = s.channel /\ r.band = s.band
    BY <1>1, <2>1
  <2>2. CASE ~(r.layer = s.layer /\ r.channel = s.channel /\ r.band = s.band)
    BY <1>1, <2>2 DEF Before
  <2> QED
    BY <2>1, <2>2
<1>4. Before(r, s) => r.layer <= s.layer /\ r # s
  BY <1>1, <1>2 DEF Before
<1>5. \A t \in Bands : Before(t, r) /\ Before(r, s) => Before(t, s)
  BY <1>1 DEF Before
<1> QED
  BY <1>2, <1>3, <1>4, <1>5

LEMMA BandsFinite == IsFiniteSet(Bands) /\ Count \in Nat
<1> DEFINE Places == (0 .. Levels) \X ((0 .. 3) \X (0 .. 3))
           Cells == [layer : 0 .. Levels, channel : 0 .. 3, band : 0 .. 3]
           f == [t \in Places |-> [layer |-> t[1], channel |-> t[2][1], band |-> t[2][2]]]
<1>1. IsFiniteSet(0 .. Levels) /\ IsFiniteSet(0 .. 3)
  <2>1. Levels \in Int /\ 0 \in Int /\ 3 \in Int
    BY BandListAssumption
  <2> QED
    BY <2>1, FS_Interval
<1>2. IsFiniteSet((0 .. 3) \X (0 .. 3))
  BY <1>1, FS_Product
<1>3. IsFiniteSet(Places)
  BY <1>1, <1>2, FS_Product
<1>4. f \in Surjection(Places, Cells)
  <2>1. f \in [Places -> Cells]
    OBVIOUS
  <2>2. ASSUME NEW r \in Cells
        PROVE  \E t \in Places : f[t] = r
    <3>1. <<r.layer, <<r.channel, r.band>>>> \in Places
      OBVIOUS
    <3>2. f[<<r.layer, <<r.channel, r.band>>>>] = r
      OBVIOUS
    <3> QED
      BY <3>1, <3>2
  <2> QED
    BY <2>1, <2>2 DEF Surjection
<1>5. IsFiniteSet(Cells)
  BY <1>3, <1>4, FS_Surjection
<1>6. Bands \subseteq Cells
  <2> SUFFICES ASSUME NEW r \in Bands
               PROVE  r \in Cells
    OBVIOUS
  <2>1. /\ r = [layer |-> r.layer, channel |-> r.channel, band |-> r.band]
        /\ r.layer \in 0 .. Levels /\ r.channel \in 0 .. 3
        /\ r.layer = 0 => r.band = 0
        /\ r.layer > 0 => r.band \in 1 .. 3
    BY BandFields
  <2>2. r.band \in 0 .. 3
    BY <2>1, BandListAssumption
  <2> QED
    BY <2>1, <2>2
<1> QED
  BY <1>5, <1>6, FS_Subset, FS_CardinalityType DEF Count

(* The order of the merging loop *)

Rank(r) == Cardinality({s \in Bands : Before(s, r)})

LEMMA RankOrders ==
  ASSUME NEW r \in Bands
  PROVE  /\ Rank(r) \in 0 .. Count - 1
         /\ \A s \in Bands : Before(r, s) => Rank(r) < Rank(s)
<1> DEFINE Preds(t) == {s \in Bands : Before(s, t)}
<1>1. \A t : Preds(t) \subseteq Bands /\ IsFiniteSet(Preds(t))
  BY BandsFinite, FS_Subset
<1>2. ASSUME NEW T \in SUBSET Bands, Preds(r) \subseteq T, r \in T
      PROVE  Rank(r) < Cardinality(T) /\ Rank(r) \in Nat
  <2>1. r \notin Preds(r)
    BY BeforeIsTotal
  <2>2. Preds(r) \subseteq T /\ Preds(r) # T
    BY <1>2, <2>1
  <2>3. IsFiniteSet(T)
    BY BandsFinite, FS_Subset
  <2>4. Cardinality(Preds(r)) \in Nat /\ Cardinality(T) \in Nat
    BY <1>1, <2>3, FS_CardinalityType
  <2>5. /\ Cardinality(Preds(r)) <= Cardinality(T)
        /\ Cardinality(T) = Cardinality(Preds(r)) => T = Preds(r)
    <3> HIDE DEF Preds
    <3> QED
      BY <2>2, <2>3, FS_Subset
  <2>6. Cardinality(Preds(r)) < Cardinality(T)
    BY <2>2, <2>4, <2>5
  <2> QED
    BY <2>4, <2>6 DEF Rank
<1>3. Rank(r) \in 0 .. Count - 1
  <2>1. Rank(r) < Count /\ Rank(r) \in Nat
    BY <1>1, <1>2 DEF Count
  <2> QED
    BY <2>1, BandsFinite
<1>4. ASSUME NEW s \in Bands, Before(r, s)
      PROVE  Rank(r) < Rank(s)
  <2>1. Preds(r) \subseteq Preds(s)
    BY <1>4, BeforeIsTotal
  <2>2. r \in Preds(s)
    BY <1>4
  <2>3. Rank(r) < Cardinality(Preds(s))
    BY <1>1, <1>2, <2>1, <2>2
  <2> QED
    BY <2>3 DEF Rank
<1> QED
  BY <1>3, <1>4

\* Every band has one turn in the merging loop, and a later turn is a later band.
LEMMA RefsOrder ==
  /\ Refs \in Seq(Bands) /\ Len(Refs) = Count
  /\ \A r \in Bands : \E i \in 1 .. Count : Refs[i] = r
  /\ \A i, j \in 1 .. Count : i < j => Before(Refs[i], Refs[j])
<1> DEFINE f == [r \in Bands |-> Rank(r) + 1]
<1>1. \A r \in Bands : Rank(r) \in 0 .. Count - 1
  BY RankOrders
<1>2. f \in [Bands -> 1 .. Count]
  <2>1. \A r \in Bands : Rank(r) + 1 \in 1 .. Count
    BY <1>1, BandsFinite
  <2> QED
    BY <2>1
<1>3. \A r, s \in Bands : Rank(r) = Rank(s) => r = s
  <2> SUFFICES ASSUME NEW r \in Bands, NEW s \in Bands, r # s
               PROVE  Rank(r) # Rank(s)
    OBVIOUS
  <2>1. Before(r, s) \/ Before(s, r)
    BY BeforeIsTotal
  <2>2. Rank(r) < Rank(s) \/ Rank(s) < Rank(r)
    BY <2>1, RankOrders
  <2>3. Rank(r) \in Int /\ Rank(s) \in Int
    BY <1>1
  <2> QED
    BY <2>2, <2>3
<1>4. f \in Injection(Bands, 1 .. Count)
  <2>1. \A r, s \in Bands : f[r] = f[s] => r = s
    <3> SUFFICES ASSUME NEW r \in Bands, NEW s \in Bands, f[r] = f[s]
                 PROVE  r = s
      OBVIOUS
    <3>1. Rank(r) \in Int /\ Rank(s) \in Int /\ Rank(r) + 1 = Rank(s) + 1
      BY <1>1
    <3> QED
      BY <1>3, <3>1
  <2> QED
    BY <1>2, <2>1 DEF Injection, IsInjective
<1>5. f \in Surjection(Bands, 1 .. Count)
  <2>1. IsFiniteSet(1 .. Count) /\ Cardinality(1 .. Count) = Count
    BY BandsFinite, FS_Interval
  <2> HIDE DEF f
  <2> QED
    BY <1>4, <2>1, FS_Injection DEF Count
<1>6. ASSUME NEW i \in 1 .. Count
      PROVE  Refs[i] \in Bands /\ Rank(Refs[i]) = i - 1
  <2>1. PICK r \in Bands : f[r] = i
    BY <1>5 DEF Surjection
  <2>2. Rank(r) = i - 1
    BY <1>1, <2>1
  <2>3. Refs[i] = CHOOSE t \in Bands : Rank(t) = i - 1
    BY DEF Refs, Rank, Count
  <2> QED
    BY <2>2, <2>3
<1>7. Refs \in Seq(Bands) /\ Len(Refs) = Count
  <2>1. DOMAIN Refs = 1 .. Count /\ Refs = [i \in 1 .. Count |-> Refs[i]]
    BY DEF Refs, Count
  <2>2. Refs \in [1 .. Count -> Bands]
    BY <1>6, <2>1
  <2>3. Refs \in Seq(Bands)
    BY <2>2, BandsFinite, SeqDef
  <2>4. DOMAIN Refs = 1 .. Len(Refs) /\ Len(Refs) \in Nat
    BY <2>3, LenProperties
  <2> QED
    BY <2>1, <2>3, <2>4, BandsFinite
<1>8. ASSUME NEW r \in Bands
      PROVE  \E i \in 1 .. Count : Refs[i] = r
  <2>1. Rank(r) + 1 \in 1 .. Count
    BY <1>1, BandsFinite
  <2>2. Rank(Refs[Rank(r) + 1]) = Rank(r) /\ Refs[Rank(r) + 1] \in Bands
    BY <1>1, <1>6, <2>1
  <2> QED
    BY <1>3, <2>1, <2>2
<1>9. ASSUME NEW i \in 1 .. Count, NEW j \in 1 .. Count, i < j
      PROVE  Before(Refs[i], Refs[j])
  <2>1. /\ Refs[i] \in Bands /\ Rank(Refs[i]) = i - 1
        /\ Refs[j] \in Bands /\ Rank(Refs[j]) = j - 1
    BY <1>6
  <2>2. Refs[i] # Refs[j]
    BY <1>9, <2>1
  <2>3. ~Before(Refs[j], Refs[i])
    <3>1. Before(Refs[j], Refs[i]) => j - 1 < i - 1
      BY <2>1, RankOrders
    <3> QED
      BY <1>9, <3>1
  <2> QED
    BY <2>1, <2>2, <2>3, BeforeIsTotal
<1> QED
  BY <1>7, <1>8, <1>9

--------------------------------------------------------------------------------
(* The bytes of an entry *)

Headers == [stepD : Nat, modes : Nat \X Nat \X Nat, sizeH : Nat, sizeV : Nat]
Tokens == (Bands \X Nat) \cup (Bands \X {0} \X Headers)

Entries == [layer : Nat, channel : 0 .. 3, band : 0 .. 4, mode : 3 .. 24, step : Nat \ {0},
            size : Nat \ {0}]

Given == settings \in Settings /\ active \subseteq Bands

LEMMA SectionFacts ==
  ASSUME Given, NEW r \in Bands
  PROVE  /\ SizeOf[r] \in Nat \ {0} /\ Step(r) \in Nat \ {0} /\ Mode(r) \in 3 .. 24
         /\ Section(r) \in Seq(Tokens) /\ Len(Section(r)) = SizeOf[r]
         /\ \A k \in 1 .. SizeOf[r] : Section(r)[k] = <<r, k>>
<1>1. SizeOf[r] \in Nat \ {0} /\ Step(r) \in Nat \ {0}
  BY ContainerAssumption DEF Step
<1>2. Mode(r) \in 3 .. 24
  <2>1. settings \in [Bands -> 3 .. 24] \X BOOLEAN
    BY ContainerAssumption DEF Given
  <2>2. settings[1] \in [Bands -> 3 .. 24]
    BY <2>1
  <2> QED
    BY <2>2 DEF Mode
<1>3. Section(r) \in [1 .. SizeOf[r] -> Tokens]
  BY <1>1 DEF Section, Tokens
<1>4. Section(r) \in Seq(Tokens)
  BY <1>1, <1>3, SeqDef
<1>5. DOMAIN Section(r) = 1 .. Len(Section(r)) /\ Len(Section(r)) \in Nat
  BY <1>4, LenProperties
<1>6. DOMAIN Section(r) = 1 .. SizeOf[r]
  BY DEF Section
<1>7. Len(Section(r)) = SizeOf[r]
  BY <1>1, <1>5, <1>6
<1>8. \A k \in 1 .. SizeOf[r] : Section(r)[k] = <<r, k>>
  BY DEF Section
<1> QED
  BY <1>1, <1>2, <1>4, <1>7, <1>8

LEMMA TwoParts ==
  ASSUME NEW S, NEW s \in Seq(S), NEW t \in Seq(S)
  PROVE  /\ s \o t \in Seq(S) /\ Len(s \o t) = Len(s) + Len(t)
         /\ \A k \in 1 .. Len(s) : (s \o t)[k] = s[k]
         /\ \A k \in 1 .. Len(t) : (s \o t)[Len(s) + k] = t[k]
<1>1. Len(s) \in Nat /\ Len(t) \in Nat
  BY LenProperties
<1>2. /\ s \o t \in Seq(S)
      /\ Len(s \o t) = Len(s) + Len(t)
      /\ \A i \in 1 .. Len(s) + Len(t) : (s \o t)[i] = IF i <= Len(s) THEN s[i] ELSE t[i - Len(s)]
  BY ConcatProperties
<1> DEFINE u == s \o t
<1> HIDE DEF u
<1>3. \A k \in 1 .. Len(s) : u[k] = s[k]
  <2> TAKE k \in 1 .. Len(s)
  <2>1. k \in 1 .. Len(s) + Len(t) /\ k <= Len(s)
    BY <1>1
  <2> QED
    BY <1>2, <2>1 DEF u
<1>4. \A k \in 1 .. Len(t) : u[Len(s) + k] = t[k]
  <2> TAKE k \in 1 .. Len(t)
  <2>1. /\ Len(s) + k \in 1 .. Len(s) + Len(t) /\ ~(Len(s) + k <= Len(s))
        /\ Len(s) + k - Len(s) = k
    BY <1>1
  <2>2. u[Len(s) + k] = t[Len(s) + k - Len(s)]
    BY <1>2, <2>1 DEF u
  <2> QED
    BY <2>1, <2>2
<1> QED
  BY <1>2, <1>3, <1>4 DEF u

LEMMA FourParts ==
  ASSUME NEW S, NEW h \in S, NEW a \in Seq(S), NEW b \in Seq(S), NEW c \in Seq(S)
  PROVE  /\ <<h>> \o a \o b \o c \in Seq(S)
         /\ Len(<<h>> \o a \o b \o c) = 1 + Len(a) + Len(b) + Len(c)
         /\ (<<h>> \o a \o b \o c)[1] = h
         /\ \A k \in 1 .. Len(a) : (<<h>> \o a \o b \o c)[1 + k] = a[k]
         /\ \A k \in 1 .. Len(b) : (<<h>> \o a \o b \o c)[1 + Len(a) + k] = b[k]
         /\ \A k \in 1 .. Len(c) : (<<h>> \o a \o b \o c)[1 + Len(a) + Len(b) + k] = c[k]
<1> DEFINE p == <<h>> \o a
           q == p \o b
           t == q \o c
<1>1. <<h>> \in Seq(S) /\ Len(<<h>>) = 1 /\ <<h>>[1] = h
  OBVIOUS
<1>2. Len(a) \in Nat /\ Len(b) \in Nat /\ Len(c) \in Nat
  BY LenProperties
<1>3. /\ p \in Seq(S) /\ Len(p) = 1 + Len(a)
      /\ p[1] = h
      /\ \A k \in 1 .. Len(a) : p[1 + k] = a[k]
  <2> HIDE DEF p
  <2>1. /\ p \in Seq(S) /\ Len(p) = Len(<<h>>) + Len(a)
        /\ \A k \in 1 .. Len(<<h>>) : p[k] = <<h>>[k]
        /\ \A k \in 1 .. Len(a) : p[Len(<<h>>) + k] = a[k]
    BY <1>1, TwoParts DEF p
  <2> QED
    BY <1>1, <2>1
<1>4. /\ q \in Seq(S) /\ Len(q) = Len(p) + Len(b)
      /\ \A k \in 1 .. Len(p) : q[k] = p[k]
      /\ \A k \in 1 .. Len(b) : q[Len(p) + k] = b[k]
  <2>1. p \in Seq(S)
    BY <1>3
  <2> HIDE DEF p
  <2> QED
    BY <2>1, TwoParts
<1>5. /\ t \in Seq(S) /\ Len(t) = Len(q) + Len(c)
      /\ \A k \in 1 .. Len(q) : t[k] = q[k]
      /\ \A k \in 1 .. Len(c) : t[Len(q) + k] = c[k]
  <2>1. q \in Seq(S)
    BY <1>4
  <2> HIDE DEF q
  <2> QED
    BY <2>1, TwoParts
<1> HIDE DEF p, q, t
<1>6. Len(p) = 1 + Len(a) /\ Len(q) = 1 + Len(a) + Len(b)
  BY <1>3, <1>4
<1>7. t[1] = h
  <2>1. 1 \in 1 .. Len(p) /\ 1 \in 1 .. Len(q)
    BY <1>2, <1>6
  <2> QED
    BY <1>3, <1>4, <1>5, <2>1
<1>8. \A k \in 1 .. Len(a) : t[1 + k] = a[k]
  <2> TAKE k \in 1 .. Len(a)
  <2>1. 1 + k \in 1 .. Len(p) /\ 1 + k \in 1 .. Len(q)
    BY <1>2, <1>6
  <2> QED
    BY <1>3, <1>4, <1>5, <2>1
<1>9. \A k \in 1 .. Len(b) : t[1 + Len(a) + k] = b[k]
  <2> TAKE k \in 1 .. Len(b)
  <2>1. Len(p) + k \in 1 .. Len(q)
    BY <1>2, <1>6
  <2> QED
    BY <1>4, <1>5, <1>6, <2>1
<1>10. t \in Seq(S) /\ Len(t) = 1 + Len(a) + Len(b) + Len(c)
  BY <1>5, <1>6
<1>11. \A k \in 1 .. Len(c) : t[1 + Len(a) + Len(b) + k] = c[k]
  BY <1>5, <1>6
<1> QED
  BY <1>7, <1>8, <1>9, <1>10, <1>11 DEF p, q, t

\* An entry names the band whose turn it was, and the length of its own payload.
LEMMA EntryShape ==
  ASSUME active \subseteq Bands, NEW r \in active, NEW merged \in BOOLEAN,
         merged => r.band = 1,
         NEW e, e = EntryOf(r, merged)
  PROVE  /\ Lead(e) = r
         /\ e.layer = r.layer /\ e.channel = r.channel
         /\ e.band = IF merged THEN 4 ELSE r.band
         /\ e.mode = IF merged THEN 4 ELSE Mode(r)
         /\ e.step = Step(r)
         /\ e.size = Len(Chunk(e))
         /\ r.band \in 0 .. 3
<1> DEFINE d == [layer |-> r.layer, channel |-> r.channel,
                 band |-> IF merged THEN 4 ELSE r.band]
<1>1. /\ r = [layer |-> r.layer, channel |-> r.channel, band |-> r.band]
      /\ r.band \in 0 .. 3
  <2>1. r \in Bands
    OBVIOUS
  <2>2. /\ r.layer \in 0 .. Levels
        /\ r.layer = 0 => r.band = 0
        /\ r.layer > 0 => r.band \in 1 .. 3
    BY <2>1, BandFields
  <2>3. r.band \in 0 .. 3
    BY <2>2, BandListAssumption
  <2> QED
    BY <2>1, <2>3, BandFields
<1>2. /\ e.layer = r.layer /\ e.channel = r.channel
      /\ e.band = (IF merged THEN 4 ELSE r.band)
      /\ e.mode = (IF merged THEN 4 ELSE Mode(r)) /\ e.step = Step(r)
      /\ e.size = Len(Chunk(d))
  BY DEF EntryOf
<1>3. e.layer = d.layer /\ e.channel = d.channel /\ e.band = d.band
  BY <1>2
<1>4. Lead(e) = Lead(d)
  BY <1>3 DEF Lead
<1>5. Chunk(e) = Chunk(d)
  BY <1>3, <1>4 DEF Chunk, HeaderOf, Part
<1>6. Lead(e) = r
  BY <1>1, <1>2 DEF Lead
<1> QED
  BY <1>1, <1>2, <1>5, <1>6

\* The sections of a merged chunk lie one behind the other, from its first byte to its last.
LEMMA MergedChunk ==
  ASSUME Given, NEW e, e.band = 4, Lead(e) \in active
  PROVE  /\ Chunk(e) \in Seq(Tokens)
         /\ Chunk(e)[1] = <<Lead(e), 0, HeaderOf(e)>>
         /\ PartAt(e, 1) = 1 /\ PartAt(e, 4) = Len(Chunk(e))
         /\ \A b \in 1 .. 3 : PartAt(e, b) \in Nat \ {0} /\ PartAt(e, b + 1) >= PartAt(e, b)
         /\ \A b \in 1 .. 3 :
               LET s == Sibling(Lead(e), b)
               IN  /\ s \in active =>
                         /\ PartAt(e, b + 1) = PartAt(e, b) + SizeOf[s]
                         /\ \A k \in 1 .. SizeOf[s] : Chunk(e)[PartAt(e, b) + k] = <<s, k>>
                   /\ s \notin active => PartAt(e, b + 1) = PartAt(e, b)
<1>0. PICK r, v, d, A, B, C, h :
        /\ h = <<Lead(e), 0, HeaderOf(e)>>
        /\ r = Lead(e) /\ v = Sibling(r, 2) /\ d = Sibling(r, 3)
        /\ A = Section(r) /\ B = Part(e, 2) /\ C = Part(e, 3)
  OBVIOUS
<1>1. r \in Bands /\ r.band = 1
  BY <1>0 DEF Given, Lead
<1>2. v \in Bands /\ d \in Bands /\ Sibling(r, 1) = r
  <2>1. r = [layer |-> r.layer, channel |-> r.channel, band |-> r.band]
    BY <1>1, BandFields
  <2>2. /\ Sibling(r, 1) = [layer |-> r.layer, channel |-> r.channel, band |-> 1]
        /\ v \in Bands /\ d \in Bands
    <3>1. 1 \in 1 .. 3 /\ 2 \in 1 .. 3 /\ 3 \in 1 .. 3 /\ r.band \in 1 .. 3
      BY <1>1
    <3> QED
      BY <1>0, <1>1, <3>1, SiblingFields
  <2> QED
    BY <1>1, <2>1, <2>2
<1>3. /\ SizeOf[r] \in Nat \ {0} /\ Mode(r) \in 3 .. 24
      /\ A \in Seq(Tokens) /\ Len(A) = SizeOf[r]
      /\ \A k \in 1 .. SizeOf[r] : A[k] = <<r, k>>
  <2>1. /\ SizeOf[r] \in Nat \ {0} /\ Mode(r) \in 3 .. 24
        /\ Section(r) \in Seq(Tokens) /\ Len(Section(r)) = SizeOf[r]
        /\ \A k \in 1 .. SizeOf[r] : Section(r)[k] = <<r, k>>
    BY <1>1, SectionFacts
  <2> QED
    BY <1>0, <2>1
<1>4. /\ SizeOf[v] \in Nat \ {0} /\ Mode(v) \in 3 .. 24
      /\ B \in Seq(Tokens)
      /\ v \in active => Len(B) = SizeOf[v] /\ \A k \in 1 .. SizeOf[v] : B[k] = <<v, k>>
      /\ v \notin active => Len(B) = 0
  <2>1. /\ SizeOf[v] \in Nat \ {0} /\ Mode(v) \in 3 .. 24 /\ Step(v) \in Nat \ {0}
        /\ Section(v) \in Seq(Tokens) /\ Len(Section(v)) = SizeOf[v]
        /\ \A k \in 1 .. SizeOf[v] : Section(v)[k] = <<v, k>>
    BY <1>2, SectionFacts
  <2>2. B = IF v \in active THEN Section(v) ELSE <<>>
    BY <1>0 DEF Part
  <2>3. ASSUME v \in active
        PROVE  /\ B \in Seq(Tokens) /\ Len(B) = SizeOf[v]
               /\ \A k \in 1 .. SizeOf[v] : B[k] = <<v, k>>
    <3>1. B = Section(v)
      BY <2>2, <2>3
    <3> QED
      BY <2>1, <2>3, <3>1
  <2>4. ASSUME v \notin active
        PROVE  B \in Seq(Tokens) /\ Len(B) = 0
    <3>1. B = <<>>
      BY <2>2, <2>4
    <3> QED
      BY <2>4, <3>1, EmptySeq
  <2> QED
    BY <2>1, <2>3, <2>4
<1>5. /\ SizeOf[d] \in Nat \ {0} /\ Mode(d) \in 3 .. 24 /\ Step(d) \in Nat \ {0}
      /\ C \in Seq(Tokens)
      /\ d \in active => Len(C) = SizeOf[d] /\ \A k \in 1 .. SizeOf[d] : C[k] = <<d, k>>
      /\ d \notin active => Len(C) = 0
  <2>1. /\ SizeOf[d] \in Nat \ {0} /\ Mode(d) \in 3 .. 24 /\ Step(d) \in Nat \ {0}
        /\ Section(d) \in Seq(Tokens) /\ Len(Section(d)) = SizeOf[d]
        /\ \A k \in 1 .. SizeOf[d] : Section(d)[k] = <<d, k>>
    BY <1>2, SectionFacts
  <2>2. C = IF d \in active THEN Section(d) ELSE <<>>
    BY <1>0 DEF Part
  <2>3. ASSUME d \in active
        PROVE  /\ C \in Seq(Tokens) /\ Len(C) = SizeOf[d]
               /\ \A k \in 1 .. SizeOf[d] : C[k] = <<d, k>>
    <3>1. C = Section(d)
      BY <2>2, <2>3
    <3> QED
      BY <2>1, <2>3, <3>1
  <2>4. ASSUME d \notin active
        PROVE  C \in Seq(Tokens) /\ Len(C) = 0
    <3>1. C = <<>>
      BY <2>2, <2>4
    <3> QED
      BY <2>4, <3>1, EmptySeq
  <2> QED
    BY <2>1, <2>3, <2>4
<1>6. Len(A) \in Nat /\ Len(B) \in Nat /\ Len(C) \in Nat
  BY <1>3, <1>4, <1>5, LenProperties
<1>7. h \in Tokens
  <2>1. HeaderOf(e) \in Headers
    <3>1. Mode(r) \in Nat /\ Mode(v) \in Nat /\ Mode(d) \in Nat
      <4>1. \A m \in 3 .. 24 : m \in Nat
        OBVIOUS
      <4> QED
        BY <1>3, <1>4, <1>5, <4>1
    <3>2. Step(d) \in Nat
      BY <1>5
    <3>3. HeaderOf(e) = [stepD |-> IF d \in active THEN Step(d) ELSE 0,
                         modes |-> <<Mode(r), IF v \in active THEN Mode(v) ELSE 0,
                                     IF d \in active THEN Mode(d) ELSE 0>>,
                         sizeH |-> Len(A), sizeV |-> Len(B)]
      BY <1>0 DEF HeaderOf
    <3> QED
      BY <1>6, <3>1, <3>2, <3>3 DEF Headers
  <2> QED
    BY <1>0, <1>1, <2>1 DEF Tokens
<1>8. Chunk(e) = <<h>> \o A \o B \o C
  BY <1>0 DEF Chunk
<1>9. /\ Chunk(e) \in Seq(Tokens)
      /\ Len(Chunk(e)) = 1 + Len(A) + Len(B) + Len(C)
      /\ Chunk(e)[1] = h
      /\ \A k \in 1 .. Len(A) : Chunk(e)[1 + k] = A[k]
      /\ \A k \in 1 .. Len(B) : Chunk(e)[1 + Len(A) + k] = B[k]
      /\ \A k \in 1 .. Len(C) : Chunk(e)[1 + Len(A) + Len(B) + k] = C[k]
  <2>1. A \in Seq(Tokens) /\ B \in Seq(Tokens) /\ C \in Seq(Tokens)
    BY <1>3, <1>4, <1>5
  <2> DEFINE t == <<h>> \o A \o B \o C
  <2>2. /\ t \in Seq(Tokens)
        /\ Len(t) = 1 + Len(A) + Len(B) + Len(C)
        /\ t[1] = h
        /\ \A k \in 1 .. Len(A) : t[1 + k] = A[k]
        /\ \A k \in 1 .. Len(B) : t[1 + Len(A) + k] = B[k]
        /\ \A k \in 1 .. Len(C) : t[1 + Len(A) + Len(B) + k] = C[k]
    BY <1>7, <2>1, FourParts, SMTT(30)
  <2> HIDE DEF t
  <2>3. Chunk(e) = t
    BY <1>8 DEF t
  <2> QED
    BY <2>2, <2>3
<1>10. /\ PartAt(e, 1) = 1 /\ PartAt(e, 2) = 1 + Len(A)
       /\ PartAt(e, 3) = 1 + Len(A) + Len(B) /\ PartAt(e, 4) = Len(Chunk(e))
  BY <1>0 DEF PartAt
<1>11. ASSUME NEW b \in 1 .. 3
       PROVE  LET s == Sibling(r, b)
              IN  /\ s \in active =>
                        /\ PartAt(e, b + 1) = PartAt(e, b) + SizeOf[s]
                        /\ \A k \in 1 .. SizeOf[s] : Chunk(e)[PartAt(e, b) + k] = <<s, k>>
                  /\ s \notin active => PartAt(e, b + 1) = PartAt(e, b)
  <2>1. CASE b = 1
    <3>1. Sibling(r, b) = r /\ r \in active
      BY <1>0, <1>2, <2>1
    <3>2. PartAt(e, b + 1) = PartAt(e, b) + SizeOf[r]
      BY <1>3, <1>10, <2>1
    <3>3. \A k \in 1 .. SizeOf[r] : Chunk(e)[PartAt(e, b) + k] = <<r, k>>
      BY <1>3, <1>9, <1>10, <2>1
    <3> QED
      BY <3>1, <3>2, <3>3
  <2>2. CASE b = 2
    <3>1. Sibling(r, b) = v
      BY <1>0, <2>2
    <3>2. v \in active => /\ PartAt(e, b + 1) = PartAt(e, b) + SizeOf[v]
                          /\ \A k \in 1 .. SizeOf[v] : Chunk(e)[PartAt(e, b) + k] = <<v, k>>
      <4>1. ASSUME v \in active
            PROVE  /\ PartAt(e, 3) = PartAt(e, 2) + SizeOf[v]
                   /\ \A k \in 1 .. SizeOf[v] : Chunk(e)[PartAt(e, 2) + k] = <<v, k>>
        <5>1. Len(B) = SizeOf[v] /\ \A k \in 1 .. SizeOf[v] : B[k] = <<v, k>>
          BY <1>4, <4>1
        <5>2. \A k \in 1 .. SizeOf[v] : Chunk(e)[PartAt(e, 2) + k] = B[k]
          BY <1>9, <1>10, <5>1
        <5> QED
          BY <1>10, <5>1, <5>2
      <4> QED
        BY <2>2, <4>1
    <3>3. v \notin active => PartAt(e, b + 1) = PartAt(e, b)
      BY <1>4, <1>6, <1>10, <2>2
    <3> QED
      BY <3>1, <3>2, <3>3
  <2>3. CASE b = 3
    <3>1. Sibling(r, b) = d
      BY <1>0, <2>3
    <3>2. d \in active => /\ PartAt(e, b + 1) = PartAt(e, b) + SizeOf[d]
                          /\ \A k \in 1 .. SizeOf[d] : Chunk(e)[PartAt(e, b) + k] = <<d, k>>
      <4>1. ASSUME d \in active
            PROVE  /\ PartAt(e, 4) = PartAt(e, 3) + SizeOf[d]
                   /\ \A k \in 1 .. SizeOf[d] : Chunk(e)[PartAt(e, 3) + k] = <<d, k>>
        <5>1. Len(C) = SizeOf[d] /\ \A k \in 1 .. SizeOf[d] : C[k] = <<d, k>>
          BY <1>5, <4>1
        <5>2. \A k \in 1 .. SizeOf[d] : Chunk(e)[PartAt(e, 3) + k] = C[k]
          BY <1>9, <1>10, <5>1
        <5>3. PartAt(e, 4) = PartAt(e, 3) + SizeOf[d]
          BY <1>9, <1>10, <5>1
        <5> QED
          BY <5>1, <5>2, <5>3
      <4> QED
        BY <2>3, <4>1
    <3>3. d \notin active => PartAt(e, b + 1) = PartAt(e, b)
      BY <1>5, <1>6, <1>9, <1>10, <2>3
    <3> QED
      BY <3>1, <3>2, <3>3
  <2> QED
    BY <2>1, <2>2, <2>3
<1>12. \A b \in 1 .. 3 : PartAt(e, b) \in Nat \ {0} /\ PartAt(e, b + 1) >= PartAt(e, b)
  BY <1>6, <1>9, <1>10
<1> QED
  BY <1>0, <1>9, <1>10, <1>11, <1>12

\* The bands of an entry are on its layer; each of its bytes is one of a band it carries,
\* no two are the same, and the first byte of each such band is there.
LEMMA ChunkBytes ==
  ASSUME Given, NEW r \in active, NEW merged \in BOOLEAN, merged => r.band = 1,
         NEW e, e = EntryOf(r, merged)
  PROVE  /\ Chunk(e) \in Seq(Tokens) /\ Len(Chunk(e)) >= 1
         /\ r \in CarriedBy(e)
         /\ \A s \in CarriedBy(e) : s \in active /\ s.layer = e.layer /\ s.channel = e.channel
         /\ \A k \in 1 .. Len(Chunk(e)) : Chunk(e)[k][1] \in CarriedBy(e)
         /\ \A k, l \in 1 .. Len(Chunk(e)) : Chunk(e)[k] = Chunk(e)[l] => k = l
         /\ \A s \in CarriedBy(e) : \E k \in 1 .. Len(Chunk(e)) : Chunk(e)[k] = <<s, 1>>
<1>1. /\ Lead(e) = r /\ e.layer = r.layer /\ e.channel = r.channel
      /\ e.band = (IF merged THEN 4 ELSE r.band)
      /\ r.band \in 0 .. 3
  BY EntryShape DEF Given
<1>2. r \in Bands
  BY DEF Given
<1>3. CASE ~merged
  <2>1. CarriedBy(e) = {r} /\ Chunk(e) = Section(r)
    BY <1>1, <1>3 DEF CarriedBy, Chunk
  <2>2. /\ Section(r) \in Seq(Tokens) /\ Len(Section(r)) = SizeOf[r] /\ SizeOf[r] \in Nat \ {0}
        /\ \A k \in 1 .. SizeOf[r] : Section(r)[k] = <<r, k>>
    BY <1>2, SectionFacts
  <2>3. 1 \in 1 .. SizeOf[r]
    BY <2>2
  <2> QED
    BY <1>1, <2>1, <2>2, <2>3
<1>4. CASE merged
  <2> DEFINE At(b) == PartAt(e, b)
             Sib(b) == Sibling(r, b)
             C == Chunk(e)
  <2>1. e.band = 4 /\ r.band = 1 /\ Lead(e) \in active
    BY <1>1, <1>4
  <2>2. /\ C \in Seq(Tokens)
        /\ C[1] = <<r, 0, HeaderOf(e)>>
        /\ At(1) = 1 /\ At(4) = Len(C)
        /\ \A b \in 1 .. 3 : At(b) \in Nat \ {0} /\ At(b + 1) >= At(b)
        /\ \A b \in 1 .. 3 :
              /\ Sib(b) \in active =>
                    /\ At(b + 1) = At(b) + SizeOf[Sib(b)]
                    /\ \A k \in 1 .. SizeOf[Sib(b)] : C[At(b) + k] = <<Sib(b), k>>
              /\ Sib(b) \notin active => At(b + 1) = At(b)
    BY <1>1, <2>1, MergedChunk
  <2>3. /\ \A b \in 1 .. 3 : /\ Sib(b) = [layer |-> r.layer, channel |-> r.channel, band |-> b]
                             /\ Sib(b) \in Bands
                             /\ SizeOf[Sib(b)] \in Nat \ {0}
        /\ Sib(1) = r
    <3>1. r.band \in 1 .. 3
      BY <2>1
    <3>2. \A b \in 1 .. 3 : /\ Sib(b) = [layer |-> r.layer, channel |-> r.channel, band |-> b]
                            /\ Sib(b) \in Bands
      BY <1>2, <3>1, SiblingFields
    <3>3. \A b \in 1 .. 3 : SizeOf[Sib(b)] \in Nat \ {0}
      BY <3>2, SectionFacts
    <3>4. r = [layer |-> r.layer, channel |-> r.channel, band |-> 1]
      BY <1>2, <2>1, BandFields
    <3>5. 1 \in 1 .. 3
      OBVIOUS
    <3> QED
      BY <3>2, <3>3, <3>4, <3>5
  <2>4. ASSUME NEW s
        PROVE  s \in CarriedBy(e) <=> \E b \in 1 .. 3 : s = Sib(b) /\ s \in active
    <3>1. ASSUME s \in CarriedBy(e)
          PROVE  \E b \in 1 .. 3 : s = Sib(b) /\ s \in active
      <4>1. s \in active /\ s.layer = r.layer /\ s.channel = r.channel /\ s \in Bands
        BY <1>1, <2>1, <3>1 DEF CarriedBy, Given
      <4>2. r.layer > 0
        BY <1>2, <2>1, BandFields, BandListAssumption
      <4>3. s.band \in 1 .. 3 /\ s = [layer |-> s.layer, channel |-> s.channel, band |-> s.band]
        BY <4>1, <4>2, BandFields
      <4>4. s = Sib(s.band)
        BY <2>3, <4>1, <4>3
      <4> QED
        BY <4>1, <4>3, <4>4
    <3>2. ASSUME NEW b \in 1 .. 3, s = Sib(b), s \in active
          PROVE  s \in CarriedBy(e)
      <4>1. s.layer = r.layer /\ s.channel = r.channel
        BY <2>3, <3>2
      <4> QED
        BY <1>1, <2>1, <3>2, <4>1 DEF CarriedBy
    <3> QED
      BY <3>1, <3>2
  <2> HIDE DEF At, Sib, C
  <2>5. /\ Len(C) = At(4) /\ At(1) = 1
        /\ At(2) = At(1) + SizeOf[Sib(1)]
        /\ At(3) = At(2) + (IF Sib(2) \in active THEN SizeOf[Sib(2)] ELSE 0)
        /\ At(4) = At(3) + (IF Sib(3) \in active THEN SizeOf[Sib(3)] ELSE 0)
        /\ \A b \in 1 .. 3 : SizeOf[Sib(b)] \in Nat \ {0}
        /\ \A b \in 1 .. 4 : At(b) \in Nat \ {0}
    <3>1. 1 \in 1 .. 3 /\ 2 \in 1 .. 3 /\ 3 \in 1 .. 3 /\ 1 + 1 = 2 /\ 2 + 1 = 3 /\ 3 + 1 = 4
      OBVIOUS
    <3>2. At(1) \in Nat \ {0} /\ At(2) \in Nat \ {0} /\ At(3) \in Nat \ {0}
      BY <2>2, <3>1
    <3>3. At(2) = At(1) + SizeOf[Sib(1)]
      BY <2>2, <2>3, <3>1
    <3>4. At(3) = At(2) + (IF Sib(2) \in active THEN SizeOf[Sib(2)] ELSE 0)
      BY <2>2, <3>1, <3>2
    <3>5. At(4) = At(3) + (IF Sib(3) \in active THEN SizeOf[Sib(3)] ELSE 0)
      BY <2>2, <3>1, <3>2
    <3>6. At(4) \in Nat \ {0}
      BY <2>3, <3>2, <3>5
    <3> QED
      BY <2>2, <2>3, <3>2, <3>3, <3>4, <3>5, <3>6
  <2>6. ASSUME NEW k \in 2 .. Len(C)
        PROVE  \E b \in 1 .. 3 : \E l \in 1 .. SizeOf[Sib(b)] : Sib(b) \in active /\ k = At(b) + l
    <3>1. CASE k <= At(2)
      <4>1. k - At(1) \in 1 .. SizeOf[Sib(1)] /\ k = At(1) + (k - At(1)) /\ 1 \in 1 .. 3
        BY <2>5, <3>1, SMTT(60)
      <4> QED
        BY <2>3, <4>1
    <3>2. CASE k > At(2) /\ k <= At(3)
      <4>1. Sib(2) \in active
        BY <2>5, <3>2
      <4>2. At(3) = At(2) + SizeOf[Sib(2)] /\ SizeOf[Sib(2)] \in Nat /\ At(2) \in Nat
        BY <2>5, <4>1
      <4>3. k - At(2) \in 1 .. SizeOf[Sib(2)] /\ k = At(2) + (k - At(2)) /\ 2 \in 1 .. 3
        BY <3>2, <4>2
      <4> QED
        BY <4>1, <4>3
    <3>3. CASE k > At(3)
      <4>1. Sib(3) \in active
        BY <2>5, <3>3
      <4>2. PICK x, z, n : x = At(3) /\ z = SizeOf[Sib(3)] /\ n = Len(C)
        OBVIOUS
      <4>3. n = x + z /\ z \in Nat /\ x \in Nat
        BY <2>5, <4>1, <4>2
      <4>4. k - x \in 1 .. z /\ k = x + (k - x) /\ 3 \in 1 .. 3
        BY <3>3, <4>2, <4>3
      <4> QED
        BY <4>1, <4>2, <4>4
    <3>4. At(2) \in Nat /\ At(3) \in Nat
      BY <2>5
    <3> QED
      BY <3>1, <3>2, <3>3, <3>4
  <2>7. r \in CarriedBy(e)
    <3>1. r = Sib(1) /\ r \in active /\ 1 \in 1 .. 3
      BY <2>3
    <3> QED
      BY <2>4, <3>1
  <2>8. \A s \in CarriedBy(e) : s \in active /\ s.layer = e.layer /\ s.channel = e.channel
    BY <2>1 DEF CarriedBy
  <2>9. ASSUME NEW k \in 2 .. Len(C)
        PROVE  \E b \in 1 .. 3 : \E l \in 1 .. SizeOf[Sib(b)] :
                  Sib(b) \in active /\ k = At(b) + l /\ C[k] = <<Sib(b), l>>
    <3>1. PICK b \in 1 .. 3 : \E l \in 1 .. SizeOf[Sib(b)] : Sib(b) \in active /\ k = At(b) + l
      BY <2>6
    <3>2. PICK l \in 1 .. SizeOf[Sib(b)] : Sib(b) \in active /\ k = At(b) + l
      BY <3>1
    <3>3. C[At(b) + l] = <<Sib(b), l>>
      BY <2>2, <3>2
    <3> QED
      BY <3>2, <3>3
  <2>10. \A k \in 1 .. Len(C) : k = 1 \/ k \in 2 .. Len(C)
    BY <2>5
  <2>11. \A k \in 1 .. Len(C) : C[k][1] \in CarriedBy(e)
    <3> TAKE k \in 1 .. Len(C)
    <3>1. CASE k = 1
      BY <2>2, <2>7, <3>1
    <3>2. CASE k \in 2 .. Len(C)
      <4>1. PICK b \in 1 .. 3 : \E l \in 1 .. SizeOf[Sib(b)] :
                Sib(b) \in active /\ C[k] = <<Sib(b), l>>
        BY <2>9, <3>2
      <4>2. Sib(b) \in CarriedBy(e)
        BY <2>4, <4>1
      <4> QED
        BY <4>1, <4>2
    <3> QED
      BY <2>10, <3>1, <3>2
  <2>12. \A k, l \in 1 .. Len(C) : C[k] = C[l] => k = l
    <3> SUFFICES ASSUME NEW k \in 1 .. Len(C), NEW l \in 1 .. Len(C), C[k] = C[l]
                 PROVE  k = l
      OBVIOUS
    <3>1. ASSUME NEW n \in 2 .. Len(C)
          PROVE  /\ C[n][2] \in Nat \ {0} /\ C[n][1].band \in 1 .. 3
                 /\ n = At(C[n][1].band) + C[n][2]
      <4>1. PICK b \in 1 .. 3 : \E m \in 1 .. SizeOf[Sib(b)] :
                n = At(b) + m /\ C[n] = <<Sib(b), m>>
        BY <2>9
      <4>2. PICK m \in 1 .. SizeOf[Sib(b)] : n = At(b) + m /\ C[n] = <<Sib(b), m>>
        BY <4>1
      <4>3. m \in Nat \ {0}
        BY <2>5
      <4>4. Sib(b).band = b
        <5>1. Sib(b) = [layer |-> r.layer, channel |-> r.channel, band |-> b]
          BY <2>3
        <5> QED
          BY <5>1
      <4> QED
        BY <4>2, <4>3, <4>4
    <3>2. C[1][2] = 0
      BY <2>2
    <3>3. CASE k = 1 \/ l = 1
      BY <2>10, <3>1, <3>2, <3>3
    <3>4. CASE k \in 2 .. Len(C) /\ l \in 2 .. Len(C)
      BY <3>1, <3>4
    <3> QED
      BY <2>10, <3>3, <3>4
  <2>13. ASSUME NEW s \in CarriedBy(e)
         PROVE  \E k \in 1 .. Len(C) : C[k] = <<s, 1>>
    <3>1. PICK b \in 1 .. 3 : s = Sib(b) /\ s \in active
      BY <2>4
    <3>2. 1 \in 1 .. SizeOf[Sib(b)]
      BY <2>5, SMTT(60)
    <3>3. C[At(b) + 1] = <<s, 1>>
      BY <2>2, <3>1, <3>2
    <3>4. At(b) + 1 \in 1 .. Len(C)
      <4>1. At(2) = At(1) + SizeOf[Sib(1)] /\ At(2) <= At(3) /\ At(3) <= At(4)
        <5>1. 2 \in 1 .. 3 /\ 3 \in 1 .. 3 /\ 2 + 1 = 3 /\ 3 + 1 = 4
          OBVIOUS
        <5>2. At(2) <= At(3) /\ At(3) <= At(4)
          BY <2>2, <5>1
        <5> QED
          BY <2>5, <5>2
      <4>2. Sib(2) \in active => At(3) = At(2) + SizeOf[Sib(2)]
        BY <2>5
      <4>3. Sib(3) \in active => At(4) = At(3) + SizeOf[Sib(3)]
        BY <2>5
      <4>4. /\ At(1) \in Nat /\ At(2) \in Nat /\ At(3) \in Nat /\ At(4) \in Nat
            /\ SizeOf[Sib(1)] \in Nat \ {0} /\ SizeOf[Sib(2)] \in Nat \ {0}
            /\ SizeOf[Sib(3)] \in Nat \ {0} /\ Len(C) = At(4)
        BY <2>5
      <4>5. b = 1 \/ b = 2 \/ b = 3
        OBVIOUS
      <4>6. CASE b = 1
        BY <3>1, <4>1, <4>4, <4>6, SMTT(60)
      <4>7. CASE b = 2
        <5>1. At(3) = At(2) + SizeOf[Sib(2)]
          BY <3>1, <4>2, <4>7
        <5> QED
          BY <4>1, <4>4, <4>7, <5>1, SMTT(60)
      <4>8. CASE b = 3
        BY <3>1, <4>1, <4>3, <4>4, <4>8, SMTT(60)
      <4> QED
        BY <4>5, <4>6, <4>7, <4>8
    <3> QED
      BY <3>3, <3>4
  <2>14. C \in Seq(Tokens) /\ Len(C) >= 1
    BY <2>2, <2>5
  <2> QED
    BY <2>7, <2>8, <2>11, <2>12, <2>13, <2>14 DEF C
<1> QED
  BY <1>3, <1>4

--------------------------------------------------------------------------------
(* The inductive invariant *)

Done(s) == \E j \in 1 .. at - 1 : Refs[j] = s

End(i) == IF i <= Len(directory) THEN starts[i] ELSE Len(payload)

EntriesRight ==
  \A i \in 1 .. Len(directory) :
     \E r \in active : \E merged \in BOOLEAN :
        /\ merged => r.band = 1
        /\ directory[i] = EntryOf(r, merged)

PayloadRight ==
  /\ Len(starts) = Len(directory)
  /\ End(1) = 0
  /\ \A i \in 1 .. Len(directory) :
        /\ starts[i] \in Nat
        /\ End(i + 1) = starts[i] + directory[i].size
        /\ End(i + 1) <= Len(payload)
        /\ \A k \in 1 .. directory[i].size : payload[starts[i] + k] = Chunk(directory[i])[k]
  /\ \A n \in 1 .. Len(payload) :
        \E i \in 1 .. Len(directory) : \E k \in 1 .. directory[i].size : n = starts[i] + k

CarriedOnce ==
  \A i, j \in 1 .. Len(directory) :
     i < j => /\ CarriedBy(directory[i]) \cap CarriedBy(directory[j]) = {}
              /\ directory[i].layer <= directory[j].layer

Covered == UNION {CarriedBy(directory[i]) : i \in 1 .. Len(directory)}

\* While the bands are merged.
MergeInv ==
  phase = "merge" =>
     /\ \A i \in 1 .. Len(directory) : Done(Lead(directory[i]))
     /\ Covered = {s \in active : s \notin pending \/ Done(s)}
     /\ \A s \in active \ pending : s.band \in {2, 3} /\ Done(Sibling(s, 1))
     /\ offset = 0

\* The stream is complete, and what was asked for is there.
StreamInv ==
  phase # "merge" =>
     /\ Covered = active
     /\ highest = Levels => size = Len(payload)
     /\ \A i \in 1 .. Len(directory) : directory[i].layer <= highest => End(i + 1) <= size

\* What the decoder has received.
Received ==
  {s \in active :
     /\ phase # "merge"
     /\ s.layer <= highest
     /\ \/ \E i \in 1 .. at - 1 : s \in CarriedBy(directory[i])
        \/ phase = "sections" /\ s \in CarriedBy(directory[at]) /\ s.band < bi}

DecodeInv ==
  /\ values = [r \in Bands |-> IF r \in Received THEN "band" ELSE "zero"]
  /\ phase \in {"decode", "sections"} => offset = End(at)
  /\ phase = "decoded" => at = Len(directory) + 1
  /\ phase = "sections" => /\ at <= Len(directory)
                           /\ directory[at].band = 4
                           /\ directory[at].layer <= highest
                           /\ cursor = offset + PartAt(directory[at], bi)

\* Every step preserves it; the phase "rejected" is not among those it admits.
IInv == /\ phase \in {"merge", "decode", "sections", "decoded"}
        /\ Given
        /\ pending \subseteq active
        /\ at \in 1 .. (IF phase = "merge" THEN Count ELSE Len(directory)) + 1
        /\ directory \in Seq(Entries)
        /\ payload \in Seq(Tokens)
        /\ starts \in Seq(Nat)
        /\ highest \in 0 .. Levels
        /\ size \in 0 .. Len(payload)
        /\ cursor \in 0 .. Len(payload)
        /\ offset \in 0 .. Len(payload)
        /\ bi \in 1 .. 4
        /\ EntriesRight /\ PayloadRight /\ CarriedOnce
        /\ MergeInv /\ StreamInv /\ DecodeInv

LEMMA SameEntries ==
  ASSUME active' = active, settings' = settings
  PROVE  /\ Given' <=> Given
         /\ \A e : /\ Chunk(e)' = Chunk(e) /\ CarriedBy(e)' = CarriedBy(e)
                  /\ HeaderOf(e)' = HeaderOf(e)
                  /\ \A b : PartAt(e, b)' = PartAt(e, b)
         /\ \A r, merged : EntryOf(r, merged)' = EntryOf(r, merged)
<1>1. \A r : Mode(r)' = Mode(r)
  BY DEF Mode
<1>2. \A e : HeaderOf(e)' = HeaderOf(e) /\ \A b : Part(e, b)' = Part(e, b)
  BY <1>1 DEF HeaderOf, Part
<1>3. \A e : Chunk(e)' = Chunk(e)
  BY <1>2 DEF Chunk
<1>4. \A e, b : PartAt(e, b)' = PartAt(e, b)
  BY <1>2, <1>3 DEF PartAt
<1>5. \A e : CarriedBy(e)' = CarriedBy(e)
  BY DEF CarriedBy
<1>6. \A r, merged : EntryOf(r, merged)' = EntryOf(r, merged)
  BY <1>1, <1>3 DEF EntryOf
<1>7. Given' <=> Given
  BY DEF Given
<1> QED
  BY <1>2, <1>3, <1>4, <1>5, <1>6, <1>7

\* The stream facts are about variables that only the merging loop changes.
LEMMA SameStream ==
  ASSUME Given, EntriesRight, PayloadRight, CarriedOnce,
         UNCHANGED <<settings, active, directory, payload, starts>>
  PROVE  /\ Given' /\ EntriesRight' /\ PayloadRight' /\ CarriedOnce' /\ Covered' = Covered
         /\ \A i : End(i)' = End(i)
<1>1. /\ settings' = settings /\ active' = active /\ directory' = directory
      /\ payload' = payload /\ starts' = starts
  OBVIOUS
<1>2. /\ Given' /\ \A e : Chunk(e)' = Chunk(e) /\ CarriedBy(e)' = CarriedBy(e)
      /\ \A r, merged : EntryOf(r, merged)' = EntryOf(r, merged)
  BY <1>1, SameEntries
<1>3. \A i : End(i)' = End(i)
  BY <1>1 DEF End
<1>4. EntriesRight'
  BY <1>1, <1>2 DEF EntriesRight
<1>5. CarriedOnce' /\ Covered' = Covered
  BY <1>1, <1>2 DEF CarriedOnce, Covered
<1>6. PayloadRight'
  <2> DEFINE P(i) == /\ starts[i] \in Nat
                    /\ End(i + 1) = starts[i] + directory[i].size
                    /\ End(i + 1) <= Len(payload)
             Q(i, k) == payload[starts[i] + k] = Chunk(directory[i])[k]
  <2>1. /\ Len(starts) = Len(directory) /\ End(1) = 0
        /\ \A i \in 1 .. Len(directory) : P(i) /\ \A k \in 1 .. directory[i].size : Q(i, k)
        /\ \A n \in 1 .. Len(payload) :
              \E i \in 1 .. Len(directory) : \E k \in 1 .. directory[i].size : n = starts[i] + k
    BY DEF PayloadRight
  <2>2. \A i, k : (P(i) <=> P(i)') /\ (Q(i, k) <=> Q(i, k)')
    BY <1>1, <1>2, <1>3
  <2> HIDE DEF P, Q
  <2>3. /\ Len(starts') = Len(directory') /\ End(1)' = 0
        /\ \A i \in 1 .. Len(directory') : P(i)' /\ \A k \in 1 .. directory'[i].size : Q(i, k)'
        /\ \A n \in 1 .. Len(payload') :
              \E i \in 1 .. Len(directory') : \E k \in 1 .. directory'[i].size : n = starts'[i] + k
    BY <1>1, <1>3, <2>1, <2>2
  <2> QED
    BY <2>3 DEF PayloadRight, P, Q
<1> QED
  BY <1>2, <1>3, <1>4, <1>5, <1>6

\* What EntriesRight says of one entry.
LEMMA EntryFacts ==
  ASSUME Given, EntriesRight, NEW i \in 1 .. Len(directory),
         NEW e, e = directory[i]
  PROVE  /\ Lead(e) \in active /\ Lead(e) \in CarriedBy(e)
         /\ e.layer = Lead(e).layer /\ e.channel = Lead(e).channel
         /\ e.layer \in 0 .. Levels /\ e.layer <= LevelsOf(e.channel) /\ e.channel \in Channels
         /\ e.band \in 0 .. 4 /\ (e.layer = 0 <=> e.band = 0)
         /\ e.band = 4 => Lead(e).band = 1 /\ e.mode = 4
         /\ e.band # 4 => /\ Lead(e).band = e.band /\ e.mode = Mode(Lead(e))
                          /\ Chunk(e) = Section(Lead(e))
         /\ e.mode \in 3 .. 24 /\ e.step = Step(Lead(e)) /\ e.step \in Nat \ {0}
         /\ e.size = Len(Chunk(e)) /\ e.size \in Nat \ {0}
         /\ Chunk(e) \in Seq(Tokens)
         /\ \A s \in CarriedBy(e) : s \in active /\ s.layer = e.layer /\ s.channel = e.channel
         /\ \A k \in 1 .. Len(Chunk(e)) : Chunk(e)[k][1] \in CarriedBy(e)
         /\ \A k, l \in 1 .. Len(Chunk(e)) : Chunk(e)[k] = Chunk(e)[l] => k = l
         /\ \A s \in CarriedBy(e) : \E k \in 1 .. Len(Chunk(e)) : Chunk(e)[k] = <<s, 1>>
<1>1. PICK r \in active, merged \in BOOLEAN :
        (merged => r.band = 1) /\ e = EntryOf(r, merged)
  BY DEF EntriesRight
<1>2. /\ Lead(e) = r
      /\ e.layer = r.layer /\ e.channel = r.channel
      /\ e.band = (IF merged THEN 4 ELSE r.band)
      /\ e.mode = (IF merged THEN 4 ELSE Mode(r))
      /\ e.step = Step(r)
      /\ e.size = Len(Chunk(e))
      /\ r.band \in 0 .. 3
  BY <1>1, EntryShape DEF Given
<1>3. /\ Chunk(e) \in Seq(Tokens) /\ Len(Chunk(e)) >= 1
      /\ r \in CarriedBy(e)
      /\ \A s \in CarriedBy(e) : s \in active /\ s.layer = e.layer /\ s.channel = e.channel
      /\ \A k \in 1 .. Len(Chunk(e)) : Chunk(e)[k][1] \in CarriedBy(e)
      /\ \A k, l \in 1 .. Len(Chunk(e)) : Chunk(e)[k] = Chunk(e)[l] => k = l
      /\ \A s \in CarriedBy(e) : \E k \in 1 .. Len(Chunk(e)) : Chunk(e)[k] = <<s, 1>>
  BY <1>1, ChunkBytes, ZenonT(60)
<1>4. r \in Bands
  BY DEF Given
<1>5. /\ r.layer \in 0 .. Levels /\ r.layer <= LevelsOf(r.channel) /\ r.channel \in Channels
      /\ r.layer = 0 => r.band = 0
      /\ r.layer > 0 => r.band \in 1 .. 3
  BY <1>4, BandFields
<1>6. /\ e.band \in 0 .. 4 /\ (e.layer = 0 <=> e.band = 0)
      /\ e.band = 4 => r.band = 1 /\ e.mode = 4
      /\ e.band # 4 => r.band = e.band /\ e.mode = Mode(r)
  BY <1>1, <1>2, <1>5, BandListAssumption
<1>7. Mode(r) \in 3 .. 24 /\ Step(r) \in Nat \ {0}
  BY <1>4, SectionFacts
<1>8. e.mode \in 3 .. 24
  BY <1>2, <1>7
<1>9. e.band # 4 => Chunk(e) = Section(r)
  BY <1>2 DEF Chunk
<1>10. e.size \in Nat \ {0}
  BY <1>2, <1>3, LenProperties
<1>11. /\ e.layer \in 0 .. Levels /\ e.layer <= LevelsOf(e.channel) /\ e.channel \in Channels
       /\ e.step \in Nat \ {0}
  BY <1>2, <1>5, <1>7
<1> QED
  BY <1>1, <1>2, <1>3, <1>6, <1>8, <1>9, <1>10, <1>11

LEMMA EntryOpens ==
  ASSUME Given, EntriesRight, NEW i \in 1 .. Len(directory),
         NEW e, e = directory[i], NEW r \in CarriedBy(e)
  PROVE  \E k \in 1 .. Len(Chunk(e)) : Chunk(e)[k] = <<r, 1>>
<1>1. PICK lead \in active, merged \in BOOLEAN :
        (merged => lead.band = 1) /\ e = EntryOf(lead, merged)
  BY DEF EntriesRight
<1>2. /\ Chunk(e) \in Seq(Tokens) /\ Len(Chunk(e)) >= 1
      /\ lead \in CarriedBy(e)
      /\ \A s \in CarriedBy(e) : s \in active /\ s.layer = e.layer /\ s.channel = e.channel
      /\ \A k \in 1 .. Len(Chunk(e)) : Chunk(e)[k][1] \in CarriedBy(e)
      /\ \A k, l \in 1 .. Len(Chunk(e)) : Chunk(e)[k] = Chunk(e)[l] => k = l
      /\ \A s \in CarriedBy(e) : \E k \in 1 .. Len(Chunk(e)) : Chunk(e)[k] = <<s, 1>>
  BY <1>1, ChunkBytes
<1> QED
  BY <1>2

LEMMA InitHolds == Init => IInv
<1> SUFFICES ASSUME Init
             PROVE  IInv
  OBVIOUS
<1>1. /\ phase = "merge" /\ settings \in Settings /\ active \in SUBSET Bands /\ pending = active
      /\ at = 1 /\ directory = <<>> /\ payload = <<>> /\ highest = Levels /\ size = 0
      /\ offset = 0 /\ cursor = 0 /\ bi = 1 /\ values = [r \in Bands |-> "zero"]
      /\ starts = <<>>
  BY DEF Init
<1>2. /\ directory \in Seq(Entries) /\ Len(directory) = 0
      /\ payload \in Seq(Tokens) /\ Len(payload) = 0
      /\ starts \in Seq(Nat) /\ Len(starts) = 0
  BY <1>1, EmptySeq
<1>3. Given /\ pending \subseteq active
  BY <1>1 DEF Given
<1>4. at \in 1 .. (IF phase = "merge" THEN Count ELSE Len(directory)) + 1
  BY <1>1, BandsFinite
<1>5. highest \in 0 .. Levels
  BY <1>1, BandListAssumption
<1>6. EntriesRight /\ CarriedOnce
  BY <1>2 DEF EntriesRight, CarriedOnce
<1>7. PayloadRight
  BY <1>2 DEF PayloadRight, End
<1>8. MergeInv
  <2>1. \A s : ~Done(s)
    BY <1>1 DEF Done
  <2>2. Covered = {}
    BY <1>2 DEF Covered
  <2> QED
    BY <1>1, <1>2, <2>1, <2>2 DEF MergeInv
<1>9. StreamInv
  BY <1>1 DEF StreamInv
<1>10. DecodeInv
  <2>1. Received = {}
    BY <1>1 DEF Received
  <2> QED
    BY <1>1, <2>1 DEF DecodeInv
<1> QED
  BY <1>1, <1>2, <1>3, <1>4, <1>5, <1>6, <1>7, <1>8, <1>9, <1>10 DEF IInv

--------------------------------------------------------------------------------
(* The merging loop *)

LEMMA TurnFacts ==
  ASSUME IInv, Turn
  PROVE  /\ at \in 1 .. Count /\ Refs[at] \in Bands /\ ~Done(Refs[at])
         /\ \A s : Done(s) => s \in Bands /\ Before(s, Refs[at])
         /\ \A s \in Bands : Before(Refs[at], s) => ~Done(s)
<1>1. at \in 1 .. Count /\ Count \in Nat
  BY BandsFinite, RefsOrder DEF IInv, Turn
<1>2. Refs[at] \in Bands
  BY <1>1, RefsOrder, ElementOfSeq
<1>3. ASSUME NEW s, Done(s)
      PROVE  s \in Bands /\ Before(s, Refs[at])
  <2>1. PICK j \in 1 .. at - 1 : Refs[j] = s
    BY <1>3 DEF Done
  <2>2. j \in 1 .. Count /\ j < at
    BY <1>1
  <2>3. Refs[j] \in Bands
    BY <2>2, RefsOrder, ElementOfSeq
  <2> QED
    BY <1>1, <2>1, <2>2, <2>3, RefsOrder
<1>4. ~Done(Refs[at])
  BY <1>2, <1>3, BeforeIsTotal
<1>5. ASSUME NEW s \in Bands, Before(Refs[at], s)
      PROVE  ~Done(s)
  <2>1. ~Before(s, Refs[at])
    BY <1>2, <1>5, BeforeIsTotal
  <2> QED
    BY <1>3, <2>1
<1> QED
  BY <1>1, <1>2, <1>3, <1>4, <1>5

\* One turn later, one more band is done.
LEMMA DoneNext ==
  ASSUME at \in Nat \ {0}, at' = at + 1
  PROVE  \A s : Done(s)' <=> Done(s) \/ s = Refs[at]
<1> TAKE s
<1>1. Done(s)' <=> \E j \in 1 .. at : Refs[j] = s
  BY DEF Done
<1>2. \A j : j \in 1 .. at <=> j \in 1 .. at - 1 \/ j = at
  OBVIOUS
<1> QED
  BY <1>1, <1>2 DEF Done

LEMMA SkipInactiveKeeps ==
  ASSUME IInv, SkipInactive
  PROVE  IInv'
<1>1. /\ phase = "merge" /\ phase' = phase /\ settings' = settings /\ active' = active
      /\ highest' = highest /\ size' = size /\ offset' = offset /\ cursor' = cursor
      /\ bi' = bi /\ values' = values
      /\ pending' = pending /\ directory' = directory /\ payload' = payload /\ starts' = starts
      /\ at' = at + 1 /\ Refs[at] \notin pending /\ Turn
  BY DEF SkipInactive, Turn, decVars
<1>2. at \in 1 .. Count /\ Count \in Nat
  BY <1>1, TurnFacts, BandsFinite
<1>3. \A s : Done(s)' <=> Done(s) \/ s = Refs[at]
  BY <1>1, <1>2, DoneNext
<1>4. Given' /\ EntriesRight' /\ PayloadRight' /\ CarriedOnce' /\ Covered' = Covered
  BY <1>1, SameStream DEF IInv
<1>5. MergeInv'
  <2>1. /\ \A i \in 1 .. Len(directory) : Done(Lead(directory[i]))
        /\ Covered = {s \in active : s \notin pending \/ Done(s)}
        /\ \A s \in active \ pending : s.band \in {2, 3} /\ Done(Sibling(s, 1))
        /\ offset = 0
    BY <1>1 DEF IInv, MergeInv
  <2>2. \A i \in 1 .. Len(directory') : Done(Lead(directory[i]))'
    BY <1>1, <1>3, <2>1
  <2>3. Covered' = {s \in active : s \notin pending \/ Done(s)'}
    BY <1>1, <1>3, <1>4, <2>1
  <2>4. \A s \in active \ pending : s.band \in {2, 3} /\ Done(Sibling(s, 1))'
    BY <1>3, <2>1
  <2> QED
    BY <1>1, <2>1, <2>2, <2>3, <2>4 DEF MergeInv
<1>6. StreamInv'
  BY <1>1 DEF StreamInv
<1>7. DecodeInv'
  <2>1. Received = {} /\ Received' = {}
    BY <1>1 DEF Received
  <2> QED
    BY <1>1, <2>1 DEF IInv, DecodeInv
<1>8. at' \in 1 .. (IF phase' = "merge" THEN Count ELSE Len(directory')) + 1
  BY <1>1, <1>2
<1> QED
  BY <1>1, <1>4, <1>5, <1>6, <1>7, <1>8 DEF IInv

\* A chunk written behind the payload, and its entry behind the directory.
LEMMA EntryWritten ==
  ASSUME Given, directory \in Seq(Entries), payload \in Seq(Tokens), starts \in Seq(Nat),
         EntriesRight, PayloadRight,
         NEW r \in active, NEW merged \in BOOLEAN, merged => r.band = 1,
         NEW e, e = EntryOf(r, merged),
         active' = active, settings' = settings,
         directory' = Append(directory, e),
         payload' = payload \o Chunk(e),
         starts' = Append(starts, Len(payload))
  PROVE  /\ directory' \in Seq(Entries) /\ payload' \in Seq(Tokens) /\ starts' \in Seq(Nat)
         /\ Len(directory) \in Nat /\ Len(directory') = Len(directory) + 1
         /\ \A i \in 1 .. Len(directory) : directory'[i] = directory[i]
         /\ directory'[Len(directory) + 1] = e
         /\ Len(payload) \in Nat /\ Len(payload') >= Len(payload) /\ Len(payload') \in Nat
         /\ EntriesRight' /\ PayloadRight'
<1>0. PICK n, m, C : n = Len(directory) /\ m = Len(payload) /\ C = Chunk(e)
  OBVIOUS
<1>1. /\ e.layer = r.layer /\ e.channel = r.channel
      /\ e.band = (IF merged THEN 4 ELSE r.band)
      /\ e.mode = (IF merged THEN 4 ELSE Mode(r))
      /\ e.step = Step(r)
      /\ e.size = Len(C)
      /\ r.band \in 0 .. 3
  BY <1>0, EntryShape DEF Given
<1>2. C \in Seq(Tokens) /\ Len(C) >= 1 /\ Len(C) \in Nat
  BY <1>0, ChunkBytes, LenProperties
<1>3. r \in Bands
  BY DEF Given
<1>4. e \in Entries
  <2>1. r.layer \in Nat /\ r.channel \in 0 .. 3
    BY <1>3, BandFields, BandListAssumption
  <2>2. Mode(r) \in 3 .. 24 /\ Step(r) \in Nat \ {0}
    BY <1>3, SectionFacts
  <2>3. e = [layer |-> e.layer, channel |-> e.channel, band |-> e.band, mode |-> e.mode,
             step |-> e.step, size |-> e.size]
    BY DEF EntryOf
  <2>4. e.band \in 0 .. 4 /\ e.mode \in 3 .. 24 /\ e.size \in Nat \ {0}
    BY <1>1, <1>2, <2>2
  <2> QED
    BY <1>1, <2>1, <2>2, <2>3, <2>4 DEF Entries
<1>5. /\ directory' \in Seq(Entries)
      /\ n \in Nat /\ Len(directory') = n + 1
      /\ \A i \in 1 .. n : directory'[i] = directory[i]
      /\ directory'[n + 1] = e
  BY <1>0, <1>4, AppendProperties, LenProperties
<1>6. m \in Nat
  BY <1>0, LenProperties
<1>7. /\ starts' \in Seq(Nat)
      /\ Len(starts) = n /\ Len(starts') = n + 1
      /\ \A i \in 1 .. n : starts'[i] = starts[i]
      /\ starts'[n + 1] = m
  <2>1. Len(starts) = n
    BY <1>0 DEF PayloadRight
  <2>2. /\ starts' \in Seq(Nat)
        /\ Len(starts') = Len(starts) + 1
        /\ \A i \in 1 .. Len(starts) : starts'[i] = starts[i]
        /\ starts'[Len(starts) + 1] = m
    BY <1>0, <1>6, AppendProperties
  <2> QED
    BY <2>1, <2>2
<1>8. /\ payload' \in Seq(Tokens)
      /\ Len(payload') = m + Len(C)
      /\ \A k \in 1 .. m : payload'[k] = payload[k]
      /\ \A k \in 1 .. Len(C) : payload'[m + k] = C[k]
  <2>1. C \in Seq(Tokens) /\ payload' = payload \o C
    BY <1>0, <1>2
  <2> QED
    BY <1>0, <2>1, TwoParts
<1>9. /\ \A d : Chunk(d)' = Chunk(d)
      /\ \A s, b : EntryOf(s, b)' = EntryOf(s, b)
  BY SameEntries
<1>10. EntriesRight'
  <2> SUFFICES ASSUME NEW i \in 1 .. Len(directory')
               PROVE  \E s \in active' : \E b \in BOOLEAN :
                         (b => s.band = 1) /\ directory'[i] = EntryOf(s, b)'
    BY DEF EntriesRight
  <2>1. CASE i \in 1 .. n
    <3>1. PICK s \in active, b \in BOOLEAN :
             (b => s.band = 1) /\ directory[i] = EntryOf(s, b)
      BY <1>0, <2>1 DEF EntriesRight
    <3> QED
      BY <1>5, <1>9, <2>1, <3>1
  <2>2. CASE i = n + 1
    BY <1>5, <1>9, <2>2
  <2> QED
    BY <1>5, <2>1, <2>2
<1>lengths. /\ n \in Nat /\ m \in Nat /\ Len(C) \in Nat /\ Len(C) >= 1
      /\ Len(directory) = n /\ Len(payload) = m /\ Len(directory') = n + 1
      /\ starts'[n + 1] = m /\ ~(n + 1 <= n) /\ n + 1 <= n + 1 /\ ~(n + 2 <= n + 1)
  BY <1>0, <1>2, <1>5, <1>6, <1>7
<1>11. /\ \A i \in 1 .. n : End(i)' = End(i)
       /\ End(n + 1)' = m /\ End(n + 1) = m
       /\ End(n + 2)' = m + Len(C)
  <2>1. \A i \in 1 .. n : End(i)' = End(i)
    BY <1>0, <1>5, <1>7 DEF End
  <2>2. End(n + 1)' = m /\ End(n + 1) = m
    BY <1>lengths DEF End
  <2>3. End(n + 2)' = m + Len(C)
    BY <1>lengths, <1>8 DEF End
  <2> QED
    BY <2>1, <2>2, <2>3
<1>12. /\ End(1) = 0
       /\ \A i \in 1 .. n :
             /\ starts[i] \in Nat
             /\ End(i + 1) = starts[i] + directory[i].size
             /\ End(i + 1) <= m
             /\ \A k \in 1 .. directory[i].size : payload[starts[i] + k] = Chunk(directory[i])[k]
       /\ \A j \in 1 .. m :
             \E i \in 1 .. n : \E k \in 1 .. directory[i].size : j = starts[i] + k
  BY <1>0 DEF PayloadRight
<1>13. ASSUME NEW i \in 1 .. n + 1
       PROVE  /\ starts'[i] \in Nat
              /\ End(i + 1)' = starts'[i] + directory'[i].size
              /\ End(i + 1)' <= Len(payload')
              /\ \A k \in 1 .. directory'[i].size :
                    payload'[starts'[i] + k] = Chunk(directory'[i])[k]
  <2>1. CASE i \in 1 .. n
    <3>1. directory'[i] = directory[i] /\ starts'[i] = starts[i]
      BY <1>5, <1>7, <2>1
    <3>2. End(i + 1)' = End(i + 1)
      <4>1. CASE i = n
        BY <1>11, <4>1
      <4>2. CASE i # n
        <5>1. i + 1 \in 1 .. n
          BY <1>lengths, <2>1, <4>2
        <5> QED
          BY <1>11, <5>1
      <4> QED
        BY <4>1, <4>2
    <3>3. /\ starts[i] \in Nat
          /\ End(i + 1) = starts[i] + directory[i].size
          /\ End(i + 1) <= m
          /\ \A k \in 1 .. directory[i].size : payload[starts[i] + k] = Chunk(directory[i])[k]
      BY <1>12, <2>1
    <3>4. directory[i].size \in Nat
      <4>1. directory[i] \in Entries
        BY <1>0, <2>1, ElementOfSeq
      <4> QED
        BY <4>1 DEF Entries
    <3>5. ASSUME NEW k \in 1 .. directory[i].size
          PROVE  payload'[starts[i] + k] = Chunk(directory[i])[k]
      <4>1. starts[i] + k \in 1 .. m
        <5>1. PICK p, z : p = starts[i] /\ z = directory[i].size
          OBVIOUS
        <5>2. p \in Nat /\ z \in Nat /\ p + z <= m /\ k \in 1 .. z
          BY <3>3, <3>4, <5>1
        <5>3. p + k \in 1 .. m
          BY <1>lengths, <5>2
        <5> QED
          BY <5>1, <5>3
      <4>2. payload'[starts[i] + k] = payload[starts[i] + k]
        BY <1>8, <4>1
      <4> QED
        BY <3>3, <4>2
    <3>6. End(i + 1) <= m + Len(C)
      BY <1>2, <1>6, <3>3, <3>4, SMTT(60)
    <3> QED
      BY <1>8, <3>1, <3>2, <3>3, <3>5, <3>6
  <2>2. CASE i = n + 1
    <3>1. directory'[i] = e /\ starts'[i] = m
      BY <1>5, <1>7, <2>2
    <3>2. End(i + 1)' = m + Len(C)
      <4>1. i + 1 = n + 2
        BY <1>lengths, <2>2
      <4>2. End(n + 2)' = m + Len(C)
        BY <1>11
      <4> QED
        BY <4>1, <4>2
    <3>3. e.size = Len(C) /\ C = Chunk(e)
      BY <1>0, <1>1
    <3>4. m + Len(C) <= Len(payload')
      BY <1>2, <1>6, <1>8
    <3>5. m \in Nat /\ starts'[i] = m /\ directory'[i] = e /\ e.size = Len(C)
      BY <1>6, <3>1, <3>3
    <3>6. ASSUME NEW k \in 1 .. directory'[i].size
          PROVE  payload'[starts'[i] + k] = Chunk(directory'[i])[k]
      <4>1. k \in 1 .. Len(C)
        BY <3>5
      <4>2. payload'[m + k] = C[k]
        BY <1>8, <4>1
      <4> QED
        BY <3>3, <3>5, <4>2
    <3> QED
      BY <3>2, <3>4, <3>5, <3>6
  <2>3. i \in 1 .. n \/ i = n + 1
    BY <1>lengths
  <2> QED
    BY <2>1, <2>2, <2>3
<1>14. ASSUME NEW j \in 1 .. Len(payload')
       PROVE  \E i \in 1 .. n + 1 : \E k \in 1 .. directory'[i].size : j = starts'[i] + k
  <2>1. CASE j \in 1 .. m
    <3>1. PICK i \in 1 .. n : \E k \in 1 .. directory[i].size : j = starts[i] + k
      BY <1>12, <2>1
    <3>2. directory'[i] = directory[i] /\ starts'[i] = starts[i] /\ i \in 1 .. n + 1
      BY <1>5, <1>7, <3>1
    <3> QED
      BY <3>1, <3>2
  <2>2. CASE j \notin 1 .. m
    <3>1. j - m \in 1 .. Len(C) /\ j = m + (j - m)
      BY <1>2, <1>6, <1>8, <2>2
    <3>2. directory'[n + 1] = e /\ starts'[n + 1] = m /\ e.size = Len(C) /\ n + 1 \in 1 .. n + 1
      BY <1>1, <1>5, <1>7
    <3> QED
      BY <3>1, <3>2
  <2> QED
    BY <2>1, <2>2
<1>15. End(1)' = 0
  <2>1. CASE 1 \in 1 .. n
    BY <1>11, <1>12, <2>1
  <2>2. CASE n = 0
    <3>1. n + 1 = 1 /\ End(1) = 0
      BY <1>12, <2>2
    <3> QED
      BY <1>11, <3>1
  <2> QED
    BY <1>lengths, <2>1, <2>2
<1>16. PayloadRight'
  <2>1. \A d : Chunk(d)' = Chunk(d)
    BY <1>9
  <2>2. Len(starts') = Len(directory') /\ Len(directory') = n + 1
    BY <1>5, <1>7
  <2>3. \A i \in 1 .. Len(directory') : \A k \in 1 .. directory'[i].size :
           payload'[starts'[i] + k] = Chunk(directory[i])'[k]
    <3> TAKE i \in 1 .. Len(directory')
    <3> TAKE k \in 1 .. directory'[i].size
    <3>1. i \in 1 .. n + 1
      BY <2>2
    <3>2. payload'[starts'[i] + k] = Chunk(directory'[i])[k]
      BY <1>13, <3>1
    <3>3. PICK d : d = directory'[i]
      OBVIOUS
    <3>4. Chunk(directory[i])' = Chunk(d)'
      BY <3>3
    <3>5. Chunk(d)' = Chunk(d)
      BY <2>1
    <3> QED
      BY <3>2, <3>3, <3>4, <3>5
  <2>4. \A i \in 1 .. Len(directory') :
           /\ starts'[i] \in Nat
           /\ End(i + 1)' = starts'[i] + directory'[i].size
           /\ End(i + 1)' <= Len(payload')
    BY <1>13, <2>2
  <2>5. \A j \in 1 .. Len(payload') :
           \E i \in 1 .. Len(directory') : \E k \in 1 .. directory'[i].size : j = starts'[i] + k
    <3> TAKE j \in 1 .. Len(payload')
    <3>1. PICK i \in 1 .. n + 1 : \E k \in 1 .. directory'[i].size : j = starts'[i] + k
      BY <1>14
    <3> QED
      BY <2>2, <3>1
  <2> QED
    BY <1>15, <2>2, <2>3, <2>4, <2>5 DEF PayloadRight
<1> QED
  BY <1>0, <1>2, <1>5, <1>6, <1>7, <1>8, <1>10, <1>16

\* At the turn of r, its entry carries bands that no earlier entry carries: r, and in a merged
\* chunk all its siblings with a value, which are still pending.
LEMMA CarriedAtTurn ==
  ASSUME IInv, Turn, NEW r, r = Refs[at], r \in pending,
         NEW merged \in BOOLEAN, merged => r.band = 1,
         NEW e, e = EntryOf(r, merged)
  PROVE  /\ r \in CarriedBy(e)
         /\ \A s \in CarriedBy(e) : s \in pending /\ ~Done(s)
         /\ \A s \in active :
               s \in CarriedBy(e) <=> \/ s = r
                                      \/ merged /\ s \in {Sibling(r, 2), Sibling(r, 3)}
         /\ merged => \A b \in {2, 3} : /\ Sibling(r, b).band = b
                                        /\ Sibling(Sibling(r, b), 1) = r
<1>1. r \in Bands /\ r \in active /\ ~Done(r)
  BY TurnFacts DEF IInv
<1>2. Given /\ active \subseteq Bands /\ phase = "merge" /\ MergeInv
  BY DEF IInv, Given, Turn
<1>3. /\ Lead(e) = r /\ e.layer = r.layer /\ e.channel = r.channel
      /\ e.band = (IF merged THEN 4 ELSE r.band)
      /\ r.band \in 0 .. 3
  BY <1>1, <1>2, EntryShape
<1>4. CASE ~merged
  <2>1. CarriedBy(e) = {r}
    BY <1>3, <1>4 DEF CarriedBy
  <2> QED
    BY <1>1, <1>4, <2>1
<1>5. CASE merged
  <2>1. r.band = 1 /\ r.layer \in 1 .. LevelsOf(r.channel) /\ r.layer \in Nat
    <3>1. 1 \in 1 .. 3
      OBVIOUS
    <3>2. r.band = 1
      BY <1>5
    <3>3. r.layer \in 1 .. LevelsOf(r.channel)
      BY <1>1, <3>1, <3>2, SiblingFields
    <3> QED
      BY <1>1, <3>2, <3>3, BandFields, BandListAssumption
  <2>2. r = [layer |-> r.layer, channel |-> r.channel, band |-> 1]
    BY <1>1, <2>1, BandFields
  <2>3. \A b \in 1 .. 3 : /\ Sibling(r, b) = [layer |-> r.layer, channel |-> r.channel, band |-> b]
                          /\ Sibling(r, b) \in Bands
    BY <1>1, <2>1, SiblingFields
  <2>4. ASSUME NEW b \in {2, 3}
        PROVE  /\ Sibling(r, b).band = b
               /\ Sibling(Sibling(r, b), 1) = r
               /\ Before(r, Sibling(r, b))
               /\ Sibling(r, b) \in active => Sibling(r, b) \in CarriedBy(e)
    <3>1. b \in 1 .. 3 /\ 1 < b
      BY <2>4
    <3>2. Sibling(r, b) = [layer |-> r.layer, channel |-> r.channel, band |-> b]
      BY <2>3, <3>1
    <3>3. Sibling(Sibling(r, b), 1) = [layer |-> r.layer, channel |-> r.channel, band |-> 1]
      <4>1. PICK s : s = Sibling(r, b)
        OBVIOUS
      <4>2. s = [layer |-> r.layer, channel |-> r.channel, band |-> b]
        BY <3>2, <4>1
      <4>3. Sibling(s, 1) = [s EXCEPT !.band = 1]
        BY DEF Sibling
      <4> QED
        BY <4>1, <4>2, <4>3
    <3>4. Before(r, Sibling(r, b))
      <4>1. /\ Sibling(r, b).layer = r.layer /\ Sibling(r, b).channel = r.channel
            /\ Sibling(r, b).band = b
        BY <3>2
      <4> QED
        BY <2>1, <3>1, <4>1 DEF Before
    <3>5. Sibling(r, b) \in active => Sibling(r, b) \in CarriedBy(e)
      BY <1>3, <1>5, <3>2 DEF CarriedBy
    <3> QED
      BY <2>2, <3>2, <3>3, <3>4, <3>5
  <2>5. ASSUME NEW s \in CarriedBy(e)
        PROVE  s = r \/ s = Sibling(r, 2) \/ s = Sibling(r, 3)
    <3>1. s \in active /\ s.layer = r.layer /\ s.channel = r.channel
      BY <1>3, <1>5 DEF CarriedBy
    <3>2. s \in Bands
      BY <1>2, <3>1
    <3>3. /\ s = [layer |-> r.layer, channel |-> r.channel, band |-> s.band]
          /\ s.band \in 1 .. 3
      <4>1. r.layer > 0
        BY <2>1
      <4> QED
        BY <3>1, <3>2, <4>1, BandFields
    <3>4. s = Sibling(r, s.band)
      BY <2>3, <3>3
    <3>5. CASE s.band = 1
      BY <2>2, <3>3, <3>5
    <3> QED
      BY <3>3, <3>4, <3>5
  <2>6. r \in CarriedBy(e)
    BY <1>1, <1>3, <1>5 DEF CarriedBy
  <2>7. ASSUME NEW s \in CarriedBy(e)
        PROVE  s \in pending /\ ~Done(s)
    <3>1. CASE s = r
      BY <1>1, <3>1
    <3>2. ASSUME NEW b \in {2, 3}, s = Sibling(r, b)
          PROVE  s \in pending /\ ~Done(s)
      <4>1. s \in Bands /\ s \in active
        <5>1. s \in active
          BY <1>3, <1>5 DEF CarriedBy
        <5> QED
          BY <1>2, <5>1
      <4>2. ~Done(s)
        BY <2>4, <3>2, <4>1, TurnFacts
      <4>3. Sibling(s, 1) = r
        BY <2>4, <3>2
      <4>4. s \in pending
        BY <1>1, <1>2, <4>1, <4>3 DEF MergeInv
      <4> QED
        BY <4>2, <4>4
    <3> QED
      BY <2>5, <3>1, <3>2
  <2>8. \A s \in active : s \in CarriedBy(e) <=> s = r \/ s \in {Sibling(r, 2), Sibling(r, 3)}
    BY <2>4, <2>5, <2>6
  <2> QED
    BY <1>5, <2>4, <2>6, <2>7, <2>8
<1> QED
  BY <1>4, <1>5

\* The effect of EmitAlone and of EmitMerged, told from the bands with a value.
Emit(r, merged) ==
  /\ Turn
  /\ r = Refs[at] /\ r \in pending
  /\ merged => r.band = 1
  /\ directory' = Append(directory, EntryOf(r, merged))
  /\ payload' = payload \o Chunk(EntryOf(r, merged))
  /\ starts' = Append(starts, Len(payload))
  /\ pending' = IF merged THEN pending \ {Sibling(r, 2), Sibling(r, 3)} ELSE pending
  /\ at' = at + 1
  /\ phase' = phase /\ settings' = settings /\ active' = active /\ highest' = highest
  /\ size' = size /\ offset' = offset /\ cursor' = cursor /\ bi' = bi /\ values' = values

LEMMA EmitKeeps ==
  ASSUME IInv, NEW r, NEW merged \in BOOLEAN, Emit(r, merged)
  PROVE  IInv'
<1>0. PICK e, n : e = EntryOf(r, merged) /\ n = Len(directory)
  OBVIOUS
<1>1. /\ Turn /\ phase = "merge" /\ r = Refs[at] /\ r \in pending /\ (merged => r.band = 1)
      /\ directory' = Append(directory, e)
      /\ payload' = payload \o Chunk(e)
      /\ starts' = Append(starts, Len(payload))
      /\ pending' = IF merged THEN pending \ {Sibling(r, 2), Sibling(r, 3)} ELSE pending
      /\ at' = at + 1
      /\ phase' = phase /\ settings' = settings /\ active' = active /\ highest' = highest
      /\ size' = size /\ offset' = offset /\ cursor' = cursor /\ bi' = bi /\ values' = values
  BY <1>0 DEF Emit, Turn
<1>2. /\ Given /\ active \subseteq Bands /\ pending \subseteq active /\ r \in active
      /\ EntriesRight /\ PayloadRight /\ CarriedOnce
      /\ directory \in Seq(Entries) /\ payload \in Seq(Tokens) /\ starts \in Seq(Nat)
      /\ size \in 0 .. Len(payload) /\ offset \in 0 .. Len(payload) /\ cursor \in 0 .. Len(payload)
  BY <1>1 DEF IInv, Given
<1>3. /\ directory' \in Seq(Entries) /\ payload' \in Seq(Tokens) /\ starts' \in Seq(Nat)
      /\ n \in Nat /\ Len(directory') = n + 1
      /\ \A i \in 1 .. n : directory'[i] = directory[i]
      /\ directory'[n + 1] = e
      /\ Len(payload) \in Nat /\ Len(payload') >= Len(payload) /\ Len(payload') \in Nat
      /\ EntriesRight' /\ PayloadRight'
  BY <1>0, <1>1, <1>2, EntryWritten
<1>4. /\ r \in CarriedBy(e)
      /\ \A s \in CarriedBy(e) : s \in pending /\ ~Done(s)
      /\ \A s \in active :
            s \in CarriedBy(e) <=> s = r \/ (merged /\ s \in {Sibling(r, 2), Sibling(r, 3)})
      /\ merged => \A b \in {2, 3} : Sibling(r, b).band = b /\ Sibling(Sibling(r, b), 1) = r
  BY <1>0, <1>1, CarriedAtTurn
<1>5. /\ \A i \in 1 .. n : Done(Lead(directory[i]))
      /\ Covered = {s \in active : s \notin pending \/ Done(s)}
      /\ \A s \in active \ pending : s.band \in {2, 3} /\ Done(Sibling(s, 1))
      /\ offset = 0
  BY <1>0, <1>1 DEF IInv, MergeInv
<1>6. at \in 1 .. Count /\ Count \in Nat
  BY <1>1, TurnFacts, BandsFinite
<1>7. \A s : Done(s)' <=> Done(s) \/ s = r
  BY <1>1, <1>6, DoneNext
<1>8. Given' /\ \A d : CarriedBy(d)' = CarriedBy(d)
  BY <1>1, <1>2, SameEntries
<1>9. \A i \in 1 .. n : \A s \in CarriedBy(directory[i]) : s \in Covered
  BY <1>0 DEF Covered
<1>10. /\ Lead(e) = r /\ e.layer = r.layer
       /\ \A i \in 1 .. n : directory[i].layer <= e.layer
  <2>1. Lead(e) = r /\ e.layer = r.layer
    BY <1>0, <1>1, <1>2, EntryShape
  <2>2. ASSUME NEW i \in 1 .. n
        PROVE  directory[i].layer <= r.layer
    <3>1. Lead(directory[i]) \in Bands /\ Before(Lead(directory[i]), r)
      BY <1>1, <1>5, TurnFacts
    <3>2. directory[i].layer = Lead(directory[i]).layer
      BY DEF Lead
    <3> QED
      BY <1>2, <3>1, <3>2, BeforeIsTotal
  <2> QED
    BY <2>1, <2>2
<1>11. CarriedOnce'
  <2> SUFFICES ASSUME NEW i \in 1 .. n + 1, NEW j \in 1 .. n + 1, i < j
               PROVE  /\ CarriedBy(directory'[i]) \cap CarriedBy(directory'[j]) = {}
                      /\ directory'[i].layer <= directory'[j].layer
    BY <1>3, <1>8 DEF CarriedOnce
  <2>1. i \in 1 .. n /\ directory'[i] = directory[i]
    BY <1>3
  <2>2. CASE j \in 1 .. n
    <3>1. directory'[j] = directory[j]
      BY <1>3, <2>2
    <3> QED
      BY <1>0, <1>2, <2>1, <2>2, <3>1 DEF CarriedOnce
  <2>3. CASE j = n + 1
    <3>1. directory'[j] = e
      BY <1>3, <2>3
    <3>2. ASSUME NEW s \in CarriedBy(directory[i]), s \in CarriedBy(e)
          PROVE  FALSE
      BY <1>4, <1>5, <1>9, <2>1, <3>2
    <3> QED
      BY <1>10, <2>1, <3>1, <3>2
  <2> QED
    BY <1>3, <2>2, <2>3
<1>12. Covered' = Covered \cup CarriedBy(e)
  <2>1. Covered' = UNION {CarriedBy(directory'[i]) : i \in 1 .. n + 1}
    BY <1>3, <1>8 DEF Covered
  <2>2. ASSUME NEW s
        PROVE  s \in Covered' <=> s \in Covered \/ s \in CarriedBy(e)
    <3>1. s \in Covered' <=> \E i \in 1 .. n + 1 : s \in CarriedBy(directory'[i])
      BY <2>1
    <3>2. s \in Covered <=> \E i \in 1 .. n : s \in CarriedBy(directory[i])
      BY <1>0 DEF Covered
    <3>3. \A i \in 1 .. n + 1 : i \in 1 .. n \/ i = n + 1
      BY <1>3
    <3>4. n + 1 \in 1 .. n + 1 /\ \A i \in 1 .. n : i \in 1 .. n + 1
      BY <1>3
    <3> QED
      BY <1>3, <3>1, <3>2, <3>3, <3>4
  <2> QED
    BY <2>2
<1>13. MergeInv'
  <2>1. \A i \in 1 .. n + 1 : Lead(directory'[i]) = r \/ Done(Lead(directory'[i]))
    <3> TAKE i \in 1 .. n + 1
    <3>1. CASE i \in 1 .. n
      BY <1>3, <1>5, <3>1
    <3>2. CASE i = n + 1
      BY <1>3, <1>10, <3>2
    <3> QED
      BY <1>3, <3>1, <3>2
  <2>2. \A i \in 1 .. Len(directory') : Done(Lead(directory[i]))'
    <3> TAKE i \in 1 .. Len(directory')
    <3>1. PICK d : d = Lead(directory'[i])
      OBVIOUS
    <3>2. Done(d)'
      BY <1>3, <1>7, <2>1, <3>1
    <3>3. Lead(directory[i])' = d
      BY <3>1 DEF Lead
    <3> QED
      BY <3>2, <3>3 DEF Done
  <2>3. ASSUME NEW s \in active
        PROVE  s \in Covered' <=> s \notin pending' \/ Done(s)'
    <3>1. s \in Covered' <=> s \notin pending \/ Done(s) \/ s \in CarriedBy(e)
      BY <1>5, <1>12
    <3>2. s \notin pending' <=> s \notin pending \/ (merged /\ s \in {Sibling(r, 2), Sibling(r, 3)})
      BY <1>1
    <3> QED
      BY <1>4, <1>7, <3>1, <3>2
  <2>4. Covered' \subseteq active
    BY <1>2, <1>4, <1>5, <1>12
  <2>5. Covered' = {s \in active' : s \notin pending' \/ Done(s)'}
    BY <1>1, <2>3, <2>4
  <2>6. \A s \in active' \ pending' : s.band \in {2, 3} /\ Done(Sibling(s, 1))'
    <3> TAKE s \in active' \ pending'
    <3>1. CASE s \notin pending
      BY <1>1, <1>5, <1>7, <3>1
    <3>2. CASE s \in pending
      <4>1. PICK b \in {2, 3} : merged /\ s = Sibling(r, b)
        BY <1>1, <3>2
      <4>2. s.band = b /\ Sibling(s, 1) = r
        BY <1>4, <4>1
      <4>3. Done(r)'
        BY <1>7
      <4> QED
        BY <4>2, <4>3
    <3> QED
      BY <3>1, <3>2
  <2> QED
    BY <1>1, <1>5, <2>2, <2>5, <2>6 DEF MergeInv
<1>14. StreamInv'
  BY <1>1 DEF StreamInv
<1>15. DecodeInv'
  <2>1. Received = {} /\ Received' = {}
    BY <1>1 DEF Received
  <2> QED
    BY <1>1, <2>1 DEF IInv, DecodeInv
<1>16. /\ at' \in 1 .. (IF phase' = "merge" THEN Count ELSE Len(directory')) + 1
       /\ pending' \subseteq active'
       /\ size' \in 0 .. Len(payload') /\ offset' \in 0 .. Len(payload')
       /\ cursor' \in 0 .. Len(payload')
  BY <1>1, <1>2, <1>3, <1>6, SMTT(60)
<1> QED
  BY <1>1, <1>3, <1>8, <1>11, <1>13, <1>14, <1>15, <1>16 DEF IInv

LEMMA EmitAloneKeeps ==
  ASSUME IInv, EmitAlone
  PROVE  IInv'
<1>0. PICK r : r = Refs[at]
  OBVIOUS
<1>1. /\ Turn /\ r \in pending
      /\ directory' = Append(directory,
           [layer |-> r.layer, channel |-> r.channel, band |-> r.band,
            mode |-> Mode(r), step |-> Step(r), size |-> Len(Section(r))])
      /\ payload' = payload \o Section(r)
      /\ starts' = Append(starts, Len(payload))
      /\ at' = at + 1
      /\ pending' = pending
      /\ phase' = phase /\ settings' = settings /\ active' = active /\ highest' = highest
      /\ size' = size /\ offset' = offset /\ cursor' = cursor /\ bi' = bi /\ values' = values
  BY <1>0 DEF EmitAlone, decVars
<1>2. r \in active /\ active \subseteq Bands
  BY <1>1 DEF IInv, Given
<1>3. PICK e : e = EntryOf(r, FALSE)
  OBVIOUS
<1>4. /\ Lead(e) = r /\ e.band = r.band /\ r.band \in 0 .. 3 /\ e.size = Len(Chunk(e))
  BY <1>2, <1>3, EntryShape
<1>5. Chunk(e) = Section(r)
  BY <1>4 DEF Chunk
<1>6. e = [layer |-> r.layer, channel |-> r.channel, band |-> r.band,
           mode |-> Mode(r), step |-> Step(r), size |-> Len(Section(r))]
  <2>1. e = [layer |-> e.layer, channel |-> e.channel, band |-> e.band, mode |-> e.mode,
             step |-> e.step, size |-> e.size]
    BY <1>3 DEF EntryOf
  <2>2. /\ e.layer = r.layer /\ e.channel = r.channel /\ e.mode = Mode(r) /\ e.step = Step(r)
    BY <1>2, <1>3, EntryShape
  <2>3. e.size = Len(Section(r))
    BY <1>4, <1>5
  <2> QED
    BY <1>4, <2>1, <2>2, <2>3
<1>7. Emit(r, FALSE)
  BY <1>0, <1>1, <1>3, <1>5, <1>6 DEF Emit
<1> QED
  BY <1>7, EmitKeeps

\* The bands still pending are the siblings with a value: no other chunk has taken them.
LEMMA EmitMergedKeeps ==
  ASSUME IInv, EmitMerged
  PROVE  IInv'
<1>0. PICK r : r = Refs[at]
  OBVIOUS
<1>1. /\ Turn /\ r \in pending /\ r.band = 1
      /\ directory' = Append(directory,
           [layer |-> r.layer, channel |-> r.channel, band |-> 4,
            mode |-> 4, step |-> Step(r), size |-> Len(Merged(r))])
      /\ payload' = payload \o Merged(r)
      /\ starts' = Append(starts, Len(payload))
      /\ at' = at + 1
      /\ pending' = pending \ {Sibling(r, 2), Sibling(r, 3)}
      /\ phase' = phase /\ settings' = settings /\ active' = active /\ highest' = highest
      /\ size' = size /\ offset' = offset /\ cursor' = cursor /\ bi' = bi /\ values' = values
  BY <1>0 DEF EmitMerged, Merges, decVars
<1>2. r \in active /\ active \subseteq Bands /\ pending \subseteq active
  BY <1>1 DEF IInv, Given
<1>3. PICK e : e = EntryOf(r, TRUE)
  OBVIOUS
<1>4. /\ Lead(e) = r /\ e.band = 4 /\ e.mode = 4 /\ e.layer = r.layer /\ e.channel = r.channel
      /\ e.step = Step(r) /\ e.size = Len(Chunk(e))
  BY <1>1, <1>2, <1>3, EntryShape
<1>5. \A b \in {2, 3} : Sibling(r, b) \in pending <=> Sibling(r, b) \in active
  <2>1. /\ \A s \in CarriedBy(e) : s \in pending
        /\ \A s \in active : s \in CarriedBy(e) <=> s = r \/ s \in {Sibling(r, 2), Sibling(r, 3)}
    BY <1>0, <1>1, <1>3, CarriedAtTurn
  <2> QED
    BY <1>2, <2>1
<1>6. Merged(r) = Chunk(e)
  <2>1. /\ Part(e, 2) = IF Sibling(r, 2) \in pending THEN Section(Sibling(r, 2)) ELSE <<>>
        /\ Part(e, 3) = IF Sibling(r, 3) \in pending THEN Section(Sibling(r, 3)) ELSE <<>>
    BY <1>4, <1>5 DEF Part
  <2>2. HeaderOf(e) =
          [stepD |-> IF Sibling(r, 3) \in pending THEN Step(Sibling(r, 3)) ELSE 0,
           modes |-> <<Mode(r),
                       IF Sibling(r, 2) \in pending THEN Mode(Sibling(r, 2)) ELSE 0,
                       IF Sibling(r, 3) \in pending THEN Mode(Sibling(r, 3)) ELSE 0>>,
           sizeH |-> Len(Section(r)), sizeV |-> Len(Part(e, 2))]
    BY <1>4, <1>5 DEF HeaderOf
  <2>3. Chunk(e) = <<<<r, 0, HeaderOf(e)>>>> \o Section(r) \o Part(e, 2) \o Part(e, 3)
    BY <1>4 DEF Chunk
  <2>4. Merged(r) = <<<<r, 0, HeaderOf(e)>>>> \o Section(r) \o Part(e, 2) \o Part(e, 3)
    BY <2>1, <2>2 DEF Merged
  <2> QED
    BY <2>3, <2>4
<1>7. e = [layer |-> r.layer, channel |-> r.channel, band |-> 4,
           mode |-> 4, step |-> Step(r), size |-> Len(Merged(r))]
  <2>1. e = [layer |-> e.layer, channel |-> e.channel, band |-> e.band, mode |-> e.mode,
             step |-> e.step, size |-> e.size]
    BY <1>3 DEF EntryOf
  <2> QED
    BY <1>4, <1>6, <2>1
<1>8. Emit(r, TRUE)
  BY <1>0, <1>1, <1>3, <1>6, <1>7 DEF Emit
<1> QED
  BY <1>8, EmitKeeps

\* When all turns are over every band with a value is in some entry, and a prefix that holds
\* the payloads of the layers up to the requested one holds each of them whole.
LEMMA HandKeeps ==
  ASSUME IInv, Hand
  PROVE  IInv'
<1>1. /\ phase = "merge" /\ at = Len(Refs) + 1 /\ phase' = "decode" /\ at' = 1
      /\ highest' \in 0 .. Levels /\ size' \in 0 .. Len(payload)
      /\ IF highest' = Levels THEN size' = Len(payload) ELSE Holds(size', highest')
      /\ settings' = settings /\ active' = active /\ pending' = pending
      /\ directory' = directory /\ payload' = payload /\ starts' = starts
      /\ offset' = offset /\ cursor' = cursor /\ bi' = bi /\ values' = values
  BY DEF Hand, encVars
<1>2. /\ Given /\ EntriesRight /\ PayloadRight /\ CarriedOnce
      /\ active \subseteq Bands /\ pending \subseteq active
  BY DEF IInv, Given
<1>3. /\ Given' /\ EntriesRight' /\ PayloadRight' /\ CarriedOnce' /\ Covered' = Covered
      /\ \A i : End(i)' = End(i)
  BY <1>1, <1>2, SameStream
<1>4. Covered = active
  <2>1. \A s \in Bands : Done(s)
    <3>1. at - 1 = Count
      BY <1>1, RefsOrder, BandsFinite
    <3> QED
      BY <3>1, RefsOrder DEF Done
  <2> QED
    BY <1>1, <1>2, <2>1 DEF IInv, MergeInv
<1>5. ASSUME NEW i \in 1 .. Len(directory), directory[i].layer <= highest'
      PROVE  End(i + 1) <= size'
  <2>1. PICK e, p, z, m : /\ e = directory[i] /\ p = starts[i] /\ z = directory[i].size
                          /\ m = Len(payload)
    OBVIOUS
  <2>2. /\ p \in Nat /\ End(i + 1) = p + z /\ p + z <= m
        /\ \A k \in 1 .. z : payload[p + k] = Chunk(e)[k]
    BY <1>2, <2>1 DEF PayloadRight
  <2>3. /\ z = Len(Chunk(e)) /\ z \in Nat \ {0}
        /\ \A s \in CarriedBy(e) : s \in active /\ s.layer = e.layer
        /\ \A k \in 1 .. Len(Chunk(e)) : Chunk(e)[k][1] \in CarriedBy(e)
    BY <1>2, <2>1, EntryFacts
  <2>4. z \in 1 .. z
    BY <2>3
  <2>5. payload[p + z][1].layer = e.layer /\ payload[p + z][1] \in Bands
    <3>1. payload[p + z] = Chunk(e)[z]
      BY <2>2, <2>4
    <3>2. Chunk(e)[z][1] \in CarriedBy(e)
      BY <2>3, <2>4
    <3> QED
      BY <1>2, <2>3, <3>1, <3>2
  <2>6. m \in Nat /\ size' \in 0 .. m
    BY <1>1, <2>1, LenProperties DEF IInv
  <2>7. CASE highest' = Levels
    BY <1>1, <2>1, <2>2, <2>7
  <2>8. CASE highest' # Levels
    <3>1. \A j \in (size' + 1) .. m : payload[j][1].layer > highest'
      BY <1>1, <2>1, <2>8 DEF Holds
    <3>2. ~(e.layer > highest')
      <4>1. e.layer \in Nat /\ highest' \in Nat
        BY <1>1, <2>5, BandFields, BandListAssumption
      <4> QED
        BY <1>5, <2>1, <4>1
    <3>3. p + z \notin (size' + 1) .. m
      BY <2>5, <3>1, <3>2
    <3>4. p + z <= size'
      BY <2>2, <2>3, <2>6, <3>3
    <3> QED
      BY <2>2, <3>4
  <2> QED
    BY <2>7, <2>8
<1>6. StreamInv'
  BY <1>1, <1>3, <1>4, <1>5 DEF StreamInv
<1>7. MergeInv'
  BY <1>1 DEF MergeInv
<1>8. DecodeInv'
  <2>1. Received = {} /\ Received' = {}
    BY <1>1 DEF Received
  <2>2. offset = 0 /\ End(1) = 0
    BY <1>1, <1>2 DEF IInv, MergeInv, PayloadRight
  <2>3. offset' = End(at)'
    <3>1. End(at)' = End(1)
      BY <1>1 DEF End
    <3> QED
      BY <1>1, <2>2, <3>1
  <2> QED
    BY <1>1, <2>1, <2>3 DEF IInv, DecodeInv
<1>9. at' \in 1 .. (IF phase' = "merge" THEN Count ELSE Len(directory')) + 1
  <2>1. Len(directory) \in Nat
    BY LenProperties DEF IInv
  <2> QED
    BY <1>1, <2>1
<1> QED
  BY <1>1, <1>3, <1>6, <1>7, <1>8, <1>9 DEF IInv

--------------------------------------------------------------------------------
(* decode_v2 *)

\* What the loop over the directory knows of the entry it has come to: it passes all checks,
\* and its payload is where the decoder expects it.
LEMMA EntryAtHand ==
  ASSUME IInv, phase \in {"decode", "sections"}, at <= Len(directory),
         NEW e, e = Entry
  PROVE  /\ at \in 1 .. Len(directory) /\ Len(directory) \in Nat
         /\ Accepted(e)
         /\ offset = starts[at] /\ offset \in Nat /\ e.size \in Nat /\ e.size = Len(Chunk(e))
         /\ End(at + 1) = offset + e.size
         /\ offset + e.size <= Len(payload) /\ Len(payload) \in Nat
         /\ \A k \in 1 .. e.size : payload[offset + k] = Chunk(e)[k]
<1>1. at \in 1 .. Len(directory) /\ Len(directory) \in Nat /\ Len(payload) \in Nat
  <2>1. Len(directory) \in Nat /\ Len(payload) \in Nat
    BY LenProperties DEF IInv
  <2>2. at \in 1 .. Len(directory) + 1
    BY DEF IInv
  <2> QED
    BY <2>1, <2>2
<1>2. e = directory[at] /\ offset = starts[at]
  BY <1>1 DEF IInv, DecodeInv, End, Entry
<1>3. /\ e.layer \in 0 .. Levels /\ e.layer <= LevelsOf(e.channel) /\ e.channel \in Channels
      /\ e.band \in 0 .. 4 /\ (e.layer = 0 <=> e.band = 0)
      /\ e.mode \in 3 .. 24 /\ e.step \in Nat \ {0}
      /\ e.size = Len(Chunk(e)) /\ e.size \in Nat \ {0}
  BY <1>1, <1>2, EntryFacts DEF IInv
<1>4. /\ offset \in Nat
      /\ End(at + 1) = offset + e.size
      /\ End(at + 1) <= Len(payload)
      /\ \A k \in 1 .. e.size : payload[offset + k] = Chunk(e)[k]
  BY <1>1, <1>2 DEF IInv, PayloadRight
<1>5. e.layer <= highest => offset + e.size <= size
  BY <1>1, <1>2, <1>4 DEF IInv, StreamInv
<1>6. e.layer <= highest => ~Truncated(e)
  <2>1. size \in Nat
    BY <1>1 DEF IInv
  <2>2. PICK z : z = e.size
    OBVIOUS
  <2>3. e.layer <= highest => offset + z <= size
    BY <1>5, <2>2
  <2>4. z \in Nat
    BY <1>3, <2>2
  <2> QED
    BY <1>4, <2>1, <2>2, <2>3, <2>4 DEF Truncated
<1>7. e.step # 0 /\ e.layer <= Levels
  BY <1>3, BandListAssumption
<1>8. Accepted(e)
  BY <1>3, <1>6, <1>7 DEF Accepted
<1> QED
  BY <1>1, <1>2, <1>3, <1>4, <1>8

\* The parent of a band at hand arrived with an earlier entry, if it has a value at all.
LEMMA ParentIsThere ==
  ASSUME IInv, phase \in {"decode", "sections"}, at <= Len(directory),
         NEW e, e = Entry, e.layer <= highest,
         NEW r \in CarriedBy(e)
  PROVE  /\ r \in active /\ r \in Bands /\ r.layer = e.layer /\ ParentOf(r) \in Bands
         /\ \A i \in 1 .. at - 1 : r \notin CarriedBy(directory[i])
         /\ r.layer > 0 => /\ ParentOf(r) \notin CarriedBy(e)
                           /\ values[ParentOf(r)] = Value(ParentOf(r))
                           /\ ParentOf(r) \in active => ParentOf(r) \in Received
<1>1. at \in 1 .. Len(directory) /\ Len(directory) \in Nat /\ e = directory[at]
  BY EntryAtHand DEF Entry
<1>2. /\ Given /\ EntriesRight /\ CarriedOnce /\ StreamInv /\ DecodeInv
      /\ highest \in 0 .. Levels /\ active \subseteq Bands
  BY DEF IInv, Given
<1>3. /\ r \in active /\ r.layer = e.layer
      /\ \A s \in CarriedBy(e) : s.layer = e.layer
  BY <1>1, <1>2, EntryFacts
<1>4. r \in Bands /\ ParentOf(r) \in Bands
  BY <1>2, <1>3, ParentFields
<1>5. ASSUME NEW i \in 1 .. at - 1
      PROVE  r \notin CarriedBy(directory[i])
  <2>1. i \in 1 .. Len(directory) /\ i < at
    BY <1>1
  <2> QED
    BY <1>1, <1>2, <2>1 DEF CarriedOnce
<1>6. ASSUME r.layer > 0
      PROVE  /\ ParentOf(r) \notin CarriedBy(e)
             /\ values[ParentOf(r)] = Value(ParentOf(r))
             /\ ParentOf(r) \in active => ParentOf(r) \in Received
  <2>1. PICK p : p = ParentOf(r)
    OBVIOUS
  <2>2. p.layer = r.layer - 1 /\ p \in Bands /\ r.layer \in Nat /\ p.layer \in Nat
    BY <1>4, <1>6, <2>1, ParentFields, BandFields, BandListAssumption
  <2>3. p \notin CarriedBy(e)
    BY <1>3, <2>2
  <2>4. ASSUME p \in active
        PROVE  p \in Received
    <3>1. p \in Covered
      BY <1>2, <2>4 DEF StreamInv
    <3>2. PICK i \in 1 .. Len(directory) : p \in CarriedBy(directory[i])
      BY <3>1 DEF Covered
    <3>3. p.layer = directory[i].layer
      BY <1>2, <3>2, EntryFacts
    <3>4. directory[i].layer < directory[at].layer
      BY <1>1, <1>3, <2>2, <3>3
    <3>5. i < at
      <4>1. i # at
        BY <1>1, <2>3, <3>2
      <4>2. at < i => directory[at].layer <= directory[i].layer
        BY <1>1, <1>2 DEF CarriedOnce
      <4>3. directory[at].layer \in Int /\ directory[i].layer \in Int
        BY <1>1, <1>3, <2>2, <3>3
      <4> QED
        BY <1>1, <3>4, <4>1, <4>2, <4>3
    <3>6. p.layer <= highest
      BY <1>2, <1>3, <2>2, BandListAssumption
    <3>7. i \in 1 .. at - 1
      BY <1>1, <3>5
    <3> QED
      BY <2>4, <3>2, <3>6, <3>7 DEF Received
  <2>5. p \notin active => p \notin Received
    BY DEF Received
  <2>6. values[p] = Value(p)
    BY <1>2, <2>2, <2>4, <2>5 DEF DecodeInv, Value
  <2> QED
    BY <2>1, <2>3, <2>4, <2>6
<1> QED
  BY <1>3, <1>4, <1>5, <1>6

\* A section is cut out of the payload whole.
LEMMA CutOut ==
  ASSUME NEW S, NEW s \in Seq(S), NEW t \in Seq(S), NEW p \in Nat,
         p + Len(t) <= Len(s),
         \A k \in 1 .. Len(t) : s[p + k] = t[k]
  PROVE  SubSeq(s, p + 1, p + Len(t)) = t
<1>1. Len(s) \in Nat /\ Len(t) \in Nat
  BY LenProperties
<1>2. PICK m, n, u : m = p + 1 /\ n = p + Len(t) /\ u = SubSeq(s, m, n)
  OBVIOUS
<1>3. m \in Int /\ n \in Int /\ \A i \in m .. n : s[i] \in S
  <2>1. \A i \in m .. n : i \in 1 .. Len(s)
    BY <1>1, <1>2
  <2> QED
    BY <1>1, <1>2, <2>1, ElementOfSeq
<1>4. /\ u \in Seq(S)
      /\ Len(u) = IF m <= n THEN n - m + 1 ELSE 0
      /\ \A i \in 1 .. n - m + 1 : u[i] = s[m + i - 1]
  BY <1>2, <1>3, SubSeqProperties
<1>5. Len(u) = Len(t) /\ n - m + 1 = Len(t)
  BY <1>1, <1>2, <1>4
<1>6. \A i \in 1 .. Len(u) : u[i] = t[i]
  <2> TAKE i \in 1 .. Len(u)
  <2>1. i \in 1 .. Len(t)
    BY <1>5
  <2>2. i \in Int /\ m = p + 1
    BY <1>1, <1>2, <2>1
  <2>3. m + i - 1 = p + i
    BY <2>2
  <2> QED
    BY <1>4, <1>5, <2>1, <2>3
<1> QED
  BY <1>2, <1>4, <1>5, <1>6, SeqEqual

\* Most steps leave everything but the place in the stream and the values.
LEMMA DecoderKeeps ==
  ASSUME IInv, phase # "merge", phase' \in {"decode", "sections", "decoded"},
         UNCHANGED <<encVars, highest, size>>,
         at' \in 1 .. Len(directory) + 1,
         offset' \in 0 .. Len(payload), cursor' \in 0 .. Len(payload), bi' \in 1 .. 4,
         DecodeInv'
  PROVE  IInv'
<1>1. /\ settings' = settings /\ active' = active /\ directory' = directory
      /\ payload' = payload /\ starts' = starts /\ pending' = pending
      /\ highest' = highest /\ size' = size /\ phase' # "merge"
  BY DEF encVars
<1>2. /\ Given' /\ EntriesRight' /\ PayloadRight' /\ CarriedOnce' /\ Covered' = Covered
      /\ \A i : End(i)' = End(i)
  BY <1>1, SameStream DEF IInv
<1>3. StreamInv'
  <2>1. /\ Covered = active /\ (highest = Levels => size = Len(payload))
        /\ \A i \in 1 .. Len(directory) : directory[i].layer <= highest => End(i + 1) <= size
    BY DEF IInv, StreamInv
  <2> QED
    BY <1>1, <1>2, <2>1 DEF StreamInv
<1>4. MergeInv'
  BY <1>1 DEF MergeInv
<1> QED
  BY <1>1, <1>2, <1>3, <1>4 DEF IInv

\* What the entries behind the decoder gave it, and what the sections of this one did.
Earlier ==
  {s \in active : s.layer <= highest /\ \E i \in 1 .. at - 1 : s \in CarriedBy(directory[i])}
Here == {s \in CarriedBy(Entry) : s.layer <= highest}

LEMMA ReceivedParts ==
  ASSUME IInv
  PROVE  /\ phase \in {"decode", "decoded"} => Received = Earlier
         /\ phase = "sections" => Received = Earlier \cup {s \in Here : s.band < bi}
<1>1. phase \in {"decode", "decoded"} => Received = Earlier
  BY DEF Received, Earlier
<1>2. ASSUME phase = "sections"
      PROVE  Received = Earlier \cup {s \in Here : s.band < bi}
  <2>1. at <= Len(directory)
    BY <1>2 DEF IInv, DecodeInv
  <2>2. at \in 1 .. Len(directory)
    BY <1>2, <2>1, EntryAtHand
  <2>3. \A s \in CarriedBy(directory[at]) : s \in active
    BY <2>2, EntryFacts DEF IInv
  <2> QED
    BY <1>2, <2>3 DEF Received, Earlier, Here, Entry
<1> QED
  BY <1>1, <1>2

LEMMA EarlierNext ==
  ASSUME IInv, phase \in {"decode", "sections"}, at <= Len(directory),
         UNCHANGED <<active, directory, highest>>
  PROVE  /\ at' = at + 1 => Earlier' = Earlier \cup Here
         /\ at' = at => Earlier' = Earlier /\ Here' = Here
<1>1. at \in 1 .. Len(directory) /\ Len(directory) \in Nat
  BY EntryAtHand
<1>2. \A d : CarriedBy(d)' = CarriedBy(d)
  BY DEF CarriedBy
<1>3. Earlier' = {s \in active : /\ s.layer <= highest
                                 /\ \E i \in 1 .. at' - 1 : s \in CarriedBy(directory[i])}
  BY <1>2 DEF Earlier
<1>4. ASSUME at' = at + 1
      PROVE  Earlier' = Earlier \cup Here
  <2>1. \A i : i \in 1 .. at' - 1 <=> i \in 1 .. at - 1 \/ i = at
    BY <1>1, <1>4
  <2>2. \A s \in CarriedBy(directory[at]) : s \in active
    BY <1>1, EntryFacts DEF IInv
  <2> QED
    BY <1>3, <2>1, <2>2 DEF Earlier, Here, Entry
<1>5. at' = at => Earlier' = Earlier /\ Here' = Here
  BY <1>2, <1>3 DEF Earlier, Here, Entry
<1> QED
  BY <1>4, <1>5

LEMMA SkipLayerKeeps ==
  ASSUME IInv, SkipLayer
  PROVE  IInv' /\ Received' = Received
<1>1. PICK e : e = Entry
  OBVIOUS
<1>2. phase = "decode" /\ at <= Len(directory) /\ e.layer > highest
  BY <1>1 DEF SkipLayer, Reading
<1>3. /\ at \in 1 .. Len(directory) /\ Len(directory) \in Nat /\ Accepted(e)
      /\ offset \in Nat /\ e.size \in Nat /\ End(at + 1) = offset + e.size
      /\ offset + e.size <= Len(payload) /\ Len(payload) \in Nat
  BY <1>1, <1>2, EntryAtHand
<1>4. /\ at' = at + 1 /\ offset' = offset + e.size
      /\ phase' = phase /\ cursor' = cursor /\ bi' = bi /\ values' = values
      /\ UNCHANGED <<encVars, highest, size>>
  BY <1>1, <1>3 DEF SkipLayer, NextEntry
<1>5. /\ active' = active /\ directory' = directory /\ highest' = highest
      /\ payload' = payload /\ starts' = starts
  BY <1>4 DEF encVars
<1>6. Received' = Received
  <2>1. Here = {}
    <3>1. /\ \A s \in CarriedBy(e) : s.layer = e.layer
          /\ e.layer \in 0 .. Levels /\ highest \in 0 .. Levels
      BY <1>1, <1>3, EntryFacts DEF IInv, Entry
    <3> QED
      BY <1>1, <1>2, <3>1, BandListAssumption DEF Here
  <2>2. Earlier' = Earlier
    BY <1>2, <1>4, <1>5, <2>1, EarlierNext
  <2>3. Received' = Earlier'
    BY <1>2, <1>4 DEF Received, Earlier
  <2> QED
    BY <1>2, <2>2, <2>3, ReceivedParts
<1>7. DecodeInv'
  <2>1. End(at)' = End(at + 1)
    BY <1>4, <1>5 DEF End
  <2> QED
    BY <1>2, <1>3, <1>4, <1>6, <2>1 DEF IInv, DecodeInv
<1>8. /\ at' \in 1 .. Len(directory) + 1 /\ offset' \in 0 .. Len(payload)
      /\ cursor' \in 0 .. Len(payload) /\ bi' \in 1 .. 4
  BY <1>3, <1>4 DEF IInv
<1> QED
  BY <1>2, <1>4, <1>6, <1>7, <1>8, DecoderKeeps

\* A band whose turn has come is new to the decoder, and its parent is not.
LEMMA BandAtHand ==
  ASSUME IInv, phase \in {"decode", "sections"}, at <= Len(directory),
         Entry.layer <= highest, NEW r \in CarriedBy(Entry),
         phase = "sections" => r.band >= bi
  PROVE  /\ r \in active /\ r \in Bands /\ r \in Here /\ r \notin Received
         /\ ParentOf(r) \in Bands
         /\ r.layer > 0 => /\ values[ParentOf(r)] = Value(ParentOf(r))
                           /\ ParentOf(r) \in active => ParentOf(r) \in Received
<1>1. /\ r \in active /\ r \in Bands /\ r.layer = Entry.layer /\ ParentOf(r) \in Bands
      /\ \A i \in 1 .. at - 1 : r \notin CarriedBy(directory[i])
      /\ r.layer > 0 => /\ values[ParentOf(r)] = Value(ParentOf(r))
                        /\ ParentOf(r) \in active => ParentOf(r) \in Received
  BY ParentIsThere
<1>2. r \notin Earlier
  BY <1>1 DEF Earlier
<1>3. phase = "sections" => r \notin {s \in Here : s.band < bi}
  <2>1. r.band \in Int /\ bi \in Int
    <3>1. /\ r.layer \in 0 .. Levels
          /\ (r.layer = 0 => r.band = 0) /\ (r.layer > 0 => r.band \in 1 .. 3)
      BY <1>1, BandFields
    <3> QED
      BY <3>1, BandListAssumption DEF IInv
  <2> QED
    BY <2>1
<1>4. r \notin Received
  BY <1>2, <1>3, ReceivedParts
<1> QED
  BY <1>1, <1>4 DEF Here

\* The values are those of the bands received, one of them new.
LEMMA OneMore ==
  ASSUME IInv, NEW r \in Bands, Received' = Received \cup {r},
         values' = [values EXCEPT ![r] = "band"]
  PROVE  values' = [s \in Bands |-> IF s \in Received' THEN "band" ELSE "zero"]
<1>1. values = [s \in Bands |-> IF s \in Received THEN "band" ELSE "zero"]
  BY DEF IInv, DecodeInv
<1>2. PICK R, Q : R = Received /\ Q = Received'
  OBVIOUS
<1> QED
  BY <1>1, <1>2

LEMMA DecodeAloneKeeps ==
  ASSUME IInv, DecodeAlone
  PROVE  /\ IInv'
         /\ \E r \in Bands : /\ r \in active \ Received /\ r.layer <= highest
                             /\ Received' = Received \cup {r}
                             /\ r.layer > 0 /\ ParentOf(r) \in active => ParentOf(r) \in Received
<1>1. PICK e, r : e = Entry /\ r = [layer |-> e.layer, channel |-> e.channel, band |-> e.band]
  OBVIOUS
<1>2. phase = "decode" /\ at <= Len(directory) /\ e.layer <= highest /\ e.band # 4
  BY <1>1 DEF DecodeAlone, Reading
<1>3. /\ at \in 1 .. Len(directory) /\ Len(directory) \in Nat /\ Accepted(e)
      /\ offset \in Nat /\ e.size \in Nat /\ End(at + 1) = offset + e.size
      /\ e.size = Len(Chunk(e))
      /\ offset + e.size <= Len(payload) /\ Len(payload) \in Nat
      /\ \A k \in 1 .. e.size : payload[offset + k] = Chunk(e)[k]
  BY <1>1, <1>2, EntryAtHand
<1>4. /\ Lead(e) = r /\ CarriedBy(e) = {r}
      /\ Chunk(e) = Section(r) /\ Chunk(e) \in Seq(Tokens)
      /\ e.mode = Mode(r) /\ e.step = Step(r)
  <2>1. e = directory[at] /\ Given /\ EntriesRight
    BY <1>1 DEF Entry, IInv
  <2>2. Lead(e) = r
    BY <1>1, <1>2 DEF Lead
  <2> QED
    BY <1>2, <1>3, <2>1, <2>2, EntryFacts DEF CarriedBy
<1>5. /\ r \in active /\ r \in Bands /\ r \in Here /\ r \notin Received
      /\ r.layer > 0 => /\ values[ParentOf(r)] = Value(ParentOf(r))
                        /\ ParentOf(r) \in active => ParentOf(r) \in Received
  BY <1>1, <1>2, <1>4, BandAtHand
<1>6. PICK section, parent : /\ section = SubSeq(payload, offset + 1, offset + e.size)
                             /\ parent = IF e.mode # 3 THEN values[ParentOf(r)] ELSE "none"
  OBVIOUS
<1>7. /\ values' = [values EXCEPT ![r] = Decoded(r, section, e.step, e.mode, parent)]
      /\ at' = at + 1 /\ offset' = offset + e.size
      /\ phase' = phase /\ cursor' = cursor /\ bi' = bi
      /\ UNCHANGED <<encVars, highest, size>>
  BY <1>1, <1>3, <1>6 DEF DecodeAlone, NextEntry
<1>8. Decoded(r, section, e.step, e.mode, parent) = "band"
  <2>1. payload \in Seq(Tokens)
    BY DEF IInv
  <2>2. section = Section(r)
    BY <1>3, <1>4, <1>6, <2>1, CutOut
  <2>3. e.mode = 3 \/ r.layer = 0 \/ parent = Value(ParentOf(r))
    <3>1. r.layer = 0 \/ r.layer > 0
      BY <1>5, BandFields, BandListAssumption
    <3> QED
      BY <1>5, <1>6, <3>1
  <2> QED
    BY <1>4, <2>2, <2>3 DEF Decoded
<1>9. /\ active' = active /\ directory' = directory /\ starts' = starts /\ payload' = payload
  BY <1>7 DEF encVars
<1>10. Received' = Received \cup {r}
  <2>1. Earlier' = Earlier \cup Here
    BY <1>2, <1>7, <1>9, EarlierNext
  <2>2. Here = {r}
    BY <1>1, <1>4, <1>5 DEF Here
  <2>3. Received' = Earlier'
    BY <1>2, <1>7 DEF Received, Earlier
  <2> QED
    BY <1>2, <2>1, <2>2, <2>3, ReceivedParts
<1>11. DecodeInv'
  <2>1. End(at)' = End(at + 1)
    BY <1>7, <1>9 DEF End
  <2>2. values' = [s \in Bands |-> IF s \in Received' THEN "band" ELSE "zero"]
    BY <1>5, <1>7, <1>8, <1>10, OneMore
  <2> QED
    BY <1>2, <1>3, <1>7, <2>1, <2>2 DEF DecodeInv
<1>12. /\ at' \in 1 .. Len(directory) + 1 /\ offset' \in 0 .. Len(payload)
       /\ cursor' \in 0 .. Len(payload) /\ bi' \in 1 .. 4
  BY <1>3, <1>7 DEF IInv
<1>13. IInv'
  BY <1>2, <1>7, <1>11, <1>12, DecoderKeeps
<1>14. r.layer <= highest
  BY <1>5 DEF Here
<1> QED
  BY <1>5, <1>10, <1>13, <1>14

\* The header of a merged chunk tells which sections follow it, and where each one lies.
LEMMA MergedAtHand ==
  ASSUME IInv, phase \in {"decode", "sections"}, at <= Len(directory),
         NEW e, e = Entry, e.band = 4
  PROVE  /\ Header = HeaderOf(e) /\ HeaderOK
         /\ PartAt(e, 1) = HeaderSize /\ PartAt(e, 4) = e.size
         /\ PartAt(e, 2) = PartAt(e, 1) + Header.sizeH
         /\ PartAt(e, 3) = PartAt(e, 2) + Header.sizeV
         /\ \A b \in 1 .. 3 :
               LET s == Sibling(Lead(e), b)
               IN  /\ s = [layer |-> e.layer, channel |-> e.channel, band |-> b] /\ s \in Bands
                   /\ PartAt(e, b) \in Nat /\ PartAt(e, b + 1) >= PartAt(e, b)
                   /\ PartAt(e, b + 1) <= e.size
                   /\ s \in active =>
                         /\ s \in CarriedBy(e)
                         /\ Header.modes[b] = Mode(s) /\ Header.modes[b] # 0
                         /\ (IF b = 3 THEN Header.stepD ELSE e.step) = Step(s)
                         /\ PartAt(e, b + 1) = PartAt(e, b) + SizeOf[s]
                         /\ \A k \in 1 .. SizeOf[s] : Chunk(e)[PartAt(e, b) + k] = <<s, k>>
                   /\ s \notin active => /\ Header.modes[b] = 0
                                         /\ PartAt(e, b + 1) = PartAt(e, b)
         /\ \A s \in CarriedBy(e) : s.band \in 1 .. 3 /\ s = Sibling(Lead(e), s.band)
<1>0. PICK r, v, d, h : /\ r = Lead(e) /\ v = Sibling(r, 2) /\ d = Sibling(r, 3)
                        /\ h = HeaderOf(e)
  OBVIOUS
<1>1. /\ at \in 1 .. Len(directory) /\ e = directory[at]
      /\ offset \in Nat /\ e.size \in Nat /\ e.size = Len(Chunk(e))
      /\ \A k \in 1 .. e.size : payload[offset + k] = Chunk(e)[k]
      /\ Given /\ EntriesRight
  BY EntryAtHand DEF Entry, IInv
<1>2. /\ r \in active /\ r \in Bands /\ r.band = 1
      /\ e.layer = r.layer /\ e.channel = r.channel /\ e.step = Step(r) /\ e.size # 0
      /\ \A s \in CarriedBy(e) : s \in active /\ s.layer = e.layer /\ s.channel = e.channel
  BY <1>0, <1>1, EntryFacts DEF Given
<1>3. /\ Chunk(e)[1] = <<r, 0, h>>
      /\ PartAt(e, 1) = 1 /\ PartAt(e, 4) = e.size
      /\ \A b \in 1 .. 3 : PartAt(e, b) \in Nat \ {0} /\ PartAt(e, b + 1) >= PartAt(e, b)
      /\ \A b \in 1 .. 3 :
            LET s == Sibling(r, b)
            IN  /\ s \in active =>
                      /\ PartAt(e, b + 1) = PartAt(e, b) + SizeOf[s]
                      /\ \A k \in 1 .. SizeOf[s] : Chunk(e)[PartAt(e, b) + k] = <<s, k>>
                /\ s \notin active => PartAt(e, b + 1) = PartAt(e, b)
  BY <1>0, <1>1, <1>2, MergedChunk
<1>4. \A b \in 1 .. 3 : /\ Sibling(r, b) = [layer |-> e.layer, channel |-> e.channel, band |-> b]
                        /\ Sibling(r, b) \in Bands
                        /\ Sibling(r, b) \in active => Sibling(r, b) \in CarriedBy(e)
  <2> TAKE b \in 1 .. 3
  <2>1. r.band \in 1 .. 3
    BY <1>2
  <2>2. /\ Sibling(r, b) = [layer |-> e.layer, channel |-> e.channel, band |-> b]
        /\ Sibling(r, b) \in Bands
    BY <1>2, <2>1, SiblingFields
  <2>3. Sibling(r, b).layer = e.layer /\ Sibling(r, b).channel = e.channel
    BY <2>2
  <2> QED
    BY <2>2, <2>3 DEF CarriedBy
<1>5. Sibling(r, 1) = r
  <2>1. r = [layer |-> e.layer, channel |-> e.channel, band |-> 1]
    BY <1>2, BandFields
  <2>2. 1 \in 1 .. 3
    OBVIOUS
  <2> QED
    BY <1>4, <2>1, <2>2
<1>6. \A s \in CarriedBy(e) : s.band \in 1 .. 3 /\ s = Sibling(r, s.band)
  <2> TAKE s \in CarriedBy(e)
  <2>1. s \in Bands /\ s.layer = r.layer /\ s.channel = r.channel
    BY <1>1, <1>2 DEF Given
  <2>2. r.layer > 0
    BY <1>2, BandFields, BandListAssumption
  <2>3. s = [layer |-> e.layer, channel |-> e.channel, band |-> s.band] /\ s.band \in 1 .. 3
    BY <1>2, <2>1, <2>2, BandFields
  <2> QED
    BY <1>4, <2>3
<1>7. Header = h
  <2>1. 1 \in 1 .. e.size
    BY <1>1, <1>2
  <2>2. payload[offset + 1] = <<r, 0, h>>
    BY <1>1, <1>3, <2>1
  <2> QED
    BY <2>2 DEF Header
<1>8. /\ h.stepD = IF d \in active THEN Step(d) ELSE 0
      /\ h.modes[1] = Mode(r)
      /\ h.modes[2] = IF v \in active THEN Mode(v) ELSE 0
      /\ h.modes[3] = IF d \in active THEN Mode(d) ELSE 0
      /\ h.sizeH = Len(Section(r)) /\ h.sizeV = Len(Part(e, 2))
  BY <1>0 DEF HeaderOf
<1>9. \A s \in Bands : Mode(s) # 0 /\ Step(s) # 0
  <2> TAKE s \in Bands
  <2>1. Mode(s) \in 3 .. 24 /\ Step(s) \in Nat \ {0}
    BY <1>1, SectionFacts
  <2> QED
    BY <2>1, SMTT(60)
<1>10. v \in Bands /\ d \in Bands
  <2>1. 2 \in 1 .. 3 /\ 3 \in 1 .. 3
    OBVIOUS
  <2> QED
    BY <1>0, <1>4, <2>1
<1>11. \A b \in 1 .. 3 :
          /\ Sibling(r, b) \in active => h.modes[b] = Mode(Sibling(r, b)) /\ h.modes[b] # 0
          /\ Sibling(r, b) \notin active => h.modes[b] = 0
  <2> TAKE b \in 1 .. 3
  <2>1. CASE b = 1
    BY <1>2, <1>5, <1>8, <1>9, <2>1
  <2>2. CASE b = 2
    BY <1>0, <1>8, <1>9, <1>10, <2>2
  <2>3. CASE b = 3
    BY <1>0, <1>8, <1>9, <1>10, <2>3
  <2> QED
    BY <2>1, <2>2, <2>3
<1>12. \A b \in 1 .. 3 : Sibling(r, b) \in active =>
          (IF b = 3 THEN h.stepD ELSE e.step) = Step(Sibling(r, b))
  <2> TAKE b \in 1 .. 3
  <2>1. CASE b = 1
    BY <1>2, <1>5, <2>1
  <2>2. CASE b = 2
    <3>1. v = [layer |-> e.layer, channel |-> e.channel, band |-> 2]
      BY <1>0, <1>4, <2>2
    <3>2. Sibling(v, 1) = [v EXCEPT !.band = 1]
      BY DEF Sibling
    <3>3. Sibling(v, 1) = [layer |-> e.layer, channel |-> e.channel, band |-> 1] /\ v.band = 2
      BY <3>1, <3>2
    <3>4. Sibling(v, 1) = r
      <4>1. 1 \in 1 .. 3
        OBVIOUS
      <4> QED
        BY <1>4, <1>5, <3>3, <4>1
    <3>5. StepOf[v] = StepOf[r]
      BY <1>10, <3>3, <3>4, ContainerAssumption
    <3> QED
      BY <1>0, <1>2, <2>2, <3>5 DEF Step
  <2>3. CASE b = 3
    BY <1>0, <1>8, <2>3
  <2> QED
    BY <2>1, <2>2, <2>3
<1>13. /\ PartAt(e, 2) = PartAt(e, 1) + h.sizeH
       /\ PartAt(e, 3) = PartAt(e, 2) + h.sizeV
  BY <1>0, <1>3, <1>8 DEF PartAt
<1>14. /\ PartAt(e, 1) \in Nat /\ PartAt(e, 2) \in Nat /\ PartAt(e, 3) \in Nat
       /\ PartAt(e, 2) <= PartAt(e, 3) /\ PartAt(e, 3) <= e.size
  <2>1. 1 \in 1 .. 3 /\ 2 \in 1 .. 3 /\ 3 \in 1 .. 3 /\ 2 + 1 = 3 /\ 3 + 1 = 4
    OBVIOUS
  <2>2. PartAt(e, 1) \in Nat /\ PartAt(e, 2) \in Nat /\ PartAt(e, 3) \in Nat
    BY <1>3, <2>1
  <2>3. PartAt(e, 3) >= PartAt(e, 2) /\ PartAt(e, 4) >= PartAt(e, 3)
    BY <1>3, <2>1
  <2> QED
    BY <1>1, <1>3, <2>2, <2>3
<1>15. \A b \in 1 .. 3 : PartAt(e, b + 1) <= e.size
  BY <1>1, <1>3, <1>14, SMTT(60)
<1>16. HeaderOK
  <2>1. h.modes[1] # 0
    BY <1>2, <1>8, <1>9
  <2>2. h.modes[2] = 0 => h.sizeV = 0
    <3>1. v \notin active => Part(e, 2) = <<>>
      BY <1>0 DEF Part
    <3>2. v \notin active => Len(Part(e, 2)) = 0
      BY <3>1, EmptySeq
    <3> QED
      BY <1>8, <1>9, <1>10, <3>2
  <2>3. (h.modes[3] = 0) = (h.stepD = 0)
    BY <1>8, <1>9, <1>10
  <2>4. HeaderSize + h.sizeH + h.sizeV <= e.size
    BY <1>3, <1>13, <1>14 DEF HeaderSize
  <2> QED
    BY <1>7, <2>1, <2>2, <2>3, <2>4 DEF HeaderOK
<1> QED
  BY <1>0, <1>3, <1>4, <1>6, <1>7, <1>11, <1>12, <1>13, <1>15, <1>16 DEF HeaderSize

LEMMA OpenMergedKeeps ==
  ASSUME IInv, OpenMerged
  PROVE  IInv' /\ Received' = Received
<1>1. PICK e : e = Entry
  OBVIOUS
<1>2. phase = "decode" /\ at <= Len(directory) /\ e.layer <= highest /\ e.band = 4
  BY <1>1 DEF OpenMerged, Reading
<1>3. /\ at \in 1 .. Len(directory) /\ Len(directory) \in Nat /\ Accepted(e)
      /\ offset \in Nat /\ e.size \in Nat /\ offset + e.size <= Len(payload) /\ Len(payload) \in Nat
  BY <1>1, <1>2, EntryAtHand
<1>4. /\ HeaderOK /\ PartAt(e, 1) = HeaderSize
      /\ \A s \in CarriedBy(e) : s.band \in 1 .. 3
      /\ PartAt(e, 1) \in Nat /\ PartAt(e, 1) <= e.size
  <2>1. /\ HeaderOK /\ PartAt(e, 1) = HeaderSize
        /\ \A s \in CarriedBy(e) : s.band \in 1 .. 3
        /\ \A b \in 1 .. 3 : /\ PartAt(e, b) \in Nat /\ PartAt(e, b + 1) >= PartAt(e, b)
                             /\ PartAt(e, b + 1) <= e.size
    BY <1>1, <1>2, MergedAtHand
  <2>2. PartAt(e, 2) \in Nat /\ PartAt(e, 2) >= PartAt(e, 1) /\ PartAt(e, 2) <= e.size
    <3>1. 1 \in 1 .. 3 /\ 2 \in 1 .. 3 /\ 1 + 1 = 2
      OBVIOUS
    <3> QED
      BY <2>1, <3>1
  <2> QED
    BY <1>3, <2>1, <2>2 DEF HeaderSize
<1>5. /\ phase' = "sections" /\ cursor' = offset + HeaderSize /\ bi' = 1
      /\ at' = at /\ offset' = offset /\ values' = values
      /\ UNCHANGED <<encVars, highest, size>>
  BY <1>1, <1>3, <1>4 DEF OpenMerged
<1>6. /\ active' = active /\ directory' = directory /\ highest' = highest /\ starts' = starts
      /\ payload' = payload /\ settings' = settings
  BY <1>5 DEF encVars
<1>7. Received' = Received
  <2>1. Earlier' = Earlier /\ Here' = Here
    BY <1>2, <1>5, <1>6, EarlierNext
  <2>2. {s \in Here : s.band < 1} = {}
    BY <1>1, <1>4 DEF Here
  <2>3. \A d : CarriedBy(d)' = CarriedBy(d)
    BY <1>6 DEF CarriedBy
  <2>4. Received' = Earlier \cup {s \in active : s \in Here /\ s.band < 1}
    BY <1>5, <1>6, <2>1, <2>3 DEF Received, Earlier, Here, Entry
  <2> QED
    BY <1>2, <2>2, <2>4, ReceivedParts
<1>8. DecodeInv'
  <2>1. End(at)' = End(at) /\ PartAt(e, 1)' = PartAt(e, 1)
    BY <1>5, <1>6, SameEntries DEF End
  <2>2. PartAt(directory[at], bi)' = PartAt(e, 1)
    <3>1. PartAt(directory[at], bi)' = PartAt(e, 1)'
      BY <1>1, <1>5, <1>6 DEF Entry, PartAt, Lead, Part, Chunk, HeaderOf
    <3> QED
      BY <2>1, <3>1
  <2> QED
    BY <1>1, <1>2, <1>4, <1>5, <1>6, <1>7, <2>1, <2>2 DEF IInv, DecodeInv, Entry
<1>9. /\ at' \in 1 .. Len(directory) + 1 /\ offset' \in 0 .. Len(payload)
      /\ cursor' \in 0 .. Len(payload) /\ bi' \in 1 .. 4
  BY <1>3, <1>4, <1>5
<1> QED
  BY <1>2, <1>5, <1>7, <1>8, <1>9, DecoderKeeps

\* A step from one section of a chunk to the next.
LEMMA SectionStepKeeps ==
  ASSUME IInv, phase = "sections", phase' = "sections", bi <= 3, bi' = bi + 1,
         at' = at, offset' = offset,
         UNCHANGED <<encVars, highest, size>>,
         cursor' = offset + PartAt(Entry, bi + 1)
  PROVE  /\ Received' = Received \cup {s \in Here : s.band = bi}
         /\ values' = [r \in Bands |-> IF r \in Received' THEN "band" ELSE "zero"] => IInv'
<1>1. PICK e, b : e = Entry /\ b = bi
  OBVIOUS
<1>2. /\ at <= Len(directory) /\ e.band = 4 /\ e.layer <= highest /\ b \in 1 .. 3
      /\ offset = End(at)
  BY <1>1 DEF IInv, DecodeInv, Entry
<1>3. /\ at \in 1 .. Len(directory) /\ Len(directory) \in Nat
      /\ offset \in Nat /\ e.size \in Nat /\ offset + e.size <= Len(payload) /\ Len(payload) \in Nat
  BY <1>1, <1>2, EntryAtHand
<1>4. PICK c : c = PartAt(e, b + 1)
  OBVIOUS
<1>5. /\ c \in Nat /\ c <= e.size
      /\ \A s \in CarriedBy(e) : s.band \in 1 .. 3
  <2>1. /\ \A k \in 1 .. 3 : /\ PartAt(e, k) \in Nat /\ PartAt(e, k + 1) >= PartAt(e, k)
                             /\ PartAt(e, k + 1) <= e.size
        /\ PartAt(e, 4) = e.size
        /\ \A s \in CarriedBy(e) : s.band \in 1 .. 3
    BY <1>1, <1>2, MergedAtHand
  <2>2. b + 1 \in 1 .. 3 \/ b + 1 = 4
    BY <1>2
  <2> QED
    BY <1>2, <1>3, <1>4, <2>1, <2>2
<1>6. /\ active' = active /\ directory' = directory /\ highest' = highest /\ starts' = starts
      /\ payload' = payload /\ settings' = settings
  BY DEF encVars
<1>7. Received' = Received \cup {s \in Here : s.band = b}
  <2>1. Earlier' = Earlier /\ Here' = Here
    BY <1>2, <1>6, EarlierNext
  <2>2. \A d : CarriedBy(d)' = CarriedBy(d)
    BY <1>6 DEF CarriedBy
  <2>3. \A s \in Here : s \in active /\ s.band \in Int
    <3>1. \A s \in CarriedBy(e) : s \in active
      BY <1>1, <1>3, EntryFacts DEF IInv, Entry
    <3> QED
      BY <1>1, <1>5, <3>1 DEF Here
  <2>4. Received' = Earlier \cup {s \in active : s \in Here /\ s.band < b + 1}
    BY <1>1, <1>6, <2>1, <2>2 DEF Received, Earlier, Here, Entry
  <2>5. \A s \in Here : s.band < b + 1 <=> s.band < b \/ s.band = b
    BY <1>2, <2>3
  <2>6. Received = Earlier \cup {s \in Here : s.band < b}
    BY <1>1, ReceivedParts
  <2> QED
    BY <2>3, <2>4, <2>5, <2>6
<1>8. ASSUME values' = [r \in Bands |-> IF r \in Received' THEN "band" ELSE "zero"]
      PROVE  IInv'
  <2>1. End(at)' = End(at) /\ \A d, k : PartAt(d, k)' = PartAt(d, k)
    BY <1>6, SameEntries DEF End
  <2>2. directory'[at'] = e /\ bi' = b + 1
    BY <1>1, <1>6 DEF Entry
  <2>3. PartAt(directory[at], bi)' = c
    <3>1. PartAt(directory[at], bi)' = PartAt(e, b + 1)'
      <4>1. CASE b = 1
        <5>1. bi' = 2 /\ b + 1 = 2
          BY <2>2, <4>1
        <5>2. Lead(directory'[at']) = Lead(e)
          BY <2>2
        <5> QED
          BY <2>2, <5>1, <5>2 DEF PartAt
      <4>2. CASE b = 2
        BY <2>2, <4>2 DEF PartAt, Part
      <4>3. CASE b = 3
        <5>1. Lead(directory'[at']) = Lead(e) /\ directory'[at'].band = 4 /\ e.band = 4
          BY <1>2, <2>2
        <5> QED
          BY <2>2, <4>3, <5>1 DEF PartAt, Chunk, Part, HeaderOf
      <4> QED
        BY <1>2, <4>1, <4>2, <4>3
    <3> QED
      BY <1>4, <2>1, <3>1
  <2>4. cursor' = offset + c
    BY <1>1, <1>4
  <2>5. DecodeInv'
    BY <1>2, <1>6, <1>8, <2>1, <2>2, <2>3, <2>4 DEF DecodeInv
  <2>6. at' \in 1 .. Len(directory) + 1 /\ offset' \in 0 .. Len(payload) /\ bi' \in 1 .. 4
    BY <1>1, <1>2, <1>3
  <2>7. cursor' \in 0 .. Len(payload)
    BY <1>3, <1>5, <2>4
  <2> QED
    BY <2>5, <2>6, <2>7, DecoderKeeps
<1> QED
  BY <1>1, <1>7, <1>8

LEMMA InSections ==
  ASSUME IInv, phase = "sections", NEW e, e = Entry
  PROVE  /\ at <= Len(directory) /\ e.band = 4 /\ e.layer <= highest
         /\ cursor = offset + PartAt(e, bi)
BY DEF IInv, DecodeInv, Entry

LEMMA SkipSectionKeeps ==
  ASSUME IInv, SkipSection
  PROVE  IInv' /\ Received' = Received
<1>1. PICK e, b, s : e = Entry /\ b = bi /\ s = Sibling(Lead(e), b)
  OBVIOUS
<1>2. /\ phase = "sections" /\ b \in 1 .. 3 /\ bi <= 3 /\ Header.modes[b] = 0
      /\ bi' = bi + 1 /\ phase' = phase /\ at' = at /\ offset' = offset
      /\ cursor' = cursor /\ values' = values
      /\ UNCHANGED <<encVars, highest, size>>
  BY <1>1 DEF SkipSection, IInv
<1>3. at <= Len(directory) /\ e.band = 4 /\ e.layer <= highest /\ cursor = offset + PartAt(e, b)
  BY <1>1, <1>2, InSections
<1>4. /\ s \notin active /\ PartAt(e, b + 1) = PartAt(e, b)
      /\ \A t \in CarriedBy(e) : t = Sibling(Lead(e), t.band)
  BY <1>1, <1>2, <1>3, MergedAtHand
<1>5. {t \in Here : t.band = bi} = {}
  <2>1. \A t \in CarriedBy(e) : t \in active
    <3>1. at \in 1 .. Len(directory)
      BY <1>2, <1>3, EntryAtHand
    <3> QED
      BY <1>1, <3>1, EntryFacts DEF IInv, Entry
  <2> QED
    BY <1>1, <1>4, <2>1 DEF Here
<1>6. cursor' = offset + PartAt(Entry, bi + 1)
  BY <1>1, <1>2, <1>3, <1>4
<1>7. Received' = Received
  BY <1>2, <1>5, <1>6, SectionStepKeeps
<1>8. values' = [r \in Bands |-> IF r \in Received' THEN "band" ELSE "zero"]
  BY <1>2, <1>7 DEF IInv, DecodeInv
<1> QED
  BY <1>2, <1>6, <1>7, <1>8, SectionStepKeeps

LEMMA DecodeSectionKeeps ==
  ASSUME IInv, DecodeSection
  PROVE  /\ IInv'
         /\ \E r \in Bands : /\ r \in active \ Received /\ r.layer <= highest
                             /\ Received' = Received \cup {r}
                             /\ r.layer > 0 /\ ParentOf(r) \in active => ParentOf(r) \in Received
<1>1. PICK e, b, r, p, section :
         /\ e = Entry /\ b = bi
         /\ r = [layer |-> e.layer, channel |-> e.channel, band |-> b]
         /\ p = offset + PartAt(e, b)
         /\ section = SubSeq(payload, cursor + 1, SectionEnd)
  OBVIOUS
<1>2. phase = "sections" /\ b \in 1 .. 3 /\ bi <= 3 /\ Header.modes[b] # 0
  BY <1>1 DEF DecodeSection, IInv
<1>3. at <= Len(directory) /\ e.band = 4 /\ e.layer <= highest /\ cursor = p
  BY <1>1, <1>2, InSections
<1>4. /\ at \in 1 .. Len(directory) /\ Len(directory) \in Nat
      /\ offset \in Nat /\ e.size \in Nat
      /\ e.size = Len(Chunk(e))
      /\ offset + e.size <= Len(payload) /\ Len(payload) \in Nat
      /\ \A k \in 1 .. e.size : payload[offset + k] = Chunk(e)[k]
  BY <1>1, <1>2, <1>3, EntryAtHand
<1>5. /\ PartAt(e, 1) = HeaderSize /\ PartAt(e, 4) = e.size
      /\ PartAt(e, 2) = PartAt(e, 1) + Header.sizeH
      /\ PartAt(e, 3) = PartAt(e, 2) + Header.sizeV
      /\ \A t \in CarriedBy(e) : t = Sibling(Lead(e), t.band)
      /\ PartAt(e, b) \in Nat /\ PartAt(e, b + 1) >= PartAt(e, b) /\ PartAt(e, b + 1) <= e.size
      /\ r = Sibling(Lead(e), b) /\ r \in Bands
      /\ r \notin active => Header.modes[b] = 0
      /\ r \in active => /\ r \in CarriedBy(e)
                         /\ Header.modes[b] = Mode(r)
                         /\ (IF b = 3 THEN Header.stepD ELSE e.step) = Step(r)
                         /\ PartAt(e, b + 1) = PartAt(e, b) + SizeOf[r]
                         /\ \A k \in 1 .. SizeOf[r] : Chunk(e)[PartAt(e, b) + k] = <<r, k>>
  BY <1>1, <1>2, <1>3, MergedAtHand, SMTT(60)
<1>6. r \in active /\ r \in CarriedBy(e)
  BY <1>2, <1>5
<1>7. /\ r \in Here /\ r \notin Received /\ r.band = b /\ r.layer > 0
      /\ values[ParentOf(r)] = Value(ParentOf(r))
      /\ ParentOf(r) \in active => ParentOf(r) \in Received
  <2>1. r.band = b
    BY <1>1
  <2>2. r.band >= bi
    BY <1>1, <1>2, <2>1
  <2>3. r.layer > 0
    BY <1>2, <1>5, <2>1, BandFields, BandListAssumption
  <2> QED
    BY <1>1, <1>2, <1>3, <1>6, <2>1, <2>2, <2>3, BandAtHand
<1>8. /\ SizeOf[r] \in Nat \ {0} /\ Section(r) \in Seq(Tokens) /\ Len(Section(r)) = SizeOf[r]
      /\ \A k \in 1 .. SizeOf[r] : Section(r)[k] = <<r, k>>
  <2>1. Given
    BY DEF IInv
  <2> QED
    BY <1>5, <2>1, SectionFacts
<1>9. SectionEnd = offset + PartAt(e, b + 1)
  <2>1. cursor = offset + PartAt(e, b)
    BY <1>1, <1>3
  <2>2. CASE b = 1
    <3>1. SectionEnd = cursor + Header.sizeH
      BY <1>1, <2>2 DEF SectionEnd
    <3>2. PartAt(e, b + 1) = PartAt(e, b) + Header.sizeH
      BY <1>5, <2>2
    <3>3. PartAt(e, b + 1) = PartAt(e, b) + SizeOf[r]
      BY <1>5, <1>6
    <3>4. Header.sizeH = SizeOf[r]
      <4>1. Header = HeaderOf(e)
        BY <1>1, <1>2, <1>3, MergedAtHand
      <4>2. Header.sizeH = Len(Section(Lead(e)))
        BY <4>1 DEF HeaderOf
      <4>3. r = Lead(e)
        <5>1. Lead(e) = [layer |-> e.layer, channel |-> e.channel, band |-> 1]
          BY <1>3 DEF Lead
        <5> QED
          BY <1>1, <2>2, <5>1
      <4> QED
        BY <1>8, <4>2, <4>3
    <3> QED
      BY <1>4, <1>5, <1>8, <2>1, <3>1, <3>3, <3>4, SMTT(60)
  <2>3. CASE b = 2
    <3>1. SectionEnd = cursor + Header.sizeV
      BY <1>1, <2>3 DEF SectionEnd
    <3>2. PartAt(e, b + 1) = PartAt(e, b) + SizeOf[r]
      BY <1>5, <1>6
    <3>3. Header.sizeV = SizeOf[r]
      <4>1. Header = HeaderOf(e)
        BY <1>1, <1>2, <1>3, MergedAtHand
      <4>2. Header.sizeV = Len(Part(e, 2))
        BY <4>1 DEF HeaderOf
      <4>3. Part(e, 2) = Section(r)
        BY <1>5, <1>6, <2>3 DEF Part
      <4> QED
        BY <1>8, <4>2, <4>3
    <3> QED
      BY <1>4, <1>5, <1>8, <2>1, <3>1, <3>2, <3>3, SMTT(60)
  <2>4. CASE b = 3
    BY <1>1, <1>5, <2>4 DEF SectionEnd
  <2> QED
    BY <1>2, <2>2, <2>3, <2>4
<1>10. SectionEnd <= offset + Entry.size
  <2>1. PICK c, z : c = PartAt(e, b + 1) /\ z = e.size
    OBVIOUS
  <2>2. c \in Nat /\ z \in Nat /\ c <= z /\ SectionEnd = offset + c
    BY <1>4, <1>5, <1>6, <1>8, <1>9, <2>1, SMTT(60)
  <2> QED
    BY <1>1, <1>4, <2>1, <2>2
<1>11. /\ values' = [values EXCEPT ![r] =
                       Decoded(r, section, SectionStep, Header.modes[b], values[ParentOf(r)])]
       /\ cursor' = SectionEnd /\ bi' = bi + 1
       /\ phase' = phase /\ at' = at /\ offset' = offset
       /\ UNCHANGED <<encVars, highest, size>>
  BY <1>1, <1>10 DEF DecodeSection
<1>12. Decoded(r, section, SectionStep, Header.modes[b], values[ParentOf(r)]) = "band"
  <2>1. section = Section(r)
    <3>1. PICK z, q : z = SizeOf[r] /\ q = PartAt(e, b)
      OBVIOUS
    <3>2. /\ z \in Nat \ {0} /\ q \in Nat /\ q + z <= e.size
          /\ \A k \in 1 .. z : Chunk(e)[q + k] = <<r, k>>
      BY <1>5, <1>6, <1>8, <3>1
    <3>3. p \in Nat /\ p = offset + q /\ SectionEnd = p + z
      <4>1. SectionEnd = offset + (q + z)
        BY <1>5, <1>6, <1>9, <3>1
      <4>2. p = offset + q
        BY <1>1, <3>1
      <4>3. p \in Nat /\ SectionEnd = p + z
        BY <1>4, <3>2, <4>1, <4>2
      <4> QED
        BY <4>2, <4>3
    <3>4. p + z <= Len(payload)
      BY <1>4, <3>2, <3>3
    <3>5. \A k \in 1 .. z : payload[p + k] = Section(r)[k]
      <4> TAKE k \in 1 .. z
      <4>1. /\ z \in Nat /\ q \in Nat /\ q + z <= e.size /\ e.size \in Nat /\ offset \in Nat
            /\ p = offset + q
        BY <1>4, <3>2, <3>3
      <4>2. q + k \in 1 .. e.size /\ offset + (q + k) = p + k
        BY <4>1
      <4>3. payload[offset + (q + k)] = Chunk(e)[q + k]
        BY <1>4, <4>2
      <4> QED
        BY <1>8, <3>1, <3>2, <4>2, <4>3
    <3>6. payload \in Seq(Tokens)
      BY DEF IInv
    <3>7. p + Len(Section(r)) <= Len(payload) /\ Len(Section(r)) = z
      BY <1>8, <3>1, <3>4
    <3>8. SubSeq(payload, p + 1, p + Len(Section(r))) = Section(r)
      BY <1>8, <3>3, <3>5, <3>6, <3>7, CutOut
    <3> QED
      BY <1>1, <1>3, <3>3, <3>7, <3>8
  <2>2. SectionStep = Step(r)
    BY <1>1, <1>5, <1>6 DEF SectionStep
  <2> QED
    BY <1>5, <1>6, <1>7, <2>1, <2>2 DEF Decoded
<1>13. cursor' = offset + PartAt(Entry, bi + 1)
  BY <1>1, <1>9, <1>11
<1>14. {t \in Here : t.band = bi} = {r}
  <2>1. \A t \in Here : t = Sibling(Lead(e), t.band)
    BY <1>1, <1>5 DEF Here
  <2> QED
    BY <1>1, <1>5, <1>7, <2>1
<1>15. Received' = Received \cup {r}
  BY <1>2, <1>11, <1>13, <1>14, SectionStepKeeps
<1>16. values' = [s \in Bands |-> IF s \in Received' THEN "band" ELSE "zero"]
  BY <1>5, <1>11, <1>12, <1>15, OneMore
<1>17. IInv'
  BY <1>2, <1>11, <1>13, <1>16, SectionStepKeeps
<1>18. r.layer <= highest
  BY <1>7 DEF Here
<1> QED
  BY <1>5, <1>6, <1>7, <1>15, <1>17, <1>18

LEMMA CloseMergedKeeps ==
  ASSUME IInv, CloseMerged
  PROVE  IInv' /\ Received' = Received
<1>1. PICK e, s : e = Entry /\ s = Sibling(Lead(e), 3)
  OBVIOUS
<1>2. phase = "sections" /\ bi = 4
  BY DEF CloseMerged
<1>3. at <= Len(directory) /\ e.band = 4 /\ e.layer <= highest /\ cursor = offset + PartAt(e, 4)
  BY <1>1, <1>2, InSections
<1>4. /\ at \in 1 .. Len(directory) /\ Len(directory) \in Nat
      /\ offset \in Nat /\ e.size \in Nat /\ End(at + 1) = offset + e.size
      /\ offset + e.size <= Len(payload) /\ Len(payload) \in Nat
  BY <1>1, <1>2, <1>3, EntryAtHand
<1>5. PartAt(e, 4) = e.size /\ \A t \in CarriedBy(e) : t.band \in 1 .. 3
  BY <1>1, <1>2, <1>3, MergedAtHand
<1>6. cursor = offset + Entry.size
  BY <1>1, <1>3, <1>5
<1>7. /\ phase' = "decode" /\ at' = at + 1 /\ offset' = offset + e.size
      /\ cursor' = cursor /\ bi' = bi /\ values' = values
      /\ UNCHANGED <<encVars, highest, size>>
  BY <1>1, <1>6 DEF CloseMerged, NextEntry
<1>8. /\ active' = active /\ directory' = directory /\ highest' = highest /\ starts' = starts
      /\ payload' = payload
  BY <1>7 DEF encVars
<1>9. Received' = Received
  <2>1. Earlier' = Earlier \cup Here
    BY <1>2, <1>3, <1>7, <1>8, EarlierNext
  <2>2. {t \in Here : t.band < bi} = Here
    BY <1>1, <1>2, <1>5 DEF Here
  <2>3. Received' = Earlier'
    BY <1>7 DEF Received, Earlier
  <2> QED
    BY <1>2, <2>1, <2>2, <2>3, ReceivedParts
<1>10. DecodeInv'
  <2>1. End(at)' = End(at + 1)
    BY <1>7, <1>8 DEF End
  <2> QED
    BY <1>4, <1>7, <1>9, <2>1 DEF IInv, DecodeInv
<1>11. /\ at' \in 1 .. Len(directory) + 1 /\ offset' \in 0 .. Len(payload)
       /\ cursor' \in 0 .. Len(payload) /\ bi' \in 1 .. 4
  BY <1>4, <1>7, SMTT(60) DEF IInv
<1> QED
  BY <1>2, <1>7, <1>9, <1>10, <1>11, DecoderKeeps

\* Behind the last entry the decoder has received every band of the requested layers.
LEMMA AllReceived ==
  ASSUME IInv, phase \in {"decode", "decoded"}, at = Len(directory) + 1
  PROVE  Received = {s \in active : s.layer <= highest}
<1>1. Covered = active
  BY DEF IInv, StreamInv
<1>2. \A i : i \in 1 .. at - 1 <=> i \in 1 .. Len(directory)
  <2>1. Len(directory) \in Nat
    BY LenProperties DEF IInv
  <2> QED
    BY <2>1
<1>3. \A s \in active : \E i \in 1 .. at - 1 : s \in CarriedBy(directory[i])
  BY <1>1, <1>2 DEF Covered
<1>4. Received = Earlier
  BY ReceivedParts
<1> QED
  BY <1>3, <1>4 DEF Earlier

LEMMA FinishKeeps ==
  ASSUME IInv, Finish
  PROVE  IInv' /\ phase' = "decoded" /\ Received' = Received
<1>1. /\ phase = "decode" /\ at = Len(directory) + 1
      /\ phase' = (IF highest >= Levels /\ offset # size THEN "rejected" ELSE "decoded")
      /\ at' = at /\ offset' = offset /\ cursor' = cursor /\ bi' = bi /\ values' = values
      /\ UNCHANGED <<encVars, highest, size>>
  BY DEF Finish
<1>2. Len(directory) \in Nat
  BY LenProperties DEF IInv
<1>3. offset = Len(payload)
  BY <1>1, <1>2 DEF IInv, DecodeInv, End
<1>4. highest >= Levels => offset = size
  <2>1. highest >= Levels => highest = Levels
    BY BandListAssumption DEF IInv
  <2> QED
    BY <1>1, <1>3, <2>1 DEF IInv, StreamInv
<1>5. phase' = "decoded"
  BY <1>1, <1>4
<1>6. active' = active /\ directory' = directory /\ highest' = highest
  BY <1>1 DEF encVars
<1>7. Received' = Received
  <2>1. \A d : CarriedBy(d)' = CarriedBy(d)
    BY <1>6 DEF CarriedBy
  <2> QED
    BY <1>1, <1>5, <1>6, <2>1 DEF Received
<1>8. DecodeInv'
  BY <1>1, <1>5, <1>6, <1>7 DEF IInv, DecodeInv
<1>9. /\ at' \in 1 .. Len(directory) + 1 /\ offset' \in 0 .. Len(payload)
      /\ cursor' \in 0 .. Len(payload) /\ bi' \in 1 .. 4
  BY <1>1, <1>2 DEF IInv
<1> QED
  BY <1>1, <1>5, <1>7, <1>8, <1>9, DecoderKeeps

--------------------------------------------------------------------------------
(* The invariants of the specification *)

LEMMA NextKeeps == IInv /\ [Next]_vars => IInv'
<1> SUFFICES ASSUME IInv, [Next]_vars
             PROVE  IInv'
  OBVIOUS
<1>1. CASE SkipInactive
  BY <1>1, SkipInactiveKeeps
<1>2. CASE EmitAlone
  BY <1>2, EmitAloneKeeps
<1>3. CASE EmitMerged
  BY <1>3, EmitMergedKeeps
<1>4. CASE Hand
  BY <1>4, HandKeeps
<1>5. CASE SkipLayer
  BY <1>5, SkipLayerKeeps
<1>6. CASE DecodeAlone
  BY <1>6, DecodeAloneKeeps
<1>7. CASE OpenMerged
  BY <1>7, OpenMergedKeeps
<1>8. CASE SkipSection
  BY <1>8, SkipSectionKeeps
<1>9. CASE DecodeSection
  BY <1>9, DecodeSectionKeeps
<1>10. CASE CloseMerged
  BY <1>10, CloseMergedKeeps
<1>11. CASE Finish
  BY <1>11, FinishKeeps
<1>12. CASE UNCHANGED vars
  <2>1. /\ phase' = phase /\ at' = at /\ offset' = offset /\ cursor' = cursor /\ bi' = bi
        /\ values' = values /\ UNCHANGED <<encVars, highest, size>>
    BY <1>12 DEF vars, encVars
  <2>2. /\ settings' = settings /\ active' = active /\ pending' = pending
        /\ directory' = directory /\ payload' = payload /\ starts' = starts
        /\ highest' = highest /\ size' = size
    BY <2>1 DEF encVars
  <2>3. /\ Given' /\ EntriesRight' /\ PayloadRight' /\ CarriedOnce' /\ Covered' = Covered
        /\ \A i : End(i)' = End(i)
    BY <2>2, SameStream DEF IInv
  <2>4. \A d : CarriedBy(d)' = CarriedBy(d) /\ \A k : PartAt(d, k)' = PartAt(d, k)
    BY <2>2, SameEntries
  <2>5. MergeInv' /\ StreamInv'
    BY <2>1, <2>2, <2>3 DEF IInv, MergeInv, StreamInv, Done
  <2>6. Received' = Received
    BY <2>1, <2>2, <2>4 DEF Received
  <2>7. End(at)' = End(at)
    BY <2>1, <2>2 DEF End
  <2>8. PartAt(directory[at], bi)' = PartAt(directory[at], bi)
    <3>1. PICK d, k : d = directory[at] /\ k = bi
      OBVIOUS
    <3>2. directory'[at'] = d /\ bi' = k
      BY <2>1, <2>2, <3>1
    <3> QED
      BY <2>1, <2>2 DEF PartAt, Chunk, Part, HeaderOf, Mode
  <2>9. DecodeInv'
    BY <2>1, <2>2, <2>6, <2>7, <2>8 DEF IInv, DecodeInv
  <2> QED
    BY <2>1, <2>2, <2>3, <2>5, <2>9 DEF IInv
<1> QED
  BY <1>1, <1>2, <1>3, <1>4, <1>5, <1>6, <1>7, <1>8, <1>9, <1>10, <1>11, <1>12 DEF Next

\* Init establishes IInv and every step of encode and of decode_v2 preserves it.
THEOREM Invariance == Spec => []IInv
BY InitHolds, NextKeeps, PTL DEF Spec

\* The positions of the merging loop and of decode_v2 stay inside the references, the
\* directory and the payload, for every list of bands.
THEOREM TypeCorrect == Spec => []TypeOK
<1>1. IInv => TypeOK
  <2> SUFFICES ASSUME IInv
               PROVE  TypeOK
    OBVIOUS
  <2>1. at \in 1 .. (IF phase = "merge" THEN Len(Refs) ELSE Len(directory)) + 1
    BY RefsOrder DEF IInv
  <2>2. values \in [Bands -> {"zero", "band", "other"}]
    BY DEF IInv, DecodeInv
  <2> QED
    BY <2>1, <2>2 DEF IInv, TypeOK
<1> QED
  BY <1>1, Invariance, PTL

\* decode_v2 rejects no stream that encode writes, whole or cut behind the requested layers,
\* whichever bands it lacks.
THEOREM NeverRejectedHolds == Spec => []NeverRejected
<1>1. IInv => NeverRejected
  BY DEF IInv, NeverRejected
<1> QED
  BY <1>1, Invariance, PTL

\* After decode_v2 each band of the requested layers is there, decoded from its own section
\* with its own step, mode and parent; the other bands are zero.
THEOREM RequestedLayersHeld == Spec => []HoldsRequestedLayers
<1>1. IInv => HoldsRequestedLayers
  <2> SUFFICES ASSUME IInv, phase = "decoded", NEW r \in Bands
               PROVE  values[r] = IF r.layer <= highest THEN Value(r) ELSE "zero"
    BY DEF HoldsRequestedLayers
  <2>1. at = Len(directory) + 1
    BY DEF IInv, DecodeInv
  <2>2. r \in Received <=> r \in active /\ r.layer <= highest
    BY <2>1, AllReceived
  <2>3. values[r] = IF r \in Received THEN "band" ELSE "zero"
    BY DEF IInv, DecodeInv
  <2> QED
    BY <2>2, <2>3 DEF Value
<1> QED
  BY <1>1, Invariance, PTL

\* encode writes no byte of a band twice, and at the end some byte of each band with a value:
\* the bands that a merged chunk takes ahead of their turn are not written again.
THEOREM BandsWrittenOnce == Spec => []EachBandOnce
<1>1. IInv => EachBandOnce
  <2> SUFFICES ASSUME IInv
               PROVE  EachBandOnce
    OBVIOUS
  <2>1. /\ Given /\ EntriesRight /\ PayloadRight /\ CarriedOnce
        /\ payload \in Seq(Tokens) /\ DOMAIN payload = 1 .. Len(payload)
        /\ Len(directory) \in Nat
    BY LenProperties DEF IInv
  <2>2. /\ \A i \in 1 .. Len(directory) :
              /\ directory[i].size = Len(Chunk(directory[i]))
              /\ \A k \in 1 .. directory[i].size : payload[starts[i] + k] = Chunk(directory[i])[k]
        /\ \A n \in 1 .. Len(payload) :
              \E i \in 1 .. Len(directory) : \E k \in 1 .. directory[i].size : n = starts[i] + k
    BY <2>1, EntryFacts DEF PayloadRight
  <2>3. ASSUME NEW m \in 1 .. Len(payload), NEW n \in 1 .. Len(payload), payload[m] = payload[n]
        PROVE  m = n
    <3>1. PICK i \in 1 .. Len(directory) : \E k \in 1 .. directory[i].size : m = starts[i] + k
      BY <2>2
    <3>2. PICK k \in 1 .. directory[i].size : m = starts[i] + k
      BY <3>1
    <3>3. PICK j \in 1 .. Len(directory) : \E l \in 1 .. directory[j].size : n = starts[j] + l
      BY <2>2
    <3>4. PICK l \in 1 .. directory[j].size : n = starts[j] + l
      BY <3>3
    <3>5. payload[m] = Chunk(directory[i])[k] /\ payload[n] = Chunk(directory[j])[l]
      BY <2>2, <3>2, <3>4
    <3>6. Chunk(directory[i])[k][1] \in CarriedBy(directory[i])
      BY <2>1, <2>2, EntryFacts
    <3>7. Chunk(directory[j])[l][1] \in CarriedBy(directory[j])
      BY <2>1, <2>2, EntryFacts
    <3>8. PICK s : s \in CarriedBy(directory[i]) /\ s \in CarriedBy(directory[j])
      BY <2>3, <3>5, <3>6, <3>7
    <3>9. i = j
      <4>1. CASE i < j
        <5>1. CarriedBy(directory[i]) \cap CarriedBy(directory[j]) = {}
          BY <2>1, <4>1 DEF CarriedOnce
        <5> QED
          BY <3>8, <5>1
      <4>2. CASE j < i
        <5>1. CarriedBy(directory[j]) \cap CarriedBy(directory[i]) = {}
          BY <2>1, <4>2 DEF CarriedOnce
        <5> QED
          BY <3>8, <5>1
      <4> QED
        BY <2>1, <4>1, <4>2
    <3>10. k = l
      <4>1. PICK d : d = directory[i]
        OBVIOUS
      <4>2. /\ d.size = Len(Chunk(d))
            /\ \A x, y \in 1 .. Len(Chunk(d)) : Chunk(d)[x] = Chunk(d)[y] => x = y
        BY <2>1, <4>1, EntryFacts, SMTT(60)
      <4>3. k \in 1 .. Len(Chunk(d)) /\ l \in 1 .. Len(Chunk(d)) /\ Chunk(d)[k] = Chunk(d)[l]
        BY <2>3, <3>5, <3>9, <4>1, <4>2
      <4> QED
        BY <4>2, <4>3
    <3> QED
      BY <3>2, <3>4, <3>9, <3>10
  <2>4. ASSUME phase # "merge", NEW r \in active
        PROVE  Section(r)[1] \in Range(payload)
    <3>1. PICK i \in 1 .. Len(directory) : r \in CarriedBy(directory[i])
      BY <2>4 DEF IInv, StreamInv, Covered
    <3>2. PICK k \in 1 .. Len(Chunk(directory[i])) : Chunk(directory[i])[k] = <<r, 1>>
      <4>1. PICK d : d = directory[i]
        OBVIOUS
      <4>2. \E k \in 1 .. Len(Chunk(d)) : Chunk(d)[k] = <<r, 1>>
        BY <2>1, <3>1, <4>1, EntryOpens
      <4> QED
        BY <4>1, <4>2
    <3>3. payload[starts[i] + k] = <<r, 1>>
      BY <2>2, <3>2
    <3>4. starts[i] + k \in 1 .. Len(payload)
      <4>1. PICK p, z : p = starts[i] /\ z = directory[i].size
        OBVIOUS
      <4>2. p \in Nat /\ p + z <= Len(payload)
        BY <2>1, <4>1 DEF PayloadRight
      <4>3. k \in 1 .. z /\ z \in Nat /\ Len(payload) \in Nat
        BY <2>1, <2>2, <3>2, <4>1, EntryFacts, LenProperties
      <4> QED
        BY <4>1, <4>2, <4>3
    <3>5. Section(r)[1] = <<r, 1>>
      <4>1. r \in Bands
        BY <2>1 DEF Given
      <4>2. SizeOf[r] \in Nat \ {0} /\ \A j \in 1 .. SizeOf[r] : Section(r)[j] = <<r, j>>
        BY <2>1, <4>1, SectionFacts
      <4>3. 1 \in 1 .. SizeOf[r]
        BY <4>2
      <4> QED
        BY <4>2, <4>3
    <3> QED
      BY <2>1, <3>3, <3>4, <3>5 DEF Range
  <2> QED
    BY <2>1, <2>3, <2>4 DEF EachBandOnce
<1> QED
  BY <1>1, Invariance, PTL

--------------------------------------------------------------------------------
(* decode_v2 keeps the promise of Delivery *)

LEMMA GotIsReceived == IInv => Got = Received
<1> SUFFICES ASSUME IInv
             PROVE  Got = Received
  OBVIOUS
<1>1. values = [r \in Bands |-> IF r \in Received THEN "band" ELSE "zero"] /\ active \subseteq Bands
  BY DEF IInv, DecodeInv, Given
<1>2. Received \subseteq Bands
  BY <1>1 DEF Received
<1> QED
  BY <1>1, <1>2 DEF Got

LEMMA PromiseInit == Init => Promise!Init
BY DEF Init, Promise!Init, Wanted, Got

\* A step that hands out one band of the requested layers, after its parent.
LEMMA PromiseDeliver ==
  ASSUME IInv, IInv', phase \in {"decode", "sections"}, phase' \in {"decode", "sections"},
         active' = active, highest' = highest,
         NEW r \in Bands, r \in active \ Received, r.layer <= highest,
         Received' = Received \cup {r},
         r.layer > 0 /\ ParentOf(r) \in active => ParentOf(r) \in Received
  PROVE  Promise!Deliver(r)
<1>1. Got = Received
  BY GotIsReceived
<1>2. Got' = Received'
  <2>1. values' = [s \in Bands |-> IF s \in Received' THEN "band" ELSE "zero"]
    BY DEF IInv, DecodeInv
  <2>2. Received' \subseteq Bands
    BY DEF IInv, Given, Received
  <2> QED
    BY <2>1, <2>2 DEF Got
<1>3. Wanted = {s \in active : s.layer <= highest} /\ Wanted' = Wanted
  BY DEF Wanted
<1>4. ParentOf(r) = r \/ ParentOf(r) \notin Wanted \ Got
  <2>1. r.layer = 0 => ParentOf(r) = r
    BY ParentFields
  <2>2. r.layer = 0 \/ r.layer > 0
    BY BandFields, BandListAssumption
  <2> QED
    BY <1>1, <1>3, <2>1, <2>2
<1>5. (phase = "decoded") = FALSE /\ (phase = "decoded")' = FALSE
  OBVIOUS
<1> QED
  BY <1>1, <1>2, <1>3, <1>4, <1>5 DEF Promise!Deliver

\* A step that hands out nothing, and after which the decoder has not ended.
LEMMA PromiseStutter ==
  ASSUME IInv, IInv', active' = active, highest' = highest,
         phase # "decoded", phase' # "decoded", phase = "merge" <=> phase' = "merge",
         Received' = Received
  PROVE  UNCHANGED Promise!vars
<1>1. Got = Received
  BY GotIsReceived
<1>2. Got' = Received'
  <2>1. values' = [s \in Bands |-> IF s \in Received' THEN "band" ELSE "zero"]
    BY DEF IInv, DecodeInv
  <2>2. Received' \subseteq Bands
    BY DEF IInv, Given, Received
  <2> QED
    BY <2>1, <2>2 DEF Got
<1>3. Wanted' = Wanted
  BY DEF Wanted
<1>4. (phase = "decoded")' = (phase = "decoded")
  OBVIOUS
<1> QED
  BY <1>1, <1>2, <1>3, <1>4 DEF Promise!vars

LEMMA PromiseAsk ==
  ASSUME IInv, IInv', Hand
  PROVE  Promise!Ask
<1>1. /\ phase = "merge" /\ phase' = "decode" /\ active' = active /\ highest' \in 0 .. Levels
      /\ values' = values
  BY DEF Hand, encVars
<1>2. Got = {}
  <2>1. Received = {}
    BY <1>1 DEF Received
  <2> QED
    BY <2>1, GotIsReceived
<1>3. Got' = Got
  BY <1>1 DEF Got
<1>4. PICK asked : asked = {r \in active : r.layer <= highest'}
  OBVIOUS
<1>5. Wanted' = asked
  BY <1>1, <1>4 DEF Wanted
<1>6. ASSUME NEW b \in asked, ParentOf(b) \in active
      PROVE  ParentOf(b) \in asked
  <2>1. b \in Bands /\ b.layer <= highest'
    BY <1>4 DEF IInv, Given
  <2>2. b.layer \in 0 .. Levels /\ Levels \in Nat
    BY <2>1, BandFields, BandListAssumption
  <2>3. CASE b.layer = 0
    BY <1>6, <2>1, <2>3, ParentFields
  <2>4. CASE b.layer > 0
    <3>1. ParentOf(b).layer = b.layer - 1
      BY <2>1, <2>4, ParentFields
    <3>2. ParentOf(b).layer <= highest'
      BY <1>1, <2>1, <2>2, <3>1
    <3> QED
      BY <1>4, <1>6, <3>2
  <2> QED
    BY <2>2, <2>3, <2>4
<1>7. (phase = "decoded")' = (phase = "decoded")
  BY <1>1
<1>8. asked \in SUBSET active
  BY <1>4
<1> QED
  BY <1>1, <1>2, <1>3, <1>5, <1>6, <1>7, <1>8 DEF Promise!Ask

LEMMA PromiseEnd ==
  ASSUME IInv, IInv', Finish
  PROVE  Promise!End
<1>1. /\ phase = "decode" /\ at = Len(directory) + 1 /\ values' = values
      /\ active' = active /\ highest' = highest
  BY DEF Finish, encVars
<1>2. phase' = "decoded"
  BY FinishKeeps
<1>3. Got = Wanted
  <2>1. Received = {s \in active : s.layer <= highest}
    BY <1>1, AllReceived
  <2> QED
    BY <1>1, <2>1, GotIsReceived DEF Wanted
<1>4. Got' = Got /\ Wanted' = Wanted
  BY <1>1, <1>2 DEF Got, Wanted
<1>5. (phase = "decoded") = FALSE /\ (phase = "decoded")' = TRUE
  BY <1>1, <1>2
<1> QED
  BY <1>1, <1>3, <1>4, <1>5 DEF Promise!End

\* Every step of encode and decode_v2 is one of the promise, or changes nothing of it.
LEMMA PromiseNext == IInv /\ IInv' /\ [Next]_vars => [Promise!Next]_Promise!vars
<1> SUFFICES ASSUME IInv, IInv', [Next]_vars
             PROVE  [Promise!Next]_Promise!vars
  OBVIOUS
<1>1. CASE SkipInactive \/ EmitAlone \/ EmitMerged
  <2>1. /\ phase = "merge" /\ phase' = "merge" /\ active' = active /\ highest' = highest
    BY <1>1 DEF SkipInactive, EmitAlone, EmitMerged, Turn, decVars
  <2>2. Received' = Received
    BY <2>1 DEF Received
  <2> QED
    BY <2>1, <2>2, PromiseStutter
<1>2. CASE Hand
  BY <1>2, PromiseAsk DEF Promise!Next
<1>3. CASE SkipLayer \/ OpenMerged \/ SkipSection \/ CloseMerged
  <2>1. /\ phase \in {"decode", "sections"} /\ phase' \in {"decode", "sections", "rejected"}
        /\ active' = active /\ highest' = highest
    BY <1>3 DEF SkipLayer, OpenMerged, SkipSection, CloseMerged, Reading, Reject, encVars
  <2>2. Received' = Received
    BY <1>3, SkipLayerKeeps, OpenMergedKeeps, SkipSectionKeeps, CloseMergedKeeps
  <2> QED
    BY <2>1, <2>2, PromiseStutter
<1>4. CASE DecodeAlone \/ DecodeSection
  <2>1. /\ phase \in {"decode", "sections"} /\ phase' \in {"decode", "sections", "rejected"}
        /\ active' = active /\ highest' = highest
    BY <1>4 DEF DecodeAlone, DecodeSection, Reading, Reject, encVars
  <2>2. phase' # "rejected"
    BY DEF IInv
  <2>3. PICK r \in Bands : /\ r \in active \ Received /\ r.layer <= highest
                           /\ Received' = Received \cup {r}
                           /\ r.layer > 0 /\ ParentOf(r) \in active => ParentOf(r) \in Received
    BY <1>4, DecodeAloneKeeps, DecodeSectionKeeps
  <2>4. Promise!Deliver(r)
    BY <2>1, <2>2, <2>3, PromiseDeliver
  <2> QED
    BY <2>4 DEF Promise!Next
<1>5. CASE Finish
  BY <1>5, PromiseEnd DEF Promise!Next
<1>6. CASE UNCHANGED vars
  BY <1>6 DEF vars, Promise!vars, Wanted, Got
<1> QED
  BY <1>1, <1>2, <1>3, <1>4, <1>5, <1>6 DEF Next

\* decode_v2 implements Delivery: whichever stream it is given, whole or cut, it hands out the
\* bands of the requested layers one by one, each after its parent, and ends when all are there.
THEOREM DeliveryImplemented == Spec => ImplementsDelivery
<1>1. IInv /\ [Next]_vars => IInv'
  BY NextKeeps
<1>2. Init => IInv
  BY InitHolds
<1> QED
  BY <1>1, <1>2, PromiseInit, PromiseNext, PTL DEF Spec, ImplementsDelivery, Promise!Spec
================================================================================
