-------------------------------- MODULE BandCoder --------------------------------
(***************************************************************************)
(* The binarisation of one quantised band, encode_band_arith_impl and      *)
(* decode_band_arith_impl: significance, sign and Rice-coded magnitude of  *)
(* every coefficient, each bit with the context it is coded in, in raster  *)
(* order or, in modes 12, 16 and 24, block by block.  Modes 12 and 24 pass *)
(* over blocks of zeros, mode 16 codes one value for a flat block.  The    *)
(* encoder looks at the whole band and at the quantised parent, the        *)
(* decoder at what it has decoded so far and at the dequantised parent.    *)
(* The bit coder between them is abstracted to a list of                   *)
(* <<context, fast, bit>>; see Rans and RangeCoder, which also have what   *)
(* the header says about the bit coder: the initial probabilities of mode  *)
(* 18 and, in mode 24, the size of the state beside k0.                    *)
(* A plane of w * h values is a function on 0 .. w * h - 1, row by row.    *)
(***************************************************************************)
EXTENDS Integers, Sequences, FiniteSets, FiniteSetsExt

CONSTANTS Kinds,          \* pairs <<mode, base>>: base bands are predicted and have no parent
          Sizes(_),       \* sizes <<w, h>> of the band, by mode
          Samples(_),     \* quantised values, by mode
          ParentSize, ParentSamples,
          Steps,          \* <<step_child, step_parent>>
          Block,          \* kB or kB16, the side of a block
          Window,         \* the coefficients after which k is adapted
          ValueWindow,    \* the flat blocks after which vk is
          GapLimits       \* the thresholds of gap_predict, from hard to soft

MaxK == 12
NumCtx == 128
CtxBlk == 4

ASSUME BandCoderAssumption ==
  /\ Kinds \subseteq (3 .. 24) \X BOOLEAN
  /\ \A m \in 3 .. 24 : /\ Sizes(m) \subseteq (Nat \ {0}) \X (Nat \ {0})
                        /\ Samples(m) \subseteq Int
  /\ ParentSamples \subseteq Int
  /\ ParentSize \in (Nat \ {0}) \X (Nat \ {0})
  /\ Steps \in (Nat \ {0}) \X (Nat \ {0})
  /\ Block \in Nat \ {0} /\ Window \in Nat \ {0} /\ ValueWindow \in Nat \ {0}

VARIABLES mode, base, orient, w, h,
          band,    \* what is coded
          parent,  \* the quantised parent
          k0,      \* the header byte
          phase,   \* "flags", "encode", "read flags", "decode" or "done"
          at,      \* the position in the scan
          rice,    \* k, mag_sum and mag_count
          valueRice, \* vk, v_mag_sum and v_mag_count
          flags,   \* block_nz, or flat
          trace,   \* the coded bits, each with its context
          read,    \* the next one to decode
          dest,    \* what has been decoded
          agree,   \* every bit was decoded in the context it was coded in
          past     \* history: what the encoder stood at before each step of its scan

job == <<mode, base, orient, w, h, band, parent, k0>>
vars == <<job, phase, at, rice, valueRice, flags, trace, read, dest, agree, past>>

Cells == 0 .. (w * h - 1)
X(n) == n % w
Y(n) == n \div w
Bit(b) == IF b THEN 1 ELSE 0
Abs(v) == IF v < 0 THEN -v ELSE v

\* Division as in C++, towards zero.
Quotient(a, b) == IF a >= 0 THEN a \div b ELSE -((-a) \div b)

\* The largest k up to 12 with 2^k <= v.
KFor(v) == Max({0} \cup {i \in 1 .. MaxK : 2^i <= v})

--------------------------------------------------------------------------------
(* What a side sees: its cells, its parent and the scale of the parent, its flags and the *)
(* parameters it has adapted                                                              *)

Encoder == [cells |-> band, parent |-> parent, scale |-> Steps[2],
            flags |-> flags, k |-> rice.k, vk |-> valueRice.k]

\* What the decoder's parent holds, q * step.
Dequantized == [p \in DOMAIN parent |-> parent[p] * Steps[2]]

\* Mutant: the parent is scaled a second time.
DecoderScaled == [cells |-> dest, parent |-> Dequantized, scale |-> Steps[2],
                  flags |-> flags, k |-> rice.k, vk |-> valueRice.k]

Decoder == [cells |-> dest, parent |-> Dequantized, scale |-> 1,
            flags |-> flags, k |-> rice.k, vk |-> valueRice.k]

Left(s, n) == IF X(n) > 0 THEN s.cells[n - 1] ELSE 0
Above(s, n) == IF Y(n) > 0 THEN s.cells[n - w] ELSE 0
AboveLeft(s, n) == IF X(n) > 0 /\ Y(n) > 0 THEN s.cells[n - w - 1] ELSE 0

ParentCell(x, y) == Min({y, ParentSize[2] - 1}) * ParentSize[1] + Min({x, ParentSize[1] - 1})
ParentAt(s, n) == IF base THEN 0 ELSE s.parent[ParentCell(X(n) \div 2, Y(n) \div 2)]

\* The magnitudes of the parent block, in units of the child's step.
ParentBlock(s, n) ==
  LET x == Min({X(n) \div 2, ParentSize[1] - 1})
      y == Min({Y(n) \div 2, ParentSize[2] - 1})
  IN  [d \in {0, 1} \X {0, 1} |->
         (Abs(s.parent[ParentCell(x + d[1], y + d[2])]) * s.scale) \div Steps[1]]

MagClass(a) == IF a <= 1 THEN a ELSE IF a <= 3 THEN 2 ELSE 3
PClass(s, n) == LET b == ParentBlock(s, n) IN MagClass(Max({b[d] : d \in DOMAIN b}))
PMean(s, n) == LET b == ParentBlock(s, n)
               IN  (b[<<0, 0>>] + b[<<1, 0>>] + b[<<0, 1>>] + b[<<1, 1>>] + 2) \div 4

ParentMag == mode \in {13, 14} /\ ~base

--------------------------------------------------------------------------------
(* Contexts *)

SigContext(s, n) ==
  Bit(Left(s, n) # 0) + 2 * Bit(Above(s, n) # 0) + 4 * Bit(AboveLeft(s, n) # 0)
SignContext(s, n) == Bit(Left(s, n) < 0) + 2 * Bit(Above(s, n) < 0)

Energy(s, n) == Min({Abs(Left(s, n)) + Abs(Above(s, n)) + Abs(AboveLeft(s, n)), 7})

\* Mode 18 continues runs upwards in the H band and leftwards in the others.
TextRun(s, n) ==
  IF orient = 1 THEN Y(n) > 1 /\ s.cells[n - w] # 0 /\ s.cells[n - 2 * w] # 0
                ELSE X(n) > 1 /\ s.cells[n - 1] # 0 /\ s.cells[n - 2] # 0

SecondOrder(s, n) == SigContext(s, n) + 8 * Bit(X(n) > 1 /\ s.cells[n - 2] # 0)
                                      + 16 * Bit(Y(n) > 1 /\ s.cells[n - 2 * w] # 0)

SigCtx(s, n) ==
  LET p == 8 * Bit(ParentAt(s, n) # 0)
  IN  IF ParentMag THEN SigContext(s, n) + 8 * PClass(s, n)
      ELSE IF mode = 15 /\ ~base THEN Energy(s, n) + p
      ELSE IF mode = 17 /\ ~base THEN SecondOrder(s, n)
      ELSE IF mode = 18 /\ ~base THEN SigContext(s, n) + p + 16 * Bit(TextRun(s, n))
      ELSE IF mode \in {3, 6, 11} THEN SigContext(s, n)
      ELSE IF mode = 16 THEN 8 + SigContext(s, n)
      ELSE SigContext(s, n) + p

SignCtx(s, n) ==
  (IF ParentMag THEN 32 ELSE 16) + SignContext(s, n) + 4 * Bit(mode = 4 /\ ParentAt(s, n) < 0)

UnaryCtx(s, n, i) ==
  LET class == Min({MagClass(Abs(Left(s, n))), MagClass(Abs(Above(s, n)))})
  IN  IF ParentMag THEN 36 + 6 * PClass(s, n) + Min({i, 5})
      ELSE IF mode \in {4, 6} THEN 24 + 6 * class + Min({i, 5})
      ELSE 20 + Min({i, 23})

RemCtx(i) == (IF ParentMag THEN 60 ELSE IF mode \in {4, 6} THEN 48 ELSE 44) + i

--------------------------------------------------------------------------------
(* Predictions *)

Median(a, b, c) == IF c >= Max({a, b}) THEN Min({a, b})
                   ELSE IF c <= Min({a, b}) THEN Max({a, b}) ELSE a + b - c

Clamp(p, a, b) == Max({Min({p, Max({a, b})}), Min({a, b})})

\* gap_predict.  In the last column its north-east neighbour is, row by row, the first
\* value of the row of n.
Gap(s, n) ==
  LET a == Left(s, n)
      b == Above(s, n)
      nw == AboveLeft(s, n)
      ne == s.cells[n - w + 1]
      ww == IF X(n) > 1 THEN s.cells[n - 2] ELSE 0
      nn == IF Y(n) > 1 THEN s.cells[n - 2 * w] ELSE 0
      d == Abs(a - nw) + Abs(b - nn) + Abs(ne - b) - Abs(a - ww) - Abs(b - nw) - Abs(b - ne)
      p == Quotient(a + b, 2) + Quotient(ne - nw, 4)
  IN  IF X(n) = 0 \/ Y(n) = 0 THEN a + b
      ELSE IF d > GapLimits[1] THEN a
      ELSE IF d < -GapLimits[1] THEN b
      ELSE IF d > GapLimits[2] THEN Quotient(p + a, 2)
      ELSE IF d > GapLimits[3] THEN Quotient(3 * p + a, 4)
      ELSE IF d < -GapLimits[2] THEN Quotient(p + b, 2)
      ELSE IF d < -GapLimits[3] THEN Quotient(3 * p + b, 4)
      ELSE p

Prediction(s, n) ==
  LET a == Left(s, n)
      b == Above(s, n)
      c == AboveLeft(s, n)
      edge == X(n) = 0 \/ Y(n) = 0
  IN  IF ~base /\ mode # 16 THEN 0
      ELSE IF base /\ mode = 7 THEN Gap(s, n)
      ELSE IF base /\ mode = 13 THEN IF edge THEN a + b ELSE a + b - c
      ELSE IF base /\ mode = 14 THEN IF edge THEN a + b ELSE Clamp(a + b - c, a, b)
      ELSE Median(a, b, c)

Zigzag(d) == IF d >= 0 THEN 2 * d ELSE -2 * d - 1

\* Mutant: an odd residual is halved downwards.
UnzigzagDown(z, p) == IF z % 2 = 1 THEN p - (z \div 2) ELSE p + (z \div 2)

Unzigzag(z, p) == IF z % 2 = 1 THEN p - ((z + 1) \div 2) ELSE p + (z \div 2)

\* Modes 9 and 14 code the magnitude as a residual of these.
Residual == mode = 9 \/ (mode = 14 /\ ~base)
MagPrediction(s, n) == IF mode = 9 THEN Min({Abs(Left(s, n)), Abs(Above(s, n))}) ELSE PMean(s, n)

--------------------------------------------------------------------------------
(* The Rice parameter *)

\* The header's k0, from the mean magnitude or, in mode 14, the mean residual.
K0 == LET nonzero == {n \in Cells : band[n] # 0}
          unscaled == [parent |-> parent, scale |-> Steps[2]]
          size(n) == IF mode = 14 /\ ~base THEN Zigzag(Abs(band[n]) - 1 - PMean(unscaled, n))
                     ELSE Abs(band[n])
      IN  KFor(MapThenSumSet(size, nonzero) \div Cardinality(nonzero))

\* The size of a neighbour's residual in mode 14, 0 outside the band.
NeighbourResidual(s, there, n) ==
  IF there /\ s.cells[n] # 0 THEN Zigzag(Abs(s.cells[n]) - 1 - PMean(s, n)) ELSE 0

\* The parameter of one coefficient: the neighbours' scale over the floor of the band.
LocalK(s, n) ==
  LET over(a, b) == Max({KFor((a + b) \div 2 + 1), s.k})
  IN  IF mode = 14 /\ ~base THEN over(NeighbourResidual(s, X(n) > 0, n - 1),
                                      NeighbourResidual(s, Y(n) > 0, n - w))
      ELSE IF mode \in {8, 9, 12, 24} \/ (mode = 13 /\ ~base)
      THEN over(Abs(Left(s, n)), Abs(Above(s, n)))
      ELSE s.k

\* Mutant: the sum and the count go on.
TrackedOn(r, m, window) ==
  IF r.count + 1 >= window
  THEN [k |-> KFor((r.sum + m) \div window), sum |-> 0, count |-> window]
  ELSE [r EXCEPT !.sum = @ + m, !.count = @ + 1]

\* What coding a magnitude does to a sum, its count and their k.
Tracked(r, m, window) ==
  IF r.count + 1 = window
  THEN [k |-> KFor((r.sum + m) \div window), sum |-> 0, count |-> 0]
  ELSE [r EXCEPT !.sum = @ + m, !.count = @ + 1]

Untracked(k) == [k |-> k, sum |-> 0, count |-> 0]

--------------------------------------------------------------------------------
(* The scan *)

Blocks == mode \in {12, 16, 24}
BlocksWide == (w + Block - 1) \div Block
BlockIds == 0 .. (BlocksWide * ((h + Block - 1) \div Block) - 1)
BlockOf(n) == X(n) \div Block + BlocksWide * (Y(n) \div Block)

Earlier(m, n) == BlockOf(m) < BlockOf(n) \/ (BlockOf(m) = BlockOf(n) /\ m < n)

CellAt(i) == IF Blocks THEN CHOOSE n \in Cells : Cardinality({m \in Cells : Earlier(m, n)}) = i - 1
                       ELSE i - 1

CellsOf(b) == {n \in Cells : BlockOf(n) = b}

\* Mode 16 flags the blocks of one value, the other modes those with a nonzero one.
Flag(b) == IF mode = 16 THEN Bit(\A m, n \in CellsOf(b) : band[m] = band[n])
                        ELSE Bit(\E n \in CellsOf(b) : band[n] # 0)

\* A coefficient of a block of zeros is passed over; a flat block is coded as a whole.
Passed(n) == mode \in {12, 24} /\ flags[BlockOf(n)] = 0
InFlat(n) == mode = 16 /\ flags[BlockOf(n)] = 1

FlagLeft(f, b) == b % BlocksWide > 0 /\ f[b - 1] = 1
FlagAbove(f, b) == b >= BlocksWide /\ f[b - BlocksWide] = 1

FlagCtx(f, b) == (IF mode = 16 THEN 0 ELSE CtxBlk) + Bit(FlagLeft(f, b)) + 2 * Bit(FlagAbove(f, b))

Event(ctx, fast, bit) == [ctx |-> <<ctx, fast>>, bit |-> bit]

--------------------------------------------------------------------------------
(* Flat blocks *)

\* bval: the value of a flat block.
ValueOf(s, b) == s.cells[Min(CellsOf(b))]

\* What it is predicted from, the left flat block or else the one above, and bres.
ValuePrediction(s, b) == IF FlagLeft(s.flags, b) THEN ValueOf(s, b - 1)
                         ELSE IF FlagAbove(s.flags, b) THEN ValueOf(s, b - BlocksWide) ELSE 0
Residue(s, b) == ValueOf(s, b) - ValuePrediction(s, b)

LeftResidue(s, b) == IF FlagLeft(s.flags, b) THEN Residue(s, b - 1) ELSE 0
AboveResidue(s, b) == IF FlagAbove(s.flags, b) THEN Residue(s, b - BlocksWide) ELSE 0

ValueCtx(s, b) == 4 + Bit(LeftResidue(s, b) # 0) + 2 * Bit(AboveResidue(s, b) # 0)
ValueSignCtx(s, b) == 57 + Bit(LeftResidue(s, b) < 0) + 2 * Bit(AboveResidue(s, b) < 0)
ValueK(s, b) == Max({KFor((Abs(LeftResidue(s, b)) + Abs(AboveResidue(s, b))) \div 2 + 1),
                     s.vk})

--------------------------------------------------------------------------------
Init == /\ \E kind \in Kinds : mode = kind[1] /\ base = kind[2]
        /\ orient \in IF base THEN {0} ELSE {1, 2}
        /\ mode # 18 => orient < 2
        /\ \E s \in Sizes(mode) : w = s[1] /\ h = s[2]
        /\ band \in [Cells -> Samples(mode)]
        /\ band # [n \in Cells |-> 0]
        /\ parent \in IF base THEN {<<>>}
                      ELSE [0 .. (ParentSize[1] * ParentSize[2] - 1) -> ParentSamples]
        /\ phase = "flags"
        /\ at = 1
        /\ k0 = K0
        /\ rice = Untracked(k0)
        /\ valueRice = Untracked(0)
        /\ flags = <<>>
        /\ trace = <<>>
        /\ read = 1
        /\ dest = [n \in Cells |-> 0]
        /\ agree = TRUE
        /\ past = <<>>

\* The encoder stands at its next step.
Stands == past' = Append(past, [at |-> at', rice |-> rice', valueRice |-> valueRice',
                                bits |-> Len(trace')])

\* The header byte k0 and, in the block modes, the flags.
EncodeFlags ==
  /\ phase = "flags"
  /\ phase' = "encode"
  /\ IF Blocks
       THEN /\ flags' = [b \in BlockIds |-> Flag(b)]
            /\ trace' = [b \in 1 .. Cardinality(BlockIds) |->
                           Event(FlagCtx(flags', b - 1), FALSE, flags'[b - 1])]
       ELSE UNCHANGED <<flags, trace>>
  /\ UNCHANGED <<job, at, rice, valueRice, read, dest, agree>>
  /\ Stands

\* The unary digits adapt faster, but not in mode 16.
Fast == mode # 16

\* Mutant: one remainder bit too many.
RiceOneMore(s, n, m, k) ==
  [i \in 1 .. (m \div 2^k) + 1 |-> Event(UnaryCtx(s, n, i - 1), Fast, Bit(i > m \div 2^k))]
  \o [i \in 1 .. k + 1 |-> Event(RemCtx(i - 1), FALSE, (m \div 2^(i - 1)) % 2)]

\* The Rice code of m: the quotient in unary, then k bits from the lowest up.
Rice(s, n, m, k) ==
  [i \in 1 .. (m \div 2^k) + 1 |-> Event(UnaryCtx(s, n, i - 1), Fast, Bit(i > m \div 2^k))]
  \o [i \in 1 .. k |-> Event(RemCtx(i - 1), FALSE, (m \div 2^(i - 1)) % 2)]

\* What is coded for a magnitude.  A base band in mode 13 or 14 leaves the quotient and
\* the remainder uninitialised: any value.
Coded(s, n, m) == IF mode \in {13, 14} /\ base THEN 0 .. 3
                  ELSE IF Residual THEN {Zigzag(m - MagPrediction(s, n))} ELSE {m}

EncodeCell ==
  /\ phase = "encode"
  /\ at <= w * h
  /\ ~InFlat(CellAt(at))
  /\ at' = at + 1
  /\ LET n == CellAt(at)
         s == Encoder
         q == band[n] - Prediction(s, n)
         plain == Abs(q) - 1
     IN  IF Passed(n) THEN UNCHANGED <<trace, rice>>
         ELSE IF q = 0 THEN trace' = Append(trace, Event(SigCtx(s, n), FALSE, 0)) /\ UNCHANGED rice
         ELSE \E m \in Coded(s, n, plain) :
                /\ trace' = trace \o <<Event(SigCtx(s, n), FALSE, 1),
                                       Event(SignCtx(s, n), FALSE, Bit(q < 0))>>
                                  \o Rice(s, n, m, LocalK(s, n))
                /\ rice' = Tracked(rice, IF mode = 14 /\ ~base THEN m ELSE plain, Window)
  /\ UNCHANGED <<job, phase, valueRice, flags, read, dest, agree>>
  /\ Stands

EncodeFlat ==
  /\ phase = "encode"
  /\ at <= w * h
  /\ InFlat(CellAt(at))
  /\ LET b == BlockOf(CellAt(at))
         v == Residue(Encoder, b)
         m == Abs(v) - 1
         k == ValueK(Encoder, b)
     IN  /\ at' = at + Cardinality(CellsOf(b))
         /\ IF v = 0
            THEN /\ trace' = Append(trace, Event(ValueCtx(Encoder, b), FALSE, 0))
                 /\ UNCHANGED valueRice
            ELSE /\ trace' = trace \o <<Event(ValueCtx(Encoder, b), FALSE, 1),
                                       Event(ValueSignCtx(Encoder, b), FALSE, Bit(v < 0))>>
                                  \o Rice(Encoder, CellAt(at), m, k)
                 /\ valueRice' = Tracked(valueRice, m, ValueWindow)
  /\ UNCHANGED <<job, phase, rice, flags, read, dest, agree>>
  /\ Stands

\* The decoder starts: it reads k0, and has forgotten everything else.
StartDecoding == /\ phase = "encode"
                 /\ at = w * h + 1
                 /\ phase' = "read flags"
                 /\ at' = 1
                 /\ rice' = Untracked(k0)
                 /\ valueRice' = Untracked(0)
                 /\ flags' = <<>>
                 /\ UNCHANGED <<job, trace, read, dest, agree, past>>

\* Behind the last coded bit the bit coder would return anything.
BitAt(i) == IF i <= Len(trace) THEN trace[i].bit ELSE 1

\* The contexts asked for from read on are those of the coded bits.
Asked(ctxs) == /\ read + Len(ctxs) - 1 <= Len(trace)
               /\ \A i \in DOMAIN ctxs : trace[read + i - 1].ctx = ctxs[i]

DecodeFlags ==
  /\ phase = "read flags"
  /\ phase' = "decode"
  /\ IF Blocks
       THEN /\ flags' = [b \in BlockIds |-> BitAt(b + 1)]
            /\ read' = read + Cardinality(BlockIds)
            /\ agree' = Asked([b \in 1 .. Cardinality(BlockIds) |->
                                 <<FlagCtx(flags', b - 1), FALSE>>])
       ELSE UNCHANGED <<flags, read, agree>>
  /\ UNCHANGED <<job, at, rice, valueRice, trace, dest, past>>

\* The Rice code that starts at i: its quotient, its value and the contexts asked for.
QuotientAt(i) == Min({j \in i .. Max({Len(trace), i}) + 1 : BitAt(j) = 1}) - i
RemainderAt(i, k) ==
  LET lowest[j \in 0 .. k] == IF j = 0 THEN 0 ELSE lowest[j - 1] + BitAt(i + j - 1) * 2^(j - 1)
  IN  lowest[k]
RiceAt(i, k) == QuotientAt(i) * 2^k + RemainderAt(i + QuotientAt(i) + 1, k)
RiceCtxs(s, n, quotient, k) == [i \in 1 .. quotient + 1 |-> <<UnaryCtx(s, n, i - 1), Fast>>]
                               \o [i \in 1 .. k |-> <<RemCtx(i - 1), FALSE>>]

\* The decoder also rejects a quotient above 65536 and a value out of the range of
\* dequantisation: neither is in a stream of encode, whose samples have 8 bits.
DecodeCell ==
  /\ phase = "decode"
  /\ at <= w * h
  /\ ~InFlat(CellAt(at))
  /\ at' = at + 1
  /\ LET n == CellAt(at)
         s == Decoder
         k == LocalK(s, n)
         quotient == QuotientAt(read + 2)
         coded == RiceAt(read + 2, k)
         plain == IF Residual THEN Unzigzag(coded, MagPrediction(s, n)) ELSE coded
         sign == IF BitAt(read + 1) = 1 THEN -1 ELSE 1
         sig == <<<<SigCtx(s, n), FALSE>>>>
         rest == <<<<SignCtx(s, n), FALSE>>>> \o RiceCtxs(s, n, quotient, k)
     IN  IF Passed(n) THEN UNCHANGED <<rice, read, dest, agree>>
         ELSE IF BitAt(read) = 0
         THEN /\ dest' = [dest EXCEPT ![n] = Prediction(s, n)]
              /\ read' = read + 1
              /\ agree' = (agree /\ Asked(sig))
              /\ UNCHANGED rice
         ELSE /\ dest' = [dest EXCEPT ![n] = sign * (plain + 1) + Prediction(s, n)]
              /\ read' = read + Len(sig \o rest)
              /\ agree' = (agree /\ Asked(sig \o rest))
              /\ rice' = Tracked(rice, IF mode = 14 /\ ~base THEN coded ELSE plain, Window)
  /\ UNCHANGED <<job, phase, valueRice, flags, trace, past>>

DecodeFlat ==
  /\ phase = "decode"
  /\ at <= w * h
  /\ InFlat(CellAt(at))
  /\ LET b == BlockOf(CellAt(at))
         k == ValueK(Decoder, b)
         m == RiceAt(read + 2, k)
         v == IF BitAt(read) = 0 THEN 0 ELSE IF BitAt(read + 1) = 1 THEN -(m + 1) ELSE m + 1
         ctxs == <<<<ValueCtx(Decoder, b), FALSE>>>>
                 \o IF BitAt(read) = 0 THEN <<>>
                    ELSE <<<<ValueSignCtx(Decoder, b), FALSE>>>>
                         \o RiceCtxs(Decoder, CellAt(at), QuotientAt(read + 2), k)
     IN  /\ at' = at + Cardinality(CellsOf(b))
         /\ dest' = [n \in Cells |-> IF BlockOf(n) = b THEN ValuePrediction(Decoder, b) + v
                                     ELSE dest[n]]
         /\ read' = read + Len(ctxs)
         /\ agree' = (agree /\ Asked(ctxs))
         /\ valueRice' = IF BitAt(read) = 0 THEN valueRice ELSE Tracked(valueRice, m, ValueWindow)
  /\ UNCHANGED <<job, phase, rice, flags, trace, past>>

EndDecoding == /\ phase = "decode"
               /\ at = w * h + 1
               /\ phase' = "done"
               /\ UNCHANGED <<job, at, rice, valueRice, flags, trace, read, dest, agree, past>>

Next == \/ EncodeFlags \/ EncodeCell \/ EncodeFlat \/ StartDecoding
        \/ DecodeFlags \/ DecodeCell \/ DecodeFlat \/ EndDecoding

Spec == Init /\ [][Next]_vars

--------------------------------------------------------------------------------
\* Every coded bit has one of the contexts of BandProbs, and the Rice state is in range.
TypeOK == /\ phase \in {"flags", "encode", "read flags", "decode", "done"}
          /\ at \in 1 .. w * h + 1
          /\ \A i \in DOMAIN trace : trace[i] \in [ctx : (0 .. NumCtx - 1) \X BOOLEAN, bit : {0, 1}]
          /\ rice.k \in 0 .. MaxK /\ rice.count \in 0 .. Window - 1
          /\ valueRice.k \in 0 .. MaxK /\ valueRice.count \in 0 .. ValueWindow - 1
          /\ dest \in [Cells -> Int]
          /\ agree \in BOOLEAN

\* The decoder asks for every bit in the context, and with the adaptation rate, in which
\* it was coded, though it knows only what it has decoded and the dequantised parent.
ContextsAgree == agree

\* Cell by cell, what has been decoded is what was coded, and nothing else is touched.
DecodedSoFar ==
  phase \in {"decode", "done"} =>
    \A i \in 1 .. w * h : dest[CellAt(i)] = IF i < at THEN band[CellAt(i)] ELSE 0

\* The decoder has used every coded bit when it ends: position() is the payload's end.
AllBitsRead == phase = "done" => read = Len(trace) + 1
================================================================================
