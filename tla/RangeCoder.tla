------------------------------- MODULE RangeCoder -------------------------------
(***************************************************************************)
(* The binary range coder of streams up to version 6 (RangeEncoder and     *)
(* RangeDecoder).  Both adapt the probability of a 0 bit per context.  A   *)
(* byte is a digit in base ByteBase; low_ keeps one digit more than the    *)
(* range, and a digit that a carry may still reach waits in cache_, with   *)
(* the run of highest digits that follows it counted by cache_size_.       *)
(***************************************************************************)
EXTENDS BitCoder

CONSTANTS P,           \* the scale of a probability, 2048
          InitProbs    \* the initial probabilities: BandProbs and text_init

Top == ByteBase * ByteBase * ByteBase * ByteBase   \* 1 << 32
Bottom == ByteBase * ByteBase * ByteBase           \* 1 << 24

ASSUME RangeAssumption ==
  /\ P \in Nat \ {0, 1}
  /\ Bottom % P = 0
  /\ InitProbs \subseteq 1 .. (P - 1)

\* What BandProbs fills a model with.
BandProbsInit == P - 1

RangeProbs == 1 .. (P - 1)

\* The phases are "encode", "renorm", "flush", "open", "decode" and "refill"; script also has
\* the bits, and trace[k] is the encoder before bit k.
VARIABLES low, range, cache, cacheSize,   \* RangeEncoder
          flushed,  \* turns of flush's loop
          code, drange,                   \* RangeDecoder
          total,    \* history: low without the digits that have left it being forgotten
          path      \* history: total, range and the digits shifted out, after each step

coder == <<low, range, cache, cacheSize, out>>
history == <<total, path, trace>>
rangeDecVars == <<dmodel, code, drange, pos, decoded>>
rangeVars == <<phase, script, model, coder, flushed, rangeDecVars, history>>

--------------------------------------------------------------------------------
Bound(r, p) == (r \div P) * p

\* Mutant: a probability that reached the scale is kept.
RangeAdaptToScale(p, b, r) == IF b = 0 THEN p + (P - p + r - 1) \div r
                                       ELSE LET q == p - p \div r IN IF q > 0 THEN q ELSE 1

RangeAdapt(p, b, r) == IF b = 0 THEN LET q == p + (P - p) \div r IN IF q < P THEN q ELSE P - 1
                                ELSE LET q == p - p \div r IN IF q > 0 THEN q ELSE 1

\* Mutant: the pending digits are written without the carry.
ShiftLowNoCarry ==
  /\ IF low < Top - Bottom \/ low >= Top
       THEN /\ out' = out \o <<(cache + low \div Top) % ByteBase>>
                          \o [i \in 1 .. (cacheSize - 1) |-> ByteBase - 1]
            /\ cache' = (low \div Bottom) % ByteBase
            /\ cacheSize' = 1
       ELSE /\ cacheSize' = cacheSize + 1
            /\ UNCHANGED <<out, cache>>
  /\ low' = (low * ByteBase) % Top

\* Mutant: a digit that a carry may still reach is written at once.
ShiftLowEager ==
  /\ out' = out \o <<(cache + low \div Top) % ByteBase>>
  /\ cache' = (low \div Bottom) % ByteBase
  /\ cacheSize' = 1
  /\ low' = (low * ByteBase) % Top

\* shift_low
ShiftLow ==
  /\ IF low < Top - Bottom \/ low >= Top
       THEN /\ out' = out \o <<(cache + low \div Top) % ByteBase>>
                          \o [i \in 1 .. (cacheSize - 1) |-> (ByteBase - 1 + low \div Top) % ByteBase]
            /\ cache' = (low \div Bottom) % ByteBase
            /\ cacheSize' = 1
       ELSE /\ cacheSize' = cacheSize + 1
            /\ UNCHANGED <<out, cache>>
  /\ low' = (low * ByteBase) % Top

--------------------------------------------------------------------------------
RangeInit == /\ phase = "encode"
             /\ script = <<>>
             /\ model \in [Contexts -> InitProbs]
             /\ low = 0
             /\ range = Top - 1
             /\ cache = 0
             /\ cacheSize = 1
             /\ flushed = 0
             /\ out = <<>>
             /\ dmodel = model
             /\ code = 0
             /\ drange = Top - 1
             /\ pos = 0
             /\ decoded = <<>>
             /\ trace = <<>>
             /\ total = 0
             /\ path = <<[total |-> 0, range |-> Top - 1, shifted |-> 0]>>

Point == [model |-> model, range |-> range]
Shifted == Len(out) + cacheSize - 1

\* encode_bit up to its renormalisation loop.
EncodeBit(c, r, b) ==
  LET bound == Bound(range, model[c])
  IN /\ phase = "encode"
     /\ Len(script) < MaxSymbols
     /\ low' = IF b = 0 THEN low ELSE low + bound
     /\ range' = IF b = 0 THEN bound ELSE range - bound
     /\ model' = [model EXCEPT ![c] = RangeAdapt(@, b, r)]
     /\ script' = Append(script, [ctx |-> c, rate |-> r, bit |-> b])
     /\ trace' = Append(trace, Point)
     /\ total' = IF b = 0 THEN total ELSE total + bound
     /\ path' = Append(path, [total |-> total', range |-> range', shifted |-> Shifted])
     /\ phase' = IF range' < Bottom THEN "renorm" ELSE "encode"
     /\ UNCHANGED <<cache, cacheSize, flushed, out, rangeDecVars>>

\* One turn of the loop.
Renormalise == /\ phase = "renorm"
               /\ ShiftLow
               /\ range' = range * ByteBase
               /\ phase' = IF range' < Bottom THEN "renorm" ELSE "encode"
               /\ total' = total * ByteBase
               /\ path' = Append(path, [total |-> total', range |-> range',
                                          shifted |-> Shifted + 1])
               /\ UNCHANGED <<script, model, flushed, rangeDecVars, trace>>

\* Mutant: the loop turns once less.
RangeFlushFour == /\ phase \in {"encode", "flush"}
                  /\ ShiftLow
                  /\ flushed' = flushed + 1
                  /\ phase' = IF flushed' = 4 THEN "open" ELSE "flush"
                  /\ trace' = IF flushed = 0 THEN Append(trace, Point) ELSE trace
                  /\ UNCHANGED <<script, model, range, rangeDecVars, total, path>>

\* flush: its loop is entered, and turns five times.
RangeFlush == /\ phase \in {"encode", "flush"}
              /\ ShiftLow
              /\ flushed' = flushed + 1
              /\ phase' = IF flushed' = 5 THEN "open" ELSE "flush"
              /\ trace' = IF flushed = 0 THEN Append(trace, Point) ELSE trace
              /\ UNCHANGED <<script, model, range, rangeDecVars, total, path>>

\* One turn of the loop of the decoder's constructor.  code_ is 32 bits wide.
RangeOpen == /\ phase = "open"
             /\ code' = (code * ByteBase + ByteAt(pos)) % Top
             /\ pos' = pos + 1
             /\ phase' = IF pos' = 5 THEN "decode" ELSE "open"
             /\ UNCHANGED <<script, model, coder, flushed, dmodel, drange, decoded, history>>

\* Mutant: a code on the bound is taken for a 0 bit.
RangeDecodeBitInclusive ==
  LET next == Len(decoded) + 1
      c == script[next].ctx
      bound == Bound(drange, dmodel[c])
      b == IF code <= bound THEN 0 ELSE 1
  IN /\ phase = "decode"
     /\ next <= Len(script)
     /\ code' = IF b = 0 THEN code ELSE code - bound
     /\ drange' = IF b = 0 THEN bound ELSE drange - bound
     /\ dmodel' = [dmodel EXCEPT ![c] = RangeAdapt(@, b, script[next].rate)]
     /\ decoded' = Append(decoded, b)
     /\ phase' = IF drange' < Bottom THEN "refill" ELSE "decode"
     /\ UNCHANGED <<script, model, coder, flushed, pos, history>>

\* decode_bit up to its renormalisation loop.
RangeDecodeBit ==
  LET next == Len(decoded) + 1
      c == script[next].ctx
      bound == Bound(drange, dmodel[c])
      b == IF code < bound THEN 0 ELSE 1
  IN /\ phase = "decode"
     /\ next <= Len(script)
     /\ code' = IF b = 0 THEN code ELSE code - bound
     /\ drange' = IF b = 0 THEN bound ELSE drange - bound
     /\ dmodel' = [dmodel EXCEPT ![c] = RangeAdapt(@, b, script[next].rate)]
     /\ decoded' = Append(decoded, b)
     /\ phase' = IF drange' < Bottom THEN "refill" ELSE "decode"
     /\ UNCHANGED <<script, model, coder, flushed, pos, history>>

\* One turn of the loop.
RangeRefill == /\ phase = "refill"
               /\ code' = (code * ByteBase + ByteAt(pos)) % Top
               /\ drange' = drange * ByteBase
               /\ pos' = pos + 1
               /\ phase' = IF drange' < Bottom THEN "refill" ELSE "decode"
               /\ UNCHANGED <<script, model, coder, flushed, dmodel, decoded, history>>

RangeNext == \/ \E c \in Contexts, r \in Rates, b \in Bits : EncodeBit(c, r, b)
             \/ Renormalise \/ RangeFlush \/ RangeOpen \/ RangeDecodeBit \/ RangeRefill

RangeSpec == RangeInit /\ [][RangeNext]_rangeVars

--------------------------------------------------------------------------------
\* Probabilities stay strictly between 0 and P: neither bit ever gets an empty
\* part of the range, which would make the renormalisation loop endless.
RangeTypeOK == /\ phase \in {"encode", "renorm", "flush", "open", "decode", "refill"}
               /\ script \in Seq([ctx : Contexts, rate : Rates, bit : Bits])
               /\ model \in [Contexts -> RangeProbs]
               /\ dmodel \in [Contexts -> RangeProbs]
               /\ low \in Nat /\ code \in Nat
               /\ range \in 1 .. (Top - 1)
               /\ drange \in 1 .. (Top - 1)
               /\ cache \in Bytes
               /\ cacheSize \in Nat \ {0}
               /\ flushed \in 0 .. 5
               /\ out \in Seq(Bytes)
               /\ pos \in Nat
               /\ decoded \in Seq(Bits)

\* A carry is absorbed by the digit that waits for it: it never reaches a digit that
\* is already in out_, and cache_ + carry does not wrap.
CarryAbsorbed == /\ low + range <= 2 * Top
                 /\ low >= Top => cache < ByteBase - 1
                 /\ low + range > Top => cache < ByteBase - 1

\* The decoder's range, before every bit, is the encoder's before the same bit, and
\* so is its model.
RangesAgree ==
  phase = "decode" =>
    /\ drange = trace[Len(decoded) + 1].range
    /\ dmodel = trace[Len(decoded) + 1].model

\* The decoder returns the encoded bits in the encoded order.
DecodesEncodedBits == \A k \in 1 .. Len(decoded) : decoded[k] = script[k].bit

\* The section is consumed exactly: decode_band_arith rejects one with bytes left or
\* missing.
RangeExactConsumption ==
  phase = "decode" => /\ pos <= Len(out)
                      /\ Len(decoded) = Len(script) => pos = Len(out)
================================================================================
