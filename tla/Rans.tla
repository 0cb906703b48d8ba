---------------------------------- MODULE Rans ----------------------------------
(***************************************************************************)
(* The binary rANS coder of stream versions 6 and 7: RansRecord adapts the *)
(* model and records (probability, bit) forward, RansEncoder codes the     *)
(* records in reverse, RansDecoder reads the bytes forward and adapts its  *)
(* own copy of the model.  A 16-bit chunk is two digits in base ByteBase;  *)
(* the window of the state is [L, L * B).                                  *)
(***************************************************************************)
EXTENDS BitCoder

CONSTANTS M,               \* the scale of a probability, 4096
          RansInitProbs    \* the initial probabilities: 2048, and those of text_init

B == ByteBase * ByteBase   \* a chunk is below B
L == ByteBase * ByteBase   \* 1u << 16

ASSUME RansAssumption ==
  /\ M \in Nat \ {0, 1}
  /\ L % M = 0
  /\ M <= B
  /\ RansInitProbs \subseteq 1 .. (M - 1)

Probs == 1 .. (M - 1)

\* The phases are "record", "emit", "open", "decode" and "refill", and trace[k] is the
\* encoder with k records still to code.
VARIABLES minimal,  \* the argument of flush: write as few state bytes as needed
          rec,      \* RansRecord::rec_
          todo,     \* records that are still to be coded
          x,        \* RansEncoder::x_
          chunks,   \* RansEncoder::chunks_
          dx,       \* RansDecoder::x_
          models    \* history: the encoder's model before each bit and at the end

encVars == <<script, minimal, model, rec, todo, x, chunks, out, models, trace>>
decVars == <<dmodel, dx, pos, decoded>>
vars == <<phase, encVars, decVars>>

--------------------------------------------------------------------------------
(* The arithmetic of one bit *)

Freq(p, b) == IF b = 1 THEN p ELSE M - p
Start(p, b) == IF b = 1 THEN M - p ELSE 0

\* Mutant: the step is rounded up and not capped.
AdaptUp(p, b, r) == IF b = 1 THEN p + (M - p + r - 1) \div r
                             ELSE p - (p + r - 1) \div r

Adapt(p, b, r) ==
  IF b = 1 THEN LET q == p + (M - p) \div r IN IF q > M - 1 THEN M - 1 ELSE q
           ELSE LET q == p - p \div r IN IF q > 0 THEN q ELSE 1

\* f << 20: a state from here on would leave the window.
\* Mutant: the bound ignores f.
LimitFixed(f) == (M - 1) * (L \div M) * B

Limit(f) == f * (L \div M) * B

\* Mutant: the start of the interval is added for the other bit.
PutSwapped(s, p, b) == (s \div Freq(p, b)) * M + (s % Freq(p, b)) + Start(p, 1 - b)

Put(s, p, b) == (s \div Freq(p, b)) * M + (s % Freq(p, b)) + Start(p, b)

BitOf(s, p) == IF s % M >= M - p THEN 1 ELSE 0
Take(s, p, b) == Freq(p, b) * (s \div M) + (s % M) - Start(p, b)

\* Mutant: a state of exactly three bytes is taken for one of two.
StateBytesShort(s) == IF s < ByteBase THEN 1
                      ELSE IF s <= L THEN 2
                      ELSE IF s < ByteBase * L THEN 3 ELSE 4

StateBytes(s) == IF s < ByteBase THEN 1
                 ELSE IF s < L THEN 2
                 ELSE IF s < ByteBase * L THEN 3 ELSE 4

\* The last n of the four big-endian bytes of the state.
StateDigits(s, n) ==
  SubSeq(<<s \div (ByteBase * L), (s \div L) % ByteBase,
           (s \div ByteBase) % ByteBase, s % ByteBase>>, 5 - n, 4)

\* The chunks from the last to the first, each low byte first.
\* Mutant: in the order they were pushed.
ChunkBytesForward(cs) ==
  [j \in 1 .. 2 * Len(cs) |->
     LET c == cs[1 + (j - 1) \div 2]
     IN  IF j % 2 = 1 THEN c % ByteBase ELSE c \div ByteBase]

ChunkBytes(cs) ==
  [j \in 1 .. 2 * Len(cs) |->
     LET c == cs[Len(cs) - (j - 1) \div 2]
     IN  IF j % 2 = 1 THEN c % ByteBase ELSE c \div ByteBase]

--------------------------------------------------------------------------------
(* The encoder *)

\* The contexts need not start alike: mode 18 sets the first 32 from a byte of its header,
\* which the decoder reads and applies in the same way.
Init == /\ phase = "record"
        /\ script = <<>>
        /\ minimal \in BOOLEAN
        /\ model \in [Contexts -> RansInitProbs]
        /\ rec = <<>>
        /\ todo = 0
        /\ x = L
        /\ chunks = <<>>
        /\ out = <<>>
        /\ dmodel = model
        /\ dx = 0
        /\ pos = 0
        /\ decoded = <<>>
        /\ models = <<model>>
        /\ trace = <<>>

\* RansRecord::encode_bit
Record(c, r, b) ==
  /\ phase = "record"
  /\ Len(rec) < MaxSymbols
  /\ rec' = Append(rec, [prob |-> model[c], bit |-> b])
  /\ script' = Append(script, [ctx |-> c, rate |-> r])
  /\ model' = [model EXCEPT ![c] = Adapt(@, b, r)]
  /\ models' = Append(models, model')
  /\ UNCHANGED <<phase, minimal, todo, x, chunks, out, trace, decVars>>

\* RansRecord::flush starts: the records are coded from the last to the first.
StartFlush == /\ phase = "record"
              /\ phase' = "emit"
              /\ todo' = Len(rec)
              /\ trace' = [k \in 0 .. Len(rec) |-> [state |-> L, pushed |-> 0]]
              /\ UNCHANGED <<script, minimal, model, rec, x, chunks, out, models, decVars>>

\* One turn of the renormalisation loop of encode_bit_impl.
PushChunk == /\ phase = "emit"
             /\ todo > 0
             /\ x >= Limit(Freq(rec[todo].prob, rec[todo].bit))
             /\ chunks' = Append(chunks, x % B)
             /\ x' = x \div B
             /\ UNCHANGED <<phase, script, minimal, model, rec, todo, out, models, trace, decVars>>

\* The rest of encode_bit_impl.
PutBit == /\ phase = "emit"
          /\ todo > 0
          /\ x < Limit(Freq(rec[todo].prob, rec[todo].bit))
          /\ x' = Put(x, rec[todo].prob, rec[todo].bit)
          /\ todo' = todo - 1
          /\ trace' = [trace EXCEPT ![todo - 1] = [state |-> x', pushed |-> Len(chunks)]]
          /\ UNCHANGED <<phase, script, minimal, model, rec, chunks, out, models, decVars>>

StateSize == IF minimal THEN StateBytes(x) ELSE 4

\* RansEncoder::flush: the state, then the chunks from the last to the first.
Flush == /\ phase = "emit"
         /\ todo = 0
         /\ out' = StateDigits(x, StateSize) \o ChunkBytes(chunks)
         /\ phase' = "open"
         /\ UNCHANGED <<script, minimal, model, rec, todo, x, chunks, models, trace, decVars>>

--------------------------------------------------------------------------------
(* The decoder; in a minimal section the size of the state is part of the k0 byte *)

\* One turn of the constructor's loop.
Open == /\ phase = "open"
        /\ dx' = dx * ByteBase + ByteAt(pos)
        /\ pos' = pos + 1
        /\ phase' = IF pos' = StateSize THEN "decode" ELSE "open"
        /\ UNCHANGED <<encVars, dmodel, decoded>>

\* decode_bit up to its renormalisation loop, with the adaptation that follows it.
DecodeBit ==
  LET next == Len(decoded) + 1
      c == script[next].ctx
      b == BitOf(dx, dmodel[c])
  IN /\ phase = "decode"
     /\ next <= Len(script)
     /\ dx' = Take(dx, dmodel[c], b)
     /\ phase' = IF dx' < L THEN "refill" ELSE "decode"
     /\ dmodel' = [dmodel EXCEPT ![c] = Adapt(@, b, script[next].rate)]
     /\ decoded' = Append(decoded, b)
     /\ UNCHANGED <<encVars, pos>>

\* One turn of the loop: a chunk is read, low byte first.
Refill == /\ phase = "refill"
          /\ dx' = dx * B + ByteAt(pos) + ByteBase * ByteAt(pos + 1)
          /\ pos' = pos + 2
          /\ phase' = IF dx' < L THEN "refill" ELSE "decode"
          /\ UNCHANGED <<encVars, dmodel, decoded>>

Next == \/ \E c \in Contexts, r \in Rates, b \in Bits : Record(c, r, b)
        \/ StartFlush \/ PushChunk \/ PutBit \/ Flush
        \/ Open \/ DecodeBit \/ Refill

Spec == Init /\ [][Next]_vars

--------------------------------------------------------------------------------
\* Probabilities stay strictly between 0 and M: a zero frequency would make the
\* renormalisation loop endless.  Every byte and chunk is one.
TypeOK == /\ phase \in {"record", "emit", "open", "decode", "refill"}
          /\ script \in Seq([ctx : Contexts, rate : Rates])
          /\ minimal \in BOOLEAN
          /\ model \in [Contexts -> Probs]
          /\ rec \in Seq([prob : Probs, bit : Bits])
          /\ Len(script) = Len(rec)
          /\ todo \in 0 .. Len(rec)
          /\ x \in Nat
          /\ chunks \in Seq(0 .. (B - 1))
          /\ out \in Seq(Bytes)
          /\ dmodel \in [Contexts -> Probs]
          /\ dx \in Nat
          /\ pos \in Nat
          /\ decoded \in Seq(Bits)
          /\ Len(decoded) <= Len(rec)
          /\ models \in Seq([Contexts -> Probs])
          /\ Len(models) = Len(rec) + 1

\* x_ is a std::uint32_t: no state of the encoder is ever wider, and the state it
\* leaves is in the window that makes every bit decodable.
EncoderInWindow == /\ x < L * B
                   /\ todo = 0 => x >= L

\* Between two bits the decoder is where the encoder was between the same two
\* bits: it has its state and its model, and has read the chunks the encoder pushed later.
DecoderRetraces ==
  phase = "decode" =>
    LET then == trace[Len(decoded)]
    IN  /\ dx = then.state
        /\ pos = StateSize + 2 * (Len(chunks) - then.pushed)
        /\ dmodel = models[Len(decoded) + 1]

\* The decoder returns the recorded bits in the recorded order.
DecodesRecordedBits ==
  \A k \in 1 .. Len(decoded) : decoded[k] = rec[k].bit

\* A section is consumed exactly: decode_band_arith rejects one with bytes left
\* or missing.
ExactConsumption ==
  /\ phase \in {"open", "decode"} => pos <= Len(out)
  /\ phase = "decode" /\ Len(decoded) = Len(rec) => pos = Len(out) /\ dx = L
================================================================================
