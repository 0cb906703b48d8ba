----------------------------- MODULE BitCoderProofs -----------------------------
(***************************************************************************)
(* Theorems about the two binary coders, for every byte base, scale, model *)
(* and sequence of bits.                                                   *)
(*                                                                         *)
(* rANS: one bit is undone by decode_bit (TakeUndoesPut), the state stays  *)
(* in its window (EncoderWindow), and the decoder runs through the         *)
(* encoder's states in the other direction (RoundTrip), so that it returns *)
(* the recorded bits and uses up the section exactly.                      *)
(*                                                                         *)
(* Range coder: a carry is absorbed by the digit that waits for it, so     *)
(* that the section stands for the low end of the encoder's last range;    *)
(* that number lies in every range the encoder went through                *)
(* (AllEnclosed), and the decoder follows them (RangeInvariance).          *)
(***************************************************************************)
EXTENDS Rans, RangeCoder, SequenceTheorems, WellFoundedInduction, TLAPS

(* Division of natural numbers, in the form the provers use it. *)
LEMMA DivMod ==
  ASSUME NEW n \in Nat, NEW d \in Nat, d > 0
  PROVE  /\ n \div d \in Nat
         /\ n % d \in 0 .. (d - 1)
         /\ n = d * (n \div d) + (n % d)
BY SMT

LEMMA DivModUnique ==
  ASSUME NEW q \in Nat, NEW d \in Nat, NEW r \in 0 .. (d - 1)
  PROVE  /\ (q * d + r) \div d = q
         /\ (q * d + r) % d = r
BY SMT

LEMMA MulMono ==
  ASSUME NEW a \in Nat, NEW b \in Nat, NEW c \in Nat, a <= b
  PROVE  a * c <= b * c
BY SMT

LEMMA MulAssoc ==
  ASSUME NEW a \in Nat, NEW b \in Nat, NEW c \in Nat
  PROVE  (a * b) * c = a * (b * c) /\ (a * b) * c = (a * c) * b
BY SMT

LEMMA MulNat ==
  ASSUME NEW a \in Nat, NEW b \in Nat
  PROVE  a * b \in Nat /\ a * b = b * a /\ (a > 0 /\ b > 0 => a * b > 0)
BY SMT

LEMMA MulAdd ==
  ASSUME NEW a \in Nat, NEW b \in Nat, NEW c \in Nat
  PROVE  (a + b) * c = a * c + b * c
BY SMT

LEMMA MulCancel ==
  ASSUME NEW a \in Nat, NEW b \in Nat, NEW c \in Nat, c > 0, a * c = b * c
  PROVE  a = b
<1>1. CASE a < b
  <2>1. (a + 1) * c <= b * c
    BY <1>1, MulMono
  <2>2. (a + 1) * c = a * c + c /\ a * c \in Nat
    BY MulAdd, MulNat
  <2>3. PICK h : h = a * c
    OBVIOUS
  <2>4. h + c <= h /\ h \in Nat
    BY <2>1, <2>2, <2>3
  <2> QED
    BY <2>4
<1>2. CASE b < a
  <2>1. (b + 1) * c <= a * c
    BY <1>2, MulMono
  <2>2. (b + 1) * c = b * c + c /\ b * c \in Nat
    BY MulAdd, MulNat
  <2>3. PICK h : h = b * c
    OBVIOUS
  <2>4. h + c <= h /\ h \in Nat
    BY <2>1, <2>2, <2>3
  <2> QED
    BY <2>4
<1> QED
  BY <1>1, <1>2

LEMMA ModScaled ==
  ASSUME NEW k \in Nat, NEW u \in Nat, NEW v \in Nat, u > 0, v > 0
  PROVE  /\ (k * u) % (v * u) = (k % v) * u
         /\ k % v \in Nat
<1>1. PICK q, r : q = k \div v /\ r = k % v
  OBVIOUS
<1>2. q \in Nat /\ r \in 0 .. (v - 1) /\ k = v * q + r
  BY <1>1, DivMod
<1>3. PICK d, m : d = v * u /\ m = r * u
  OBVIOUS
<1>4. d \in Nat /\ m \in Nat /\ r \in Nat
  BY <1>2, <1>3, MulNat
<1>5. m < d
  <2>1. m <= (v - 1) * u
    BY <1>2, <1>3, <1>4, MulMono
  <2>2. (v - 1) * u = v * u - u
    OBVIOUS
  <2> QED
    BY <1>3, <1>4, <2>1, <2>2
<1>6. k * u = q * d + m
  <2>1. (v * q + r) * u = (v * q) * u + r * u
    BY <1>2, <1>4, MulNat, MulAdd
  <2>2. (v * q) * u = q * (v * u)
    BY <1>2, MulNat, MulAssoc
  <2> QED
    BY <1>2, <1>3, <2>1, <2>2
<1>7. (q * d + m) % d = m
  BY <1>2, <1>4, <1>5, DivModUnique
<1> QED
  BY <1>1, <1>3, <1>4, <1>6, <1>7

--------------------------------------------------------------------------------
(* The window: R is the number of slots of the scale in the lower bound *)

R == L \div M

\* Bounds of the window for the symbols' frequencies.
LEMMA Window ==
  /\ M \in Nat /\ M >= 2
  /\ L \in Nat /\ B = L /\ B >= M
  /\ R \in Nat /\ R >= 1
  /\ L = R * M
<1> USE RansAssumption, BitCoderAssumption
<1>1. M \in Nat /\ M >= 2
  OBVIOUS
<1>2. L \in Nat /\ B = L /\ B >= M
  BY MulNat DEF L, B
<1>3. R \in Nat /\ L = M * R + (L % M)
  BY <1>1, <1>2, DivMod DEF R
<1>4. L = M * R
  BY <1>2, <1>3
<1>5. R # 0
  <2> SUFFICES ASSUME R = 0 PROVE FALSE
    OBVIOUS
  <2>1. M * R = 0
    BY <1>1
  <2> QED BY <1>1, <1>2, <1>4, <2>1
<1>6. M * R = R * M
  BY <1>1, <1>3, MulNat
<1> QED
  BY <1>1, <1>2, <1>3, <1>4, <1>5, <1>6

LEMMA FreqRange ==
  ASSUME NEW p \in Probs, NEW b \in Bits
  PROVE  /\ Freq(p, b) \in 1 .. (M - 1)
         /\ Start(p, b) \in 0 .. (M - 1)
         /\ Freq(p, b) + Start(p, b) <= M
BY Window DEF Probs, Bits, Freq, Start

\* An adapted probability is again strictly between 0 and M.
LEMMA AdaptRange ==
  ASSUME NEW p \in Probs, NEW b \in Bits, NEW r \in Rates
  PROVE  Adapt(p, b, r) \in Probs
<1>1. r \in Nat /\ r > 0
  BY RansAssumption, BitCoderAssumption
<1>2. p \in Nat /\ M - p \in Nat /\ M \in Nat /\ M >= 2 /\ p >= 1 /\ p <= M - 1
  BY Window DEF Probs
<1>3. (M - p) \div r \in Nat
  BY <1>1, <1>2, DivMod
<1>4. p \div r \in Nat
  BY <1>1, <1>2, DivMod
<1> QED
  BY <1>2, <1>3, <1>4 DEF Adapt, Probs

\* The bounds of the two branches of encode_bit_impl: the threshold of the loop is
\* neither below the window nor above it.
LEMMA LimitBounds ==
  ASSUME NEW f \in 1 .. (M - 1)
  PROVE  /\ f * R \in Nat /\ f * R < L
         /\ Limit(f) \in Nat /\ L <= Limit(f) /\ Limit(f) = (f * R) * B
         /\ Limit(f) = (R * B) * f /\ Limit(f) <= L * B
<1> USE Window
<1>1. f \in Nat /\ f >= 1 /\ f + 1 <= M
  OBVIOUS
<1>2. f * R \in Nat /\ f * R >= R
  BY <1>1, MulMono, MulNat
<1>3. (f + 1) * R <= M * R
  BY <1>1, MulMono
<1>4. (f + 1) * R = f * R + R
  BY <1>1
<1>5. f * R < L
  BY <1>2, <1>3, <1>4, MulNat
<1>6. Limit(f) = (f * R) * B
  BY DEF Limit, R
<1>7. R * M <= R * B
  BY MulMono, MulNat
<1>8. R * B <= (f * R) * B
  BY <1>2, MulMono
<1>9. (f * R) * B <= L * B
  BY <1>2, <1>5, MulMono
<1>10. (f * R) * B = (R * B) * f
  <2>1. (f * R) * B = f * (R * B)
    BY <1>1, MulAssoc
  <2>2. R * B \in Nat
    BY MulNat
  <2> QED BY <1>1, <2>1, <2>2, MulNat
<1>11. (f * R) * B \in Nat /\ R * B \in Nat
  BY <1>2, MulNat
<1> QED
  BY <1>2, <1>5, <1>6, <1>7, <1>8, <1>9, <1>10, <1>11

--------------------------------------------------------------------------------
(* One bit *)

\* After one turn of the loop the state is below the threshold, yet large enough
\* for the next bit to lift it into the window: the loop runs at most once.
THEOREM PushOnce ==
  ASSUME NEW f \in 1 .. (M - 1), NEW s \in Nat, s < L * B, s >= Limit(f)
  PROVE  /\ s \div B \in Nat
         /\ f * R <= s \div B
         /\ s \div B < L
         /\ s \div B < Limit(f)
<1> USE Window
<1> DEFINE q == s \div B
<1>0. B \in Nat /\ B > 0
  OBVIOUS
<1>1. q \in Nat /\ s % B \in 0 .. (B - 1) /\ s = B * q + (s % B)
  BY <1>0, DivMod
<1>2. q < L
  <2> SUFFICES ASSUME q >= L PROVE FALSE
    BY <1>1
  <2>1. L * B <= q * B
    BY <1>1, MulMono
  <2> HIDE DEF q
  <2> QED BY <1>1, <2>1, MulNat
<1>3. f * R <= q
  <2> SUFFICES ASSUME q + 1 <= f * R PROVE FALSE
    BY <1>1, LimitBounds
  <2>1. (q + 1) * B <= (f * R) * B
    BY <1>1, LimitBounds, MulMono
  <2> HIDE DEF q
  <2>2. (q + 1) * B = B * q + B
    BY <1>1
  <2> QED BY <1>1, <2>1, <2>2, LimitBounds
<1> QED
  BY <1>1, <1>2, <1>3, LimitBounds

\* Coding a bit lifts the state into the window, and decode_bit undoes it: it
\* returns the bit and the state the encoder had.
THEOREM TakeUndoesPut ==
  ASSUME NEW p \in Probs, NEW b \in Bits, NEW s \in Nat,
         Freq(p, b) * R <= s, s < Limit(Freq(p, b))
  PROVE  /\ Put(s, p, b) \in L .. (L * B - 1)
         /\ BitOf(Put(s, p, b), p) = b
         /\ Take(Put(s, p, b), p, b) = s
<1> USE Window
<1> DEFINE f == Freq(p, b)
           c == Start(p, b)
           q == s \div f
           r == s % f
           z == q * M + (r + c)
<1>1. f \in 1 .. (M - 1) /\ c \in 0 .. (M - 1) /\ f + c <= M
  BY FreqRange
<1>2. q \in Nat /\ r \in 0 .. (f - 1) /\ s = f * q + r
  BY <1>1, DivMod
<1>3. r + c \in 0 .. (M - 1)
  <2> HIDE DEF f, c, q, r, z
  <2>1. f \in Nat /\ c \in Nat /\ M \in Nat
    BY <1>1
  <2>2. r \in Nat /\ r < f
    BY <1>2, <2>1
  <2> QED BY <1>1, <2>1, <2>2
<1>4. Put(s, p, b) = z /\ z \in Nat
  <2>1. q * M \in Nat
    BY <1>2, MulNat
  <2>2. Put(s, p, b) = q * M + r + c
    BY DEF Put
  <2> HIDE DEF q, r, c
  <2> QED BY <1>1, <1>2, <2>1, <2>2
<1>5. z \div M = q /\ z % M = r + c
  <2> HIDE DEF q, r, c
  <2> QED BY <1>2, <1>3, DivModUnique
<1>6. R <= q
  <2> SUFFICES ASSUME q + 1 <= R PROVE FALSE
    BY <1>2
  <2> HIDE DEF q, r, f
  <2>1. (q + 1) * f <= R * f
    BY <1>1, <1>2, MulMono
  <2>2. (q + 1) * f = f * q + f
    BY <1>1, <1>2
  <2>3. R * f = f * R
    BY <1>1, MulNat
  <2>4. f * R <= s
    BY DEF f
  <2> QED BY <1>1, <1>2, <2>1, <2>2, <2>3, <2>4
<1>7. q < R * B
  <2> SUFFICES ASSUME R * B <= q PROVE FALSE
    BY <1>2, MulNat
  <2>1. s < Limit(f) /\ Limit(f) = (R * B) * f /\ R * B \in Nat
    BY <1>1, LimitBounds, MulNat
  <2> HIDE DEF q, r, f
  <2>2. (R * B) * f <= q * f
    BY <1>1, <1>2, <2>1, MulMono
  <2>3. q * f = f * q
    BY <1>1, <1>2, MulNat
  <2> QED BY <1>1, <1>2, <2>1, <2>2, <2>3
<1>8. L <= z
  <2>1. R * M <= q * M
    BY <1>2, <1>6, MulMono
  <2> HIDE DEF q, r, c
  <2> QED BY <1>2, <1>3, <2>1, MulNat
<1>9. z < L * B
  <2> HIDE DEF q, r, c
  <2>1. (q + 1) * M <= (R * B) * M
    BY <1>2, <1>7, MulMono, MulNat
  <2>2. (R * B) * M = L * B
    BY MulAssoc
  <2>3. (q + 1) * M = q * M + M /\ q * M \in Nat
    BY <1>2, MulNat
  <2> QED BY <1>3, <2>1, <2>2, <2>3
<1>10. BitOf(z, p) = b
  <2>1. b = 1 => r + c >= M - p
    BY <1>2 DEF Start, Probs
  <2>2. b = 0 => r + c < M - p
    BY <1>2 DEF Start, Freq, Probs
  <2>3. BitOf(z, p) = IF r + c >= M - p THEN 1 ELSE 0
    BY <1>5 DEF BitOf
  <2>4. r + c \in Nat /\ M - p \in Nat
    BY <1>3 DEF Probs
  <2> HIDE DEF z, r, c
  <2> QED BY <2>1, <2>2, <2>3, <2>4 DEF Bits
<1>11. Take(z, p, b) = s
  <2>1. Take(z, p, b) = f * q + (r + c) - c
    BY <1>5 DEF Take
  <2> HIDE DEF q, r, c, f
  <2>2. f * q \in Nat
    BY <1>1, <1>2, MulNat
  <2> QED BY <1>1, <1>2, <1>3, <2>1, <2>2
<1> HIDE DEF z
<1>12. L * B \in Nat
  BY MulNat
<1> QED
  BY <1>4, <1>8, <1>9, <1>10, <1>11, <1>12

--------------------------------------------------------------------------------
(* The encoder *)

\* While a record waits, the state is large enough for its bit: this is what one
\* turn of the renormalisation loop leaves, and what the window is for.
StateReady ==
  /\ phase = "record" => x = L /\ todo = 0
  /\ phase \in {"open", "decode", "refill"} => todo = 0
  /\ todo > 0 => Freq(rec[todo].prob, rec[todo].bit) * R <= x

IInv == TypeOK /\ EncoderInWindow /\ StateReady

\* The window is large enough for any bit.
LEMMA InWindowReady ==
  ASSUME NEW s \in Nat, s >= L, NEW p \in Probs, NEW b \in Bits
  PROVE  Freq(p, b) * R <= s
<1>1. Freq(p, b) * R < L /\ Freq(p, b) * R \in Nat
  BY FreqRange, LimitBounds
<1> QED
  BY <1>1, Window

LEMMA DigitsAreBytes ==
  ASSUME NEW s \in Nat, s < L * B, NEW n \in 1 .. 4
  PROVE  StateDigits(s, n) \in Seq(Bytes)
<1> DEFINE D == <<s \div (ByteBase * L), (s \div L) % ByteBase,
                  (s \div ByteBase) % ByteBase, s % ByteBase>>
<1>0. ByteBase \in Nat /\ ByteBase > 0 /\ L \in Nat /\ L > 0
  BY RansAssumption, BitCoderAssumption, Window
<1>1. s % ByteBase \in Bytes
  BY <1>0, DivMod DEF Bytes
<1>2. (s \div ByteBase) % ByteBase \in Bytes
  BY <1>0, DivMod DEF Bytes
<1>3. (s \div L) % ByteBase \in Bytes
  BY <1>0, DivMod DEF Bytes
<1>4. s \div (ByteBase * L) \in Bytes
  <2> DEFINE d == ByteBase * L
             q == s \div d
  <2>1. d \in Nat /\ d > 0 /\ L * B = ByteBase * d
    <3>1. L = ByteBase * ByteBase /\ B = L
      BY DEF L, B
    <3>2. L * B = ByteBase * (ByteBase * L)
      BY <1>0, <3>1, MulAssoc
    <3> QED BY <1>0, <3>2, MulNat
  <2> HIDE DEF d
  <2>2. q \in Nat /\ s % d \in 0 .. (d - 1) /\ s = d * q + (s % d)
    BY <2>1, DivMod
  <2> HIDE DEF q
  <2>3. q < ByteBase
    <3> SUFFICES ASSUME ByteBase <= q PROVE FALSE
      BY <1>0, <2>2
    <3>1. ByteBase * d <= q * d
      BY <1>0, <2>1, <2>2, MulMono
    <3>2. q * d = d * q /\ q * d \in Nat
      BY <2>1, <2>2, MulNat
    <3>3. d * q \in Nat /\ d * q <= s
      BY <2>1, <2>2, MulNat
    <3>4. L * B <= d * q
      BY <2>1, <3>1, <3>2
    <3>5. L * B \in Nat
      BY Window, MulNat
    <3> QED BY <3>3, <3>4, <3>5
  <2> QED BY <1>0, <2>2, <2>3 DEF Bytes, q, d
<1>5. D \in Seq(Bytes) /\ Len(D) = 4
  BY <1>1, <1>2, <1>3, <1>4
<1> HIDE DEF D
<1>6. SubSeq(D, 5 - n, 4) \in Seq(Bytes)
  <2>1. \A i \in 1 .. 4 : D[i] \in Bytes
    BY <1>5, ElementOfSeq
  <2>2. 5 - n \in 1 .. 4
    OBVIOUS
  <2>3. \A i \in 5 - n .. 4 : D[i] \in Bytes
    BY <2>1, <2>2
  <2> QED BY <2>2, <2>3, SubSeqProperties
<1> QED
  BY <1>6 DEF StateDigits, D

LEMMA ChunkBytesAreBytes ==
  ASSUME NEW cs \in Seq(0 .. (B - 1))
  PROVE  ChunkBytes(cs) \in Seq(Bytes) /\ Len(ChunkBytes(cs)) = 2 * Len(cs)
<1>0. ByteBase \in Nat /\ ByteBase > 0 /\ B \in Nat
  BY RansAssumption, BitCoderAssumption, Window
<1>1. ASSUME NEW j \in 1 .. 2 * Len(cs)
      PROVE  cs[Len(cs) - (j - 1) \div 2] \in 0 .. (B - 1)
  BY <1>0
<1>2. ASSUME NEW c \in 0 .. (B - 1) PROVE c % ByteBase \in Bytes /\ c \div ByteBase \in Bytes
  <2>1. c \in Nat /\ c < ByteBase * ByteBase
    BY <1>0 DEF B
  <2> DEFINE q == c \div ByteBase
  <2>2. q \in Nat /\ c % ByteBase \in 0 .. (ByteBase - 1) /\ c = ByteBase * q + (c % ByteBase)
    BY <1>0, <2>1, DivMod
  <2> HIDE DEF q
  <2>3. q < ByteBase
    <3> SUFFICES ASSUME ByteBase <= q PROVE FALSE
      BY <1>0, <2>2
    <3>1. ByteBase * ByteBase <= q * ByteBase
      BY <1>0, <2>2, MulMono
    <3>2. q * ByteBase = ByteBase * q
      BY <1>0, <2>2, MulNat
    <3> QED BY <1>0, <2>1, <2>2, <3>1, <3>2
  <2> QED BY <1>0, <2>2, <2>3 DEF Bytes, q
<1>3. \A j \in 1 .. 2 * Len(cs) : ChunkBytes(cs)[j] \in Bytes
  BY <1>1, <1>2 DEF ChunkBytes
<1>4. 2 * Len(cs) \in Nat
  OBVIOUS
<1> QED
  BY <1>3, <1>4 DEF ChunkBytes

LEMMA RecordTyped ==
  ASSUME TypeOK, NEW k \in 1 .. Len(rec)
  PROVE  /\ rec[k].prob \in Probs /\ rec[k].bit \in Bits
         /\ script[k].ctx \in Contexts /\ script[k].rate \in Rates
<1>1. rec[k] \in [prob : Probs, bit : Bits]
  BY ElementOfSeq DEF TypeOK
<1>2. script[k] \in [ctx : Contexts, rate : Rates]
  BY ElementOfSeq DEF TypeOK
<1> QED
  BY <1>1, <1>2

LEMMA ByteAtNat ==
  ASSUME TypeOK, NEW i \in Nat
  PROVE  ByteAt(i) \in Nat
<1>1. ASSUME i < Len(out) PROVE out[i + 1] \in Bytes
  BY <1>1, ElementOfSeq DEF TypeOK
<1> QED
  BY <1>1, RansAssumption, BitCoderAssumption DEF ByteAt, Bytes

LEMMA InitIInv == Init => IInv
<1> SUFFICES ASSUME Init PROVE IInv
  OBVIOUS
<1>1. TypeOK
  <2>1. model \in [Contexts -> Probs] /\ dmodel = model
    BY RansAssumption DEF Init, Probs
  <2>2. models \in Seq([Contexts -> Probs]) /\ Len(models) = 1
    BY <2>1 DEF Init
  <2> QED BY <2>1, <2>2, Window, RansAssumption, BitCoderAssumption DEF Init, TypeOK
<1>2. EncoderInWindow /\ StateReady
  <2>1. L < L * B
    <3>1. 2 * L <= B * L
      BY Window, MulMono
    <3> QED BY <3>1, Window, MulNat
  <2> QED BY <2>1, Window DEF Init, EncoderInWindow, StateReady
<1> QED BY <1>1, <1>2 DEF IInv

LEMMA StepIInv == IInv /\ [Next]_vars => IInv'
<1> SUFFICES ASSUME IInv, [Next]_vars PROVE IInv'
  OBVIOUS
<1> USE DEF IInv, TypeOK, encVars, decVars
<1>0. L \in Nat /\ B \in Nat /\ ByteBase \in Nat /\ L * B \in Nat /\ MaxSymbols \in Nat
  BY Window, MulNat, RansAssumption, BitCoderAssumption
<1>1. ASSUME NEW c \in Contexts, NEW r \in Rates, NEW b \in Bits, Record(c, r, b)
      PROVE  IInv'
  <2>1. model[c] \in Probs /\ Adapt(model[c], b, r) \in Probs
    BY AdaptRange
  <2>2. TypeOK'
    BY <1>0, <1>1, <2>1 DEF Record
  <2>3. EncoderInWindow' /\ StateReady'
    BY <1>0, <1>1 DEF Record, EncoderInWindow, StateReady
  <2> QED BY <2>2, <2>3
<1>2. CASE StartFlush
  <2>1. TypeOK'
    BY <1>2 DEF StartFlush
  <2>2. EncoderInWindow'
    BY <1>0, <1>2 DEF StartFlush, EncoderInWindow, StateReady
  <2>3. StateReady'
    <3>1. CASE Len(rec) > 0
      <4>1. rec[Len(rec)].prob \in Probs /\ rec[Len(rec)].bit \in Bits
        BY <3>1, RecordTyped
      <4>2. Freq(rec[Len(rec)].prob, rec[Len(rec)].bit) * R <= x
        BY <1>0, <1>2, <4>1, InWindowReady DEF StartFlush, StateReady
      <4> QED BY <1>2, <4>2 DEF StartFlush, StateReady
    <3>2. CASE Len(rec) = 0
      BY <1>2, <3>2 DEF StartFlush, StateReady
    <3> QED BY <3>1, <3>2
  <2> QED BY <2>1, <2>2, <2>3
<1>3. CASE PushChunk
  <2> DEFINE f == Freq(rec[todo].prob, rec[todo].bit)
  <2>1. f \in 1 .. (M - 1)
    <3>1. todo \in 1 .. Len(rec)
      BY <1>3 DEF PushChunk
    <3>2. rec[todo].prob \in Probs /\ rec[todo].bit \in Bits
      BY <3>1, RecordTyped
    <3> HIDE DEF IInv, TypeOK
    <3> QED BY <3>2, FreqRange
  <2>2. x < L * B /\ x >= Limit(f)
    BY <1>3 DEF PushChunk, EncoderInWindow
  <2> HIDE DEF f
  <2>3. x \div B \in Nat /\ f * R <= x \div B /\ x \div B < L
    BY <2>1, <2>2, PushOnce
  <2>4. x % B \in 0 .. (B - 1)
    <3>1. x \in Nat /\ B > 0
      BY Window
    <3> QED BY <1>0, <3>1, DivMod
  <2>5. TypeOK'
    BY <1>3, <2>3, <2>4 DEF PushChunk
  <2>6. x' < L * B
    <3>1. L <= L * B
      <4>1. 1 * L <= B * L
        BY Window, MulMono, SMTT(30)
      <4>2. 1 * L = L /\ B * L = L * B
        BY Window, MulNat
      <4> QED BY <4>1, <4>2
    <3>2. x' = x \div B
      BY <1>3 DEF PushChunk
    <3> HIDE DEF IInv, TypeOK
    <3> QED BY <1>0, <2>3, <3>1, <3>2
  <2>7. EncoderInWindow' /\ StateReady'
    BY <1>3, <2>3, <2>6 DEF PushChunk, EncoderInWindow, StateReady, f
  <2> QED BY <2>5, <2>7
<1>4. CASE PutBit
  <2> DEFINE p == rec[todo].prob
             b == rec[todo].bit
  <2>1. p \in Probs /\ b \in Bits
    BY <1>4, RecordTyped DEF PutBit
  <2>2. Freq(p, b) * R <= x /\ x < Limit(Freq(p, b))
    BY <1>4 DEF PutBit, StateReady
  <2>3. x' = Put(x, p, b)
    BY <1>4 DEF PutBit
  <2> HIDE DEF p, b
  <2>4. x' \in L .. (L * B - 1)
    BY <2>1, <2>2, <2>3, TakeUndoesPut
  <2>5. TypeOK'
    BY <1>0, <1>4, <2>4 DEF PutBit
  <2>6. EncoderInWindow'
    BY <1>0, <2>4 DEF EncoderInWindow
  <2>7. StateReady'
    <3>1. CASE todo' > 0
      <4>1. rec'[todo'].prob \in Probs /\ rec'[todo'].bit \in Bits
        <5>1. rec' = rec /\ todo' \in 1 .. Len(rec)
          BY <1>4, <3>1 DEF PutBit
        <5> QED BY <5>1, RecordTyped
      <4>2. Freq(rec'[todo'].prob, rec'[todo'].bit) * R <= x'
        BY <1>0, <2>4, <4>1, InWindowReady
      <4> QED BY <1>4, <4>2 DEF PutBit, StateReady
    <3>2. CASE todo' = 0
      BY <1>4, <3>2 DEF PutBit, StateReady
    <3> QED BY <2>5, <3>1, <3>2
  <2> QED BY <2>5, <2>6, <2>7
<1>5. CASE Flush
  <2>1. StateSize \in 1 .. 4
    BY DEF StateSize, StateBytes
  <2>2. StateDigits(x, StateSize) \in Seq(Bytes)
    BY <2>1, DigitsAreBytes DEF EncoderInWindow
  <2>3. ChunkBytes(chunks) \in Seq(Bytes)
    BY ChunkBytesAreBytes
  <2>4. TypeOK'
    BY <1>5, <2>2, <2>3 DEF Flush
  <2>5. EncoderInWindow' /\ StateReady'
    BY <1>5 DEF Flush, EncoderInWindow, StateReady
  <2> QED BY <2>4, <2>5
<1>6. ASSUME UNCHANGED encVars,
             /\ phase \in {"open", "decode", "refill"}
             /\ phase' \in {"open", "decode", "refill"}
             /\ dmodel' \in [Contexts -> Probs]
             /\ dx' \in Nat /\ pos' \in Nat
             /\ decoded' \in Seq(Bits) /\ Len(decoded') <= Len(rec)
      PROVE  IInv'
  <2>1. TypeOK'
    BY <1>6
  <2> QED BY <1>6, <2>1 DEF EncoderInWindow, StateReady
<1> USE DEF IInv
<1>7. CASE Open
  <2>1. dx \in Nat /\ pos \in Nat /\ ByteAt(pos) \in Nat
    BY ByteAtNat
  <2>2. dx * ByteBase \in Nat
    BY <1>0, <2>1, MulNat
  <2>3. dx' \in Nat /\ pos' \in Nat
    BY <1>0, <1>7, <2>1, <2>2 DEF Open
  <2> QED BY <1>6, <1>7, <2>3 DEF Open
<1>8. CASE DecodeBit
  <2> DEFINE c == script[Len(decoded) + 1].ctx
             r == script[Len(decoded) + 1].rate
             p == dmodel[c]
             b == BitOf(dx, p)
  <2>1. c \in Contexts /\ r \in Rates /\ Len(decoded) + 1 <= Len(rec)
    <3>1. Len(decoded) + 1 \in 1 .. Len(rec)
      BY <1>8 DEF DecodeBit
    <3> QED BY <3>1, RecordTyped
  <2>2. p \in Probs /\ b \in Bits
    BY <2>1 DEF BitOf, Bits
  <2>3. Adapt(p, b, r) \in Probs
    BY <2>1, <2>2, AdaptRange
  <2>4. Take(dx, p, b) \in Nat
    <3>1. b = BitOf(dx, p) /\ Freq(p, b) \in 1 .. (M - 1)
      BY <2>2, FreqRange
    <3>2. dx \in Nat /\ M \in Nat /\ M > 0
      BY Window
    <3> HIDE DEF TypeOK, IInv, p, b
    <3>3. dx \div M \in Nat /\ dx % M \in 0 .. (M - 1)
      BY <3>2, DivMod
    <3>4. Freq(p, b) * (dx \div M) \in Nat
      BY <3>1, <3>2, <3>3, MulNat
    <3>5. Start(p, b) \in Nat /\ (dx % M) - Start(p, b) \in Nat
      BY <2>2, <3>1, <3>2, <3>3 DEF Start, BitOf, Probs
    <3>6. Take(dx, p, b) = Freq(p, b) * (dx \div M) + (dx % M) - Start(p, b)
      BY DEF Take
    <3> HIDE DEF Take
    <3> QED BY <3>3, <3>4, <3>5, <3>6
  <2>5. /\ UNCHANGED <<encVars, pos>>
        /\ phase = "decode" /\ phase' \in {"refill", "decode"}
        /\ dx' = Take(dx, p, b)
        /\ dmodel' = [dmodel EXCEPT ![c] = Adapt(p, b, r)]
        /\ decoded' = Append(decoded, b)
    BY <1>8 DEF DecodeBit
  <2> HIDE DEF c, r, b
  <2>6. dmodel' \in [Contexts -> Probs]
    BY <2>1, <2>3, <2>5
  <2>7. decoded' \in Seq(Bits) /\ Len(decoded') <= Len(rec)
    BY <2>1, <2>2, <2>5
  <2> QED BY <1>6, <2>4, <2>5, <2>6, <2>7
<1>9. CASE Refill
  <2>1. dx \in Nat /\ pos \in Nat /\ pos + 1 \in Nat
    OBVIOUS
  <2>2. ByteAt(pos) \in Nat /\ ByteAt(pos + 1) \in Nat
    BY <2>1, ByteAtNat
  <2>3. dx * B \in Nat /\ ByteBase * ByteAt(pos + 1) \in Nat
    BY <1>0, <2>1, <2>2, MulNat
  <2>4. dx' \in Nat /\ pos' \in Nat
    <3>1. PICK h, m, n : h = dx * B /\ m = ByteAt(pos) /\ n = ByteBase * ByteAt(pos + 1)
      OBVIOUS
    <3>2. dx' = h + m + n /\ pos' = pos + 2
      BY <1>9, <3>1 DEF Refill
    <3>3. h \in Nat /\ m \in Nat /\ n \in Nat
      BY <2>2, <2>3, <3>1
    <3> HIDE DEF IInv
    <3> QED BY <2>1, <3>2, <3>3
  <2>5. /\ UNCHANGED encVars /\ dmodel' = dmodel /\ decoded' = decoded
        /\ phase = "refill" /\ phase' \in {"refill", "decode"}
    BY <1>9 DEF Refill
  <2>6. /\ dmodel' \in [Contexts -> Probs] /\ decoded' \in Seq(Bits) /\ Len(decoded') <= Len(rec)
    BY <2>5
  <2> QED BY <1>6, <2>4, <2>5, <2>6
<1>10. CASE UNCHANGED vars
  BY <1>10 DEF vars, EncoderInWindow, StateReady
<1> QED
  BY <1>1, <1>2, <1>3, <1>4, <1>5, <1>7, <1>8, <1>9, <1>10 DEF Next

\* The encoder's inductive invariant holds in every state.
THEOREM Invariance == Spec => []IInv
BY InitIInv, StepIInv, PTL DEF Spec

\* The types of the coder's variables; in particular every probability of either
\* model stays strictly between 0 and M.
THEOREM TypeCorrect == Spec => []TypeOK
<1>1. IInv => TypeOK BY DEF IInv
<1> QED BY <1>1, Invariance, PTL

\* x_ never needs more bits than a std::uint32_t has, and is in the window when
\* flush writes it.
THEOREM EncoderWindow == Spec => []EncoderInWindow
<1>1. IInv => EncoderInWindow BY DEF IInv
<1> QED BY <1>1, Invariance, PTL

--------------------------------------------------------------------------------
(* The round trip.  trace keeps the points between two records that the encoder   *)
(* ran through; the decoder runs through them in the other direction.             *)

Points == [state : L .. (L * B - 1), pushed : Nat]
Decoding == phase \in {"open", "decode", "refill"}

\* Coding record k took the encoder from point k to point k - 1.
Coded(k) ==
  LET s == trace[k].state
      n == trace[k].pushed
      p == rec[k].prob
      b == rec[k].bit
  IN  IF s < Limit(Freq(p, b))
        THEN trace[k - 1] = [state |-> Put(s, p, b), pushed |-> n]
        ELSE /\ trace[k - 1] = [state |-> Put(s \div B, p, b), pushed |-> n + 1]
             /\ n + 1 <= Len(chunks)
             /\ chunks[n + 1] = s % B

\* The encoder is at a point, or has pushed the chunk of the next record.
AtPoint == x = trace[todo].state /\ Len(chunks) = trace[todo].pushed

HasPushed == /\ phase = "emit" /\ todo > 0
             /\ trace[todo].state >= Limit(Freq(rec[todo].prob, rec[todo].bit))
             /\ x = trace[todo].state \div B
             /\ Len(chunks) = trace[todo].pushed + 1
             /\ chunks[Len(chunks)] = trace[todo].state % B

TraceInv ==
  /\ phase = "record" => chunks = <<>>
  /\ phase # "record" =>
       /\ trace \in [0 .. Len(rec) -> Points]
       /\ trace[Len(rec)] = [state |-> L, pushed |-> 0]
       /\ \A k \in todo .. Len(rec) : trace[k].pushed <= Len(chunks)
       /\ \A k \in (todo + 1) .. Len(rec) : Coded(k)
       /\ AtPoint \/ HasPushed

\* Each record has the probability of the model of its moment.
ModelsInv ==
  /\ model = models[Len(rec) + 1]
  /\ \A k \in 1 .. Len(rec) :
       /\ rec[k].prob = models[k][script[k].ctx]
       /\ models[k + 1] = [models[k] EXCEPT ![script[k].ctx] = Adapt(@, rec[k].bit, script[k].rate)]

\* The point that k records are behind, as the decoder reaches it.
ReadUpTo(k) == StateSize + 2 * (Len(chunks) - trace[k].pushed)

\* The leading digits of the state, without the last r.
Prefix(r) == CASE r = 0 -> x
               [] r = 1 -> x \div ByteBase
               [] r = 2 -> x \div L
               [] r = 3 -> x \div (ByteBase * L)
               [] r = 4 -> 0

DecodeInv ==
  /\ ~Decoding => dmodel = models[1] /\ decoded = <<>> /\ dx = 0 /\ pos = 0
  /\ Decoding => out = StateDigits(x, StateSize) \o ChunkBytes(chunks)
  /\ phase = "open" => /\ dmodel = models[1] /\ decoded = <<>>
                       /\ pos < StateSize
                       /\ dx = Prefix(StateSize - pos)
  /\ phase = "decode" => /\ dx = trace[Len(decoded)].state
                         /\ pos = ReadUpTo(Len(decoded))
                         /\ dmodel = models[Len(decoded) + 1]
  /\ phase = "refill" => /\ Len(decoded) > 0
                         /\ dx = trace[Len(decoded)].state \div B
                         /\ pos = ReadUpTo(Len(decoded) - 1)
                         /\ trace[Len(decoded) - 1].pushed = trace[Len(decoded)].pushed + 1
                         /\ trace[Len(decoded)].pushed + 1 <= Len(chunks)
                         /\ chunks[trace[Len(decoded)].pushed + 1] = trace[Len(decoded)].state % B
                         /\ dmodel = models[Len(decoded) + 1]
  /\ \A k \in 1 .. Len(decoded) : decoded[k] = rec[k].bit

RoundTripInv == TraceInv /\ ModelsInv /\ DecodeInv

LEMMA PointFacts ==
  ASSUME IInv, TraceInv, phase # "record", NEW k \in 0 .. Len(rec)
  PROVE  /\ trace[k].state \in Nat /\ trace[k].state >= L /\ trace[k].state < L * B
         /\ trace[k].pushed \in Nat
<1>1. L * B \in Nat /\ L \in Nat
  BY Window, MulNat
<1>2. trace[k] \in Points
  BY DEF TraceInv
<1> QED BY <1>1, <1>2 DEF Points

\* decode_bit at point k - 1 returns the bit of record k and leaves what the encoder
\* had before it.
LEMMA DecodesOne ==
  ASSUME IInv, TraceInv, phase # "record", NEW k \in (todo + 1) .. Len(rec)
  PROVE  LET p == rec[k].prob
             b == rec[k].bit
             s == trace[k].state
             t == trace[k - 1].state
         IN  /\ BitOf(t, p) = b
             /\ Take(t, p, b) = IF s < Limit(Freq(p, b)) THEN s ELSE s \div B
             /\ ~(s < Limit(Freq(p, b))) => s \div B < L
<1> DEFINE p == rec[k].prob
           b == rec[k].bit
           s == trace[k].state
           f == Freq(p, b)
<1>1. k \in 1 .. Len(rec) /\ k \in 0 .. Len(rec)
  BY DEF IInv, TypeOK
<1>2. p \in Probs /\ b \in Bits
  BY <1>1, RecordTyped DEF IInv
<1>3. s \in Nat /\ s >= L /\ s < L * B
  BY <1>1, PointFacts
<1>4. Coded(k)
  BY DEF TraceInv
<1>5. f \in 1 .. (M - 1)
  BY <1>2, FreqRange
<1>6. Limit(f) \in Nat
  BY <1>5, LimitBounds
<1>7. CASE s < Limit(f)
  <2>1. trace[k - 1].state = Put(s, p, b)
    BY <1>4, <1>7 DEF Coded
  <2>2. f * R <= s
    BY <1>2, <1>3, InWindowReady
  <2> QED BY <1>2, <1>3, <1>7, <2>1, <2>2, TakeUndoesPut
<1>8. CASE ~(s < Limit(f))
  <2>1. trace[k - 1].state = Put(s \div B, p, b)
    BY <1>4, <1>8 DEF Coded
  <2>2. s >= Limit(f)
    BY <1>3, <1>6, <1>8
  <2> HIDE DEF s, f
  <2>3. s \div B \in Nat /\ f * R <= s \div B /\ s \div B < L /\ s \div B < Limit(f)
    BY <1>3, <1>5, <2>2, PushOnce
  <2> DEFINE q == s \div B
  <2> HIDE DEF q
  <2>4. q \in Nat /\ f * R <= q /\ q < L /\ q < Limit(f)
    BY <2>3 DEF q
  <2>5. BitOf(Put(q, p, b), p) = b /\ Take(Put(q, p, b), p, b) = q
    BY <1>2, <2>4, TakeUndoesPut DEF f
  <2> QED BY <1>8, <2>1, <2>4, <2>5 DEF q, s, f
<1> QED BY <1>7, <1>8

LEMMA RoundTripInit == Init => RoundTripInv
BY DEF Init, RoundTripInv, TraceInv, ModelsInv, DecodeInv, Decoding

LEMMA RoundTripRecord ==
  ASSUME IInv, RoundTripInv, NEW c \in Contexts, NEW r \in Rates, NEW b \in Bits, Record(c, r, b)
  PROVE  RoundTripInv'
<1> USE DEF encVars, decVars
<1>1. /\ phase = "record" /\ phase' = "record" /\ chunks' = chunks
      /\ rec' = Append(rec, [prob |-> model[c], bit |-> b])
      /\ script' = Append(script, [ctx |-> c, rate |-> r])
      /\ model' = [model EXCEPT ![c] = Adapt(@, b, r)]
      /\ models' = Append(models, model')
      /\ UNCHANGED <<dmodel, decoded, dx, pos>>
  BY DEF Record
<1>2. TraceInv'
  BY <1>1 DEF RoundTripInv, TraceInv
<1>3. /\ Len(rec) \in Nat /\ Len(script) = Len(rec) /\ Len(models) = Len(rec) + 1
      /\ rec \in Seq([prob : Probs, bit : Bits]) /\ script \in Seq([ctx : Contexts, rate : Rates])
      /\ models \in Seq([Contexts -> Probs])
  BY DEF IInv, TypeOK
<1>4. /\ Len(rec') = Len(rec) + 1
      /\ \A k \in 1 .. Len(rec) : rec'[k] = rec[k] /\ script'[k] = script[k]
      /\ \A k \in 1 .. Len(rec) + 1 : models'[k] = models[k]
      /\ rec'[Len(rec) + 1] = [prob |-> model[c], bit |-> b]
      /\ script'[Len(rec) + 1] = [ctx |-> c, rate |-> r]
      /\ models'[Len(rec) + 2] = model'
  BY <1>1, <1>3
<1>5. ModelsInv'
  <2>1. model' = models'[Len(rec') + 1]
    BY <1>3, <1>4
  <2>2. ASSUME NEW k \in 1 .. Len(rec')
        PROVE  /\ rec'[k].prob = models'[k][script'[k].ctx]
               /\ models'[k + 1] = [models'[k] EXCEPT ![script'[k].ctx] = Adapt(@, rec'[k].bit, script'[k].rate)]
    <3>1. CASE k \in 1 .. Len(rec)
      <4>1. rec'[k] = rec[k] /\ script'[k] = script[k] /\ models'[k] = models[k] /\ models'[k + 1] = models[k + 1]
        <5>1. k \in 1 .. Len(rec) + 1 /\ k + 1 \in 1 .. Len(rec) + 1
          BY <3>1, <1>3
        <5> QED BY <3>1, <5>1, <1>4
      <4> QED BY <3>1, <4>1 DEF RoundTripInv, ModelsInv
    <3>2. CASE k = Len(rec) + 1
      <4>1. models'[k] = model /\ k + 1 = Len(rec) + 2
        BY <3>2, <1>3, <1>4 DEF RoundTripInv, ModelsInv
      <4>2. rec'[k].prob = model[c] /\ rec'[k].bit = b /\ script'[k].ctx = c /\ script'[k].rate = r
        BY <3>2, <1>4
      <4>3. models'[k + 1] = model'
        BY <4>1, <1>4
      <4> QED BY <4>1, <4>2, <4>3, <1>1
    <3> QED BY <3>1, <3>2, <1>3, <1>4
  <2> QED BY <2>1, <2>2 DEF ModelsInv
<1>6. DecodeInv'
  <2>1. ~Decoding /\ ~Decoding' /\ models'[1] = models[1]
    BY <1>1, <1>3, <1>4 DEF Decoding
  <2> QED BY <2>1, <1>1 DEF RoundTripInv, DecodeInv, Decoding
<1> QED BY <1>2, <1>5, <1>6 DEF RoundTripInv

\* Nothing is decoded before the section is written.
LEMMA NotDecoding ==
  ASSUME RoundTripInv, ~Decoding, ~Decoding', UNCHANGED <<dmodel, decoded, dx, pos, models>>
  PROVE  DecodeInv'
BY DEF RoundTripInv, DecodeInv, Decoding

LEMMA RoundTripStartFlush == IInv /\ RoundTripInv /\ StartFlush => RoundTripInv'
<1> SUFFICES ASSUME IInv, RoundTripInv, StartFlush PROVE RoundTripInv'
  OBVIOUS
<1>1. /\ phase = "record" /\ phase' = "emit" /\ todo' = Len(rec)
      /\ trace' = [k \in 0 .. Len(rec) |-> [state |-> L, pushed |-> 0]]
      /\ UNCHANGED <<script, model, rec, x, chunks, models, dmodel, decoded, dx, pos>>
  BY DEF StartFlush, decVars
<1>2. ModelsInv'
  BY <1>1 DEF RoundTripInv, ModelsInv
<1>3. DecodeInv'
  BY <1>1, NotDecoding DEF Decoding
<1>4. TraceInv'
  <2>1. [state |-> L, pushed |-> 0] \in Points
    <3>1. L \in L .. (L * B - 1)
      BY <1>1, Window DEF IInv, EncoderInWindow, StateReady
    <3> QED BY <3>1 DEF Points
  <2>2. Len(rec) \in 0 .. Len(rec) /\ Len(rec) \in Nat
    BY DEF IInv, TypeOK
  <2>3. trace' \in [0 .. Len(rec) -> Points] /\ trace'[Len(rec)] = [state |-> L, pushed |-> 0]
    BY <2>1, <2>2, <1>1
  <2>4. x = L /\ chunks = <<>>
    BY <1>1 DEF IInv, StateReady, RoundTripInv, TraceInv
  <2>5. AtPoint'
    BY <2>3, <2>4, <1>1 DEF AtPoint
  <2>6. \A k \in todo' .. Len(rec) : trace'[k].pushed <= Len(chunks)
    BY <2>2, <2>3, <2>4, <1>1
  <2>7. (todo' + 1) .. Len(rec) = {}
    BY <2>2, <1>1
  <2> QED BY <2>3, <2>5, <2>6, <2>7, <1>1 DEF TraceInv
<1> QED BY <1>2, <1>3, <1>4 DEF RoundTripInv

LEMMA RoundTripPushChunk == IInv /\ RoundTripInv /\ PushChunk => RoundTripInv'
<1> SUFFICES ASSUME IInv, RoundTripInv, PushChunk PROVE RoundTripInv'
  OBVIOUS
<1> DEFINE s == trace[todo].state
           f == Freq(rec[todo].prob, rec[todo].bit)
<1>1. /\ phase = "emit" /\ phase' = "emit" /\ todo > 0 /\ x >= Limit(f)
      /\ chunks' = Append(chunks, x % B) /\ x' = x \div B
      /\ UNCHANGED <<script, model, rec, todo, models, trace, dmodel, decoded, dx, pos>>
  BY DEF PushChunk, decVars
<1>2. todo \in 1 .. Len(rec) /\ todo \in 0 .. Len(rec) /\ Len(rec) \in Nat
  BY <1>1 DEF IInv, TypeOK
<1>3. f \in 1 .. (M - 1)
  BY <1>2, RecordTyped, FreqRange DEF IInv
<1>4. s \in Nat /\ s >= L /\ s < L * B /\ trace[todo].pushed \in Nat
  BY <1>1, <1>2, PointFacts DEF RoundTripInv
<1>5. chunks \in Seq(0 .. (B - 1)) /\ Len(chunks') = Len(chunks) + 1 /\ Len(chunks) \in Nat
      /\ chunks'[Len(chunks) + 1] = x % B
      /\ \A n \in 1 .. Len(chunks) : chunks'[n] = chunks[n]
  BY <1>1 DEF IInv, TypeOK
<1>6. AtPoint
  <2>1. SUFFICES ASSUME HasPushed PROVE FALSE
    BY <1>1 DEF RoundTripInv, TraceInv
  <2>2. s >= Limit(f) /\ x = s \div B
    BY <2>1 DEF HasPushed
  <2> HIDE DEF s, f
  <2>3. s \div B \in Nat /\ s \div B < Limit(f)
    BY <1>3, <1>4, <2>2, PushOnce
  <2>4. Limit(f) \in Nat
    BY <1>3, LimitBounds
  <2> QED BY <1>1, <2>2, <2>3, <2>4
<1>7. HasPushed'
  BY <1>1, <1>5, <1>6 DEF AtPoint, HasPushed
<1>8. ASSUME NEW k \in (todo + 1) .. Len(rec) PROVE Coded(k)'
  <2>1. Coded(k)
    BY <1>1 DEF RoundTripInv, TraceInv
  <2>2. k \in 0 .. Len(rec)
    BY <1>2
  <2>3. trace[k].pushed \in Nat
    BY <2>2, <1>1, PointFacts DEF RoundTripInv
  <2>4. trace[k].pushed + 1 <= Len(chunks) =>
          chunks'[trace[k].pushed + 1] = chunks[trace[k].pushed + 1] /\ trace[k].pushed + 1 <= Len(chunks')
    BY <2>3, <1>5
  <2> QED BY <2>1, <2>4, <1>1 DEF Coded
<1>9. \A k \in todo .. Len(rec) : trace[k].pushed <= Len(chunks')
  <2> TAKE k \in todo .. Len(rec)
  <2>1. trace[k].pushed <= Len(chunks)
    BY <1>1 DEF RoundTripInv, TraceInv
  <2>2. k \in 0 .. Len(rec)
    BY <1>2
  <2>3. trace[k].pushed \in Nat
    BY <2>2, <1>1, PointFacts DEF RoundTripInv
  <2> QED BY <2>1, <2>3, <1>5
<1>10. TraceInv'
  BY <1>1, <1>7, <1>8, <1>9 DEF RoundTripInv, TraceInv
<1>11. ModelsInv'
  BY <1>1 DEF RoundTripInv, ModelsInv
<1>12. DecodeInv'
  BY <1>1, NotDecoding DEF Decoding
<1> QED BY <1>10, <1>11, <1>12 DEF RoundTripInv

LEMMA RoundTripPutBit == IInv /\ RoundTripInv /\ PutBit => RoundTripInv'
<1> SUFFICES ASSUME IInv, RoundTripInv, PutBit PROVE RoundTripInv'
  OBVIOUS
<1> DEFINE s == trace[todo].state
           n == trace[todo].pushed
           p == rec[todo].prob
           b == rec[todo].bit
           f == Freq(p, b)
<1>1. /\ phase = "emit" /\ phase' = "emit" /\ todo > 0 /\ x < Limit(f)
      /\ x' = Put(x, p, b) /\ todo' = todo - 1
      /\ trace' = [trace EXCEPT ![todo - 1] = [state |-> x', pushed |-> Len(chunks)]]
      /\ UNCHANGED <<script, model, rec, chunks, models, dmodel, decoded, dx, pos>>
  BY DEF PutBit, decVars
<1>2. todo \in 1 .. Len(rec) /\ todo \in 0 .. Len(rec) /\ Len(rec) \in Nat /\ todo - 1 \in 0 .. Len(rec)
  BY <1>1 DEF IInv, TypeOK
<1>3. p \in Probs /\ b \in Bits /\ f \in 1 .. (M - 1) /\ Limit(f) \in Nat
  BY <1>2, RecordTyped, FreqRange, LimitBounds DEF IInv
<1>4. s \in Nat /\ s >= L /\ n \in Nat /\ Len(chunks) \in Nat
  BY <1>1, <1>2, PointFacts DEF RoundTripInv, IInv, TypeOK
<1>5. trace \in [0 .. Len(rec) -> Points]
  BY <1>1 DEF RoundTripInv, TraceInv
<1>6. x' \in L .. (L * B - 1)
  BY <1>1, <1>3, TakeUndoesPut DEF IInv, TypeOK, StateReady
<1>7. /\ trace' \in [0 .. Len(rec) -> Points]
      /\ trace'[todo - 1] = [state |-> x', pushed |-> Len(chunks)]
      /\ \A k \in todo .. Len(rec) : trace'[k] = trace[k]
  <2>1. [state |-> x', pushed |-> Len(chunks)] \in Points
    BY <1>4, <1>6 DEF Points
  <2>2. \A k \in todo .. Len(rec) : k \in 0 .. Len(rec) /\ k # todo - 1
    BY <1>2
  <2> QED BY <2>1, <2>2, <1>1, <1>2, <1>5
<1>8. ASSUME NEW k \in Nat, k = todo PROVE Coded(k)'
  <2>1. trace'[k] = trace[todo] /\ rec'[k] = rec[todo] /\ trace'[k - 1] = trace'[todo - 1]
    BY <1>1, <1>2, <1>7, <1>8
  <2>2. CASE AtPoint
    <3>1. x = s /\ Len(chunks) = n
      BY <2>2 DEF AtPoint
    <3> QED BY <3>1, <2>1, <1>1, <1>7 DEF Coded
  <2>3. CASE HasPushed
    <3>1. s >= Limit(f) /\ x = s \div B /\ Len(chunks) = n + 1 /\ chunks[n + 1] = s % B
      BY <2>3 DEF HasPushed
    <3>2. ~(s < Limit(f))
      BY <3>1, <1>3, <1>4
    <3> QED BY SMTT(30), <3>1, <3>2, <2>1, <1>1, <1>4, <1>7 DEF Coded
  <2> QED BY <2>2, <2>3, <1>1 DEF RoundTripInv, TraceInv
<1>9. ASSUME NEW k \in (todo' + 1) .. Len(rec) PROVE Coded(k)'
  <2>1. CASE k = todo
    BY <2>1, <1>2, <1>8
  <2>2. CASE k # todo
    <3>1. k \in (todo + 1) .. Len(rec) /\ k - 1 \in todo .. Len(rec) /\ k \in todo .. Len(rec)
      BY <2>2, <1>1, <1>2
    <3>2. Coded(k)
      BY <3>1, <1>1 DEF RoundTripInv, TraceInv
    <3>3. trace'[k] = trace[k] /\ trace'[k - 1] = trace[k - 1]
      BY <3>1, <1>7
    <3> QED BY <3>2, <3>3, <1>1 DEF Coded
  <2> QED BY <2>1, <2>2
<1>10. \A k \in todo' .. Len(rec) : trace'[k].pushed <= Len(chunks)
  <2> TAKE k \in todo' .. Len(rec)
  <2>1. CASE k = todo - 1
    BY <2>1, <1>4, <1>7
  <2>2. CASE k # todo - 1
    <3>1. k \in todo .. Len(rec)
      BY <2>2, <1>1, <1>2
    <3> QED BY <3>1, <1>1, <1>7 DEF RoundTripInv, TraceInv
  <2> QED BY <2>1, <2>2
<1>11. AtPoint'
  BY <1>1, <1>7 DEF AtPoint
<1>12. trace'[Len(rec)] = [state |-> L, pushed |-> 0]
  BY <1>1, <1>2, <1>7 DEF RoundTripInv, TraceInv
<1>13. TraceInv'
  BY <1>1, <1>7, <1>9, <1>10, <1>11, <1>12 DEF TraceInv
<1>14. ModelsInv'
  BY <1>1 DEF RoundTripInv, ModelsInv
<1>15. DecodeInv'
  BY <1>1, NotDecoding DEF Decoding
<1> QED BY <1>13, <1>14, <1>15 DEF RoundTripInv

--------------------------------------------------------------------------------
(* The bytes of a section *)

LEMMA NestedDivision ==
  ASSUME NEW n \in Nat, NEW a \in Nat, NEW b \in Nat, a > 0, b > 0
  PROVE  (n \div a) \div b = n \div (b * a)
<1> DEFINE q == n \div a
           r == n % a
           q2 == q \div b
           r2 == q % b
<1>1. q \in Nat /\ r \in 0 .. (a - 1) /\ n = a * q + r
  BY DivMod
<1> HIDE DEF q, r
<1>2. q2 \in Nat /\ r2 \in 0 .. (b - 1) /\ q = b * q2 + r2
  BY <1>1, DivMod
<1> HIDE DEF q2, r2
<1>3. b * a \in Nat /\ b * a > 0 /\ a * r2 \in Nat /\ a * (b * q2) \in Nat
  BY <1>2, MulNat
<1>4. a * q = a * (b * q2) + a * r2
  BY <1>2
<1>5. a * (b * q2) = q2 * (b * a)
  <2>1. (a * b) * q2 = a * (b * q2)
    BY <1>2, MulAssoc
  <2>2. a * b = b * a /\ (b * a) * q2 = q2 * (b * a)
    BY <1>2, <1>3, MulNat
  <2> QED BY <2>1, <2>2
<1>6. a * r2 + r \in 0 .. ((b * a) - 1)
  <2>1. (r2 + 1) * a <= b * a
    BY <1>2, MulMono
  <2>2. (r2 + 1) * a = a * r2 + a
    BY <1>2
  <2> QED BY <1>1, <1>3, <2>1, <2>2
<1> DEFINE d == b * a
           e == a * r2 + r
<1>7. n = q2 * d + e
  BY <1>1, <1>3, <1>4, <1>5
<1>8. d \in Nat /\ e \in 0 .. (d - 1)
  BY <1>3, <1>6
<1> HIDE DEF d, e
<1>9. n \div d = q2
  BY <1>2, <1>7, <1>8, DivModUnique
<1> QED BY <1>9 DEF d, q2, q

\* The state that is written has three or four digits.
LEMMA StateSizeFacts ==
  ASSUME IInv, todo = 0
  PROVE  /\ StateSize \in {3, 4}
         /\ StateSize = 3 => x < ByteBase * L
         /\ x \in Nat /\ x >= L /\ x < L * B
         /\ ByteBase \in Nat /\ ByteBase > 0 /\ L \in Nat /\ L > 0
<1>1. ByteBase \in Nat /\ ByteBase > 0 /\ ByteBase >= 2
  BY RansAssumption, BitCoderAssumption
<1>2. L \in Nat /\ L > 0
  BY Window
<1>3. x \in Nat /\ x >= L /\ x < L * B
  BY DEF IInv, TypeOK, EncoderInWindow
<1>4. ByteBase <= L
  <2>1. 1 * ByteBase <= ByteBase * ByteBase
    BY <1>1, MulMono
  <2> QED BY <2>1, <1>1 DEF L
<1>5. ~(x < ByteBase) /\ ~(x < L)
  BY <1>1, <1>2, <1>3, <1>4
<1>6. StateSize \in {3, 4} /\ (StateSize = 3 => x < ByteBase * L)
  BY <1>5 DEF StateSize, StateBytes
<1> QED BY <1>1, <1>2, <1>3, <1>6

Digits == <<x \div (ByteBase * L), (x \div L) % ByteBase, (x \div ByteBase) % ByteBase, x % ByteBase>>

\* One more digit of the state.
LEMMA PrefixStep ==
  ASSUME IInv, todo = 0, NEW r \in 1 .. 4
  PROVE  /\ Prefix(r) * ByteBase + Digits[5 - r] = Prefix(r - 1)
         /\ StateSize = 3 => Prefix(3) = 0
<1>1. /\ StateSize = 3 => x < ByteBase * L
      /\ x \in Nat /\ ByteBase \in Nat /\ ByteBase > 0 /\ L \in Nat /\ L > 0
  BY StateSizeFacts
<1>2. ByteBase * L \in Nat /\ ByteBase * L > 0
  BY <1>1, MulNat
<1>3. x \div ByteBase \in Nat /\ x = ByteBase * (x \div ByteBase) + (x % ByteBase)
      /\ x % ByteBase \in Nat
  BY <1>1, DivMod
<1>4. x \div L \in Nat /\ (x \div ByteBase) \div ByteBase = x \div L
  BY <1>1, DivMod, NestedDivision DEF L
<1>5. /\ (x \div L) \div ByteBase = x \div (ByteBase * L)
      /\ x \div (ByteBase * L) \in Nat
  BY <1>1, <1>2, DivMod, NestedDivision
<1> DEFINE a == x \div ByteBase
           b == x \div L
           c == x \div (ByteBase * L)
<1>6. Digits[1] = c /\ Digits[2] = b % ByteBase /\ Digits[3] = a % ByteBase /\ Digits[4] = x % ByteBase
  BY DEF Digits
<1>7. Prefix(0) = x /\ Prefix(1) = a /\ Prefix(2) = b /\ Prefix(3) = c /\ Prefix(4) = 0
  BY DEF Prefix
<1>8. a \in Nat /\ b \in Nat /\ c \in Nat /\ a \div ByteBase = b /\ b \div ByteBase = c
  BY <1>3, <1>4, <1>5
<1>9. StateSize = 3 => c = 0
  <2> SUFFICES ASSUME x < ByteBase * L PROVE x \div (ByteBase * L) = 0
    BY <1>1
  <2> DEFINE d == ByteBase * L
  <2>1. d \in Nat /\ x \in 0 .. (d - 1) /\ 0 * d + x = x
    BY <1>1, <1>2
  <2> HIDE DEF d
  <2>2. (0 * d + x) \div d = 0
    BY <2>1, DivModUnique
  <2> QED BY <2>1, <2>2 DEF d
<1> HIDE DEF a, b, c
<1>10. a = ByteBase * b + (a % ByteBase) /\ b = ByteBase * c + (b % ByteBase)
       /\ a % ByteBase \in Nat /\ b % ByteBase \in Nat
  BY <1>1, <1>8, DivMod
<1>11. ByteBase * a = a * ByteBase /\ ByteBase * b = b * ByteBase /\ ByteBase * c = c * ByteBase
       /\ 0 * ByteBase = 0
  BY <1>1, <1>8, MulNat
<1>12. x = ByteBase * a + (x % ByteBase)
  BY <1>3 DEF a
<1>13. r \in {1, 2, 3, 4} /\ 5 - 1 = 4 /\ 5 - 2 = 3 /\ 5 - 3 = 2 /\ 5 - 4 = 1
       /\ 1 - 1 = 0 /\ 2 - 1 = 1 /\ 3 - 1 = 2 /\ 4 - 1 = 3
  OBVIOUS
<1>14. CASE r = 1
  <2>1. Prefix(r) = a /\ Digits[5 - r] = x % ByteBase /\ Prefix(r - 1) = x
    BY <1>14, <1>6, <1>7, <1>13
  <2>2. a * ByteBase + (x % ByteBase) = x
    BY <1>1, <1>8, <1>10, <1>11, <1>12
  <2> QED BY <2>1, <2>2, <1>7, <1>9
<1>15. CASE r = 2
  <2>1. Prefix(r) = b /\ Digits[5 - r] = a % ByteBase /\ Prefix(r - 1) = a
    BY <1>15, <1>6, <1>7, <1>13
  <2>2. b * ByteBase + (a % ByteBase) = a
    BY <1>1, <1>8, <1>10, <1>11, <1>12
  <2> QED BY <2>1, <2>2, <1>7, <1>9
<1>16. CASE r = 3
  <2>1. Prefix(r) = c /\ Digits[5 - r] = b % ByteBase /\ Prefix(r - 1) = b
    BY <1>16, <1>6, <1>7, <1>13
  <2>2. c * ByteBase + (b % ByteBase) = b
    BY <1>1, <1>8, <1>10, <1>11, <1>12
  <2> QED BY <2>1, <2>2, <1>7, <1>9
<1>17. CASE r = 4
  <2>1. Prefix(r) = 0 /\ Digits[5 - r] = c /\ Prefix(r - 1) = c
    BY <1>17, <1>6, <1>7, <1>13
  <2>2. 0 * ByteBase + c = c
    BY <1>1, <1>8, <1>10, <1>11, <1>12
  <2> QED BY <2>1, <2>2, <1>7, <1>9
<1> QED BY <1>13, <1>14, <1>15, <1>16, <1>17

\* Where the bytes of the state and of each chunk are in the section.
LEMMA SectionBytes ==
  ASSUME IInv, todo = 0, out = StateDigits(x, StateSize) \o ChunkBytes(chunks)
  PROVE  /\ Len(out) = StateSize + 2 * Len(chunks)
         /\ \A i \in 0 .. (StateSize - 1) : ByteAt(i) = Digits[5 - (StateSize - i)]
         /\ \A m \in 1 .. Len(chunks) :
              LET i == StateSize + 2 * (Len(chunks) - m)
              IN  ByteAt(i) + ByteBase * ByteAt(i + 1) = chunks[m]
<1> DEFINE n == StateSize
           d == StateDigits(x, n)
           e == ChunkBytes(chunks)
           len == Len(chunks)
<1>1. n \in {3, 4} /\ x \in Nat /\ x < L * B /\ ByteBase \in Nat /\ ByteBase > 0
  BY StateSizeFacts
<1>2. chunks \in Seq(0 .. (B - 1)) /\ len \in Nat
  BY DEF IInv, TypeOK
<1>3. Digits \in Seq(Nat) /\ Len(Digits) = 4 /\ d = SubSeq(Digits, 5 - n, 4)
  <2>1. Digits \in Seq(Nat) /\ Len(Digits) = 4
    <3>1. /\ x \div (ByteBase * L) \in Nat /\ x \div L \in Nat /\ x \div ByteBase \in Nat
          /\ x % ByteBase \in Nat
      <4>1. ByteBase * L \in Nat /\ ByteBase * L > 0 /\ L \in Nat /\ L > 0
        BY StateSizeFacts, MulNat
      <4> QED BY <4>1, <1>1, DivMod
    <3>2. (x \div L) % ByteBase \in Nat /\ (x \div ByteBase) % ByteBase \in Nat
      BY <3>1, <1>1, DivMod
    <3> QED BY <3>1, <3>2 DEF Digits
  <2> QED BY <2>1 DEF Digits, StateDigits
<1>4. d \in Seq(Nat) /\ Len(d) = n /\ \A i \in 1 .. n : d[i] = Digits[4 - n + i]
  <2>1. \A i \in 1 .. 4 : Digits[i] \in Nat
    BY <1>3, ElementOfSeq
  <2>2. CASE n = 3
    <3>1. d = SubSeq(Digits, 2, 4)
      BY <2>2, <1>3
    <3> HIDE DEF d
    <3> QED BY <2>1, <2>2, <3>1, <1>3, SubSeqProperties
  <2>3. CASE n = 4
    <3>1. d = SubSeq(Digits, 1, 4)
      BY <2>3, <1>3
    <3> HIDE DEF d
    <3> QED BY <2>1, <2>3, <3>1, <1>3, SubSeqProperties
  <2> QED BY <2>2, <2>3, <1>1
<1>5. e \in Seq(Bytes) /\ Len(e) = 2 * len
  BY <1>2, ChunkBytesAreBytes
<1>6. ASSUME NEW m \in 1 .. len
      PROVE  /\ e[2 * (len - m) + 1] = chunks[m] % ByteBase
             /\ e[2 * (len - m) + 2] = chunks[m] \div ByteBase
  <2> DEFINE j == 2 * (len - m) + 1
  <2>1. /\ j \in 1 .. 2 * len /\ j + 1 \in 1 .. 2 * len
        /\ (j - 1) \div 2 = len - m /\ ((j + 1) - 1) \div 2 = len - m
        /\ j % 2 = 1 /\ (j + 1) % 2 # 1 /\ len - (len - m) = m
        /\ j + 1 = 2 * (len - m) + 2
    <3>1. PICK q \in Nat : q = len - m
      BY <1>2
    <3>2. (2 * q) \div 2 = q /\ (2 * q + 1) \div 2 = q
      OBVIOUS
    <3>3. (2 * q + 1) % 2 = 1 /\ (2 * (q + 1)) % 2 = 0
      OBVIOUS
    <3>4. j = 2 * q + 1 /\ j - 1 = 2 * q /\ (j + 1) - 1 = 2 * q + 1 /\ j + 1 = 2 * (q + 1)
      BY <3>1
    <3>5. j \in 1 .. 2 * len /\ j + 1 \in 1 .. 2 * len /\ len - (len - m) = m /\ j + 1 = 2 * (len - m) + 2
      BY <1>2
    <3> HIDE DEF j
    <3>6. (j - 1) \div 2 = q /\ ((j + 1) - 1) \div 2 = q
      BY <3>2, <3>4, Zenon
    <3>7. j % 2 = 1 /\ (j + 1) % 2 = 0
      BY <3>3, <3>4, Zenon
    <3>8. (j + 1) % 2 # 1
      BY <3>7
    <3> QED BY <3>1, <3>5, <3>6, <3>7, <3>8, Zenon
  <2> HIDE DEF j
  <2>2. e[j] = chunks[m] % ByteBase
    BY <2>1 DEF ChunkBytes
  <2>3. e[j + 1] = chunks[m] \div ByteBase
    BY <2>1 DEF ChunkBytes
  <2> QED BY <2>1, <2>2, <2>3 DEF j
<1> HIDE DEF d, e
<1>7. out = d \o e
  BY DEF d, e
<1> HIDE DEF n, len
<1>8. /\ Len(out) = n + 2 * len
      /\ \A i \in 1 .. n : out[i] = d[i]
      /\ \A i \in 1 .. 2 * len : out[n + i] = e[i]
  <2>1. PICK k : k = 2 * len
    OBVIOUS
  <2>2. n \in Nat /\ k \in Nat /\ Len(d) = n /\ Len(e) = k
    BY <1>1, <1>2, <1>4, <1>5, <2>1
  <2>3. /\ Len(d \o e) = n + k
        /\ \A i \in 1 .. n : (d \o e)[i] = d[i]
        /\ \A i \in 1 .. k : (d \o e)[n + i] = e[i]
    BY <1>4, <1>5, <2>2, SMTT(60)
  <2>4. /\ Len(out) = n + k
        /\ \A i \in 1 .. n : out[i] = d[i]
        /\ \A i \in 1 .. k : out[n + i] = e[i]
    BY <1>7, <2>3, Zenon
  <2> QED BY <2>1, <2>4, Zenon
<1>9. ASSUME NEW i \in 0 .. (n - 1) PROVE ByteAt(i) = Digits[5 - (n - i)]
  <2>1. i < Len(out) /\ i + 1 \in 1 .. n /\ 4 - n + (i + 1) = 5 - (n - i)
    BY <1>1, <1>2, <1>8
  <2> QED BY <2>1, <1>4, <1>8, SMTT(60) DEF ByteAt
<1>10. ASSUME NEW m \in 1 .. len
       PROVE  ByteAt(n + 2 * (len - m)) + ByteBase * ByteAt((n + 2 * (len - m)) + 1) = chunks[m]
  <2> DEFINE j == 2 * (len - m)
  <2>1. j + 1 \in 1 .. 2 * len /\ j + 2 \in 1 .. 2 * len /\ n + j < Len(out) /\ (n + j) + 1 < Len(out)
        /\ (n + j) + 1 = n + (j + 1) /\ ((n + j) + 1) + 1 = n + (j + 2)
    BY <1>1, <1>2, <1>8
  <2>2. e[j + 1] = chunks[m] % ByteBase /\ e[j + 2] = chunks[m] \div ByteBase
    BY <1>6
  <2> HIDE DEF j
  <2>3. ByteAt(n + j) = chunks[m] % ByteBase /\ ByteAt((n + j) + 1) = chunks[m] \div ByteBase
    BY <2>1, <2>2, <1>8 DEF ByteAt
  <2>4. chunks[m] \in 0 .. (B - 1) /\ B \in Nat
    BY <1>2, ElementOfSeq, Window DEF len
  <2>5. /\ chunks[m] = ByteBase * (chunks[m] \div ByteBase) + (chunks[m] % ByteBase)
        /\ chunks[m] % ByteBase \in Nat /\ chunks[m] \div ByteBase \in Nat
    <3> DEFINE c == chunks[m]
    <3>1. c \in Nat
      BY <2>4
    <3> HIDE DEF c
    <3>2. c = ByteBase * (c \div ByteBase) + (c % ByteBase) /\ c % ByteBase \in Nat /\ c \div ByteBase \in Nat
      BY <3>1, <1>1, DivMod
    <3> QED BY <3>2 DEF c
  <2>6. ByteBase * (chunks[m] \div ByteBase) \in Nat
    BY <2>5, <1>1, MulNat
  <2> QED BY <2>3, <2>5, <2>6 DEF j
<1> QED BY <1>8, <1>9, <1>10 DEF n, len

--------------------------------------------------------------------------------
(* The decoder *)

\* Flushing and decoding change nothing of what the encoder did.
LEMMA EncoderStays ==
  ASSUME IInv, RoundTripInv, phase # "record", todo = 0, Decoding',
         UNCHANGED <<script, model, rec, todo, x, chunks, models, trace>>
  PROVE  TraceInv' /\ ModelsInv'
<1>1. AtPoint
  BY DEF RoundTripInv, TraceInv, HasPushed
<1>2. AtPoint'
  BY <1>1 DEF AtPoint
<1>3. ASSUME NEW k \in (todo + 1) .. Len(rec) PROVE Coded(k)'
  BY DEF RoundTripInv, TraceInv, Coded
<1>4. phase' # "record"
  BY DEF Decoding
<1>5. TraceInv'
  BY <1>2, <1>3, <1>4 DEF RoundTripInv, TraceInv
<1>6. ModelsInv'
  BY DEF RoundTripInv, ModelsInv
<1> QED BY <1>5, <1>6

LEMMA RoundTripFlush == IInv /\ RoundTripInv /\ Flush => RoundTripInv'
<1> SUFFICES ASSUME IInv, RoundTripInv, Flush PROVE RoundTripInv'
  OBVIOUS
<1>1. /\ phase = "emit" /\ phase' = "open" /\ todo = 0
      /\ out' = StateDigits(x, StateSize) \o ChunkBytes(chunks)
      /\ UNCHANGED <<script, minimal, model, rec, todo, x, chunks, models, trace,
                     dmodel, decoded, dx, pos>>
  BY DEF Flush, decVars
<1>2. TraceInv' /\ ModelsInv'
  BY <1>1, EncoderStays DEF Decoding
<1>3. StateSize' = StateSize /\ StateSize \in {3, 4}
  BY <1>1, StateSizeFacts DEF StateSize
<1>4. Prefix(StateSize) = 0
  <2>1. StateSize = 3 => Prefix(3) = 0
    BY <1>1, PrefixStep
  <2>2. Prefix(4) = 0
    BY DEF Prefix
  <2> QED BY <2>1, <2>2, <1>3
<1>5. dmodel = models[1] /\ decoded = <<>> /\ dx = 0 /\ pos = 0
  BY <1>1 DEF RoundTripInv, DecodeInv, Decoding
<1>6. (Prefix(StateSize - pos))' = Prefix(StateSize)
  <2>1. StateSize' - pos' = StateSize
    BY <1>1, <1>3, <1>5
  <2> QED BY <2>1, <1>1 DEF Prefix
<1>7. DecodeInv'
  <2>1. Decoding' /\ pos' < StateSize' /\ Len(decoded') = 0
    BY <1>1, <1>3, <1>5 DEF Decoding
  <2>2. \A k \in 1 .. Len(decoded') : decoded'[k] = rec'[k].bit
    BY <2>1
  <2> QED BY <2>1, <2>2, <1>1, <1>3, <1>4, <1>5, <1>6 DEF DecodeInv
<1> QED BY <1>2, <1>7 DEF RoundTripInv

LEMMA DecodingFacts ==
  ASSUME IInv, RoundTripInv, Decoding
  PROVE  /\ todo = 0 /\ phase # "record" /\ AtPoint
         /\ out = StateDigits(x, StateSize) \o ChunkBytes(chunks)
         /\ StateSize \in {3, 4} /\ Len(rec) \in Nat /\ Len(chunks) \in Nat
<1>1. todo = 0 /\ phase # "record"
  BY DEF Decoding, IInv, StateReady
<1> QED BY SMTT(30), <1>1, StateSizeFacts DEF RoundTripInv, TraceInv, HasPushed, DecodeInv, IInv, TypeOK

LEMMA RoundTripOpen == IInv /\ RoundTripInv /\ Open => RoundTripInv'
<1> SUFFICES ASSUME IInv, RoundTripInv, Open PROVE RoundTripInv'
  OBVIOUS
<1> DEFINE r == StateSize - pos
<1>1. /\ phase = "open"
      /\ dx' = dx * ByteBase + ByteAt(pos) /\ pos' = pos + 1
      /\ phase' = IF pos' = StateSize THEN "decode" ELSE "open"
      /\ UNCHANGED <<script, minimal, model, rec, todo, x, chunks, out, models, trace, dmodel, decoded>>
  BY DEF Open, encVars
<1>2. Decoding /\ Decoding'
  BY <1>1 DEF Decoding
<1>3. /\ todo = 0 /\ phase # "record" /\ AtPoint /\ StateSize \in {3, 4}
      /\ out = StateDigits(x, StateSize) \o ChunkBytes(chunks)
  BY <1>2, DecodingFacts
<1>4. TraceInv' /\ ModelsInv'
  BY <1>1, <1>2, <1>3, EncoderStays
<1>5. /\ dmodel = models[1] /\ decoded = <<>> /\ pos < StateSize /\ dx = Prefix(r) /\ pos \in Nat
  BY <1>1 DEF RoundTripInv, DecodeInv, IInv, TypeOK
<1>6. r \in 1 .. 4 /\ pos \in 0 .. (StateSize - 1)
  BY <1>3, <1>5
<1>7. dx' = Prefix(r - 1)
  <2>1. ByteAt(pos) = Digits[5 - r]
    BY <1>3, <1>6, SectionBytes
  <2>2. Prefix(r) * ByteBase + Digits[5 - r] = Prefix(r - 1)
    BY <1>3, <1>6, PrefixStep
  <2> QED BY <2>1, <2>2, <1>1, <1>5
<1>8. StateSize' = StateSize /\ (StateSize - pos)' = r - 1
  <2>1. StateSize' = StateSize
    BY <1>1 DEF StateSize
  <2> QED BY <2>1, <1>1, <1>3, <1>5
<1>9. (Prefix(StateSize - pos))' = dx'
  BY <1>1, <1>7, <1>8 DEF Prefix
<1>10. CASE pos' = StateSize
  <2>1. phase' = "decode" /\ r - 1 = 0 /\ Len(decoded') = 0
    BY <1>1, <1>3, <1>5, <1>10
  <2>2. dx' = x /\ x = trace[0].state /\ Len(chunks) = trace[0].pushed
    BY <2>1, <1>3, <1>7 DEF Prefix, AtPoint
  <2>3. ReadUpTo(0)' = StateSize
    <3>1. ReadUpTo(0)' = StateSize' + 2 * (Len(chunks') - trace'[0].pushed)
      BY DEF ReadUpTo
    <3>2. Len(chunks) \in Nat
      BY DEF IInv, TypeOK
    <3> QED BY <3>1, <3>2, <2>2, <1>1, <1>3, <1>8
  <2>4. \A k \in 1 .. Len(decoded') : decoded'[k] = rec'[k].bit
    BY <2>1
  <2>5. dmodel' = models'[Len(decoded') + 1]
    BY <2>1, <1>1, <1>5
  <2>6. ReadUpTo(Len(decoded))' = StateSize /\ trace'[Len(decoded')] = trace[0]
    BY <2>1, <2>3, <1>1 DEF ReadUpTo
  <2>7. DecodeInv'
    BY <2>1, <2>2, <2>4, <2>5, <2>6, <1>1, <1>2, <1>3, <1>8, <1>10 DEF DecodeInv
  <2> QED BY <2>7, <1>4 DEF RoundTripInv
<1>11. CASE pos' # StateSize
  <2>1. phase' = "open" /\ pos' < StateSize'
    BY <1>1, <1>3, <1>5, <1>8, <1>11
  <2>2. Len(decoded') = 0
    BY <1>1, <1>5
  <2>3. \A k \in 1 .. Len(decoded') : decoded'[k] = rec'[k].bit
    BY <2>2
  <2>4. DecodeInv'
    BY <2>1, <2>3, <1>1, <1>2, <1>3, <1>5, <1>8, <1>9 DEF DecodeInv
  <2> QED BY <2>4, <1>4 DEF RoundTripInv
<1> QED BY <1>10, <1>11

LEMMA RoundTripDecodeBit == IInv /\ RoundTripInv /\ DecodeBit => RoundTripInv'
<1> SUFFICES ASSUME IInv, RoundTripInv, DecodeBit PROVE RoundTripInv'
  OBVIOUS
<1> DEFINE k == Len(decoded) + 1
           p == rec[k].prob
           b == rec[k].bit
           s == trace[k].state
           n == trace[k].pushed
           c == script[k].ctx
<1>1. /\ phase = "decode" /\ k <= Len(script)
      /\ UNCHANGED <<script, minimal, model, rec, todo, x, chunks, out, models, trace, pos>>
  BY DEF DecodeBit, encVars
<1>2. Decoding /\ Decoding'
  BY DEF DecodeBit, Decoding
<1>3. /\ todo = 0 /\ phase # "record" /\ StateSize \in {3, 4} /\ Len(rec) \in Nat /\ Len(chunks) \in Nat
      /\ out = StateDigits(x, StateSize) \o ChunkBytes(chunks)
  BY <1>2, DecodingFacts
<1>4. TraceInv' /\ ModelsInv'
  BY <1>1, <1>2, <1>3, EncoderStays
<1>5. /\ Len(decoded) \in Nat /\ Len(script) = Len(rec) /\ decoded \in Seq(Bits)
      /\ k \in 1 .. Len(rec) /\ k \in (todo + 1) .. Len(rec) /\ k \in 0 .. Len(rec) /\ k - 1 = Len(decoded)
  <2>1. Len(decoded) \in Nat /\ Len(script) = Len(rec) /\ decoded \in Seq(Bits)
    BY DEF IInv, TypeOK
  <2> QED BY <2>1, <1>1, <1>3
<1>6. dx = trace[k - 1].state /\ pos = ReadUpTo(k - 1) /\ dmodel = models[k]
  BY <1>1, <1>5 DEF RoundTripInv, DecodeInv
<1>7. p = dmodel[c] /\ models[k + 1] = [models[k] EXCEPT ![c] = Adapt(@, b, script[k].rate)]
  BY <1>5, <1>6 DEF RoundTripInv, ModelsInv
<1>8. /\ BitOf(dx, p) = b
      /\ Take(dx, p, b) = IF s < Limit(Freq(p, b)) THEN s ELSE s \div B
      /\ ~(s < Limit(Freq(p, b))) => s \div B < L
  BY <1>3, <1>5, <1>6, DecodesOne DEF RoundTripInv
<1>9. /\ dx' = Take(dx, p, b) /\ phase' = IF dx' < L THEN "refill" ELSE "decode"
      /\ dmodel' = models[k + 1] /\ decoded' = Append(decoded, b)
  <2>1. /\ dx' = Take(dx, p, BitOf(dx, p)) /\ phase' = IF dx' < L THEN "refill" ELSE "decode"
        /\ dmodel' = [dmodel EXCEPT ![c] = Adapt(@, BitOf(dx, p), script[k].rate)]
        /\ decoded' = Append(decoded, BitOf(dx, p))
    BY <1>7 DEF DecodeBit
  <2> QED BY <2>1, <1>6, <1>7, <1>8
<1>10. Len(decoded') = k /\ \A j \in 1 .. k : decoded'[j] = rec[j].bit
  <2>1. \A j \in 1 .. Len(decoded) : decoded[j] = rec[j].bit
    BY DEF RoundTripInv, DecodeInv
  <2>2. Len(decoded') = k /\ decoded'[k] = b /\ \A j \in 1 .. Len(decoded) : decoded'[j] = decoded[j]
    BY <1>5, <1>9
  <2>3. ASSUME NEW j \in 1 .. k PROVE decoded'[j] = rec[j].bit
    <3>1. CASE j = k
      BY <3>1, <2>2
    <3>2. CASE j # k
      <4>1. j \in 1 .. Len(decoded)
        BY <3>2, <1>5
      <4> QED BY <4>1, <2>1, <2>2
    <3> QED BY <3>1, <3>2
  <2> QED BY <2>2, <2>3
<1>11. s \in Nat /\ s >= L /\ n \in Nat /\ L \in Nat
  BY <1>3, <1>5, PointFacts, Window DEF RoundTripInv
<1>12. Coded(k)
  BY <1>3, <1>5 DEF RoundTripInv, TraceInv
<1>13. StateSize' = StateSize
  BY <1>1 DEF StateSize
<1> HIDE DEF k
<1>14. CASE s < Limit(Freq(p, b))
  <2>1. dx' = s /\ phase' = "decode"
    BY <1>8, <1>9, <1>11, <1>14
  <2>2. trace[k - 1].pushed = n
    BY <1>12, <1>14 DEF Coded
  <2>3. pos' = (ReadUpTo(Len(decoded)))'
    BY <2>2, <1>1, <1>6, <1>10, <1>13 DEF ReadUpTo
  <2>4. DecodeInv'
    BY <2>1, <2>3, <1>1, <1>2, <1>3, <1>9, <1>10, <1>13 DEF DecodeInv
  <2> QED BY <2>4, <1>4 DEF RoundTripInv
<1>15. CASE ~(s < Limit(Freq(p, b)))
  <2>1. dx' = s \div B /\ phase' = "refill"
    BY <1>8, <1>9, <1>15
  <2>2. trace[k - 1].pushed = n + 1 /\ n + 1 <= Len(chunks) /\ chunks[n + 1] = s % B
    BY <1>12, <1>15 DEF Coded
  <2>3. pos' = (ReadUpTo(Len(decoded) - 1))' /\ Len(decoded') > 0
    BY <1>1, <1>5, <1>6, <1>10, <1>13 DEF ReadUpTo
  <2>4. DecodeInv'
    BY <2>1, <2>2, <2>3, <1>1, <1>2, <1>3, <1>9, <1>10, <1>13 DEF DecodeInv
  <2> QED BY <2>4, <1>4 DEF RoundTripInv
<1> QED BY <1>14, <1>15

LEMMA RoundTripRefill == IInv /\ RoundTripInv /\ Refill => RoundTripInv'
<1> SUFFICES ASSUME IInv, RoundTripInv, Refill PROVE RoundTripInv'
  OBVIOUS
<1> DEFINE k == Len(decoded)
           s == trace[k].state
           n == trace[k].pushed
<1>1. /\ phase = "refill"
      /\ dx' = dx * B + ByteAt(pos) + ByteBase * ByteAt(pos + 1) /\ pos' = pos + 2
      /\ phase' = IF dx' < L THEN "refill" ELSE "decode"
      /\ UNCHANGED <<script, minimal, model, rec, todo, x, chunks, out, models, trace, dmodel, decoded>>
  BY DEF Refill, encVars
<1>2. Decoding /\ Decoding'
  BY <1>1 DEF Decoding
<1>3. /\ todo = 0 /\ phase # "record" /\ StateSize \in {3, 4} /\ Len(rec) \in Nat /\ Len(chunks) \in Nat
      /\ out = StateDigits(x, StateSize) \o ChunkBytes(chunks)
  BY <1>2, DecodingFacts
<1>4. TraceInv' /\ ModelsInv'
  BY <1>1, <1>2, <1>3, EncoderStays
<1>5. /\ k > 0 /\ dx = s \div B /\ pos = ReadUpTo(k - 1)
      /\ trace[k - 1].pushed = n + 1 /\ n + 1 <= Len(chunks) /\ chunks[n + 1] = s % B
      /\ dmodel = models[k + 1]
  BY <1>1 DEF RoundTripInv, DecodeInv
<1>6. k \in 0 .. Len(rec)
  BY DEF IInv, TypeOK
<1>7. s \in Nat /\ s >= L /\ n \in Nat /\ B \in Nat /\ B > 0 /\ L \in Nat
  BY <1>3, <1>6, PointFacts, Window DEF RoundTripInv
<1>8. pos = StateSize + 2 * (Len(chunks) - (n + 1)) /\ n + 1 \in 1 .. Len(chunks)
  <2>1. pos = StateSize + 2 * (Len(chunks) - trace[k - 1].pushed)
    BY <1>5 DEF ReadUpTo
  <2>2. trace[k - 1].pushed = n + 1
    BY <1>5
  <2>3. n + 1 <= Len(chunks) /\ n \in Nat /\ Len(chunks) \in Nat
    BY <1>3, <1>5, <1>7
  <2> HIDE DEF n, k
  <2> QED BY <2>1, <2>2, <2>3
<1>9. ByteAt(pos) + ByteBase * ByteAt(pos + 1) = s % B
  BY <1>3, <1>5, <1>8, SectionBytes
<1>10. dx' = s
  <2>1. s \div B \in Nat /\ s % B \in Nat /\ s = B * (s \div B) + (s % B)
    <3> HIDE DEF s
    <3> QED BY <1>7, DivMod
  <2>2. B * (s \div B) = (s \div B) * B /\ (s \div B) * B \in Nat
    BY <2>1, <1>7, MulNat
  <2>3. ByteAt(pos) \in Nat /\ ByteAt(pos + 1) \in Nat /\ ByteBase * ByteAt(pos + 1) \in Nat
    <3>1. pos \in Nat /\ pos + 1 \in Nat /\ ByteBase \in Nat
      BY RansAssumption, BitCoderAssumption DEF IInv, TypeOK
    <3>2. ByteAt(pos) \in Nat /\ ByteAt(pos + 1) \in Nat
      BY <3>1, ByteAtNat DEF IInv
    <3> QED BY <3>1, <3>2, MulNat
  <2> QED BY <2>1, <2>2, <2>3, <1>1, <1>5, <1>9
<1>11. phase' = "decode"
  BY <1>1, <1>7, <1>10
<1>12. pos' = (ReadUpTo(Len(decoded)))'
  <2>1. StateSize' = StateSize
    BY <1>1 DEF StateSize
  <2>2. pos' = StateSize + 2 * (Len(chunks) - n)
    <3> HIDE DEF n
    <3> QED BY <1>1, <1>3, <1>7, <1>8
  <2> QED BY <2>1, <2>2, <1>1 DEF ReadUpTo
<1>13. DecodeInv'
  <2>1. StateSize' = StateSize
    BY <1>1 DEF StateSize
  <2>2. \A j \in 1 .. Len(decoded) : decoded[j] = rec[j].bit
    BY DEF RoundTripInv, DecodeInv
  <2> QED BY <2>1, <2>2, <1>1, <1>2, <1>3, <1>5, <1>10, <1>11, <1>12 DEF DecodeInv
<1> QED BY <1>4, <1>13 DEF RoundTripInv

LEMMA RoundTripStutter == RoundTripInv /\ UNCHANGED vars => RoundTripInv'
<1> SUFFICES ASSUME RoundTripInv, UNCHANGED vars PROVE RoundTripInv'
  OBVIOUS
<1> USE DEF vars, encVars, decVars, RoundTripInv
<1>1. \A k \in (todo + 1) .. Len(rec) : Coded(k) => Coded(k)'
  BY DEF Coded
<1>2. TraceInv'
  BY <1>1 DEF TraceInv, AtPoint, HasPushed
<1>3. ModelsInv'
  BY DEF ModelsInv
<1>4. /\ StateSize' = StateSize
      /\ (Prefix(StateSize - pos))' = Prefix(StateSize - pos)
      /\ (ReadUpTo(Len(decoded)))' = ReadUpTo(Len(decoded))
      /\ (ReadUpTo(Len(decoded) - 1))' = ReadUpTo(Len(decoded) - 1)
      /\ Decoding' = Decoding
  BY DEF StateSize, Prefix, ReadUpTo, Decoding
<1>5. DecodeInv'
  BY <1>4 DEF DecodeInv
<1> QED BY <1>2, <1>3, <1>5

--------------------------------------------------------------------------------
(* Results about the round trip *)

\* The decoder runs through the points of the encoder in the other direction.
THEOREM RoundTrip == Spec => [](IInv /\ RoundTripInv)
<1>1. IInv /\ RoundTripInv /\ [Next]_vars => RoundTripInv'
  BY RoundTripRecord, RoundTripStartFlush, RoundTripPushChunk, RoundTripPutBit, RoundTripFlush,
     RoundTripOpen, RoundTripDecodeBit, RoundTripRefill, RoundTripStutter DEF Next
<1> QED BY InitIInv, StepIInv, RoundTripInit, <1>1, PTL DEF Spec

\* Between two bits the decoder has the state, the model and the reading position that
\* belong to the encoder's point, for every base, scale, model and sequence of bits.
THEOREM Retraces == Spec => []DecoderRetraces
<1>1. IInv /\ RoundTripInv => DecoderRetraces
  BY DEF RoundTripInv, DecodeInv, DecoderRetraces, ReadUpTo
<1> QED BY RoundTrip, <1>1, PTL

\* Every section decodes to the bits that were recorded.
THEOREM BitsDecoded == Spec => []DecodesRecordedBits
<1>1. RoundTripInv => DecodesRecordedBits
  BY DEF RoundTripInv, DecodeInv, DecodesRecordedBits
<1> QED BY RoundTrip, <1>1, PTL

\* The decoder never needs a byte behind the section, and has read it all at the end.
THEOREM ConsumedExactly == Spec => []ExactConsumption
<1>1. IInv /\ RoundTripInv => ExactConsumption
  <2> SUFFICES ASSUME IInv, RoundTripInv, phase \in {"open", "decode"} PROVE ExactConsumption
    BY DEF ExactConsumption
  <2>1. Decoding
    BY DEF Decoding
  <2>2. /\ todo = 0 /\ phase # "record" /\ StateSize \in {3, 4} /\ Len(chunks) \in Nat
        /\ Len(out) = StateSize + 2 * Len(chunks)
    BY <2>1, DecodingFacts, SectionBytes
  <2>3. CASE phase = "open"
    BY <2>2, <2>3 DEF RoundTripInv, DecodeInv, ExactConsumption, IInv, TypeOK
  <2>4. CASE phase = "decode"
    <3>1. Len(decoded) \in 0 .. Len(rec)
      BY DEF IInv, TypeOK
    <3>2. trace[Len(decoded)].pushed \in Nat
      BY <3>1, <2>2, PointFacts DEF RoundTripInv
    <3>3. dx = trace[Len(decoded)].state /\ pos = StateSize + 2 * (Len(chunks) - trace[Len(decoded)].pushed)
      BY <2>4 DEF RoundTripInv, DecodeInv, ReadUpTo
    <3>4. trace[Len(rec)] = [state |-> L, pushed |-> 0]
      BY <2>2 DEF RoundTripInv, TraceInv
    <3>5. PICK h, m, k : h = StateSize /\ m = Len(chunks) /\ k = trace[Len(decoded)].pushed
      OBVIOUS
    <3>6. h \in Nat /\ m \in Nat /\ k \in Nat
      BY <2>2, <3>2, <3>5
    <3>7. pos = h + 2 * (m - k) /\ Len(out) = h + 2 * m
      BY <2>2, <3>3, <3>5
    <3>8. pos <= Len(out)
      BY <3>6, <3>7
    <3>9. Len(decoded) = Len(rec) => pos = Len(out) /\ dx = L
      <4> SUFFICES ASSUME Len(decoded) = Len(rec) PROVE pos = Len(out) /\ dx = L
        OBVIOUS
      <4>1. k = 0 /\ dx = L
        BY <3>3, <3>4, <3>5
      <4> QED BY <3>6, <3>7, <4>1
    <3> QED BY <3>8, <3>9 DEF ExactConsumption
  <2> QED BY <2>3, <2>4
<1> QED BY RoundTrip, <1>1, PTL

--------------------------------------------------------------------------------
(* Induction *)

\* A set of natural numbers that is not empty has a least element.
LEMMA LeastElement ==
  ASSUME NEW T \in SUBSET Nat, T # {}
  PROVE  \E n \in T : \A m \in T : n <= m
<1>1. PICK E : E = OpToRel(<, Nat)
  OBVIOUS
<1>2. IsWellFoundedOn(E, Nat)
  BY <1>1, NatLessThanWellFounded
<1>3. PICK n \in T : \A m \in T : ~(<<m, n>> \in E)
  BY <1>2, WFMin
<1>4. \A m, k \in Nat : <<m, k>> \in E <=> m < k
  BY <1>1 DEF OpToRel
<1>5. ASSUME NEW m \in T PROVE n <= m
  <2>1. ~(m < n)
    BY <1>3, <1>4
  <2> QED
    BY <2>1
<1> QED BY <1>5

\* Induction on the natural numbers, for a property given as a set.
LEMMA SetInduction ==
  ASSUME NEW T, 0 \in T, \A n \in Nat : n \in T => n + 1 \in T
  PROVE  Nat \subseteq T
<1> SUFFICES ASSUME ~(Nat \subseteq T) PROVE FALSE
  OBVIOUS
<1>1. PICK n \in Nat \ T : \A m \in Nat \ T : n <= m
  BY LeastElement
<1>2. n # 0
  OBVIOUS
<1>3. n - 1 \in Nat /\ n - 1 \in T
  BY <1>1, <1>2
<1>4. (n - 1) + 1 = n
  OBVIOUS
<1> QED BY <1>1, <1>3, <1>4

--------------------------------------------------------------------------------
(* The number that a sequence of bytes stands for *)

\* f[j] is the number of the first j bytes.
Reads(s, f) == /\ f \in [0 .. Len(s) -> Nat]
               /\ f[0] = 0
               /\ \A j \in 1 .. Len(s) : f[j] = f[j - 1] * ByteBase + s[j]

Numbers(s) == CHOOSE f : Reads(s, f)
Val(s) == Numbers(s)[Len(s)]

\* Every sequence of bytes can be read as a number, prefix by prefix.
LEMMA PrefixesExist ==
  \A s \in Seq(Bytes) : \E f : Reads(s, f)
<1> DEFINE T == {n \in Nat : \A s \in Seq(Bytes) : Len(s) = n => \E f : Reads(s, f)}
<1>1. 0 \in T
  <2> SUFFICES ASSUME NEW s \in Seq(Bytes), Len(s) = 0 PROVE \E f : Reads(s, f)
    OBVIOUS
  <2>1. Reads(s, [j \in 0 .. 0 |-> 0])
    BY DEF Reads
  <2> QED
    BY <2>1
<1>2. ASSUME NEW n \in Nat, n \in T PROVE n + 1 \in T
  <2> SUFFICES ASSUME NEW s \in Seq(Bytes), Len(s) = n + 1 PROVE \E f : Reads(s, f)
    OBVIOUS
  <2>1. PICK t : t = [i \in 1 .. n |-> s[i]]
    OBVIOUS
  <2>2. /\ t \in Seq(Bytes) /\ Len(t) = n
        /\ \A i \in 1 .. n : t[i] = s[i]
    BY <2>1
  <2>3. PICK f : Reads(t, f)
    BY <1>2, <2>2
  <2>4. /\ f \in [0 .. n -> Nat] /\ f[0] = 0
        /\ \A j \in 1 .. n : f[j] = f[j - 1] * ByteBase + s[j]
    BY <2>2, <2>3 DEF Reads
  <2>5. s[n + 1] \in Nat /\ f[n] \in Nat /\ ByteBase \in Nat
    BY <2>4, BitCoderAssumption DEF Bytes
  <2>6. PICK v : v = f[n] * ByteBase + s[n + 1]
    OBVIOUS
  <2>7. v \in Nat
    BY <2>5, <2>6
  <2>8. PICK g : g = [j \in 0 .. (n + 1) |-> IF j <= n THEN f[j] ELSE v]
    OBVIOUS
  <2>9. g \in [0 .. (n + 1) -> Nat] /\ g[0] = 0
    BY <2>4, <2>7, <2>8
  <2>10. ASSUME NEW j \in 1 .. (n + 1) PROVE g[j] = g[j - 1] * ByteBase + s[j]
    <3>1. CASE j <= n
      <4>1. g[j] = f[j] /\ g[j - 1] = f[j - 1]
        BY <2>8, <3>1
      <4> QED
        BY <2>4, <3>1, <4>1
    <3>2. CASE j = n + 1
      <4>1. g[j] = v /\ g[j - 1] = f[n] /\ s[j] = s[n + 1]
        BY <2>8, <3>2
      <4> QED
        BY <2>6, <4>1
    <3> QED
      BY <3>1, <3>2
  <2> QED
    BY <2>9, <2>10 DEF Reads
<1> HIDE DEF T
<1>3. Nat \subseteq T
  BY <1>1, <1>2, SetInduction
<1> QED
  BY <1>3 DEF T

\* Sequences that agree up to n read as the same number up to n.
LEMMA PrefixesUnique ==
  ASSUME NEW s \in Seq(Bytes), NEW t \in Seq(Bytes), NEW f, NEW g, Reads(s, f), Reads(t, g),
         NEW n \in Nat, n <= Len(s), n <= Len(t), \A j \in 1 .. n : s[j] = t[j]
  PROVE  f[n] = g[n]
<1> DEFINE T == {j \in Nat : j <= n => f[j] = g[j]}
<1>1. 0 \in T
  BY DEF Reads
<1>2. ASSUME NEW j \in Nat, j \in T PROVE j + 1 \in T
  <2> SUFFICES ASSUME j + 1 <= n PROVE f[j + 1] = g[j + 1]
    OBVIOUS
  <2>1. j + 1 \in 1 .. Len(s) /\ j + 1 \in 1 .. Len(t) /\ j + 1 \in 1 .. n /\ (j + 1) - 1 = j
    OBVIOUS
  <2>2. f[j + 1] = f[j] * ByteBase + s[j + 1] /\ g[j + 1] = g[j] * ByteBase + t[j + 1]
    BY <2>1 DEF Reads
  <2>3. f[j] = g[j]
    BY <1>2
  <2> QED
    BY <2>1, <2>2, <2>3
<1> HIDE DEF T
<1>3. Nat \subseteq T
  BY <1>1, <1>2, SetInduction
<1> QED
  BY <1>3 DEF T

\* Numbers(s) is such a reading.
LEMMA PrefixFacts ==
  ASSUME NEW s \in Seq(Bytes)
  PROVE  /\ Reads(s, Numbers(s)) /\ Val(s) \in Nat
<1>1. Reads(s, Numbers(s))
  BY PrefixesExist DEF Numbers
<1>2. Len(s) \in 0 .. Len(s)
  OBVIOUS
<1> QED
  BY <1>1, <1>2 DEF Reads, Val

\* The value of a sequence, built from the empty one a byte at a time.
LEMMA ValEmpty == Val(<<>>) = 0
<1>1. <<>> \in Seq(Bytes) /\ Len(<<>>) = 0
  OBVIOUS
<1>2. Reads(<<>>, Numbers(<<>>))
  BY <1>1, PrefixFacts
<1>3. Numbers(<<>>)[0] = 0
  BY <1>2 DEF Reads
<1> QED
  BY <1>1, <1>3 DEF Val

LEMMA ValAppend ==
  ASSUME NEW s \in Seq(Bytes), NEW d \in Bytes
  PROVE  /\ Append(s, d) \in Seq(Bytes)
         /\ Val(Append(s, d)) = Val(s) * ByteBase + d
<1>1. PICK t : t = Append(s, d)
  OBVIOUS
<1>2. /\ t \in Seq(Bytes) /\ Len(t) = Len(s) + 1 /\ t[Len(t)] = d
      /\ \A j \in 1 .. Len(s) : t[j] = s[j]
  BY <1>1, AppendProperties
<1>3. Reads(s, Numbers(s)) /\ Reads(t, Numbers(t))
  BY <1>2, PrefixFacts
<1>4. Numbers(t)[Len(t)] = Numbers(t)[Len(t) - 1] * ByteBase + d
  BY <1>2, <1>3 DEF Reads
<1>5. Numbers(t)[Len(s)] = Numbers(s)[Len(s)]
  <2>1. Len(s) \in Nat /\ Len(s) <= Len(t)
    BY <1>2
  <2> QED
    BY <1>2, <1>3, <2>1, PrefixesUnique
<1>6. Len(t) - 1 = Len(s)
  BY <1>2
<1> QED
  BY <1>1, <1>2, <1>4, <1>5, <1>6 DEF Val

--------------------------------------------------------------------------------
(* Runs of one byte, and the carry *)

Run(n, d) == [i \in 1 .. n |-> d]

\* A run is extended at its end.
LEMMA RunGrows ==
  ASSUME NEW s \in Seq(Bytes), NEW n \in Nat, NEW d \in Bytes
  PROVE  /\ s \o Run(n, d) \in Seq(Bytes)
         /\ s \o Run(n + 1, d) = Append(s \o Run(n, d), d)
         /\ Run(0, d) = <<>> /\ s \o Run(0, d) = s
         /\ Len(s \o Run(n, d)) = Len(s) + n
<1>1. /\ Run(n, d) \in Seq(Bytes) /\ Len(Run(n, d)) = n
      /\ Run(n + 1, d) \in Seq(Bytes) /\ Len(Run(n + 1, d)) = n + 1
  BY DEF Run
<1>2. Run(n + 1, d) = Append(Run(n, d), d)
  BY <1>1 DEF Run
<1>3. Run(0, d) = <<>>
  BY DEF Run
<1>4. PICK u : u = Run(n, d)
  OBVIOUS
<1>5. u \in Seq(Bytes) /\ Len(u) = n
  BY <1>1, <1>4
<1>6. s \o Append(u, d) = Append(s \o u, d) /\ s \o u \in Seq(Bytes) /\ Len(s \o u) = Len(s) + n
  BY <1>5
<1>7. s \o <<>> = s
  OBVIOUS
<1>8. s \o Run(n + 1, d) = s \o Append(u, d)
  BY <1>2, <1>4
<1> QED
  BY <1>3, <1>4, <1>6, <1>7, <1>8

\* shift_low: a carry into a byte and a run of zeros make the number one greater than the byte
\* and the run of highest digits would.
LEMMA CarryRun ==
  ASSUME NEW s \in Seq(Bytes), NEW t \in Seq(Bytes), Val(s) = Val(t) + 1
  PROVE  \A n \in Nat : Val(s \o Run(n, 0)) = Val(t \o Run(n, ByteBase - 1)) + 1
<1> DEFINE T == {n \in Nat : Val(s \o Run(n, 0)) = Val(t \o Run(n, ByteBase - 1)) + 1}
<1>1. 0 \in Bytes /\ ByteBase - 1 \in Bytes /\ ByteBase \in Nat
  BY BitCoderAssumption DEF Bytes
<1>2. 0 \in T
  BY <1>1, RunGrows
<1>3. ASSUME NEW n \in Nat, n \in T PROVE n + 1 \in T
  <2>1. PICK a, b : a = s \o Run(n, 0) /\ b = t \o Run(n, ByteBase - 1)
    OBVIOUS
  <2>2. /\ a \in Seq(Bytes) /\ s \o Run(n + 1, 0) = Append(a, 0)
        /\ b \in Seq(Bytes) /\ t \o Run(n + 1, ByteBase - 1) = Append(b, ByteBase - 1)
    <3>1. a \in Seq(Bytes) /\ s \o Run(n + 1, 0) = Append(a, 0)
      BY <1>1, <2>1, RunGrows
    <3>2. b \in Seq(Bytes) /\ t \o Run(n + 1, ByteBase - 1) = Append(b, ByteBase - 1)
      BY <1>1, <2>1, RunGrows
    <3> QED
      BY <3>1, <3>2
  <2>3. /\ Val(Append(a, 0)) = Val(a) * ByteBase + 0
        /\ Val(Append(b, ByteBase - 1)) = Val(b) * ByteBase + (ByteBase - 1)
    BY <1>1, <2>2, ValAppend
  <2>4. PICK h : h = Val(b)
    OBVIOUS
  <2>5. Val(a) = h + 1 /\ h \in Nat
    BY <1>3, <2>1, <2>2, <2>4, PrefixFacts
  <2>6. (h + 1) * ByteBase + 0 = (h * ByteBase + (ByteBase - 1)) + 1
    BY <1>1, <2>5
  <2>7. Val(s \o Run(n + 1, 0)) = Val(t \o Run(n + 1, ByteBase - 1)) + 1
    BY <2>2, <2>3, <2>4, <2>5, <2>6
  <2> QED
    BY <2>7
<1> HIDE DEF T
<1>4. Nat \subseteq T
  BY <1>2, <1>3, SetInduction
<1> QED
  BY <1>4 DEF T

--------------------------------------------------------------------------------
(* shift_low *)

\* What the sizes of low_ and of the range have to do with a digit.
LEMMA TopFacts ==
  /\ ByteBase \in Nat /\ ByteBase >= 2
  /\ Bottom \in Nat /\ Bottom >= ByteBase
  /\ Top \in Nat /\ Top = Bottom * ByteBase /\ Top > Bottom
<1>1. ByteBase \in Nat /\ ByteBase >= 2
  BY BitCoderAssumption
<1>2. PICK d, e : d = ByteBase * ByteBase /\ e = d * ByteBase
  OBVIOUS
<1>3. d \in Nat /\ d >= ByteBase
  BY <1>1, <1>2, MulMono
<1>4. e \in Nat /\ e >= d
  <2>1. e \in Nat
    BY <1>1, <1>2, <1>3
  <2>2. 1 * d <= ByteBase * d
    BY <1>1, <1>3, MulMono
  <2>3. ByteBase * d = e
    BY <1>1, <1>2, <1>3, MulNat
  <2> QED
    BY <1>3, <2>1, <2>2, <2>3
<1>5. Bottom = e /\ Top = e * ByteBase
  BY <1>2 DEF Bottom, Top
<1>6. e * ByteBase \in Nat /\ e * ByteBase >= 2 * e
  <2>1. 2 * e <= ByteBase * e
    BY <1>1, <1>4, MulMono
  <2>2. ByteBase * e = e * ByteBase /\ e * ByteBase \in Nat
    BY <1>1, <1>4, MulNat
  <2> QED
    BY <2>1, <2>2
<1> QED
  BY <1>1, <1>3, <1>4, <1>5, <1>6

\* A number below Top has a highest digit, which shift_low moves to the cache.
LEMMA TopDigit ==
  ASSUME NEW y \in 0 .. (Top - 1)
  PROVE  /\ y \div Bottom \in Bytes
         /\ y % Bottom \in 0 .. (Bottom - 1)
         /\ y = (y \div Bottom) * Bottom + (y % Bottom)
         /\ (y % Bottom) * ByteBase \in 0 .. (Top - ByteBase)
         /\ y * ByteBase = (y \div Bottom) * Top + (y % Bottom) * ByteBase
         /\ (y * ByteBase) % Top = (y % Bottom) * ByteBase
<1>1. PICK b, t, q, m : b = Bottom /\ t = Top /\ q = y \div Bottom /\ m = y % Bottom
  OBVIOUS
<1>2. /\ ByteBase \in Nat /\ ByteBase >= 2 /\ b \in Nat /\ b > 0 /\ t \in Nat
      /\ t = b * ByteBase
  BY <1>1, TopFacts
<1>3. q \in Nat /\ m \in 0 .. (b - 1) /\ y = b * q + m /\ b * q = q * b /\ m \in Nat
  <2>1. y \in Nat
    BY <1>1, <1>2
  <2>2. q \in Nat /\ m \in 0 .. (b - 1) /\ y = b * q + m
    BY <1>1, <1>2, <2>1, DivMod
  <2> QED
    BY <1>2, <2>2, MulNat
<1>4. q < ByteBase
  <2> SUFFICES ASSUME q >= ByteBase PROVE FALSE
    BY <1>2, <1>3
  <2>1. ByteBase * b <= q * b
    BY <1>2, <1>3, MulMono
  <2>2. ByteBase * b = t
    BY <1>2, MulNat
  <2> QED
    BY <1>1, <1>2, <1>3, <2>1, <2>2
<1>5. m * ByteBase \in 0 .. (t - ByteBase)
  <2>1. m * ByteBase <= (b - 1) * ByteBase /\ m * ByteBase \in Nat
    BY <1>2, <1>3, MulMono
  <2>2. (b - 1) * ByteBase = b * ByteBase - ByteBase
    BY <1>2
  <2> QED
    BY <1>2, <2>1, <2>2
<1>6. y * ByteBase = q * t + m * ByteBase
  <2>1. y * ByteBase = (q * b) * ByteBase + m * ByteBase
    BY <1>2, <1>3, MulNat, MulAdd
  <2>2. (q * b) * ByteBase = q * (b * ByteBase)
    BY <1>2, <1>3, MulAssoc
  <2> QED
    BY <1>2, <2>1, <2>2
<1>7. (q * t + m * ByteBase) % t = m * ByteBase
  <2>1. PICK r : r = m * ByteBase
    OBVIOUS
  <2>2. r \in 0 .. (t - 1)
    BY <1>2, <1>5, <2>1
  <2>3. (q * t + r) % t = r
    BY <1>2, <1>3, <2>2, DivModUnique
  <2> QED
    BY <2>1, <2>3
<1> QED
  BY <1>1, <1>2, <1>3, <1>4, <1>5, <1>6, <1>7 DEF Bytes

\* The digits on their way: what is in out_, the cache and the run that follows it.
Waiting == (out \o <<cache>>) \o Run(cacheSize - 1, ByteBase - 1)

EncoderTyped == /\ out \in Seq(Bytes)
                /\ cache \in Bytes
                /\ cacheSize \in Nat \ {0}
                /\ low \in 0 .. (2 * Top - 1)
                /\ low >= Top => cache < ByteBase - 1

\* The carry of low, and low without it.
Carry == IF low >= Top THEN 1 ELSE 0
Rest == low - Carry * Top

\* The digit shift_low takes, and what it leaves in low_.
LEMMA RestFacts ==
  ASSUME EncoderTyped
  PROVE  /\ Carry \in {0, 1} /\ Rest \in 0 .. (Top - 1) /\ low = Carry * Top + Rest
         /\ low \div Top = Carry
         /\ (low \div Bottom) % ByteBase = Rest \div Bottom
         /\ (low * ByteBase) % Top = (Rest % Bottom) * ByteBase
<1>1. PICK b, t, c, y, l : b = Bottom /\ t = Top /\ c = Carry /\ y = Rest /\ l = low
  OBVIOUS
<1>2. /\ ByteBase \in Nat /\ ByteBase >= 2 /\ b \in Nat /\ b > 0 /\ t \in Nat
      /\ t = b * ByteBase /\ t > 0
  BY <1>1, TopFacts
<1>3. c \in {0, 1} /\ y \in 0 .. (t - 1) /\ l = c * t + y
  BY <1>1, <1>2 DEF EncoderTyped, Carry, Rest
<1>4. l \div t = c
  BY <1>2, <1>3, DivModUnique
<1>5. /\ y \div b \in Bytes /\ y % b \in 0 .. (b - 1) /\ y = (y \div b) * b + (y % b)
      /\ (y * ByteBase) % t = (y % b) * ByteBase /\ (y % b) * ByteBase \in 0 .. (t - ByteBase)
      /\ y * ByteBase = (y \div b) * t + (y % b) * ByteBase
  BY <1>1, <1>3, TopDigit
<1>6. PICK q, m : q = y \div b /\ m = y % b
  OBVIOUS
<1>7. q \in Nat /\ q < ByteBase /\ m \in 0 .. (b - 1) /\ y = q * b + m
  BY <1>2, <1>5, <1>6 DEF Bytes
<1>8. l \div b = c * ByteBase + q
  <2>1. c * t = (c * ByteBase) * b
    BY <1>2, <1>3
  <2>2. l = (c * ByteBase + q) * b + m
    <3>1. (c * ByteBase + q) * b = (c * ByteBase) * b + q * b
      BY <1>2, <1>3, <1>7, MulAdd
    <3>2. (c * ByteBase) * b \in Nat /\ q * b \in Nat
      BY <1>2, <1>3, <1>7
    <3> QED
      BY <1>2, <1>3, <1>7, <2>1, <3>1, <3>2
  <2>3. c * ByteBase + q \in Nat
    BY <1>2, <1>3, <1>7
  <2> QED
    BY <1>2, <1>7, <2>2, <2>3, DivModUnique
<1>9. (c * ByteBase + q) % ByteBase = q
  BY <1>2, <1>3, <1>7, DivModUnique
<1>10. (l * ByteBase) % t = m * ByteBase
  <2>1. l * ByteBase = (c * t) * ByteBase + y * ByteBase
    <3>1. c * t \in Nat /\ y \in Nat
      BY <1>2, <1>3
    <3> QED
      BY <1>2, <1>3, <3>1, MulAdd
  <2>2. (c * t) * ByteBase = (c * ByteBase) * t
    BY <1>2, <1>3, MulAssoc
  <2>3. l * ByteBase = (c * ByteBase + q) * t + m * ByteBase
    <3>1. (c * ByteBase + q) * t = (c * ByteBase) * t + q * t
      BY <1>2, <1>3, <1>7, MulAdd
    <3>2. (c * ByteBase) * t \in Nat /\ q * t \in Nat /\ m * ByteBase \in Nat
      BY <1>2, <1>3, <1>7
    <3> QED
      BY <1>5, <1>6, <2>1, <2>2, <3>1, <3>2
  <2>4. PICK r, p : r = m * ByteBase /\ p = c * ByteBase + q
    OBVIOUS
  <2>5. p \in Nat /\ r \in 0 .. (t - 1)
    BY <1>2, <1>3, <1>5, <1>6, <1>7, <2>4
  <2>6. (p * t + r) % t = r
    BY <1>2, <2>5, DivModUnique
  <2> QED
    BY <2>3, <2>4, <2>6
<1> QED
  BY <1>1, <1>3, <1>4, <1>6, <1>8, <1>9, <1>10

\* What shift_low writes and keeps: the digits on their way and low_ stand for the same number,
\* shifted by one digit.
Value == Val(Waiting)

\* The digits on their way are the written ones, cache_ and the run.
LEMMA WaitingTyped ==
  ASSUME EncoderTyped
  PROVE  /\ Waiting \in Seq(Bytes) /\ Value \in Nat
         /\ out \o <<cache>> \in Seq(Bytes)
         /\ Len(Waiting) = Len(out) + cacheSize
<1>1. out \o <<cache>> = Append(out, cache) /\ Len(Append(out, cache)) = Len(out) + 1
  BY DEF EncoderTyped
<1>2. Append(out, cache) \in Seq(Bytes)
  BY DEF EncoderTyped
<1>3. ByteBase - 1 \in Bytes /\ cacheSize - 1 \in Nat
  BY TopFacts DEF Bytes, EncoderTyped
<1>4. PICK s : s = out \o <<cache>>
  OBVIOUS
<1>5. s \o Run(cacheSize - 1, ByteBase - 1) \in Seq(Bytes)
      /\ Len(s \o Run(cacheSize - 1, ByteBase - 1)) = Len(s) + (cacheSize - 1)
  BY <1>1, <1>2, <1>3, <1>4, RunGrows
<1>6. Len(s) = Len(out) + 1 /\ cacheSize \in Nat /\ Len(out) \in Nat
  BY <1>1, <1>4 DEF EncoderTyped
<1>7. Waiting = s \o Run(cacheSize - 1, ByteBase - 1)
  BY <1>4 DEF Waiting
<1>8. PICK w : w = Waiting
  OBVIOUS
<1>9. w \in Seq(Bytes) /\ Len(w) = Len(s) + (cacheSize - 1)
  BY <1>5, <1>7, <1>8
<1>91. PICK l, k, n : l = Len(w) /\ k = Len(out) /\ n = cacheSize
  OBVIOUS
<1>92. l = (k + 1) + (n - 1) /\ k \in Nat /\ n \in Nat
  BY <1>6, <1>9, <1>91
<1>93. Len(w) = Len(out) + cacheSize
  BY <1>91, <1>92
<1>10. Val(w) \in Nat
  BY <1>9, PrefixFacts
<1> QED
  BY <1>1, <1>2, <1>8, <1>9, <1>93, <1>10 DEF Value

\* shift_low, whichever branch it takes, moves a digit from low_ to the digits on their way.
LEMMA ShiftLowFacts ==
  ASSUME EncoderTyped, ShiftLow
  PROVE  /\ out' \in Seq(Bytes) /\ cache' \in Bytes /\ cacheSize' \in Nat \ {0}
         /\ low' \in 0 .. (Top - 1) /\ low' = (Rest % Bottom) * ByteBase
         /\ Len(out') + cacheSize' = Len(out) + cacheSize + 1
         /\ Value' * Top + low' = (Value * Top + low) * ByteBase
         /\ \/ Carry = 0 /\ Rest >= Top - Bottom /\ cache' = cache
            \/ /\ Carry = 1 \/ Rest < Top - Bottom
               /\ cache' = Rest \div Bottom
               /\ cacheSize' = 1
<1>1. PICK o, k, n, c, y, t, b, v :
        /\ o = out /\ k = cache /\ n = cacheSize - 1 /\ c = Carry /\ y = Rest
        /\ t = Top /\ b = Bottom /\ v = Value
  OBVIOUS
<1>2. /\ o \in Seq(Bytes) /\ k \in Bytes /\ n \in Nat /\ cacheSize = n + 1
      /\ c \in {0, 1} /\ y \in 0 .. (t - 1) /\ low = c * t + y
      /\ c = 1 => k < ByteBase - 1
  BY <1>1, RestFacts DEF EncoderTyped, Carry
<1>3. /\ ByteBase \in Nat /\ ByteBase >= 2 /\ b \in Nat /\ b >= ByteBase /\ t \in Nat /\ t > b
      /\ t = b * ByteBase
  BY <1>1, TopFacts
<1>4. PICK q, m : q = y \div b /\ m = (y % b) * ByteBase
  OBVIOUS
<1>5. /\ q \in Bytes /\ m \in 0 .. (t - 1) /\ y * ByteBase = q * t + m
      /\ (low \div Bottom) % ByteBase = q /\ low \div Top = c /\ (low * ByteBase) % Top = m
      /\ y = q * b + (y % b) /\ y % b \in 0 .. (b - 1)
  <2>1. /\ y \div b \in Bytes /\ (y % b) * ByteBase \in 0 .. (t - ByteBase)
        /\ y * ByteBase = (y \div b) * t + (y % b) * ByteBase
        /\ y = (y \div b) * b + (y % b) /\ y % b \in 0 .. (b - 1)
    BY <1>1, <1>2, TopDigit
  <2>2. /\ low \div Top = c /\ (low \div Bottom) % ByteBase = y \div b
        /\ (low * ByteBase) % Top = (y % b) * ByteBase
    BY <1>1, RestFacts
  <2> QED
    BY <1>3, <1>4, <2>1, <2>2
<1>6. q \in Nat /\ q < ByteBase /\ m \in Nat /\ v \in Nat
  BY <1>1, <1>3, <1>5, WaitingTyped DEF Bytes
<1>7. low' = m
  BY <1>5 DEF ShiftLow
<1>8. ByteBase - 1 \in Bytes /\ 0 \in Bytes
  BY <1>3 DEF Bytes
<1>9. PICK s : s = Append(o, k)
  OBVIOUS
<1>10. /\ s \in Seq(Bytes) /\ o \o <<k>> = s
       /\ Waiting = s \o Run(n, ByteBase - 1)
       /\ Val(s) = Val(o) * ByteBase + k
       /\ Len(s) = Len(o) + 1
  <2>1. o \o <<k>> = s
    BY <1>2, <1>9
  <2>2. s \in Seq(Bytes) /\ Val(s) = Val(o) * ByteBase + k
    BY <1>2, <1>9, ValAppend
  <2>3. Len(s) = Len(o) + 1
    BY <1>2, <1>9
  <2> QED
    BY <1>1, <2>1, <2>2, <2>3 DEF Waiting
\* The digits are written, with the carry.
<1>11. CASE low < Top - Bottom \/ low >= Top
  <2>1. c = 1 \/ y < t - b
    BY <1>1, <1>2, <1>3, <1>11 DEF Carry
  <2>2. PICK r : r = s \o Run(n, ByteBase - 1)
    OBVIOUS
  <2>3. /\ out' \in Seq(Bytes) /\ Val(out') = v + c /\ Len(out') = Len(o) + n + 1
    <3>1. out' = (o \o <<(k + c) % ByteBase>>) \o Run(n, (ByteBase - 1 + c) % ByteBase)
      BY <1>1, <1>5, <1>11 DEF ShiftLow, Run
    <3>2. CASE c = 0
      <4>1. (k + c) % ByteBase = k /\ (ByteBase - 1 + c) % ByteBase = ByteBase - 1
        BY <1>2, <1>3, <3>2 DEF Bytes
      <4>2. out' = s \o Run(n, ByteBase - 1)
        BY <1>10, <3>1, <4>1
      <4>3. out' \in Seq(Bytes) /\ Len(out') = Len(s) + n
        BY <1>2, <1>8, <1>10, <4>2, RunGrows
      <4>4. v = Val(out')
        BY <1>1, <1>10, <4>2 DEF Value
      <4> QED
        BY <1>2, <1>6, <1>10, <3>2, <4>3, <4>4
    <3>3. CASE c = 1
      <4>1. (k + c) % ByteBase = k + 1 /\ (ByteBase - 1 + c) % ByteBase = 0 /\ k + 1 \in Bytes
        <5>1. k + 1 \in 0 .. (ByteBase - 1) /\ ByteBase - 1 + 1 = ByteBase
          BY <1>2, <1>3, <3>3 DEF Bytes
        <5>2. (k + 1) % ByteBase = k + 1 /\ ByteBase % ByteBase = 0
          BY <1>3, <5>1
        <5> QED
          BY <3>3, <5>1, <5>2 DEF Bytes
      <4>2. PICK u : u = Append(o, k + 1)
        OBVIOUS
      <4>3. u \in Seq(Bytes) /\ Val(u) = Val(o) * ByteBase + (k + 1) /\ o \o <<k + 1>> = u
        <5>1. u \in Seq(Bytes) /\ Val(u) = Val(o) * ByteBase + (k + 1)
          BY <1>2, <4>1, <4>2, ValAppend
        <5>2. o \o <<k + 1>> = u
          BY <1>2, <4>2
        <5> QED
          BY <5>1, <5>2
      <4>4. Len(u) = Len(o) + 1
        BY <1>2, <4>2
      <4>5. Val(u) = Val(s) + 1
        <5>1. Val(o) * ByteBase \in Nat /\ k \in Nat
          BY <1>2, <1>3, PrefixFacts DEF Bytes
        <5> QED
          BY <1>10, <4>3, <5>1
      <4>6. out' = u \o Run(n, 0)
        BY <3>1, <4>1, <4>3
      <4>7. out' \in Seq(Bytes) /\ Len(out') = Len(u) + n
        BY <1>2, <1>8, <4>3, <4>6, RunGrows
      <4>8. Val(out') = Val(s \o Run(n, ByteBase - 1)) + 1
        BY <1>2, <1>10, <4>3, <4>5, <4>6, CarryRun
      <4>9. Val(s \o Run(n, ByteBase - 1)) = v
        BY <1>1, <1>10 DEF Value
      <4> QED
        BY <1>2, <3>3, <4>4, <4>7, <4>8, <4>9
    <3> QED
      BY <1>2, <3>2, <3>3
  <2>4. cache' = q /\ cacheSize' = 1
    BY <1>5, <1>11 DEF ShiftLow
  <2>5. Value' = (v + c) * ByteBase + q
    <3>1. PICK w : w = out'
      OBVIOUS
    <3>2. w \in Seq(Bytes) /\ Val(w) = v + c
      BY <2>3, <3>1
    <3>3. Append(w, q) \in Seq(Bytes) /\ Val(Append(w, q)) = (v + c) * ByteBase + q
      BY <1>5, <3>2, ValAppend
    <3>4. w \o <<q>> = Append(w, q)
      BY <3>2
    <3>5. Waiting' = Append(w, q) \o Run(0, ByteBase - 1)
      BY <2>4, <3>1, <3>4 DEF Waiting
    <3>6. Append(w, q) \o Run(0, ByteBase - 1) = Append(w, q)
      BY <1>8, <3>3, RunGrows
    <3> QED
      BY <3>3, <3>5, <3>6 DEF Value
  <2>6. Value' * Top + low' = (v * t + (c * t + y)) * ByteBase
    <3>1. ((v + c) * ByteBase + q) * t = ((v + c) * ByteBase) * t + q * t
      BY <1>2, <1>3, <1>6, MulAdd
    <3>2. ((v + c) * ByteBase) * t = ((v + c) * t) * ByteBase
      BY <1>2, <1>3, <1>6, MulAssoc
    <3>3. (v + c) * t = v * t + c * t
      BY <1>2, <1>3, <1>6, MulAdd
    <3>4. (v * t + (c * t + y)) * ByteBase = (v * t + c * t) * ByteBase + y * ByteBase
      <4>1. PICK d, e : d = v * t /\ e = c * t
        OBVIOUS
      <4>2. d \in Nat /\ e \in Nat /\ y \in Nat
        BY <1>2, <1>3, <1>6, <4>1
      <4>3. d + (e + y) = (d + e) + y /\ d + e \in Nat
        BY <4>2
      <4>4. ((d + e) + y) * ByteBase = (d + e) * ByteBase + y * ByteBase
        BY <1>3, <4>2, <4>3, MulAdd
      <4> QED
        BY <4>1, <4>3, <4>4
    <3>5. /\ ((v + c) * t) * ByteBase \in Nat /\ q * t \in Nat
      BY <1>2, <1>3, <1>6
    <3>6. Value' * Top + low' = ((v + c) * ByteBase + q) * t + m
      BY <1>1, <1>7, <2>5
    <3> QED
      BY <1>5, <1>6, <3>1, <3>2, <3>3, <3>4, <3>5, <3>6
  <2> QED
    BY <1>1, <1>2, <1>3, <1>4, <1>5, <1>7, <2>1, <2>3, <2>4, <2>6
\* The highest digit joins the run.
<1>12. CASE ~(low < Top - Bottom \/ low >= Top)
  <2>1. c = 0 /\ y >= t - b /\ low = y
    BY <1>1, <1>2, <1>3, <1>12 DEF Carry
  <2>2. out' = o /\ cache' = k /\ cacheSize' = n + 2
    BY <1>1, <1>2, <1>12 DEF ShiftLow
  <2>3. q = ByteBase - 1
    <3> SUFFICES ASSUME q <= ByteBase - 2 PROVE FALSE
      BY <1>3, <1>6
    <3>1. q * b <= (ByteBase - 2) * b
      BY <1>3, <1>6, MulMono
    <3>2. (ByteBase - 2) * b = t - b - b
      BY <1>3
    <3>3. PICK z, r : z = q * b /\ r = y % b
      OBVIOUS
    <3>4. b \in Nat /\ t \in Nat /\ z \in Nat /\ r \in 0 .. (b - 1) /\ y \in Nat
      BY <1>2, <1>3, <1>5, <1>6, <3>3, MulNat
    <3>5. y = z + r /\ y >= t - b
      BY <1>5, <2>1, <3>3
    <3>6. z <= t - b - b
      BY <3>1, <3>2, <3>3
    <3> QED
      BY <3>4, <3>5, <3>6
  <2>4. PICK r : r = s \o Run(n, ByteBase - 1)
    OBVIOUS
  <2>5. r \in Seq(Bytes) /\ s \o Run(n + 1, ByteBase - 1) = Append(r, ByteBase - 1)
    <3>1. s \in Seq(Bytes) /\ n \in Nat /\ ByteBase - 1 \in Bytes
      BY <1>2, <1>8, <1>10
    <3>2. /\ s \o Run(n, ByteBase - 1) \in Seq(Bytes)
          /\ s \o Run(n + 1, ByteBase - 1) = Append(s \o Run(n, ByteBase - 1), ByteBase - 1)
      BY <3>1, RunGrows
    <3> QED
      BY <2>4, <3>2
  <2>6. Val(Append(r, ByteBase - 1)) = Val(r) * ByteBase + q
    BY <1>8, <2>3, <2>5, ValAppend
  <2>7. Value' = v * ByteBase + q
    <3>1. Waiting' = s \o Run(n + 1, ByteBase - 1)
      <4>1. (n + 2) - 1 = n + 1
        BY <1>2
      <4> QED
        BY <1>10, <2>2, <4>1 DEF Waiting
    <3>2. v = Val(r)
      BY <1>1, <1>10, <2>4 DEF Value
    <3> QED
      BY <2>5, <2>6, <3>1, <3>2 DEF Value
  <2>8. Value' * Top + low' = (v * t + y) * ByteBase
    <3>1. (v * ByteBase + q) * t = (v * ByteBase) * t + q * t
      BY <1>3, <1>6, MulAdd
    <3>2. (v * ByteBase) * t = (v * t) * ByteBase /\ v * t \in Nat /\ (v * t) * ByteBase \in Nat
      BY <1>3, <1>6, MulAssoc, MulNat
    <3>3. (v * t + y) * ByteBase = (v * t) * ByteBase + y * ByteBase
      <4>1. y \in Nat
        BY <1>2, <1>3
      <4> QED
        BY <1>3, <3>2, <4>1, MulAdd
    <3>4. Value' * Top + low' = (v * ByteBase + q) * t + m
      BY <1>1, <1>7, <2>7
    <3>5. q * t \in Nat
      BY <1>3, <1>6
    <3> QED
      BY <1>5, <1>6, <3>1, <3>2, <3>3, <3>4, <3>5
  <2>9. Len(o) \in Nat
    BY <1>2
  <2> QED
    BY <1>1, <1>2, <1>4, <1>5, <1>7, <2>1, <2>2, <2>8, <2>9
<1> QED
  BY <1>11, <1>12

--------------------------------------------------------------------------------
(* The parts of the inductive invariant *)

RangeEncoding == {"encode", "renorm"}
RangeDecoding == {"open", "decode", "refill"}

\* The loops of encode_bit and flush.
RangesFit == /\ (phase = "renorm") <=> (range < Bottom)
             /\ (phase = "refill") <=> (drange < Bottom)
             /\ phase \in RangeEncoding => flushed = 0
             /\ phase = "flush" => flushed \in 1 .. 4
             /\ phase \in RangeDecoding => flushed = 5

CoderInv == RangeTypeOK /\ RangesFit /\ CarryAbsorbed

\* What the lemmas about shift_low assume of the encoder.
LEMMA CoderInvTyped ==
  ASSUME CoderInv
  PROVE  EncoderTyped
<1>1. low \in Nat /\ low + range <= 2 * Top /\ range >= 1 /\ range \in Nat
  BY TopFacts DEF CoderInv, RangeTypeOK, CarryAbsorbed
<1>2. low <= 2 * Top - 1
  BY <1>1, TopFacts
<1> QED
  BY <1>1, <1>2, TopFacts DEF CoderInv, RangeTypeOK, CarryAbsorbed, EncoderTyped

\* Both parts of a renormalised range are not empty.
LEMMA BoundFacts ==
  ASSUME NEW r \in Bottom .. (Top - 1), NEW p \in RangeProbs
  PROVE  Bound(r, p) \in 1 .. (r - 1)
<1>1. PICK b, t : b = Bottom /\ t = Top
  OBVIOUS
<1>2. b \in Nat /\ b > 0 /\ t \in Nat /\ P \in Nat /\ P >= 2 /\ r \in Nat /\ r >= b /\ b % P = 0
  BY <1>1, TopFacts, RangeAssumption
<1>3. p \in Nat /\ p >= 1 /\ p <= P - 1
  BY <1>2 DEF RangeProbs
<1>4. b >= P
  <2>1. b \div P \in Nat /\ b = P * (b \div P) + (b % P)
    BY <1>2, DivMod
  <2>2. PICK k : k = b \div P
    OBVIOUS
  <2>3. k \in Nat /\ b = P * k
    BY <1>2, <2>1, <2>2
  <2>4. k # 0
    BY <1>2, <2>3
  <2>5. 1 * P <= k * P
    BY <1>2, <2>3, <2>4, MulMono
  <2>6. k * P = P * k
    BY <1>2, <2>3, MulNat
  <2> QED
    BY <1>2, <2>3, <2>5, <2>6
<1>5. PICK q, m : q = r \div P /\ m = r % P
  OBVIOUS
<1>6. q \in Nat /\ m \in 0 .. (P - 1) /\ r = P * q + m /\ P * q = q * P
  BY <1>2, <1>5, DivMod, MulNat
<1>7. q >= 1
  <2> SUFFICES ASSUME q = 0 PROVE FALSE
    BY <1>6
  <2>1. P * q = 0
    BY <1>2
  <2> QED
    BY <1>2, <1>4, <1>6, <2>1
<1>8. q * p \in Nat /\ q * p >= 1
  BY <1>3, <1>6, <1>7, MulNat
<1>9. q * p <= q * P - q
  <2>1. p * q <= (P - 1) * q
    BY <1>2, <1>3, <1>6, MulMono
  <2>2. (P - 1) * q = P * q - q
    BY <1>2, <1>6
  <2> QED
    BY <1>2, <1>3, <1>6, <2>1, <2>2, MulNat
<1>10. PICK h, y : h = q * p /\ y = q * P
  OBVIOUS
<1>11. h \in Nat /\ h >= 1 /\ y \in Nat /\ h <= y - q /\ r = y + m
  BY <1>2, <1>6, <1>8, <1>9, <1>10, MulNat
<1>12. h \in 1 .. (r - 1)
  BY <1>2, <1>6, <1>7, <1>11
<1> QED
  BY <1>5, <1>10, <1>12 DEF Bound

\* Adaptation keeps a probability strictly between 0 and P.
LEMMA AdaptFacts ==
  ASSUME NEW p \in RangeProbs, NEW b \in Bits, NEW r \in Rates
  PROVE  RangeAdapt(p, b, r) \in RangeProbs
<1>1. P \in Nat /\ P >= 2 /\ p \in Nat /\ p >= 1 /\ p < P /\ r \in Nat /\ r > 0
  BY RangeAssumption, BitCoderAssumption DEF RangeProbs
<1>2. PICK u, v : u = (P - p) \div r /\ v = p \div r
  OBVIOUS
<1>3. u \in Nat
  BY <1>1, <1>2, DivMod
<1>4. v \in Nat /\ v <= p
  <2>1. v \in Nat /\ p = r * v + (p % r) /\ p % r \in Nat
    BY <1>1, <1>2, DivMod
  <2>2. 1 * v <= r * v
    BY <1>1, <2>1, MulMono
  <2> QED
    BY <1>1, <2>1, <2>2
<1>5. CASE b = 0
  <2>1. RangeAdapt(p, b, r) = IF p + u < P THEN p + u ELSE P - 1
    BY <1>2, <1>5 DEF RangeAdapt
  <2> QED
    BY <1>1, <1>3, <2>1 DEF RangeProbs
<1>6. CASE b # 0
  <2>1. RangeAdapt(p, b, r) = IF p - v > 0 THEN p - v ELSE 1
    BY <1>2, <1>6 DEF RangeAdapt
  <2> QED
    BY <1>1, <1>4, <2>1 DEF RangeProbs
<1> QED
  BY <1>5, <1>6

\* The carry after a turn of a loop that calls shift_low.
LEMMA CarryAfterShift ==
  ASSUME CoderInv, ShiftLow, NEW r \in 1 .. (Top - 1),
         \/ range < Bottom /\ r = range * ByteBase
         \/ range >= Bottom /\ r = range
  PROVE  /\ low' + r <= 2 * Top
         /\ low' >= Top => cache' < ByteBase - 1
         /\ low' + r > Top => cache' < ByteBase - 1
<1> EncoderTyped
  BY CoderInvTyped
<1>1. PICK b, t, c, y, g, q, m :
        b = Bottom /\ t = Top /\ c = Carry /\ y = Rest /\ g = range /\ q = y \div b /\ m = y % b
  OBVIOUS
<1>2. /\ ByteBase \in Nat /\ ByteBase >= 2 /\ b \in Nat /\ b >= ByteBase /\ t \in Nat /\ t > b
      /\ t = b * ByteBase
  BY <1>1, TopFacts
<1>3. /\ c \in {0, 1} /\ y \in 0 .. (t - 1) /\ low = c * t + y /\ g \in 1 .. (t - 1)
  BY <1>1, RestFacts DEF CoderInv, RangeTypeOK
<1>4. q \in 0 .. (ByteBase - 1) /\ m \in 0 .. (b - 1) /\ y = q * b + m
  BY <1>1, <1>2, <1>3, TopDigit DEF Bytes
<1>5. /\ low' = m * ByteBase /\ low' \in 0 .. (t - 1)
      /\ \/ c = 0 /\ y >= t - b /\ cache' = cache
         \/ /\ c = 1 \/ y < t - b
            /\ cache' = q
  BY <1>1, ShiftLowFacts
<1>6. (g < b /\ r = g * ByteBase) \/ (g >= b /\ r = g)
  <2>1. CASE range < Bottom /\ r = range * ByteBase
    BY <1>1, <2>1
  <2>2. CASE range >= Bottom /\ r = range
    BY <1>1, <2>2
  <2> QED
    BY <2>1, <2>2
<1>7. low' + r <= 2 * t
  BY <1>2, <1>5, <1>1
<1>8. ASSUME low' + r > t PROVE cache' < ByteBase - 1
  <2>1. PICK z : z = q * b
    OBVIOUS
  <2>2. z \in Nat /\ y = z + m
    BY <1>2, <1>4, <2>1
  <2>3. q = ByteBase - 1 <=> y >= t - b
    <3>1. (ByteBase - 1) * b = t - b
      BY <1>2
    <3>2. CASE q = ByteBase - 1
      BY <1>2, <1>4, <2>1, <2>2, <3>1, <3>2
    <3>3. CASE q <= ByteBase - 2
      <4>1. z <= (ByteBase - 2) * b
        BY <1>2, <1>4, <2>1, <3>3, MulMono
      <4>2. (ByteBase - 2) * b = t - b - b
        BY <1>2
      <4>3. z <= t - b - b
        BY <4>1, <4>2
      <4> QED
        BY <1>2, <1>4, <2>2, <3>3, <4>3
    <3> QED
      BY <1>2, <1>4, <3>2, <3>3
  \* With the highest digit in the cache or on its way there, low and the range passed the top.
  <2>4. ASSUME q = ByteBase - 1 PROVE y + g > t
    <3>1. y = t - b + m
      <4>1. (ByteBase - 1) * b = t - b
        BY <1>2
      <4> QED
        BY <1>2, <1>4, <2>1, <2>2, <2>4, <4>1
    <3>2. CASE g < b /\ r = g * ByteBase
      <4>1. (m + g) * ByteBase > b * ByteBase
        <5>1. (m + g) * ByteBase = m * ByteBase + g * ByteBase
          BY <1>2, <1>3, <1>4, MulAdd
        <5> QED
          BY <1>2, <1>5, <1>8, <3>2, <5>1
      <4>2. m + g > b
        <5> SUFFICES ASSUME m + g <= b PROVE FALSE
          BY <1>2, <1>3, <1>4
        <5>1. (m + g) * ByteBase <= b * ByteBase
          BY <1>2, <1>3, <1>4, MulMono
        <5>2. PICK d, e : d = (m + g) * ByteBase /\ e = b * ByteBase
          OBVIOUS
        <5>3. d \in Nat /\ e \in Nat
          BY <1>2, <1>3, <1>4, <5>2, MulNat
        <5> QED
          BY <4>1, <5>1, <5>2, <5>3
      <4> QED
        BY <1>2, <1>3, <1>4, <3>1, <4>2
    <3>3. CASE g >= b /\ r = g
      <4>1. CASE m = 0
        <5>1. low' = 0
          BY <1>2, <1>5, <4>1
        <5> QED
          BY <1>2, <1>3, <1>8, <3>3, <5>1
      <4>2. CASE m > 0
        BY <1>2, <1>3, <1>4, <3>1, <3>3, <4>2
      <4> QED
        BY <1>4, <4>1, <4>2
    <3> QED
      BY <1>6, <3>2, <3>3
  <2>5. CASE c = 0 /\ y >= t - b /\ cache' = cache
    <3>1. low = y /\ y + g > t
      BY <1>2, <1>3, <2>3, <2>4, <2>5
    <3> QED
      BY <1>1, <2>5, <3>1 DEF CoderInv, CarryAbsorbed
  <2>6. CASE (c = 1 \/ y < t - b) /\ cache' = q
    <3>1. CASE q = ByteBase - 1
      <4>1. c = 1 /\ low = t + y
        BY <1>2, <1>3, <2>3, <2>6, <3>1
      <4>2. low + g <= t + t
        BY <1>1, <1>2 DEF CoderInv, CarryAbsorbed
      <4> QED
        BY <1>2, <1>3, <2>4, <3>1, <4>1, <4>2
    <3>2. CASE q # ByteBase - 1
      BY <1>2, <1>4, <2>6, <3>2
    <3> QED
      BY <3>1, <3>2
  <2> QED
    BY <1>5, <2>5, <2>6
<1>9. ~(low' >= Top)
  BY <1>1, <1>2, <1>5
<1> QED
  BY <1>1, <1>7, <1>8, <1>9

LEMMA ByteAtTyped ==
  ASSUME RangeTypeOK
  PROVE  ByteAt(pos) \in Bytes /\ ByteAt(pos) \in Nat
<1>1. 0 \in Bytes
  BY TopFacts DEF Bytes
<1>2. out \in Seq(Bytes) /\ pos \in Nat
  BY DEF RangeTypeOK
<1>3. ByteAt(pos) \in Bytes
  BY <1>1, <1>2 DEF ByteAt
<1> QED
  BY <1>3 DEF Bytes

\* A range below Bottom grows to at most Top.
LEMMA RangeGrows ==
  ASSUME NEW r \in 1 .. (Bottom - 1)
  PROVE  r * ByteBase \in 1 .. (Top - 1)
<1>1. PICK b, t : b = Bottom /\ t = Top
  OBVIOUS
<1>2. b \in Nat /\ t \in Nat /\ t = b * ByteBase /\ ByteBase \in Nat /\ ByteBase >= 2
  BY <1>1, TopFacts
<1>3. r * ByteBase <= (b - 1) * ByteBase /\ r * ByteBase \in Nat /\ r * ByteBase > 0
  BY <1>1, <1>2, MulMono, MulNat
<1>4. (b - 1) * ByteBase = t - ByteBase
  BY <1>2
<1> QED
  BY <1>1, <1>2, <1>3, <1>4

LEMMA ModTop ==
  ASSUME NEW n \in Nat
  PROVE  n % Top \in 0 .. (Top - 1)
BY TopFacts, DivMod

\* CoderInv is inductive: one lemma for each step that can disturb it.
LEMMA CoderInvInit ==
  ASSUME RangeInit
  PROVE  CoderInv
<1>1. RangeTypeOK
  <2>1. InitProbs \subseteq RangeProbs
    BY RangeAssumption DEF RangeProbs
  <2>2. model \in [Contexts -> RangeProbs] /\ dmodel \in [Contexts -> RangeProbs]
    BY <2>1 DEF RangeInit
  <2>3. Top - 1 \in 1 .. (Top - 1) /\ 0 \in Bytes
    BY TopFacts DEF Bytes
  <2>4. /\ phase = "encode" /\ low = 0 /\ code = 0 /\ range = Top - 1 /\ drange = Top - 1
        /\ cache = 0 /\ cacheSize = 1 /\ flushed = 0 /\ pos = 0
        /\ script = <<>> /\ out = <<>> /\ decoded = <<>>
    BY DEF RangeInit
  <2> QED
    BY <2>2, <2>3, <2>4 DEF RangeTypeOK
<1>2. RangesFit
  <2>1. ~(Top - 1 < Bottom)
    BY TopFacts
  <2> QED
    BY <2>1 DEF RangeInit, RangesFit, RangeEncoding, RangeDecoding
<1>3. CarryAbsorbed
  BY TopFacts DEF RangeInit, CarryAbsorbed
<1> QED
  BY <1>1, <1>2, <1>3 DEF CoderInv

LEMMA EncodeBitRanges ==
  ASSUME CoderInv, phase = "encode", NEW c \in Contexts
  PROVE  /\ Bound(range, model[c]) \in 1 .. (range - 1)
         /\ range \in Bottom .. (Top - 1) /\ range \in Nat
<1>1. range \in 1 .. (Top - 1) /\ model[c] \in RangeProbs /\ ~(range < Bottom)
  BY DEF CoderInv, RangesFit, RangeTypeOK
<1>2. range \in Bottom .. (Top - 1)
  BY <1>1, TopFacts
<1> QED
  BY <1>1, <1>2, BoundFacts, TopFacts

LEMMA EncodeBitInv ==
  ASSUME CoderInv, NEW c \in Contexts, NEW r \in Rates, NEW b \in Bits, EncodeBit(c, r, b)
  PROVE  CoderInv'
<1>1. PICK d : d = Bound(range, model[c])
  OBVIOUS
<1>2. phase = "encode" /\ d \in 1 .. (range - 1) /\ range \in Bottom .. (Top - 1)
      /\ d \in Nat /\ range \in Nat
  BY <1>1, EncodeBitRanges DEF EncodeBit
<1>3. /\ low' = IF b = 0 THEN low ELSE low + d
      /\ range' = IF b = 0 THEN d ELSE range - d
  BY <1>1 DEF EncodeBit
<1>4. /\ range' \in 1 .. (Top - 1) /\ low' \in Nat /\ low' + range' <= low + range
      /\ range' \in Nat
  <2>1. low \in Nat /\ Top \in Nat
    BY TopFacts DEF CoderInv, RangeTypeOK
  <2> QED
    BY <1>2, <1>3, <2>1
<1>5. RangeTypeOK'
  <2>1. model' \in [Contexts -> RangeProbs]
    <3>1. model \in [Contexts -> RangeProbs]
      BY DEF CoderInv, RangeTypeOK
    <3>2. RangeAdapt(model[c], b, r) \in RangeProbs
      BY <3>1, AdaptFacts
    <3> QED
      BY <3>1, <3>2 DEF EncodeBit
  <2>2. script' \in Seq([ctx : Contexts, rate : Rates, bit : Bits])
    BY DEF EncodeBit, CoderInv, RangeTypeOK
  <2>3. phase' \in {"encode", "renorm"}
    BY DEF EncodeBit
  <2>4. UNCHANGED <<cache, cacheSize, flushed, out, dmodel, code, drange, pos, decoded>>
    BY DEF EncodeBit, rangeDecVars
  <2> QED
    BY <1>4, <2>1, <2>2, <2>3, <2>4 DEF CoderInv, RangeTypeOK
<1>6. RangesFit'
  <2>1. phase' = IF range' < Bottom THEN "renorm" ELSE "encode"
    BY DEF EncodeBit
  <2>2. UNCHANGED <<flushed, drange>>
    BY DEF EncodeBit, rangeDecVars
  <2> QED
    BY <1>2, <2>1, <2>2 DEF CoderInv, RangesFit, RangeEncoding, RangeDecoding
<1>7. CarryAbsorbed'
  <2>1. cache' = cache
    BY DEF EncodeBit
  <2>2. low \in Nat /\ Top \in Nat /\ low + range <= 2 * Top
        /\ (low + range > Top => cache < ByteBase - 1)
    BY TopFacts DEF CoderInv, RangeTypeOK, CarryAbsorbed
  <2>3. PICK l, g, m, h, t, tt :
          l = low /\ g = range /\ m = low' /\ h = range' /\ t = Top /\ tt = 2 * Top
    OBVIOUS
  <2>4. /\ l \in Nat /\ g \in Nat /\ m \in Nat /\ h \in Nat /\ t \in Nat /\ tt \in Nat /\ h >= 1
        /\ m + h <= l + g /\ l + g <= tt
    <3>1. l \in Nat /\ g \in Nat /\ m \in Nat /\ h \in Nat /\ t \in Nat
      BY <1>2, <1>4, <2>2, <2>3
    <3>2. h \in 1 .. (t - 1)
      BY <1>4, <2>3
    <3>3. tt = 2 * t
      BY <2>3
    <3>4. m + h <= l + g
      BY <1>4, <2>3
    <3>5. l + g <= tt
      BY <2>2, <2>3
    <3> QED
      BY <3>1, <3>2, <3>3, <3>4, <3>5
  <2>5. m + h <= tt /\ (m + h > t => l + g > t) /\ (m >= t => l + g > t)
    BY <2>4
  <2> QED
    BY <2>1, <2>2, <2>3, <2>5 DEF CarryAbsorbed
<1> QED
  BY <1>5, <1>6, <1>7 DEF CoderInv

LEMMA RenormaliseInv ==
  ASSUME CoderInv, Renormalise
  PROVE  CoderInv'
<1>1. /\ phase = "renorm" /\ ShiftLow /\ range' = range * ByteBase
      /\ phase' = IF range' < Bottom THEN "renorm" ELSE "encode"
      /\ UNCHANGED <<script, model, flushed, dmodel, code, drange, pos, decoded>>
  BY DEF Renormalise, rangeDecVars
<1>2. range < Bottom /\ range \in 1 .. (Bottom - 1)
  BY <1>1, TopFacts DEF CoderInv, RangesFit, RangeTypeOK
<1>3. range' \in 1 .. (Top - 1)
  BY <1>1, <1>2, RangeGrows
<1>4. /\ out' \in Seq(Bytes) /\ cache' \in Bytes /\ cacheSize' \in Nat \ {0}
      /\ low' \in 0 .. (Top - 1)
  BY <1>1, CoderInvTyped, ShiftLowFacts
<1>5. RangeTypeOK'
  BY <1>1, <1>3, <1>4 DEF CoderInv, RangeTypeOK
<1>6. RangesFit'
  BY <1>1 DEF CoderInv, RangesFit, RangeEncoding, RangeDecoding
<1>7. CarryAbsorbed'
  BY <1>1, <1>2, <1>3, CarryAfterShift DEF CarryAbsorbed
<1> QED
  BY <1>5, <1>6, <1>7 DEF CoderInv

LEMMA FlushInv ==
  ASSUME CoderInv, RangeFlush
  PROVE  CoderInv'
<1>1. /\ phase \in {"encode", "flush"} /\ ShiftLow /\ range' = range
      /\ flushed' = flushed + 1
      /\ phase' = IF flushed' = 5 THEN "open" ELSE "flush"
      /\ UNCHANGED <<script, model, dmodel, code, drange, pos, decoded>>
  BY DEF RangeFlush, rangeDecVars
<1>2. /\ ~(range < Bottom) /\ range \in 1 .. (Top - 1) /\ flushed \in 0 .. 4
  BY <1>1, TopFacts DEF CoderInv, RangesFit, RangeTypeOK, RangeEncoding
<1>3. range >= Bottom
  BY <1>2, TopFacts
<1>4. /\ out' \in Seq(Bytes) /\ cache' \in Bytes /\ cacheSize' \in Nat \ {0}
      /\ low' \in 0 .. (Top - 1)
  BY <1>1, CoderInvTyped, ShiftLowFacts
<1>5. RangeTypeOK'
  <2>1. low' \in Nat /\ flushed' \in 0 .. 5 /\ phase' \in {"flush", "open"}
    BY <1>1, <1>2, <1>4
  <2> QED
    BY <1>1, <1>2, <1>4, <2>1 DEF CoderInv, RangeTypeOK
<1>6. RangesFit'
  BY <1>1, <1>2 DEF CoderInv, RangesFit, RangeEncoding, RangeDecoding
<1>7. CarryAbsorbed'
  BY <1>1, <1>2, <1>3, CarryAfterShift DEF CarryAbsorbed
<1> QED
  BY <1>5, <1>6, <1>7 DEF CoderInv

LEMMA DecoderStepInv ==
  ASSUME CoderInv, RangeOpen \/ RangeDecodeBit \/ RangeRefill
  PROVE  CoderInv'
<1>1. UNCHANGED <<script, model, low, range, cache, cacheSize, out, flushed>>
  BY DEF RangeOpen, RangeDecodeBit, RangeRefill, coder
<1>2. CarryAbsorbed'
  BY <1>1 DEF CoderInv, CarryAbsorbed
<1>3. /\ code \in Nat /\ pos \in Nat /\ pos + 1 \in Nat /\ ByteAt(pos) \in Nat /\ ByteBase \in Nat
      /\ RangeTypeOK /\ RangesFit
  BY TopFacts, ByteAtTyped DEF CoderInv, RangeTypeOK
<1>4. (code * ByteBase + ByteAt(pos)) % Top \in Nat
  <2>1. PICK n : n = code * ByteBase + ByteAt(pos)
    OBVIOUS
  <2>2. n \in Nat
    BY <1>3, <2>1
  <2>3. n % Top \in Nat
    BY <2>2, ModTop, TopFacts
  <2> QED
    BY <2>1, <2>3
<1>5. CASE RangeOpen
  <2>1. /\ phase = "open" /\ phase' \in {"open", "decode"} /\ pos' = pos + 1
        /\ code' = (code * ByteBase + ByteAt(pos)) % Top
        /\ UNCHANGED <<dmodel, drange, decoded>>
    BY <1>5 DEF RangeOpen
  <2>2. RangeTypeOK'
    BY <1>1, <1>3, <1>4, <2>1 DEF RangeTypeOK
  <2>3. RangesFit'
    BY <1>1, <1>3, <2>1 DEF RangesFit, RangeEncoding, RangeDecoding
  <2> QED
    BY <1>2, <2>2, <2>3 DEF CoderInv
<1>6. CASE RangeDecodeBit
  <2>1. PICK n, c, d : n = Len(decoded) + 1 /\ c = script[n].ctx /\ d = Bound(drange, dmodel[c])
    OBVIOUS
  <2>2. PICK b : b = IF code < d THEN 0 ELSE 1
    OBVIOUS
  <2>3. /\ phase = "decode" /\ n <= Len(script)
        /\ code' = IF b = 0 THEN code ELSE code - d
        /\ drange' = IF b = 0 THEN d ELSE drange - d
        /\ dmodel' = [dmodel EXCEPT ![c] = RangeAdapt(@, b, script[n].rate)]
        /\ decoded' = Append(decoded, b)
        /\ phase' = IF drange' < Bottom THEN "refill" ELSE "decode"
        /\ pos' = pos
    BY <1>6, <2>1, <2>2 DEF RangeDecodeBit
  <2>4. script[n] \in [ctx : Contexts, rate : Rates, bit : Bits]
    <3>1. n \in 1 .. Len(script)
      BY <1>3, <2>1, <2>3 DEF RangeTypeOK
    <3>2. script \in Seq([ctx : Contexts, rate : Rates, bit : Bits])
      BY <1>3 DEF RangeTypeOK
    <3> QED
      BY <3>1, <3>2, ElementOfSeq
  <2>5. c \in Contexts /\ script[n].rate \in Rates /\ b \in Bits
    BY <2>1, <2>2, <2>4 DEF Bits
  <2>6. drange \in Bottom .. (Top - 1) /\ drange \in Nat /\ dmodel[c] \in RangeProbs
        /\ Bottom \in Nat /\ Top \in Nat
    BY <1>3, <2>3, <2>5, TopFacts DEF RangeTypeOK, RangesFit
  <2>7. d \in 1 .. (drange - 1)
    BY <2>1, <2>6, BoundFacts
  <2>8. drange' \in 1 .. (Top - 1)
    BY <2>3, <2>6, <2>7
  <2>9. code' \in Nat
    BY <1>3, <2>2, <2>3, <2>6, <2>7
  <2>10. dmodel' \in [Contexts -> RangeProbs]
    <3>1. RangeAdapt(dmodel[c], b, script[n].rate) \in RangeProbs
      BY <2>5, <2>6, AdaptFacts
    <3> QED
      BY <1>3, <2>3, <3>1 DEF RangeTypeOK
  <2>11. decoded' \in Seq(Bits)
    BY <1>3, <2>3, <2>5 DEF RangeTypeOK
  <2>12. phase' \in {"refill", "decode"}
    BY <2>3
  <2>13. RangeTypeOK'
    BY <1>1, <1>3, <2>3, <2>8, <2>9, <2>10, <2>11, <2>12 DEF RangeTypeOK
  <2>14. RangesFit'
    BY <1>1, <1>3, <2>3 DEF RangesFit, RangeEncoding, RangeDecoding
  <2> QED
    BY <1>2, <2>13, <2>14 DEF CoderInv
<1>7. CASE RangeRefill
  <2>1. /\ phase = "refill" /\ pos' = pos + 1 /\ drange' = drange * ByteBase
        /\ code' = (code * ByteBase + ByteAt(pos)) % Top
        /\ phase' = IF drange' < Bottom THEN "refill" ELSE "decode"
        /\ UNCHANGED <<dmodel, decoded>>
    BY <1>7 DEF RangeRefill
  <2>2. drange \in 1 .. (Bottom - 1)
    BY <1>3, <2>1, TopFacts DEF RangeTypeOK, RangesFit
  <2>3. drange' \in 1 .. (Top - 1)
    BY <2>1, <2>2, RangeGrows
  <2>4. RangeTypeOK'
    BY <1>1, <1>3, <1>4, <2>1, <2>3 DEF RangeTypeOK
  <2>5. RangesFit'
    BY <1>1, <1>3, <2>1 DEF RangesFit, RangeEncoding, RangeDecoding
  <2> QED
    BY <1>2, <2>4, <2>5 DEF CoderInv
<1> QED
  BY <1>5, <1>6, <1>7

LEMMA CoderInvStep ==
  ASSUME CoderInv, [RangeNext]_rangeVars
  PROVE  CoderInv'
<1>1. CASE \E c \in Contexts, r \in Rates, b \in Bits : EncodeBit(c, r, b)
  BY <1>1, EncodeBitInv
<1>2. CASE Renormalise
  BY <1>2, RenormaliseInv
<1>3. CASE RangeFlush
  BY <1>3, FlushInv
<1>4. CASE RangeOpen \/ RangeDecodeBit \/ RangeRefill
  BY <1>4, DecoderStepInv
<1>5. CASE UNCHANGED rangeVars
  <2>1. UNCHANGED <<phase, script, model, low, range, cache, cacheSize, out, flushed, dmodel, code,
                    drange, pos, decoded>>
    BY <1>5 DEF rangeVars, coder, rangeDecVars
  <2> QED
    BY <2>1 DEF CoderInv, RangeTypeOK, RangesFit, CarryAbsorbed
<1> QED
  BY <1>1, <1>2, <1>3, <1>4, <1>5 DEF RangeNext

\* Probabilities stay strictly between 0 and P, the loops of the coder end where they should,
\* and every variable of RangeEncoder and RangeDecoder keeps its type.
THEOREM RangeTypeCorrect == RangeSpec => []RangeTypeOK
<1>1. RangeInit => CoderInv
  BY CoderInvInit
<1>2. CoderInv /\ [RangeNext]_rangeVars => CoderInv'
  BY CoderInvStep
<1>3. CoderInv => RangeTypeOK
  BY DEF CoderInv
<1> QED
  BY <1>1, <1>2, <1>3, PTL DEF RangeSpec

\* A carry is absorbed by the digit that waits for it.
THEOREM CarryAlwaysAbsorbed == RangeSpec => []CarryAbsorbed
<1>1. RangeInit => CoderInv
  BY CoderInvInit
<1>2. CoderInv /\ [RangeNext]_rangeVars => CoderInv'
  BY CoderInvStep
<1>3. CoderInv => CarryAbsorbed
  BY DEF CoderInv
<1> QED
  BY <1>1, <1>2, <1>3, PTL DEF RangeSpec

--------------------------------------------------------------------------------
(* What the histories record *)

Entries == [total : Nat, range : 1 .. (Top - 1), shifted : Nat]
RangePoints == [model : [Contexts -> RangeProbs], range : 1 .. (Top - 1)]
Symbols == [ctx : Contexts, rate : Rates, bit : Bits]

HistoryTyped == /\ path \in Seq(Entries) /\ Len(path) >= 1
                /\ trace \in Seq(RangePoints)
                /\ Len(trace) = Len(script) + (IF phase \in RangeEncoding THEN 0 ELSE 1)
                /\ total \in Nat

\* The path begins with the whole range and ends with the encoder's.
PathEnds == /\ path[1].total = 0 /\ path[1].range = Top - 1 /\ path[1].shifted = 0
            /\ path[Len(path)].total = total
            /\ path[Len(path)].range = range
            /\ Len(path) - path[Len(path)].shifted = Len(script) + 1
            /\ Shifted = path[Len(path)].shifted + flushed
            /\ \A j \in 1 .. Len(path) : path[j].shifted <= path[Len(path)].shifted
            /\ phase \notin RangeEncoding => trace[Len(script) + 1] = Point

\* From one entry to the next the encoder codes the bit whose turn it is, or shifts a digit out.
BitAt(j) == j - path[j].shifted
BoundAt(j) == Bound(path[j].range, trace[BitAt(j)].model[script[BitAt(j)].ctx])

BitStep(j) ==
  /\ path[j].range >= Bottom
  /\ BitAt(j) \in 1 .. Len(script)
  /\ trace[BitAt(j)].range = path[j].range
  /\ path[j + 1].shifted = path[j].shifted
  /\ script[BitAt(j)].bit = 0 => path[j + 1].total = path[j].total /\ path[j + 1].range = BoundAt(j)
  /\ script[BitAt(j)].bit # 0 => /\ path[j + 1].total = path[j].total + BoundAt(j)
                                 /\ path[j + 1].range = path[j].range - BoundAt(j)

ShiftStep(j) == /\ path[j].range < Bottom
                /\ path[j + 1].total = path[j].total * ByteBase
                /\ path[j + 1].range = path[j].range * ByteBase
                /\ path[j + 1].shifted = path[j].shifted + 1

PathSteps == \A j \in 1 .. (Len(path) - 1) : BitStep(j) \/ ShiftStep(j)

\* The model before bit n.
ModelAt(n) == IF n <= Len(script) THEN trace[n].model ELSE model

Models == \A n \in 1 .. Len(script) :
            ModelAt(n + 1) = [ModelAt(n) EXCEPT ![script[n].ctx] =
                                RangeAdapt(@, script[n].bit, script[n].rate)]

HistoryInv == HistoryTyped /\ PathEnds /\ PathSteps /\ Models

\* One entry of the path.
LEMMA EntryTyped ==
  ASSUME HistoryTyped, NEW j \in 1 .. Len(path)
  PROVE  /\ path[j] \in Entries /\ path[j].total \in Nat /\ path[j].shifted \in Nat
         /\ path[j].range \in 1 .. (Top - 1) /\ path[j].range \in Nat
<1>1. path[j] \in Entries
  BY ElementOfSeq DEF HistoryTyped
<1> QED
  BY <1>1 DEF Entries

\* A recorded step stays one while the histories grow.
LEMMA BitStepKept ==
  ASSUME NEW j, BitStep(j), path'[j] = path[j], path'[j + 1] = path[j + 1],
         Len(script) \in Nat, Len(script') \in Nat, Len(script) <= Len(script'),
         \A n \in 1 .. Len(script) : script'[n] = script[n] /\ trace'[n] = trace[n]
  PROVE  BitStep(j)'
<1>1. PICK n : n = BitAt(j)
  OBVIOUS
<1>2. n \in 1 .. Len(script) /\ n \in 1 .. Len(script')
  BY <1>1 DEF BitStep
<1>3. script'[n] = script[n] /\ trace'[n] = trace[n]
  BY <1>2
<1>4. BitAt(j)' = n
  BY <1>1 DEF BitAt
<1>5. BoundAt(j)' = BoundAt(j)
  BY <1>1, <1>3, <1>4 DEF BoundAt
<1> QED
  BY <1>1, <1>2, <1>3, <1>4, <1>5 DEF BitStep

LEMMA ShiftStepKept ==
  ASSUME NEW j, ShiftStep(j), path'[j] = path[j], path'[j + 1] = path[j + 1]
  PROVE  ShiftStep(j)'
BY DEF ShiftStep

\* HistoryInv is inductive.
LEMMA HistoryInit ==
  ASSUME RangeInit
  PROVE  HistoryInv
<1>1. PICK e : e = [total |-> 0, range |-> Top - 1, shifted |-> 0]
  OBVIOUS
<1>2. e \in Entries
  BY <1>1, TopFacts DEF Entries
<1>3. path = <<e>> /\ script = <<>> /\ trace = <<>> /\ total = 0 /\ phase = "encode" /\ out = <<>>
      /\ cacheSize = 1 /\ range = Top - 1 /\ flushed = 0
  BY <1>1 DEF RangeInit
<1>4. Len(path) = 1 /\ path[1] = e /\ path \in Seq(Entries)
  BY <1>2, <1>3
<1>5. Len(script) = 0 /\ Len(trace) = 0 /\ Len(out) = 0 /\ trace \in Seq(RangePoints)
  BY <1>3
<1>6. HistoryTyped
  BY <1>3, <1>4, <1>5 DEF HistoryTyped, RangeEncoding
<1>7. PathEnds
  BY <1>1, <1>3, <1>4, <1>5 DEF PathEnds, RangeEncoding, Shifted
<1>8. PathSteps /\ Models
  BY <1>4, <1>5 DEF PathSteps, Models
<1> QED
  BY <1>6, <1>7, <1>8 DEF HistoryInv

LEMMA EncodeBitHistory ==
  ASSUME CoderInv, HistoryInv, NEW c \in Contexts, NEW r \in Rates, NEW b \in Bits,
         EncodeBit(c, r, b)
  PROVE  /\ HistoryInv'
         /\ \A n \in 1 .. (Len(script) + 1) : ModelAt(n)' = ModelAt(n)
<1>1. PICK d, g, tt, l, e, s, p :
        /\ d = Bound(range, model[c]) /\ g = Len(path) /\ tt = Len(script) /\ l = Shifted
        /\ e = [total |-> total', range |-> range', shifted |-> Shifted]
        /\ s = [ctx |-> c, rate |-> r, bit |-> b]
        /\ p = Point
  OBVIOUS
<1>2. /\ phase = "encode" /\ path' = Append(path, e) /\ script' = Append(script, s)
      /\ trace' = Append(trace, p)
      /\ range' = IF b = 0 THEN d ELSE range - d
      /\ total' = IF b = 0 THEN total ELSE total + d
      /\ model' = [model EXCEPT ![c] = RangeAdapt(@, b, r)]
      /\ phase' = IF range' < Bottom THEN "renorm" ELSE "encode"
      /\ UNCHANGED <<cache, cacheSize, flushed, out>>
  BY <1>1 DEF EncodeBit
<1>3. /\ path \in Seq(Entries) /\ g \in Nat /\ g >= 1 /\ trace \in Seq(RangePoints)
      /\ Len(trace) = tt /\ tt \in Nat /\ total \in Nat /\ script \in Seq(Symbols)
      /\ RangeTypeOK /\ RangeTypeOK'
  <2>1. RangeTypeOK /\ RangeTypeOK'
    BY EncodeBitInv DEF CoderInv
  <2>2. script \in Seq(Symbols)
    BY <2>1 DEF RangeTypeOK, Symbols
  <2>3. Len(path) \in Nat /\ Len(script) \in Nat
    BY <2>2 DEF HistoryInv, HistoryTyped
  <2>4. /\ path \in Seq(Entries) /\ Len(path) >= 1 /\ trace \in Seq(RangePoints)
        /\ Len(trace) = Len(script) + 0 /\ total \in Nat
    BY <1>2 DEF HistoryInv, HistoryTyped, RangeEncoding
  <2> QED
    BY <1>1, <2>1, <2>2, <2>3, <2>4
<1>4. /\ path[1].total = 0 /\ path[1].range = Top - 1 /\ path[1].shifted = 0
      /\ path[g].total = total /\ path[g].range = range
      /\ g - path[g].shifted = tt + 1
      /\ l = path[g].shifted + flushed /\ flushed = 0
      /\ \A j \in 1 .. g : path[j].shifted <= path[g].shifted
  BY <1>1, <1>2 DEF HistoryInv, PathEnds, CoderInv, RangesFit, RangeEncoding
<1>5. /\ d \in 1 .. (range - 1) /\ range \in Bottom .. (Top - 1) /\ range \in Nat
  BY <1>1, <1>2, EncodeBitRanges
<1>6. path[g].shifted \in Nat /\ l = path[g].shifted /\ l \in Nat
  BY <1>1, <1>3, <1>4, EntryTyped DEF HistoryInv
<1>7. e \in Entries /\ p \in RangePoints /\ s \in Symbols /\ total' \in Nat
  <2>1. range' \in 1 .. (Top - 1) /\ range \in 1 .. (Top - 1) /\ model \in [Contexts -> RangeProbs]
    BY <1>3 DEF RangeTypeOK
  <2>2. total' \in Nat
    BY <1>2, <1>3, <1>5
  <2>3. e \in Entries
    BY <1>1, <1>6, <2>1, <2>2 DEF Entries
  <2>4. p \in RangePoints
    BY <1>1, <2>1 DEF Point, RangePoints
  <2> QED
    BY <1>1, <2>2, <2>3, <2>4 DEF Symbols
<1>8. /\ path' \in Seq(Entries) /\ Len(path') = g + 1 /\ path'[g + 1] = e
      /\ \A j \in 1 .. g : path'[j] = path[j]
  BY <1>1, <1>2, <1>3, <1>7
<1>9. /\ script' \in Seq(Symbols) /\ Len(script') = tt + 1 /\ script'[tt + 1] = s
      /\ \A n \in 1 .. tt : script'[n] = script[n]
  BY <1>1, <1>2, <1>3, <1>7
<1>10. /\ trace' \in Seq(RangePoints) /\ Len(trace') = tt + 1 /\ trace'[tt + 1] = p
       /\ \A n \in 1 .. tt : trace'[n] = trace[n]
  BY <1>1, <1>2, <1>3, <1>7
<1>11. HistoryTyped'
  <2>1. phase' \in RangeEncoding
    BY <1>2 DEF RangeEncoding
  <2> QED
    BY <1>3, <1>7, <1>8, <1>9, <1>10, <2>1 DEF HistoryTyped
<1>12. e.total = total' /\ e.range = range' /\ e.shifted = l
  BY <1>1
<1>13. PathEnds'
  <2>1. path'[1] = path[1]
    BY <1>3, <1>8
  <2>2. (g + 1) - l = (tt + 1) + 1
    BY <1>3, <1>4, <1>6
  <2>3. Shifted' = l
    BY <1>1, <1>2 DEF Shifted
  <2>4. ASSUME NEW j \in 1 .. (g + 1) PROVE path'[j].shifted <= l
    <3>1. CASE j <= g
      <4>1. j \in 1 .. g /\ path'[j] = path[j]
        BY <1>3, <1>8, <3>1
      <4> QED
        BY <1>4, <1>6, <4>1
    <3>2. CASE j = g + 1
      BY <1>6, <1>8, <1>12, <3>2
    <3> QED
      BY <1>3, <3>1, <3>2
  <2>5. phase' \in RangeEncoding /\ flushed' = 0
    BY <1>2, <1>4 DEF RangeEncoding
  <2> QED
    BY <1>3, <1>4, <1>6, <1>8, <1>9, <1>12, <2>1, <2>2, <2>3, <2>4, <2>5 DEF PathEnds
<1>14. PathSteps'
  <2> SUFFICES ASSUME NEW j \in 1 .. g PROVE BitStep(j)' \/ ShiftStep(j)'
    BY <1>3, <1>8 DEF PathSteps
  <2>1. CASE j < g
    <3>1. path'[j] = path[j] /\ path'[j + 1] = path[j + 1] /\ j \in 1 .. (g - 1)
      BY <1>3, <1>8, <2>1
    <3>2. CASE BitStep(j)
      <4>1. Len(script') = Len(script) + 1 /\ Len(script) \in Nat
        BY <1>1, <1>3, <1>9
      <4> QED
        BY <1>1, <1>9, <1>10, <3>1, <3>2, <4>1, BitStepKept
    <3>3. CASE ShiftStep(j)
      BY <3>1, <3>3, ShiftStepKept
    <3> QED
      BY <1>1, <3>1, <3>2, <3>3 DEF HistoryInv, PathSteps
  <2>2. CASE j = g
    <3>1. path'[j] = path[g] /\ path'[j + 1] = e /\ j - path[g].shifted = tt + 1
      BY <1>3, <1>4, <1>8, <2>2
    <3>2. /\ script'[tt + 1].bit = b /\ script'[tt + 1].ctx = c
          /\ trace'[tt + 1].model = model /\ trace'[tt + 1].range = range
      BY <1>1, <1>9, <1>10 DEF Point
    <3>3. range >= Bottom /\ tt + 1 \in 1 .. (tt + 1)
      BY <1>3, <1>5, TopFacts
    <3>4. BitAt(j)' = tt + 1
      BY <3>1 DEF BitAt
    <3>5. BoundAt(j)' = d
      BY <1>1, <1>4, <3>1, <3>2, <3>4 DEF BoundAt
    <3> QED
      BY <1>2, <1>4, <1>6, <1>9, <1>12, <3>1, <3>2, <3>3, <3>4, <3>5 DEF BitStep
  <2> QED
    BY <1>3, <2>1, <2>2
<1>15. ASSUME NEW n \in 1 .. (tt + 1) PROVE ModelAt(n)' = ModelAt(n)
  <2>1. CASE n <= tt
    <3>1. n \in 1 .. tt /\ n <= tt + 1
      BY <1>3, <2>1
    <3> QED
      BY <1>1, <1>9, <1>10, <2>1, <3>1 DEF ModelAt
  <2>2. CASE n = tt + 1
    <3>1. ~(n <= tt) /\ n <= tt + 1
      BY <1>3, <2>2
    <3>2. p.model = model
      BY <1>1 DEF Point
    <3> QED
      BY <1>1, <1>9, <1>10, <2>2, <3>1, <3>2 DEF ModelAt
  <2> QED
    BY <1>3, <2>1, <2>2
<1>16. Models'
  <2> SUFFICES ASSUME NEW n \in 1 .. (tt + 1)
               PROVE  ModelAt(n + 1)' = [ModelAt(n)' EXCEPT ![script'[n].ctx] =
                                           RangeAdapt(@, script'[n].bit, script'[n].rate)]
    BY <1>9 DEF Models
  <2>1. CASE n <= tt
    <3>1. n \in 1 .. tt /\ n + 1 \in 1 .. (tt + 1)
      BY <1>3, <2>1
    <3>2. ModelAt(n)' = ModelAt(n) /\ ModelAt(n + 1)' = ModelAt(n + 1) /\ script'[n] = script[n]
      BY <1>9, <1>15, <3>1
    <3> QED
      BY <1>1, <3>1, <3>2 DEF HistoryInv, Models
  <2>2. CASE n = tt + 1
    <3>1. ~(n + 1 <= tt + 1) /\ ~(n <= tt)
      BY <1>3, <2>2
    <3>2. ModelAt(n + 1)' = model'
      BY <1>9, <3>1 DEF ModelAt
    <3>3. ModelAt(n)' = model
      BY <1>1, <1>15, <3>1 DEF ModelAt
    <3>4. script'[n].ctx = c /\ script'[n].bit = b /\ script'[n].rate = r
      BY <1>1, <1>9, <2>2
    <3> QED
      BY <1>2, <3>2, <3>3, <3>4
  <2> QED
    BY <1>3, <2>1, <2>2
<1> QED
  BY <1>1, <1>11, <1>13, <1>14, <1>15, <1>16 DEF HistoryInv

\* A step that neither codes a bit nor adapts keeps the recorded models.
LEMMA ModelsKept ==
  ASSUME Models, script' = script, model' = model, Len(script) \in Nat,
         \A n \in 1 .. Len(script) : trace'[n] = trace[n]
  PROVE  /\ Models' 
         /\ \A n \in 1 .. (Len(script) + 1) : ModelAt(n)' = ModelAt(n)
<1>1. ASSUME NEW n \in 1 .. (Len(script) + 1) PROVE ModelAt(n)' = ModelAt(n)
  <2>1. CASE n <= Len(script)
    BY <2>1 DEF ModelAt
  <2>2. CASE ~(n <= Len(script))
    BY <2>2 DEF ModelAt
  <2> QED
    BY <2>1, <2>2
<1>2. ASSUME NEW n \in 1 .. Len(script)
      PROVE  ModelAt(n + 1)' = [ModelAt(n)' EXCEPT ![script'[n].ctx] =
                                  RangeAdapt(@, script'[n].bit, script'[n].rate)]
  <2>1. n \in 1 .. (Len(script) + 1) /\ n + 1 \in 1 .. (Len(script) + 1)
    OBVIOUS
  <2>2. ModelAt(n)' = ModelAt(n) /\ ModelAt(n + 1)' = ModelAt(n + 1)
    BY <1>1, <2>1
  <2> QED
    BY <2>2 DEF Models
<1> QED
  BY <1>1, <1>2 DEF Models

\* shift_low takes one digit out of low_.
LEMMA ShiftedRises ==
  ASSUME CoderInv, ShiftLow
  PROVE  Shifted' = Shifted + 1
<1>1. /\ Len(out') + cacheSize' = Len(out) + cacheSize + 1
      /\ out' \in Seq(Bytes) /\ cacheSize' \in Nat
  BY CoderInvTyped, ShiftLowFacts
<1>2. out \in Seq(Bytes) /\ cacheSize \in Nat
  BY DEF CoderInv, RangeTypeOK
<1>3. PICK h, y, u, v : h = Len(out') /\ y = cacheSize' /\ u = Len(out) /\ v = cacheSize
  OBVIOUS
<1>4. h \in Nat /\ y \in Nat /\ u \in Nat /\ v \in Nat /\ h + y = u + v + 1
  BY <1>1, <1>2, <1>3
<1>5. h + y - 1 = (u + v - 1) + 1
  BY <1>4
<1> QED
  BY <1>3, <1>5 DEF Shifted

LEMMA RenormaliseHistory ==
  ASSUME CoderInv, HistoryInv, Renormalise
  PROVE  /\ HistoryInv'
         /\ \A n \in 1 .. (Len(script) + 1) : ModelAt(n)' = ModelAt(n)
<1>1. PICK g, tt, l, e :
        /\ g = Len(path) /\ tt = Len(script) /\ l = Shifted
        /\ e = [total |-> total', range |-> range', shifted |-> Shifted + 1]
  OBVIOUS
<1>2. /\ phase = "renorm" /\ path' = Append(path, e) /\ ShiftLow
      /\ range' = range * ByteBase
      /\ total' = total * ByteBase
      /\ phase' = IF range' < Bottom THEN "renorm" ELSE "encode"
      /\ UNCHANGED <<script, trace, model, flushed>>
  BY <1>1 DEF Renormalise
<1>3. /\ path \in Seq(Entries) /\ g \in Nat /\ g >= 1 /\ trace \in Seq(RangePoints)
      /\ Len(trace) = tt /\ tt \in Nat /\ total \in Nat
      /\ RangeTypeOK /\ RangeTypeOK'
  <2>1. RangeTypeOK /\ RangeTypeOK'
    BY RenormaliseInv DEF CoderInv
  <2>2. script \in Seq(Symbols)
    BY <2>1 DEF RangeTypeOK, Symbols
  <2>3. Len(path) \in Nat /\ Len(script) \in Nat
    BY <2>2 DEF HistoryInv, HistoryTyped
  <2>4. /\ path \in Seq(Entries) /\ Len(path) >= 1 /\ trace \in Seq(RangePoints)
        /\ Len(trace) = Len(script) + 0 /\ total \in Nat
    BY <1>2 DEF HistoryInv, HistoryTyped, RangeEncoding
  <2> QED
    BY <1>1, <2>1, <2>3, <2>4
<1>4. /\ path[1].total = 0 /\ path[1].range = Top - 1 /\ path[1].shifted = 0
      /\ path[g].total = total /\ path[g].range = range
      /\ g - path[g].shifted = tt + 1
      /\ l = path[g].shifted + flushed /\ flushed = 0
      /\ \A j \in 1 .. g : path[j].shifted <= path[g].shifted
      /\ range < Bottom
  BY <1>1, <1>2 DEF HistoryInv, PathEnds, CoderInv, RangesFit, RangeEncoding
<1>5. path[g].shifted \in Nat /\ l = path[g].shifted /\ l \in Nat
  BY <1>1, <1>3, <1>4, EntryTyped DEF HistoryInv
<1>6. e \in Entries /\ total' \in Nat
  <2>1. range' \in 1 .. (Top - 1)
    BY <1>3 DEF RangeTypeOK
  <2>2. total' \in Nat
    BY <1>2, <1>3, TopFacts, MulNat
  <2> QED
    BY <1>1, <1>5, <2>1, <2>2 DEF Entries
<1>7. /\ path' \in Seq(Entries) /\ Len(path') = g + 1 /\ path'[g + 1] = e
      /\ \A j \in 1 .. g : path'[j] = path[j]
  BY <1>1, <1>2, <1>3, <1>6
<1>8. HistoryTyped'
  <2>1. phase' \in RangeEncoding
    BY <1>2 DEF RangeEncoding
  <2> QED
    BY <1>1, <1>2, <1>3, <1>6, <1>7, <2>1 DEF HistoryTyped
<1>9. e.total = total' /\ e.range = range' /\ e.shifted = l + 1
  BY <1>1
<1>10. Shifted' = l + 1
  BY <1>1, <1>2, ShiftedRises
<1>11. PathEnds'
  <2>1. path'[1] = path[1]
    BY <1>3, <1>7
  <2>2. (g + 1) - (l + 1) = tt + 1
    <3>1. g - l = tt + 1
      BY <1>4, <1>5
    <3>2. g \in Nat /\ l \in Nat /\ tt \in Nat
      BY <1>3, <1>5
    <3> QED
      BY <3>1, <3>2
  <2>3. ASSUME NEW j \in 1 .. (g + 1) PROVE path'[j].shifted <= l + 1
    <3>1. CASE j <= g
      <4>1. j \in 1 .. g /\ path'[j] = path[j]
        BY <1>3, <1>7, <3>1
      <4>2. path[j].shifted \in Nat /\ path[j].shifted <= l
        BY <1>1, <1>4, <1>5, <4>1, EntryTyped DEF HistoryInv
      <4> QED
        BY <1>5, <4>1, <4>2
    <3>2. CASE j = g + 1
      BY <1>5, <1>7, <1>9, <3>2
    <3> QED
      BY <1>3, <3>1, <3>2
  <2>4. phase' \in RangeEncoding /\ flushed' = 0 /\ l + 1 = (l + 1) + 0
    BY <1>2, <1>4, <1>5 DEF RangeEncoding
  <2>5. /\ path'[Len(path')].total = total' /\ path'[Len(path')].range = range'
        /\ path'[Len(path')].shifted = l + 1
    BY <1>7, <1>9
  <2>6. Len(path') - path'[Len(path')].shifted = Len(script') + 1
    BY <1>1, <1>2, <1>7, <2>2, <2>5
  <2>7. \A j \in 1 .. Len(path') : path'[j].shifted <= path'[Len(path')].shifted
    BY <1>7, <2>3, <2>5
  <2>8. path'[1].total = 0 /\ path'[1].range = Top - 1 /\ path'[1].shifted = 0
    BY <1>4, <2>1
  <2> QED
    BY <1>10, <2>4, <2>5, <2>6, <2>7, <2>8 DEF PathEnds
<1>12. PathSteps'
  <2> SUFFICES ASSUME NEW j \in 1 .. g PROVE BitStep(j)' \/ ShiftStep(j)'
    BY <1>3, <1>7 DEF PathSteps
  <2>1. CASE j < g
    <3>1. path'[j] = path[j] /\ path'[j + 1] = path[j + 1] /\ j \in 1 .. (g - 1)
      <4>1. j \in 1 .. g /\ j + 1 \in 1 .. g /\ j \in 1 .. (g - 1)
        BY <1>3, <2>1
      <4> QED
        BY <1>7, <4>1
    <3>2. CASE BitStep(j)
      <4>1. script' = script /\ trace' = trace /\ Len(script) \in Nat /\ Len(script) <= Len(script)
        BY <1>1, <1>2, <1>3
      <4> QED
        BY <3>1, <3>2, <4>1, BitStepKept
    <3>3. CASE ShiftStep(j)
      BY <3>1, <3>3, ShiftStepKept
    <3> QED
      BY <1>1, <3>1, <3>2, <3>3 DEF HistoryInv, PathSteps
  <2>2. CASE j = g
    <3>1. path'[j] = path[g] /\ path'[j + 1] = e
      BY <1>3, <1>7, <2>2
    <3> QED
      BY <1>2, <1>4, <1>5, <1>9, <3>1 DEF ShiftStep
  <2> QED
    BY <1>3, <2>1, <2>2
<1>13. Models' /\ \A n \in 1 .. (Len(script) + 1) : ModelAt(n)' = ModelAt(n)
  BY <1>1, <1>2, <1>3, ModelsKept DEF HistoryInv
<1> QED
  BY <1>8, <1>11, <1>12, <1>13 DEF HistoryInv

LEMMA FlushHistory ==
  ASSUME CoderInv, HistoryInv, RangeFlush
  PROVE  /\ HistoryInv'
         /\ \A n \in 1 .. (Len(script) + 1) : ModelAt(n)' = ModelAt(n)
<1>1. PICK g, tt, l, p :
        /\ g = Len(path) /\ tt = Len(script) /\ l = Shifted /\ p = Point
  OBVIOUS
<1>2. /\ phase \in {"encode", "flush"} /\ ShiftLow
      /\ flushed' = flushed + 1
      /\ phase' = IF flushed' = 5 THEN "open" ELSE "flush"
      /\ trace' = IF flushed = 0 THEN Append(trace, p) ELSE trace
      /\ UNCHANGED <<script, model, range, total, path>>
  BY <1>1 DEF RangeFlush
<1>3. /\ path \in Seq(Entries) /\ g \in Nat /\ g >= 1 /\ trace \in Seq(RangePoints)
      /\ tt \in Nat /\ total \in Nat
      /\ RangeTypeOK /\ RangeTypeOK' /\ flushed \in Nat
      /\ phase = "encode" => Len(trace) = tt /\ flushed = 0
      /\ phase = "flush" => Len(trace) = tt + 1 /\ flushed # 0 /\ trace[tt + 1] = p
  <2>1. RangeTypeOK /\ RangeTypeOK'
    BY FlushInv DEF CoderInv
  <2>2. script \in Seq(Symbols) /\ flushed \in 0 .. 5
    BY <2>1 DEF RangeTypeOK, Symbols
  <2>3. Len(path) \in Nat /\ Len(script) \in Nat
    BY <2>2 DEF HistoryInv, HistoryTyped
  <2>4. /\ path \in Seq(Entries) /\ Len(path) >= 1 /\ trace \in Seq(RangePoints) /\ total \in Nat
    BY DEF HistoryInv, HistoryTyped
  <2>5. /\ phase = "encode" => Len(trace) = Len(script) + 0 /\ flushed = 0
        /\ phase = "flush" => /\ Len(trace) = Len(script) + 1 /\ flushed # 0
                              /\ trace[Len(script) + 1] = Point
    <3>1. "encode" \in RangeEncoding /\ "flush" \notin RangeEncoding
      BY DEF RangeEncoding
    <3> QED
      BY <3>1 DEF HistoryInv, HistoryTyped, CoderInv, RangesFit, PathEnds
  <2> QED
    BY <1>1, <2>1, <2>2, <2>3, <2>4, <2>5
<1>4. /\ path[1].total = 0 /\ path[1].range = Top - 1 /\ path[1].shifted = 0
      /\ path[g].total = total /\ path[g].range = range
      /\ g - path[g].shifted = tt + 1
      /\ l = path[g].shifted + flushed
      /\ \A j \in 1 .. g : path[j].shifted <= path[g].shifted
  BY <1>1 DEF HistoryInv, PathEnds
<1>5. path[g].shifted \in Nat
  BY <1>1, <1>3, EntryTyped DEF HistoryInv
<1>6. phase' \notin RangeEncoding
  BY <1>2 DEF RangeEncoding
<1>7. p \in RangePoints /\ p' = p
  <2>1. range \in 1 .. (Top - 1) /\ model \in [Contexts -> RangeProbs]
    BY <1>3 DEF RangeTypeOK
  <2> QED
    BY <1>1, <2>1 DEF Point, RangePoints
<1>8. Point' = p
  BY <1>1, <1>2 DEF Point
<1>9. /\ trace' \in Seq(RangePoints) /\ Len(trace') = tt + 1 /\ trace'[tt + 1] = p
      /\ \A n \in 1 .. tt : trace'[n] = trace[n]
  <2>1. CASE phase = "encode"
    BY <1>2, <1>3, <1>7, <2>1
  <2>2. CASE phase = "flush"
    BY <1>2, <1>3, <2>2
  <2> QED
    BY <1>2, <2>1, <2>2
<1>10. HistoryTyped'
  BY <1>1, <1>2, <1>3, <1>6, <1>9 DEF HistoryTyped
<1>11. Shifted' = l + 1
  BY <1>1, <1>2, ShiftedRises
<1>12. PathEnds'
  <2>1. l + 1 = path[g].shifted + flushed'
    <3>1. PICK z, f : z = path[g].shifted /\ f = flushed
      OBVIOUS
    <3>2. z \in Nat /\ f \in Nat /\ l = z + f
      BY <1>3, <1>4, <1>5, <3>1
    <3>3. l + 1 = z + (f + 1)
      BY <3>2
    <3> QED
      BY <1>2, <3>1, <3>3
  <2> QED
    BY <1>1, <1>2, <1>4, <1>8, <1>9, <1>11, <2>1 DEF PathEnds
<1>13. PathSteps'
  <2> SUFFICES ASSUME NEW j \in 1 .. (g - 1) PROVE BitStep(j)' \/ ShiftStep(j)'
    BY <1>1, <1>2 DEF PathSteps
  <2>1. path' = path /\ script' = script /\ Len(script) \in Nat /\ Len(script) <= Len(script)
    BY <1>1, <1>2, <1>3
  <2>2. CASE BitStep(j)
    BY <1>1, <1>9, <2>1, <2>2, BitStepKept
  <2>3. CASE ShiftStep(j)
    BY <2>1, <2>3, ShiftStepKept
  <2> QED
    BY <1>1, <2>2, <2>3 DEF HistoryInv, PathSteps
<1>14. Models' /\ \A n \in 1 .. (Len(script) + 1) : ModelAt(n)' = ModelAt(n)
  BY <1>1, <1>2, <1>3, <1>9, ModelsKept DEF HistoryInv
<1> QED
  BY <1>10, <1>12, <1>13, <1>14 DEF HistoryInv

\* The decoder leaves the encoder and the histories alone.
LEMMA HistoryKept ==
  ASSUME HistoryInv, phase \in RangeEncoding <=> phase' \in RangeEncoding,
         UNCHANGED <<script, model, range, cacheSize, out, flushed, total, path, trace>>
  PROVE  HistoryInv'
<1>1. HistoryTyped'
  BY DEF HistoryInv, HistoryTyped
<1>2. PathEnds'
  BY DEF HistoryInv, PathEnds, Shifted, Point
<1>3. \A j : BitStep(j)' = BitStep(j) /\ ShiftStep(j)' = ShiftStep(j)
  BY DEF BitStep, BitAt, BoundAt, ShiftStep
<1>4. PathSteps'
  BY <1>3 DEF HistoryInv, PathSteps
<1>5. Models'
  BY DEF HistoryInv, Models, ModelAt
<1> QED
  BY <1>1, <1>2, <1>4, <1>5 DEF HistoryInv

--------------------------------------------------------------------------------
(* The section stands for the low end of the last range *)

Scale(f) == IF f = 0 THEN 1 ELSE IF f = 1 THEN ByteBase ELSE IF f = 2 THEN ByteBase * ByteBase
            ELSE IF f = 3 THEN Bottom ELSE IF f = 4 THEN Top ELSE Top * ByteBase

Totals == /\ phase \notin RangeDecoding => Value * Top + low = total * Scale(flushed)
          /\ flushed >= 1 => low < Top
          /\ flushed \in 1 .. 3 => \E k \in Nat : low = k * Scale(flushed)
          /\ flushed = 4 => low = 0
          /\ phase \in RangeDecoding => Val(out) = total /\ cacheSize = 1

\* Scale(f) is the weight of f digits.
LEMMA ScaleFacts ==
  ASSUME NEW f \in 0 .. 4
  PROVE  Scale(f) \in Nat /\ Scale(f) > 0 /\ Scale(f + 1) = Scale(f) * ByteBase
<1>1. f = 0 \/ f = 1 \/ f = 2 \/ f = 3 \/ f = 4
  OBVIOUS
<1>2. PICK d : d = ByteBase * ByteBase
  OBVIOUS
<1>3. ByteBase \in Nat /\ ByteBase > 0 /\ d \in Nat /\ d > 0 /\ Bottom \in Nat /\ Bottom > 0
      /\ Top \in Nat /\ Top > 0 /\ Top = Bottom * ByteBase /\ Bottom = d * ByteBase
  BY <1>2, TopFacts, MulNat DEF Bottom
<1> QED
  BY <1>1, <1>2, <1>3 DEF Scale

\* Totals is inductive.
LEMMA TotalsInit ==
  ASSUME RangeInit
  PROVE  Totals
<1>1. /\ phase = "encode" /\ out = <<>> /\ cache = 0 /\ cacheSize = 1 /\ low = 0 /\ total = 0
      /\ flushed = 0
  BY DEF RangeInit
<1>2. 0 \in Bytes /\ ByteBase \in Nat /\ Top \in Nat /\ ByteBase - 1 \in Bytes
  BY TopFacts DEF Bytes
<1>3. <<>> \in Seq(Bytes) /\ Append(<<>>, 0) = <<0>> /\ <<>> \o <<0>> = <<0>>
  OBVIOUS
<1>4. <<0>> \in Seq(Bytes) /\ Val(<<0>>) = Val(<<>>) * ByteBase + 0
  BY <1>2, <1>3, ValAppend
<1>5. Val(<<0>>) = 0
  BY <1>2, <1>4, ValEmpty
<1>6. <<0>> \o Run(0, ByteBase - 1) = <<0>>
  BY <1>2, <1>4, RunGrows
<1>7. Value = 0
  <2>1. cacheSize - 1 = 0 /\ out \o <<cache>> = <<0>>
    BY <1>1, <1>3
  <2>2. Waiting = <<0>> \o Run(0, ByteBase - 1)
    BY <2>1 DEF Waiting
  <2> QED
    BY <1>5, <1>6, <2>2 DEF Value
<1> QED
  BY <1>1, <1>2, <1>7 DEF Totals, RangeDecoding, Scale

LEMMA EncodeBitTotals ==
  ASSUME CoderInv, Totals, total \in Nat, NEW c \in Contexts, NEW r \in Rates, NEW b \in Bits,
         EncodeBit(c, r, b)
  PROVE  Totals'
<1>1. PICK d, h : d = Bound(range, model[c]) /\ h = Value * Top
  OBVIOUS
<1>2. /\ phase = "encode" /\ phase' \in {"encode", "renorm"}
      /\ low' = IF b = 0 THEN low ELSE low + d
      /\ total' = IF b = 0 THEN total ELSE total + d
      /\ UNCHANGED <<out, cache, cacheSize, flushed>>
  BY <1>1 DEF EncodeBit
<1>3. d \in Nat /\ h \in Nat /\ low \in Nat /\ flushed = 0
  <2>1. d \in 1 .. (range - 1) /\ range \in Nat
    BY <1>1, <1>2, EncodeBitRanges
  <2>2. Value \in Nat
    BY CoderInvTyped, WaitingTyped
  <2>3. low \in Nat /\ flushed = 0
    BY <1>2 DEF CoderInv, RangeTypeOK, RangesFit, RangeEncoding
  <2> QED
    BY <1>1, <2>1, <2>2, <2>3, TopFacts, MulNat
<1>4. h + low = total
  <2>1. h + low = total * 1
    BY <1>1, <1>2, <1>3 DEF Totals, RangeDecoding, Scale
  <2> QED
    BY <2>1
<1>5. Value' = Value
  BY <1>2 DEF Value, Waiting
<1>6. h + low' = total' * 1
  <2>1. total \in Nat
    OBVIOUS
  <2> QED
    BY <1>2, <1>3, <1>4, <2>1
<1>7. Value' * Top = h /\ flushed' = 0
  BY <1>1, <1>2, <1>3, <1>5
<1> QED
  BY <1>2, <1>6, <1>7 DEF Totals, RangeDecoding, Scale

LEMMA RenormaliseTotals ==
  ASSUME CoderInv, Totals, total \in Nat, Renormalise
  PROVE  Totals'
<1>1. /\ phase = "renorm" /\ phase' \in {"encode", "renorm"} /\ ShiftLow
      /\ total' = total * ByteBase /\ flushed' = flushed
  BY DEF Renormalise
<1>2. flushed = 0
  BY <1>1 DEF CoderInv, RangesFit, RangeEncoding
<1>3. Value' * Top + low' = (Value * Top + low) * ByteBase
  BY <1>1, CoderInvTyped, ShiftLowFacts
<1>4. Value * Top + low = total
  <2>1. Value * Top + low = total * 1
    BY <1>1, <1>2 DEF Totals, RangeDecoding, Scale
  <2> QED
    BY <2>1
<1>5. Value' * Top + low' = total' * 1
  <2>1. PICK w : w = total * ByteBase
    OBVIOUS
  <2>2. w \in Nat
    BY <2>1, TopFacts, MulNat
  <2> QED
    BY <1>1, <1>3, <1>4, <2>1, <2>2
<1> QED
  BY <1>1, <1>2, <1>5 DEF Totals, RangeDecoding, Scale

LEMMA FlushTotals ==
  ASSUME CoderInv, Totals, total \in Nat, RangeFlush
  PROVE  Totals'
<1>1. PICK f, b, t, v, l : f = flushed /\ b = Bottom /\ t = Top /\ v = Value /\ l = low
  OBVIOUS
<1>2. /\ phase \in {"encode", "flush"} /\ ShiftLow
      /\ flushed' = f + 1 /\ total' = total
      /\ phase' = IF flushed' = 5 THEN "open" ELSE "flush"
  BY <1>1 DEF RangeFlush
<1>3. f \in 0 .. 4 /\ RangeTypeOK
  BY <1>1, <1>2 DEF CoderInv, RangesFit, RangeEncoding
<1>4. /\ ByteBase \in Nat /\ ByteBase >= 2 /\ b \in Nat /\ b >= ByteBase /\ t \in Nat /\ t > b
      /\ t = b * ByteBase /\ l \in Nat
  BY <1>1, <1>3, TopFacts DEF RangeTypeOK
<1>5. /\ out' \in Seq(Bytes) /\ low' \in 0 .. (t - 1) /\ low' = (Rest % b) * ByteBase
      /\ Value' * t + low' = (v * t + l) * ByteBase
      /\ \/ Carry = 0 /\ Rest >= t - b /\ cache' = cache
         \/ /\ Carry = 1 \/ Rest < t - b
            /\ cache' = Rest \div b
            /\ cacheSize' = 1
  BY <1>1, <1>2, CoderInvTyped, ShiftLowFacts
<1>6. v * t + l = total * Scale(f)
  BY <1>1, <1>2 DEF Totals, RangeDecoding
<1>7. Scale(f) \in Nat /\ Scale(f) > 0 /\ Scale(f + 1) = Scale(f) * ByteBase
  BY <1>3, ScaleFacts
<1>8. Value' * t + low' = total * Scale(f + 1)
  <2>1. PICK s : s = Scale(f)
    OBVIOUS
  <2>2. (total * s) * ByteBase = total * (s * ByteBase)
    BY <1>4, <1>7, <2>1, MulAssoc
  <2> QED
    BY <1>5, <1>6, <1>7, <2>1, <2>2
<1>9. f >= 1 => Rest = l /\ Carry = 0
  <2>1. f >= 1 => l < t
    BY <1>1 DEF Totals
  <2> QED
    BY <1>1, <1>4, <2>1 DEF Rest, Carry
<1>10. low' < t
  BY <1>4, <1>5
<1>11. ASSUME f + 1 \in 1 .. 3 PROVE \E k \in Nat : low' = k * Scale(f + 1)
  <2>1. CASE f = 0
    <3>1. Scale(f + 1) = ByteBase
      BY <2>1 DEF Scale
    <3>2. Rest % b \in Nat
      <4>1. Rest \in 0 .. (t - 1)
        BY <1>1, CoderInvTyped, RestFacts
      <4>2. Rest % b \in 0 .. (b - 1)
        BY <1>1, <4>1, TopDigit
      <4> QED
        BY <1>4, <4>2
    <3> QED
      BY <1>5, <3>1, <3>2
  <2>2. CASE f = 1 \/ f = 2
    <3>1. PICK k \in Nat : l = k * Scale(f)
      BY <1>1, <2>2 DEF Totals
    <3>2. PICK u, w : u = Scale(f) /\ w = Scale(3 - f)
      OBVIOUS
    <3>3. u \in Nat /\ u > 0 /\ w \in Nat /\ w > 0
      BY <1>7, <2>2, <3>2, ScaleFacts
    <3>4. b = w * u
      <4>1. PICK d : d = ByteBase * ByteBase
        OBVIOUS
      <4>2. d \in Nat /\ b = d * ByteBase /\ d * ByteBase = ByteBase * d
        BY <1>1, <1>4, <4>1, MulNat DEF Bottom
      <4>3. CASE f = 1
        BY <3>2, <4>1, <4>2, <4>3 DEF Scale
      <4>4. CASE f = 2
        BY <3>2, <4>1, <4>2, <4>4 DEF Scale
      <4> QED
        BY <2>2, <4>3, <4>4
    <3>5. (k * u) % (w * u) = (k % w) * u /\ k % w \in Nat
      BY <3>3, ModScaled
    <3>6. Rest % b = (k % w) * u
      BY <1>9, <2>2, <3>1, <3>2, <3>4, <3>5
    <3>7. PICK z : z = k % w
      OBVIOUS
    <3>8. (z * u) * ByteBase = z * (u * ByteBase)
      BY <1>4, <3>3, <3>5, <3>7, MulAssoc
    <3>9. low' = z * Scale(f + 1)
      BY <1>5, <1>7, <3>2, <3>6, <3>7, <3>8
    <3> QED
      BY <3>5, <3>7, <3>9
  <2> QED
    BY <1>3, <1>11, <2>1, <2>2
<1>12. ASSUME f + 1 >= 4 PROVE low' = 0
  <2>1. CASE f = 3
    <3>1. PICK k \in Nat : l = k * Scale(3)
      BY <1>1, <2>1 DEF Totals
    <3>2. l = k * b + 0 /\ 0 \in 0 .. (b - 1)
      <4>1. Scale(3) = b /\ k * b \in Nat
        BY <1>1, <1>4, MulNat DEF Scale
      <4> QED
        BY <1>4, <3>1, <4>1
    <3>3. (k * b + 0) % b = 0
      BY <1>4, <3>2, DivModUnique
    <3> QED
      BY <1>4, <1>5, <1>9, <2>1, <3>2, <3>3
  <2>2. CASE f = 4
    <3>1. l = 0
      BY <1>1, <2>2 DEF Totals
    <3>2. 0 % b = 0
      BY <1>4
    <3> QED
      BY <1>4, <1>5, <1>9, <2>2, <3>1, <3>2
  <2> QED
    BY <1>3, <1>12, <2>1, <2>2
<1>13. ASSUME f = 4 PROVE Val(out') = total /\ cacheSize' = 1
  <2>1. l = 0 /\ Rest = 0 /\ Carry = 0
    BY <1>1, <1>9, <1>13 DEF Totals
  <2>2. 0 \div b = 0
    BY <1>4
  <2>3. cache' = 0 /\ cacheSize' = 1
    BY <1>4, <1>5, <2>1, <2>2
  <2>4. PICK w : w = out'
    OBVIOUS
  <2>5. 0 \in Bytes /\ ByteBase - 1 \in Bytes /\ w \in Seq(Bytes)
    BY <1>4, <1>5, <2>4 DEF Bytes
  <2>6. Append(w, 0) \in Seq(Bytes) /\ Val(Append(w, 0)) = Val(w) * ByteBase + 0
    BY <2>5, ValAppend
  <2>7. w \o <<0>> = Append(w, 0)
    BY <2>5
  <2>71. PICK z : z = Append(w, 0)
    OBVIOUS
  <2>72. z \o Run(0, ByteBase - 1) = z
    BY <2>5, <2>6, <2>71, RunGrows
  <2>73. cacheSize' - 1 = 0 /\ out' \o <<cache'>> = z
    BY <2>3, <2>4, <2>7, <2>71
  <2>74. Waiting' = z
    BY <2>72, <2>73 DEF Waiting
  <2>8. Value' = Val(w) * ByteBase + 0
    BY <2>6, <2>71, <2>74 DEF Value
  <2>9. Val(w) \in Nat
    BY <2>5, PrefixFacts
  <2>10. (Val(w) * ByteBase) * t = (total * t) * ByteBase
    <3>1. low' = 0 /\ Scale(f + 1) = t * ByteBase
      BY <1>1, <1>12, <1>13 DEF Scale
    <3>2. total * (t * ByteBase) = (total * t) * ByteBase
      BY <1>4, MulAssoc
    <3>3. PICK h : h = Val(w) * ByteBase
      OBVIOUS
    <3>4. h \in Nat /\ Value' = h /\ h * t \in Nat
      BY <1>4, <2>8, <2>9, <3>3, MulNat
    <3>5. h * t + 0 = h * t
      BY <3>4
    <3> QED
      BY <1>8, <3>1, <3>2, <3>3, <3>4, <3>5
  <2>11. PICK h : h = Val(w)
    OBVIOUS
  <2>12. (h * ByteBase) * t = (h * t) * ByteBase /\ h * t \in Nat /\ total * t \in Nat /\ h \in Nat
    BY <1>4, <2>9, <2>11, MulAssoc, MulNat
  <2>13. h * t = total * t
    BY <1>4, <2>10, <2>11, <2>12, MulCancel
  <2>14. h = total
    BY <1>4, <2>12, <2>13, MulCancel
  <2> QED
    BY <2>3, <2>4, <2>11, <2>14
<1>14. CASE f = 4
  BY <1>2, <1>10, <1>12, <1>13, <1>14, <1>1 DEF Totals, RangeDecoding
<1>15. CASE f < 4
  <2>1. phase' = "flush" /\ flushed' = f + 1 /\ f + 1 \in 1 .. 4 /\ f \in Nat
    BY <1>2, <1>3, <1>15
  <2>2. "flush" \notin RangeDecoding
    BY DEF RangeDecoding
  <2>3. Value' * Top + low' = total' * Scale(flushed')
    BY <1>1, <1>2, <1>8
  <2>4. flushed' \in 1 .. 3 => \E k \in Nat : low' = k * Scale(flushed')
    BY <1>2, <1>11
  <2>5. flushed' = 4 => low' = 0
    BY <1>2, <1>12
  <2> QED
    BY <1>1, <1>10, <2>1, <2>2, <2>3, <2>4, <2>5 DEF Totals
<1> QED
  BY <1>3, <1>14, <1>15

--------------------------------------------------------------------------------
(* The section lies in every range of the path *)

\* The number that the decoder has read when it is at entry j.
Read(j) == Numbers(out)[path[j].shifted + 5]

Enclosed(j) == /\ path[j].total <= Read(j)
               /\ Read(j) < path[j].total + path[j].range

\* flush writes five digits after the last entry.
LEMMA SectionLength ==
  ASSUME CoderInv, HistoryInv, Totals, phase \in RangeDecoding
  PROVE  /\ Len(out) = path[Len(path)].shifted + 5
         /\ \A j \in 1 .. Len(path) : path[j].shifted + 5 <= Len(out)
<1>1. PICK g, l : g = Len(path) /\ l = path[g].shifted
  OBVIOUS
<1>2. g \in 1 .. Len(path) /\ HistoryTyped
  <2>1. Len(path) \in Nat /\ Len(path) >= 1 /\ HistoryTyped
    BY DEF HistoryInv, HistoryTyped
  <2> QED
    BY <1>1, <2>1
<1>3. l \in Nat
  BY <1>1, <1>2, EntryTyped
<1>4. Len(out) + 1 - 1 = l + 5
  BY <1>1 DEF HistoryInv, PathEnds, CoderInv, RangesFit, Totals, Shifted
<1>5. Len(out) = l + 5
  <2>1. Len(out) \in Nat
    BY DEF CoderInv, RangeTypeOK
  <2> QED
    BY <1>3, <1>4, <2>1
<1>6. ASSUME NEW j \in 1 .. Len(path) PROVE path[j].shifted + 5 <= Len(out)
  <2>1. path[j].shifted \in Nat /\ path[j].shifted <= l
    BY <1>1, <1>2, EntryTyped DEF HistoryInv, PathEnds
  <2> QED
    BY <1>3, <1>5, <2>1
<1> QED
  BY <1>1, <1>5, <1>6

\* One more byte read.
LEMMA ReadsOn ==
  ASSUME RangeTypeOK, NEW n \in Nat, n < Len(out)
  PROVE  /\ Numbers(out)[n] \in Nat /\ ByteAt(n) \in Bytes
         /\ Numbers(out)[n + 1] = Numbers(out)[n] * ByteBase + ByteAt(n)
<1>1. PICK s, f : s = out /\ f = Numbers(out)
  OBVIOUS
<1>2. s \in Seq(Bytes) /\ Reads(s, f) /\ Len(s) \in Nat
  BY <1>1, PrefixFacts DEF RangeTypeOK
<1>3. n \in 0 .. Len(s) /\ n + 1 \in 1 .. Len(s) /\ (n + 1) - 1 = n
  BY <1>1, <1>2
<1>4. f[n] \in Nat /\ f[n + 1] = f[n] * ByteBase + s[n + 1]
  BY <1>2, <1>3 DEF Reads
<1>5. ByteAt(n) = s[n + 1] /\ s[n + 1] \in Bytes
  BY <1>1, <1>2, <1>3, ElementOfSeq DEF ByteAt
<1> QED
  BY <1>1, <1>4, <1>5

\* At a recorded bit the bound splits the range.
LEMMA BitStepFacts ==
  ASSUME CoderInv, HistoryTyped, NEW j \in 1 .. (Len(path) - 1), BitStep(j),
         Len(script) <= Len(trace)
  PROVE  /\ BoundAt(j) \in 1 .. (path[j].range - 1)
         /\ script[BitAt(j)] \in Symbols
<1>0. PICK n, d : n = BitAt(j) /\ d = BoundAt(j)
  OBVIOUS
<1>1. /\ path[j].range >= Bottom /\ n \in 1 .. Len(script)
  BY <1>0 DEF BitStep
<1>2. script \in Seq(Symbols) /\ trace \in Seq(RangePoints) /\ path \in Seq(Entries)
  BY DEF CoderInv, RangeTypeOK, HistoryTyped, Symbols
<1>3. script[n] \in Symbols
  BY <1>1, <1>2, ElementOfSeq
<1>4. trace[n] \in RangePoints
  <2>1. Len(script) \in Nat /\ Len(trace) \in Nat
    BY <1>2
  <2>2. n \in 1 .. Len(script)
    BY <1>1
  <2>3. n \in 1 .. Len(trace)
    BY <2>1, <2>2
  <2> QED
    BY <1>2, <2>3, ElementOfSeq
<1>5. trace[n].model[script[n].ctx] \in RangeProbs
  <2>1. script[n].ctx \in Contexts
    BY <1>3 DEF Symbols
  <2>2. trace[n].model \in [Contexts -> RangeProbs]
    BY <1>4 DEF RangePoints
  <2> QED
    BY <2>1, <2>2
<1>6. path[j].range \in Bottom .. (Top - 1)
  <2>1. Len(path) \in Nat
    BY <1>2
  <2>2. j \in 1 .. Len(path)
    BY <2>1
  <2>3. path[j].range \in 1 .. (Top - 1)
    BY <2>2, EntryTyped
  <2>4. PICK a, b, t : a = path[j].range /\ b = Bottom /\ t = Top
    OBVIOUS
  <2>5. a \in 1 .. (t - 1) /\ a >= b /\ b \in Nat /\ t \in Nat
    BY <1>1, <2>3, <2>4, TopFacts
  <2>6. a \in b .. (t - 1)
    BY <2>5
  <2> QED
    BY <2>4, <2>6
<1>7. d \in 1 .. (path[j].range - 1)
  BY <1>0, <1>5, <1>6, BoundFacts DEF BoundAt
<1> QED
  BY <1>0, <1>3, <1>7

\* A range encloses what the range after it encloses.
LEMMA EnclosedBefore ==
  ASSUME CoderInv, HistoryInv, Totals, phase \in RangeDecoding, NEW j \in 1 .. (Len(path) - 1),
         Enclosed(j + 1)
  PROVE  Enclosed(j)
<1>1. HistoryTyped /\ RangeTypeOK /\ Len(path) \in Nat
  BY DEF HistoryInv, HistoryTyped, CoderInv
<1>2. j \in 1 .. Len(path) /\ j + 1 \in 1 .. Len(path)
  BY <1>1
<1>3. PICK tt, r, s, u, q, w :
        /\ tt = path[j].total /\ r = path[j].range /\ s = path[j].shifted
        /\ u = path[j + 1].total /\ q = path[j + 1].range /\ w = path[j + 1].shifted
  OBVIOUS
<1>4. tt \in Nat /\ r \in Nat /\ s \in Nat /\ u \in Nat /\ q \in Nat /\ w \in Nat
  BY <1>1, <1>2, <1>3, EntryTyped
<1>5. PICK h, y : h = Read(j) /\ y = Read(j + 1)
  OBVIOUS
<1>6. u <= y /\ y < u + q
  BY <1>3, <1>5 DEF Enclosed
<1>7. w + 5 <= Len(out) /\ Len(out) \in Nat
  <2>1. Len(out) \in Nat
    BY <1>1 DEF RangeTypeOK
  <2> QED
    BY <1>2, <1>3, <2>1, SectionLength
<1>8. CASE BitStep(j)
  <2>1. PICK b, d : b = script[BitAt(j)].bit /\ d = BoundAt(j)
    OBVIOUS
  <2>2. Len(script) <= Len(trace)
    <3>1. Len(script) \in Nat
      BY <1>1 DEF RangeTypeOK
    <3> QED
      BY <1>1, <3>1 DEF HistoryTyped
  <2>3. d \in 1 .. (r - 1)
    BY <1>1, <1>3, <1>8, <2>1, <2>2, BitStepFacts
  <2>4. /\ w = s
        /\ b = 0 => u = tt /\ q = d
        /\ b # 0 => u = tt + d /\ q = r - d
    BY <1>3, <1>8, <2>1 DEF BitStep
  <2>5. h = y
    BY <1>3, <1>5, <2>4 DEF Read
  <2>6. y \in Nat
    <3>1. Numbers(out) \in [0 .. Len(out) -> Nat]
      BY <1>1, PrefixFacts DEF RangeTypeOK, Reads
    <3>2. w + 5 \in 0 .. Len(out)
      BY <1>4, <1>7
    <3> QED
      BY <1>3, <1>5, <3>1, <3>2 DEF Read
  <2>7. tt <= h /\ h < tt + r
    <3>1. CASE b = 0
      BY <1>4, <1>6, <2>3, <2>4, <2>5, <2>6, <3>1
    <3>2. CASE b # 0
      BY <1>4, <1>6, <2>3, <2>4, <2>5, <2>6, <3>2
    <3> QED
      BY <3>1, <3>2
  <2> QED
    BY <1>3, <1>5, <2>7 DEF Enclosed
<1>9. CASE ShiftStep(j)
  <2>1. u = tt * ByteBase /\ q = r * ByteBase /\ w = s + 1
    BY <1>3, <1>9 DEF ShiftStep
  <2>2. s + 5 \in Nat /\ s + 5 < Len(out) /\ w + 5 = (s + 5) + 1
    BY <1>4, <1>7, <2>1
  <2>3. h \in Nat /\ ByteAt(s + 5) \in Bytes /\ y = h * ByteBase + ByteAt(s + 5)
    BY <1>1, <1>3, <1>5, <2>2, ReadsOn DEF Read
  <2>4. PICK z, v : z = ByteAt(s + 5) /\ v = h * ByteBase
    OBVIOUS
  <2>5. ByteBase \in Nat /\ ByteBase > 0 /\ z \in Nat /\ z < ByteBase /\ v \in Nat /\ y = v + z
    BY <2>3, <2>4, TopFacts, MulNat DEF Bytes
  <2>6. tt <= h
    <3> SUFFICES ASSUME h + 1 <= tt PROVE FALSE
      BY <1>4, <2>3
    <3>1. (h + 1) * ByteBase <= tt * ByteBase
      BY <1>4, <2>3, <2>5, MulMono
    <3>2. (h + 1) * ByteBase = v + ByteBase
      <4>1. (h + 1) * ByteBase = h * ByteBase + 1 * ByteBase
        BY <2>3, <2>5, MulAdd
      <4> QED
        BY <2>4, <2>5, <4>1
    <3> QED
      BY <1>4, <1>6, <2>1, <2>5, <3>1, <3>2
  <2>7. h < tt + r
    <3> SUFFICES ASSUME tt + r <= h PROVE FALSE
      BY <1>4, <2>3
    <3>1. (tt + r) * ByteBase <= h * ByteBase
      BY <1>4, <2>3, <2>5, MulMono
    <3>2. (tt + r) * ByteBase = u + q
      BY <1>4, <2>1, <2>5, MulAdd
    <3> QED
      BY <1>4, <1>6, <2>4, <2>5, <3>1, <3>2
  <2> QED
    BY <1>3, <1>5, <2>6, <2>7 DEF Enclosed
<1> QED
  BY <1>8, <1>9 DEF HistoryInv, PathSteps

\* So every range of the path encloses the section: backwards along the path from its last
\* entry, whose low end the section is.
LEMMA AllEnclosed ==
  ASSUME CoderInv, HistoryInv, Totals, phase \in RangeDecoding
  PROVE  \A j \in 1 .. Len(path) : Enclosed(j)
<1>1. PICK g : g = Len(path)
  OBVIOUS
<1>2. g \in Nat /\ g >= 1 /\ HistoryTyped
  BY <1>1 DEF HistoryInv, HistoryTyped
<1>3. PICK E : E = {j \in 1 .. g : Enclosed(j)}
  OBVIOUS
<1>4. g \in E
  <2>1. Read(g) = total
    <3>1. Len(out) = path[g].shifted + 5
      BY <1>1, SectionLength
    <3> QED
      BY <3>1 DEF Totals, Val, Read
  <2>2. path[g].total = total /\ path[g].range \in Nat /\ path[g].range >= 1 /\ total \in Nat
    <3>1. g \in 1 .. Len(path)
      BY <1>1, <1>2
    <3>2. path[g].range \in Nat /\ path[g].range \in 1 .. (Top - 1)
      BY <1>2, <3>1, EntryTyped
    <3> QED
      BY <1>1, <1>2, <3>2, TopFacts DEF HistoryInv, PathEnds, HistoryTyped
  <2>3. Enclosed(g)
    BY <2>1, <2>2 DEF Enclosed
  <2> QED
    BY <1>2, <1>3, <2>3
<1>5. ASSUME NEW j \in 1 .. (g - 1), j + 1 \in E PROVE j \in E
  <2>1. Enclosed(j + 1) /\ j \in 1 .. g
    BY <1>2, <1>3, <1>5
  <2>2. Enclosed(j)
    BY <1>1, <2>1, EnclosedBefore
  <2> QED
    BY <1>3, <2>1, <2>2
<1>6. PICK T : T = {k \in Nat : k < g => g - k \in E}
  OBVIOUS
<1>7. 0 \in T
  BY <1>2, <1>4, <1>6
<1>8. ASSUME NEW k \in Nat, k \in T PROVE k + 1 \in T
  <2> SUFFICES ASSUME k + 1 < g PROVE g - (k + 1) \in E
    BY <1>6
  <2>1. PICK j : j = g - (k + 1)
    OBVIOUS
  <2>2. j \in 1 .. (g - 1) /\ j + 1 = g - k /\ k < g
    BY <1>2, <2>1
  <2>3. g - k \in E
    BY <1>6, <1>8, <2>2
  <2> QED
    BY <1>5, <2>1, <2>2, <2>3
<1>9. Nat \subseteq T
  BY <1>7, <1>8, SetInduction
<1>10. ASSUME NEW j \in 1 .. g PROVE Enclosed(j)
  <2>1. g - j \in Nat /\ g - j < g /\ g - (g - j) = j
    BY <1>2
  <2>2. j \in E
    BY <1>6, <1>9, <2>1
  <2> QED
    BY <1>3, <2>2
<1> QED
  BY <1>1, <1>10

--------------------------------------------------------------------------------
(* The decoder follows the path *)

\* The entry of the path that the decoder is at.
At == Len(decoded) + pos - 4

OnPath == /\ At \in 1 .. Len(path)
          /\ path[At].shifted + 5 = pos
          /\ drange = path[At].range
          /\ code + path[At].total = Numbers(out)[pos]

DecoderInv == /\ Len(decoded) <= Len(script)
              /\ DecodesEncodedBits
              /\ dmodel = ModelAt(Len(decoded) + 1)
              /\ phase \notin {"decode", "refill"} =>
                   decoded = <<>> /\ drange = Top - 1 /\ pos \in 0 .. 4
              /\ phase \notin RangeDecoding => code = 0 /\ pos = 0
              /\ phase = "open" => code = Numbers(out)[pos]
              /\ phase \in {"decode", "refill"} => OnPath

RangeInv == CoderInv /\ HistoryInv /\ Totals /\ DecoderInv

\* DecoderInv is inductive.
LEMMA DecoderInit ==
  ASSUME RangeInit
  PROVE  DecoderInv
<1>1. /\ phase = "encode" /\ script = <<>> /\ decoded = <<>> /\ dmodel = model /\ code = 0
      /\ drange = Top - 1 /\ pos = 0
  BY DEF RangeInit
<1>2. Len(script) = 0 /\ Len(decoded) = 0
  BY <1>1
<1>3. ModelAt(Len(decoded) + 1) = model
  BY <1>2 DEF ModelAt
<1> QED
  BY <1>1, <1>2, <1>3 DEF DecoderInv, DecodesEncodedBits, RangeDecoding

\* The decoder has not begun.
LEMMA DecoderWaits ==
  ASSUME DecoderInv, phase \notin RangeDecoding, phase' \notin {"decode", "refill"},
         UNCHANGED <<dmodel, code, drange, pos, decoded>>,
         ModelAt(1)' = ModelAt(1), Len(script') \in Nat, out' \in Seq(Bytes)
  PROVE  DecoderInv'
<1>1. /\ decoded = <<>> /\ drange = Top - 1 /\ pos = 0 /\ code = 0
      /\ dmodel = ModelAt(Len(decoded) + 1)
  BY DEF DecoderInv, RangeDecoding
<1>2. Len(decoded) = 0 /\ decoded' = <<>> /\ Len(decoded') = 0
  BY <1>1
<1>3. dmodel = ModelAt(1) /\ dmodel' = ModelAt(1)'
  BY <1>1, <1>2
<1>4. Numbers(out')[0] = 0
  BY PrefixFacts DEF Reads
<1>5. /\ drange' = Top - 1 /\ pos' = 0 /\ code' = 0 /\ pos' \in 0 .. 4
  BY <1>1
<1>6. DecodesEncodedBits' /\ Len(decoded') <= Len(script')
  BY <1>2 DEF DecodesEncodedBits
<1>7. dmodel' = ModelAt(Len(decoded) + 1)'
  BY <1>2, <1>3 DEF ModelAt
<1> QED
  BY <1>2, <1>4, <1>5, <1>6, <1>7 DEF DecoderInv

\* The first bytes of a section, as read_byte returns them.
LEMMA ReadsRise ==
  ASSUME RangeTypeOK, NEW n \in Nat, n < Len(out)
  PROVE  Numbers(out)[n] <= Numbers(out)[n + 1]
<1>1. PICK h, y, z, v :
        h = Numbers(out)[n] /\ y = Numbers(out)[n + 1] /\ z = ByteAt(n) /\ v = h * ByteBase
  OBVIOUS
<1>2. h \in Nat /\ z \in Nat /\ y = v + z /\ v \in Nat
  BY <1>1, ReadsOn, TopFacts, MulNat DEF Bytes
<1>3. h <= v
  <2>1. 1 * h <= ByteBase * h
    BY <1>2, TopFacts, MulMono
  <2>2. ByteBase * h = v
    BY <1>1, <1>2, TopFacts, MulNat
  <2> QED
    BY <1>2, <2>1, <2>2
<1> QED
  BY <1>1, <1>2, <1>3

\* The five bytes that the decoder's constructor reads do not overflow code_.
LEMMA OpenReads ==
  ASSUME CoderInv, HistoryInv, Totals, phase \in RangeDecoding
  PROVE  /\ Len(out) \in Nat /\ Len(out) >= 5
         /\ Read(1) = Numbers(out)[5]
         /\ \A n \in 0 .. 5 : Numbers(out)[n] \in Nat /\ Numbers(out)[n] < Top
<1>1. /\ path[1].total = 0 /\ path[1].range = Top - 1 /\ path[1].shifted = 0
      /\ Len(path) \in Nat /\ 1 \in 1 .. Len(path) /\ RangeTypeOK
  <2>1. Len(path) \in Nat /\ Len(path) >= 1
    BY DEF HistoryInv, HistoryTyped
  <2> QED
    BY <2>1 DEF HistoryInv, PathEnds, CoderInv
<1>2. Len(out) \in Nat /\ Len(out) >= 5
  <2>1. 0 + 5 <= Len(out)
    BY <1>1, SectionLength
  <2>2. Len(out) \in Nat
    BY <1>1 DEF RangeTypeOK
  <2> QED
    BY <2>1, <2>2
<1>3. PICK f : f = Numbers(out)
  OBVIOUS
<1>4. Read(1) = f[5]
  BY <1>1, <1>3 DEF Read
<1>5. f[5] < Top
  <2>1. Enclosed(1)
    BY <1>1, AllEnclosed
  <2>2. f[5] \in Nat
    <3>1. f \in [0 .. Len(out) -> Nat]
      BY <1>1, <1>3, PrefixFacts DEF RangeTypeOK, Reads
    <3> QED
      BY <1>2, <3>1
  <2>3. f[5] < 0 + (Top - 1)
    BY <1>1, <1>4, <2>1 DEF Enclosed
  <2> QED
    BY <2>2, <2>3, TopFacts
<1>6. \A n \in 0 .. 5 : f[n] \in Nat
  <2>1. f \in [0 .. Len(out) -> Nat]
    BY <1>1, <1>3, PrefixFacts DEF RangeTypeOK, Reads
  <2> QED
    BY <1>2, <2>1
<1>7. f[0] <= f[1] /\ f[1] <= f[2] /\ f[2] <= f[3] /\ f[3] <= f[4] /\ f[4] <= f[5]
  <2>1. \A n \in 0 .. 4 : n < Len(out) /\ n \in Nat
    BY <1>2
  <2>2. \A n \in 0 .. 4 : f[n] <= f[n + 1]
    BY <1>1, <1>3, <2>1, ReadsRise
  <2>3. f[0] <= f[0 + 1] /\ f[1] <= f[1 + 1] /\ f[2] <= f[2 + 1] /\ f[3] <= f[3 + 1]
        /\ f[4] <= f[4 + 1]
    BY <2>2
  <2> QED
    BY <2>3
<1>8. ASSUME NEW n \in 0 .. 5 PROVE f[n] < Top
  <2>1. PICK a, b, c, d, e, g, t :
          a = f[0] /\ b = f[1] /\ c = f[2] /\ d = f[3] /\ e = f[4] /\ g = f[5] /\ t = Top
    OBVIOUS
  <2>2. a \in Nat /\ b \in Nat /\ c \in Nat /\ d \in Nat /\ e \in Nat /\ g \in Nat /\ t \in Nat
    BY <1>6, <2>1, TopFacts
  <2>3. a <= b /\ b <= c /\ c <= d /\ d <= e /\ e <= g /\ g < t
    BY <1>5, <1>7, <2>1
  <2>4. a < t /\ b < t /\ c < t /\ d < t /\ e < t
    BY <2>2, <2>3
  <2>5. n = 0 \/ n = 1 \/ n = 2 \/ n = 3 \/ n = 4 \/ n = 5
    OBVIOUS
  <2> QED
    BY <2>1, <2>3, <2>4, <2>5
<1> QED
  BY <1>2, <1>3, <1>4, <1>6, <1>8

LEMMA OpenDecoder ==
  ASSUME RangeInv, RangeOpen
  PROVE  DecoderInv'
<1>1. PICK f, h, y, z : f = Numbers(out) /\ h = f[pos] /\ y = f[pos + 1] /\ z = ByteAt(pos)
  OBVIOUS
<1>2. /\ phase = "open" /\ code' = (code * ByteBase + z) % Top
      /\ pos' = pos + 1
      /\ phase' = IF pos' = 5 THEN "decode" ELSE "open"
      /\ UNCHANGED <<script, model, out, dmodel, drange, decoded, path, trace>>
  BY <1>1 DEF RangeOpen, coder, history
<1>3. /\ phase \in RangeDecoding /\ RangeTypeOK
      /\ decoded = <<>> /\ drange = Top - 1 /\ pos \in 0 .. 4 /\ code = h
      /\ dmodel = ModelAt(Len(decoded) + 1) /\ Len(decoded) <= Len(script) /\ DecodesEncodedBits
  BY <1>1, <1>2 DEF RangeInv, DecoderInv, CoderInv, RangeDecoding
<1>4. /\ Len(out) >= 5 /\ Len(out) \in Nat
      /\ h \in Nat /\ y \in Nat /\ y < Top
  <2>1. pos \in 0 .. 5 /\ pos + 1 \in 0 .. 5
    BY <1>3
  <2> QED
    BY <1>1, <1>3, <2>1, OpenReads DEF RangeInv
<1>5. y = h * ByteBase + z
  <2>1. pos \in Nat /\ pos < Len(out)
    BY <1>3, <1>4
  <2> QED
    BY <1>1, <1>3, <2>1, ReadsOn
<1>6. code' = y
  <2>1. y % Top = y
    BY <1>4, TopFacts
  <2> QED
    BY <1>2, <1>3, <1>5, <2>1
<1>7. /\ Len(decoded') <= Len(script') /\ DecodesEncodedBits'
      /\ dmodel' = ModelAt(Len(decoded) + 1)'
      /\ phase' \in RangeDecoding
  BY <1>2, <1>3 DEF DecodesEncodedBits, ModelAt, RangeDecoding
<1>8. CASE pos' = 5
  <2>1. phase' = "decode" /\ pos + 1 = 5
    BY <1>2, <1>8
  <2>2. At' = 1
    <3>1. Len(decoded') = 0
      BY <1>2, <1>3
    <3> QED
      BY <1>8, <3>1 DEF At
  <2>3. /\ path[1].total = 0 /\ path[1].range = Top - 1 /\ path[1].shifted = 0
        /\ 1 \in 1 .. Len(path)
    <3>1. Len(path) \in Nat /\ Len(path) >= 1
      BY DEF RangeInv, HistoryInv, HistoryTyped
    <3> QED
      BY <3>1 DEF RangeInv, HistoryInv, PathEnds
  <2>4. OnPath'
    <3>1. code' + path'[1].total = Numbers(out')[5]
      BY <1>1, <1>2, <1>4, <1>6, <2>1, <2>3
    <3> QED
      BY <1>2, <1>3, <1>8, <2>2, <2>3, <3>1 DEF OnPath
  <2> QED
    BY <1>7, <2>1, <2>4 DEF DecoderInv, RangeDecoding
<1>9. CASE pos' # 5
  <2>1. phase' = "open" /\ pos' \in 0 .. 4
    BY <1>2, <1>3, <1>9
  <2>2. code' = Numbers(out')[pos']
    BY <1>1, <1>2, <1>6
  <2> QED
    BY <1>2, <1>3, <1>7, <2>1, <2>2 DEF DecoderInv
<1> QED
  BY <1>8, <1>9

\* Where the decoder is on the path.
LEMMA AtFacts ==
  ASSUME RangeInv, phase \in {"decode", "refill"}
  PROVE  /\ phase \in RangeDecoding /\ RangeTypeOK /\ HistoryTyped /\ OnPath
         /\ At \in 1 .. Len(path) /\ Len(path) \in Nat /\ At \in Nat
         /\ pos \in Nat /\ Len(decoded) \in Nat /\ Len(script) \in Nat
         /\ path[At].total \in Nat /\ path[At].range \in Nat /\ path[At].shifted \in Nat
         /\ BitAt(At) = Len(decoded) + 1
         /\ At = Len(path) => Len(decoded) = Len(script) /\ pos = Len(out)
         /\ At # Len(path) => At \in 1 .. (Len(path) - 1)
         /\ pos <= Len(out)
         /\ drange >= Bottom \/ At # Len(path)
<1>1. /\ phase \in RangeDecoding /\ RangeTypeOK /\ HistoryTyped /\ OnPath
      /\ phase # "renorm"
  BY DEF RangeInv, DecoderInv, CoderInv, HistoryInv, RangeDecoding
<1>2. /\ Len(path) \in Nat /\ Len(path) >= 1 /\ pos \in Nat /\ Len(decoded) \in Nat
      /\ Len(script) \in Nat /\ Len(out) \in Nat
  BY <1>1 DEF RangeTypeOK, HistoryTyped
<1>3. At \in 1 .. Len(path) /\ path[At].shifted + 5 = pos
  BY <1>1 DEF OnPath
<1>4. path[At].total \in Nat /\ path[At].range \in Nat /\ path[At].shifted \in Nat
  BY <1>1, <1>3, EntryTyped
<1>5. PICK i, s, n, k : i = At /\ s = path[At].shifted /\ n = Len(decoded) /\ k = pos
  OBVIOUS
<1>6. i = n + k - 4 /\ s + 5 = k /\ s \in Nat /\ n \in Nat /\ k \in Nat
  BY <1>2, <1>3, <1>4, <1>5 DEF At
<1>7. i - s = n + 1
  BY <1>6
<1>8. BitAt(At) = Len(decoded) + 1
  BY <1>5, <1>7 DEF BitAt
<1>9. ASSUME i = Len(path) PROVE n = Len(script) /\ k = Len(out)
  <2>1. i - s = Len(script) + 1
    BY <1>5, <1>9 DEF RangeInv, HistoryInv, PathEnds
  <2>2. Len(out) = s + 5
    BY <1>1, <1>5, <1>9, SectionLength DEF RangeInv
  <2> QED
    BY <1>2, <1>6, <1>7, <2>1, <2>2
<1>10. i # Len(path) => i \in 1 .. (Len(path) - 1)
  BY <1>2, <1>3, <1>5
<1>11. pos <= Len(out)
  <2>1. path[At].shifted + 5 <= Len(out)
    BY <1>1, <1>3, SectionLength DEF RangeInv
  <2> QED
    BY <1>3, <2>1
<1>12. drange >= Bottom \/ i # Len(path)
  <2> SUFFICES ASSUME i = Len(path) PROVE drange >= Bottom
    OBVIOUS
  <2>1. drange = range
    BY <1>1, <1>5 DEF OnPath, RangeInv, HistoryInv, PathEnds
  <2>2. ~(range < Bottom)
    BY <1>1 DEF RangeInv, CoderInv, RangesFit
  <2>3. range \in 1 .. (Top - 1)
    BY <1>1 DEF RangeTypeOK
  <2> QED
    BY <2>1, <2>2, <2>3, TopFacts
<1>13. i \in Nat
  BY <1>2, <1>3, <1>5
<1> QED
  BY <1>1, <1>2, <1>3, <1>4, <1>5, <1>8, <1>9, <1>10, <1>11, <1>12, <1>13

\* decode_bit compares code_ with the bound that the encoder used, and so returns the bit
\* that leads to the next entry of the path.
LEMMA DecodeBitDecoder ==
  ASSUME RangeInv, RangeDecodeBit
  PROVE  DecoderInv'
<1>1. PICK i, n, s, d, h, tt :
        /\ i = At /\ n = Len(decoded) + 1 /\ s = script[n]
        /\ d = Bound(drange, dmodel[s.ctx]) /\ h = Numbers(out)[pos] /\ tt = path[i].total
  OBVIOUS
<1>2. PICK b : b = IF code < d THEN 0 ELSE 1
  OBVIOUS
<1>3. /\ phase = "decode" /\ n <= Len(script)
      /\ code' = IF b = 0 THEN code ELSE code - d
      /\ drange' = IF b = 0 THEN d ELSE drange - d
      /\ dmodel' = [dmodel EXCEPT ![s.ctx] = RangeAdapt(@, b, s.rate)]
      /\ decoded' = Append(decoded, b)
      /\ phase' \in {"refill", "decode"}
      /\ UNCHANGED <<script, model, out, pos, path, trace>>
  BY <1>1, <1>2 DEF RangeDecodeBit, coder, history
<1>4. /\ phase \in RangeDecoding /\ RangeTypeOK /\ HistoryTyped /\ OnPath
      /\ i \in 1 .. Len(path) /\ Len(path) \in Nat /\ i \in Nat
      /\ pos \in Nat /\ Len(decoded) \in Nat /\ Len(script) \in Nat
      /\ tt \in Nat /\ BitAt(i) = n
      /\ i = Len(path) => Len(decoded) = Len(script)
      /\ i # Len(path) => i \in 1 .. (Len(path) - 1)
  BY <1>1, <1>3, AtFacts
<1>5. i \in 1 .. (Len(path) - 1)
  BY <1>1, <1>3, <1>4
<1>6. drange = path[i].range /\ path[i].shifted + 5 = pos /\ code + tt = h
  BY <1>1, <1>4 DEF OnPath
<1>7. BitStep(i)
  <2>1. ~(path[i].range < Bottom)
    BY <1>3, <1>4, <1>6 DEF RangeInv, CoderInv, RangesFit
  <2> QED
    BY <1>5, <2>1 DEF RangeInv, HistoryInv, PathSteps, ShiftStep
<1>8. d = BoundAt(i)
  <2>1. dmodel = trace[n].model
    BY <1>1, <1>3 DEF RangeInv, DecoderInv, ModelAt
  <2> QED
    BY <1>1, <1>4, <1>6, <2>1 DEF BoundAt
<1>9. d \in 1 .. (drange - 1) /\ s \in Symbols
  <2>1. Len(script) <= Len(trace)
    BY <1>4 DEF HistoryTyped
  <2> QED
    BY <1>1, <1>4, <1>5, <1>6, <1>7, <1>8, <2>1, BitStepFacts DEF RangeInv
<1>10. /\ path[i + 1].shifted = path[i].shifted
       /\ s.bit = 0 => path[i + 1].total = tt /\ path[i + 1].range = d
       /\ s.bit # 0 => /\ path[i + 1].total = tt + d
                       /\ path[i + 1].range = path[i].range - d
  BY <1>1, <1>4, <1>7, <1>8 DEF BitStep
<1>11. /\ path[i + 1].total <= h /\ h < path[i + 1].total + path[i + 1].range
       /\ i + 1 \in 1 .. Len(path)
  <2>1. i + 1 \in 1 .. Len(path)
    BY <1>4, <1>5
  <2>2. Enclosed(i + 1)
    BY <1>4, <2>1, AllEnclosed DEF RangeInv
  <2>3. Read(i + 1) = h
    BY <1>1, <1>6, <1>10 DEF Read
  <2> QED
    BY <2>1, <2>2, <2>3 DEF Enclosed
<1>12. code \in Nat /\ d \in Nat /\ drange \in Nat /\ s.bit \in {0, 1}
  <2>1. code \in Nat /\ drange \in 1 .. (Top - 1)
    BY <1>4 DEF RangeTypeOK
  <2>2. drange \in Nat
    BY <2>1, TopFacts
  <2> QED
    BY <1>9, <2>1, <2>2 DEF Symbols, Bits
<1>13. b = s.bit
  <2>1. CASE s.bit = 0
    <3>1. code + tt < tt + d
      BY <1>6, <1>10, <1>11, <2>1
    <3> QED
      BY <1>2, <1>4, <1>12, <2>1, <3>1
  <2>2. CASE s.bit = 1
    <3>1. tt + d <= code + tt
      BY <1>6, <1>10, <1>11, <2>2
    <3> QED
      BY <1>2, <1>4, <1>12, <2>2, <3>1
  <2> QED
    BY <1>12, <2>1, <2>2
<1>14. /\ decoded' \in Seq(Bits) /\ Len(decoded') = n /\ decoded'[n] = b
       /\ \A k \in 1 .. Len(decoded) : decoded'[k] = decoded[k]
  <2>1. decoded \in Seq(Bits) /\ b \in Bits
    BY <1>2, <1>4 DEF RangeTypeOK, Bits
  <2> QED
    BY <1>1, <1>3, <2>1
<1>15. DecodesEncodedBits'
  <2> SUFFICES ASSUME NEW k \in 1 .. n PROVE decoded'[k] = script[k].bit
    BY <1>3, <1>14 DEF DecodesEncodedBits
  <2>1. CASE k = n
    BY <1>1, <1>13, <1>14, <2>1
  <2>2. CASE k \in 1 .. Len(decoded)
    BY <1>14, <2>2 DEF RangeInv, DecoderInv, DecodesEncodedBits
  <2>3. k = n \/ k \in 1 .. Len(decoded)
    BY <1>1, <1>4
  <2> QED
    BY <2>1, <2>2, <2>3
<1>16. dmodel' = ModelAt(Len(decoded) + 1)'
  <2>1. n \in 1 .. Len(script)
    BY <1>1, <1>3, <1>4
  <2>2. ModelAt(n + 1) = [ModelAt(n) EXCEPT ![s.ctx] = RangeAdapt(@, s.bit, s.rate)]
    BY <1>1, <2>1 DEF RangeInv, HistoryInv, Models
  <2>3. dmodel = ModelAt(n)
    BY <1>1 DEF RangeInv, DecoderInv
  <2>4. ModelAt(Len(decoded) + 1)' = ModelAt(n + 1)
    BY <1>3, <1>14 DEF ModelAt
  <2> QED
    BY <1>3, <1>13, <2>2, <2>3, <2>4
<1>17. At' = i + 1
  <2>1. PICK l, p : l = Len(decoded) /\ p = pos
    OBVIOUS
  <2>2. i = l + p - 4 /\ l \in Nat /\ p \in Nat /\ n = l + 1
    BY <1>1, <1>4, <2>1 DEF At
  <2>3. n + p - 4 = i + 1
    BY <2>2
  <2> QED
    BY <1>3, <1>14, <2>1, <2>3 DEF At
<1>18. OnPath'
  <2>1. drange' = path[i + 1].range
    BY <1>3, <1>6, <1>10, <1>12, <1>13
  <2>2. code' + path[i + 1].total = h
    <3>1. CASE s.bit = 0
      BY <1>3, <1>6, <1>10, <1>13, <3>1
    <3>2. CASE s.bit = 1
      <4>1. code' = code - d /\ path[i + 1].total = tt + d
        BY <1>3, <1>10, <1>13, <3>2
      <4>2. (code - d) + (tt + d) = code + tt
        BY <1>4, <1>12
      <4> QED
        BY <1>6, <4>1, <4>2
    <3> QED
      BY <1>12, <3>1, <3>2
  <2> QED
    BY <1>1, <1>3, <1>6, <1>10, <1>11, <1>17, <2>1, <2>2 DEF OnPath
<1> QED
  BY <1>1, <1>3, <1>14, <1>15, <1>16, <1>18 DEF DecoderInv, RangeDecoding

\* A turn of the decoder's loop follows a turn of the encoder's.
LEMMA RefillDecoder ==
  ASSUME RangeInv, RangeRefill
  PROVE  DecoderInv'
<1>1. PICK i, h, y, z, tt, r :
        /\ i = At /\ h = Numbers(out)[pos] /\ y = Numbers(out)[pos + 1] /\ z = ByteAt(pos)
        /\ tt = path[i].total /\ r = path[i].range
  OBVIOUS
<1>2. /\ phase = "refill" /\ code' = (code * ByteBase + z) % Top
      /\ drange' = drange * ByteBase
      /\ pos' = pos + 1
      /\ phase' \in {"refill", "decode"}
      /\ UNCHANGED <<script, model, out, dmodel, decoded, path, trace>>
  BY <1>1 DEF RangeRefill, coder, history
<1>3. /\ phase \in RangeDecoding /\ RangeTypeOK /\ HistoryTyped /\ OnPath
      /\ i \in 1 .. Len(path) /\ Len(path) \in Nat /\ i \in Nat
      /\ pos \in Nat /\ Len(decoded) \in Nat
      /\ tt \in Nat /\ r \in Nat
      /\ i # Len(path) => i \in 1 .. (Len(path) - 1)
      /\ drange >= Bottom \/ i # Len(path)
  BY <1>1, <1>2, AtFacts
<1>4. drange < Bottom /\ i \in 1 .. (Len(path) - 1)
  <2>1. drange < Bottom
    BY <1>2 DEF RangeInv, CoderInv, RangesFit
  <2>2. drange \in 1 .. (Top - 1)
    BY <1>3 DEF RangeTypeOK
  <2>3. ~(drange >= Bottom)
    BY <2>1, <2>2, TopFacts
  <2> QED
    BY <1>3, <2>1, <2>3
<1>5. drange = r /\ path[i].shifted + 5 = pos /\ code + tt = h
  BY <1>1, <1>3 DEF OnPath
<1>6. ShiftStep(i)
  <2>1. ~(path[i].range >= Bottom)
    BY <1>1, <1>3, <1>4, <1>5, TopFacts
  <2> QED
    BY <1>4, <2>1 DEF RangeInv, HistoryInv, PathSteps, BitStep
<1>7. /\ path[i + 1].total = tt * ByteBase /\ path[i + 1].range = r * ByteBase
      /\ path[i + 1].shifted = path[i].shifted + 1
  BY <1>1, <1>6 DEF ShiftStep
<1>8. i + 1 \in 1 .. Len(path) /\ path[i].shifted \in Nat
  BY <1>3, <1>4, EntryTyped
<1>9. path[i + 1].shifted + 5 = pos + 1
  BY <1>5, <1>7, <1>8
<1>10. pos + 1 <= Len(out) /\ pos < Len(out)
  <2>1. path[i + 1].shifted + 5 <= Len(out)
    BY <1>3, <1>8, SectionLength DEF RangeInv
  <2>2. Len(out) \in Nat
    BY <1>3 DEF RangeTypeOK
  <2> QED
    BY <1>3, <1>9, <2>1, <2>2
<1>11. path[i + 1].total <= y /\ y < path[i + 1].total + path[i + 1].range
  <2>1. Enclosed(i + 1)
    BY <1>3, <1>8, AllEnclosed DEF RangeInv
  <2>2. Read(i + 1) = y
    BY <1>1, <1>9 DEF Read
  <2> QED
    BY <2>1, <2>2 DEF Enclosed
<1>12. h \in Nat /\ z \in Nat /\ y = h * ByteBase + z
  BY <1>1, <1>3, <1>10, ReadsOn DEF Bytes
<1>13. code \in Nat /\ ByteBase \in Nat /\ Top \in Nat
  BY <1>3, TopFacts DEF RangeTypeOK
<1>14. h * ByteBase = code * ByteBase + tt * ByteBase
  BY <1>3, <1>5, <1>13, MulAdd
<1>15. PICK c, u, q : c = code * ByteBase /\ u = tt * ByteBase /\ q = r * ByteBase
  OBVIOUS
<1>16. c \in Nat /\ u \in Nat /\ q \in Nat
  BY <1>3, <1>13, <1>15, MulNat
<1>17. y = (c + u) + z /\ y < u + q
  BY <1>7, <1>11, <1>12, <1>14, <1>15
<1>18. q < Top
  <2>1. drange \in 1 .. (Bottom - 1)
    BY <1>3, <1>4, TopFacts DEF RangeTypeOK
  <2>2. drange * ByteBase \in 1 .. (Top - 1)
    BY <2>1, RangeGrows
  <2> QED
    BY <1>5, <1>13, <1>15, <2>2
<1>19. code' = c + z
  <2>1. c + z \in Nat /\ c + z < Top
    BY <1>12, <1>13, <1>16, <1>17, <1>18
  <2>2. PICK w : w = c + z
    OBVIOUS
  <2>3. w % Top = w
    BY <1>13, <2>1, <2>2
  <2> QED
    BY <1>2, <1>15, <2>2, <2>3
<1>20. code' + path[i + 1].total = y
  <2>1. (c + z) + u = (c + u) + z
    BY <1>12, <1>16
  <2> QED
    BY <1>7, <1>15, <1>17, <1>19, <2>1
<1>21. At' = i + 1
  <2>1. PICK l, p : l = Len(decoded) /\ p = pos
    OBVIOUS
  <2>2. i = l + p - 4 /\ l \in Nat /\ p \in Nat
    BY <1>1, <1>3, <2>1 DEF At
  <2>3. l + (p + 1) - 4 = i + 1
    BY <2>2
  <2> QED
    BY <1>2, <2>1, <2>3 DEF At
<1>22. OnPath'
  <2>1. drange' = path[i + 1].range
    BY <1>2, <1>5, <1>7
  <2> QED
    BY <1>1, <1>2, <1>8, <1>9, <1>20, <1>21, <2>1 DEF OnPath
<1>23. /\ Len(decoded') <= Len(script') /\ DecodesEncodedBits'
       /\ dmodel' = ModelAt(Len(decoded) + 1)'
  <2>1. Len(decoded) <= Len(script) /\ DecodesEncodedBits /\ dmodel = ModelAt(Len(decoded) + 1)
    BY DEF RangeInv, DecoderInv
  <2> QED
    BY <1>2, <2>1 DEF DecodesEncodedBits, ModelAt
<1> QED
  BY <1>2, <1>22, <1>23 DEF DecoderInv, RangeDecoding

\* While the encoder works the decoder waits.
LEMMA EncoderStepDecoder ==
  ASSUME RangeInv, CoderInv', phase \in {"encode", "renorm", "flush"},
         phase' \notin {"decode", "refill"},
         UNCHANGED rangeDecVars,
         \A n \in 1 .. (Len(script) + 1) : ModelAt(n)' = ModelAt(n)
  PROVE  DecoderInv'
<1>1. DecoderInv /\ phase \notin RangeDecoding /\ UNCHANGED <<dmodel, code, drange, pos, decoded>>
  BY DEF RangeInv, RangeDecoding, rangeDecVars
<1>2. Len(script) \in Nat /\ Len(script') \in Nat /\ out' \in Seq(Bytes)
  BY SMTT(30) DEF RangeInv, CoderInv, RangeTypeOK
<1>3. ModelAt(1)' = ModelAt(1)
  <2>1. 1 \in 1 .. (Len(script) + 1)
    BY <1>2
  <2> QED
    BY <2>1
<1> QED
  BY <1>1, <1>2, <1>3, DecoderWaits

LEMMA RangeInvInit ==
  ASSUME RangeInit
  PROVE  RangeInv
BY CoderInvInit, HistoryInit, TotalsInit, DecoderInit DEF RangeInv

LEMMA RangeInvStep ==
  ASSUME RangeInv, [RangeNext]_rangeVars
  PROVE  RangeInv'
<1>1. CoderInv /\ HistoryInv /\ Totals /\ DecoderInv /\ total \in Nat
  BY DEF RangeInv, HistoryInv, HistoryTyped
<1>2. CoderInv'
  BY <1>1, CoderInvStep
<1>3. ASSUME NEW c \in Contexts, NEW r \in Rates, NEW b \in Bits, EncodeBit(c, r, b)
      PROVE  RangeInv'
  <2>1. HistoryInv' /\ \A n \in 1 .. (Len(script) + 1) : ModelAt(n)' = ModelAt(n)
    BY <1>1, <1>3, EncodeBitHistory
  <2>2. Totals'
    BY <1>1, <1>3, EncodeBitTotals
  <2>3. phase = "encode" /\ phase' \in {"encode", "renorm"} /\ UNCHANGED rangeDecVars
    BY <1>3 DEF EncodeBit
  <2>4. DecoderInv'
    BY <1>2, <2>1, <2>3, EncoderStepDecoder
  <2> QED
    BY <1>2, <2>1, <2>2, <2>4 DEF RangeInv
<1>4. CASE Renormalise
  <2>1. HistoryInv' /\ \A n \in 1 .. (Len(script) + 1) : ModelAt(n)' = ModelAt(n)
    BY <1>1, <1>4, RenormaliseHistory
  <2>2. Totals'
    BY <1>1, <1>4, RenormaliseTotals
  <2>3. phase = "renorm" /\ phase' \in {"encode", "renorm"} /\ UNCHANGED rangeDecVars
    BY <1>4 DEF Renormalise
  <2>4. DecoderInv'
    BY <1>2, <2>1, <2>3, EncoderStepDecoder
  <2> QED
    BY <1>2, <2>1, <2>2, <2>4 DEF RangeInv
<1>5. CASE RangeFlush
  <2>1. HistoryInv' /\ \A n \in 1 .. (Len(script) + 1) : ModelAt(n)' = ModelAt(n)
    BY <1>1, <1>5, FlushHistory
  <2>2. Totals'
    BY <1>1, <1>5, FlushTotals
  <2>3. phase \in {"encode", "flush"} /\ phase' \in {"flush", "open"} /\ UNCHANGED rangeDecVars
    BY <1>5 DEF RangeFlush
  <2>4. DecoderInv'
    BY <1>2, <2>1, <2>3, EncoderStepDecoder
  <2> QED
    BY <1>2, <2>1, <2>2, <2>4 DEF RangeInv
<1>6. CASE RangeOpen \/ RangeDecodeBit \/ RangeRefill
  <2>1. /\ UNCHANGED <<script, model, low, range, cache, cacheSize, out, flushed, total, path, trace>>
        /\ phase \in RangeDecoding /\ phase' \in RangeDecoding
    BY <1>6 DEF RangeOpen, RangeDecodeBit, RangeRefill, coder, history, RangeDecoding
  <2>2. HistoryInv'
    <3>1. phase \notin RangeEncoding /\ phase' \notin RangeEncoding
      BY <2>1 DEF RangeEncoding, RangeDecoding
    <3> QED
      BY <1>1, <2>1, <3>1, HistoryKept
  <2>3. Totals'
    BY <1>1, <2>1 DEF Totals, Value, Waiting
  <2>4. DecoderInv'
    BY <1>6, OpenDecoder, DecodeBitDecoder, RefillDecoder
  <2> QED
    BY <1>2, <2>2, <2>3, <2>4 DEF RangeInv
<1>7. CASE UNCHANGED rangeVars
  <2>1. UNCHANGED <<phase, script, model, low, range, cache, cacheSize, out, flushed, total, path,
                    trace, dmodel, code, drange, pos, decoded>>
    BY <1>7 DEF rangeVars, coder, history, rangeDecVars
  <2>2. HistoryInv'
    BY <1>1, <2>1, HistoryKept
  <2>3. Totals'
    BY <1>1, <2>1 DEF Totals, Value, Waiting
  <2>4. DecoderInv'
    BY <1>1, <2>1 DEF DecoderInv, DecodesEncodedBits, ModelAt, OnPath, At
  <2> QED
    BY <1>2, <2>2, <2>3, <2>4 DEF RangeInv
<1> QED
  BY <1>3, <1>4, <1>5, <1>6, <1>7 DEF RangeNext

\* The inductive invariant: the coders keep their types and absorb carries, the path is the
\* one of the encoder's steps, the digits on their way stand for total, and the decoder is at
\* an entry of the path.
THEOREM RangeInvariance == RangeSpec => []RangeInv
<1>1. RangeInit => RangeInv
  BY RangeInvInit
<1>2. RangeInv /\ [RangeNext]_rangeVars => RangeInv'
  BY RangeInvStep
<1> QED
  BY <1>1, <1>2, PTL DEF RangeSpec

\* Every section of the range coder decodes to the bits that were encoded, in their order.
THEOREM RangeBitsDecoded == RangeSpec => []DecodesEncodedBits
<1>1. RangeInv => DecodesEncodedBits
  BY DEF RangeInv, DecoderInv
<1> QED
  BY <1>1, RangeInvariance, PTL

\* Before each bit RangeDecoder has the range and the model that RangeEncoder had there.
THEOREM RangeCodersAgree == RangeSpec => []RangesAgree
<1>1. RangeInv => RangesAgree
  <2> SUFFICES ASSUME RangeInv, phase = "decode"
               PROVE  /\ drange = trace[Len(decoded) + 1].range
                      /\ dmodel = trace[Len(decoded) + 1].model
    BY DEF RangesAgree
  <2>1. PICK i, n : i = At /\ n = Len(decoded) + 1
    OBVIOUS
  <2>2. /\ HistoryTyped /\ OnPath
        /\ i \in 1 .. Len(path) /\ BitAt(i) = n
        /\ i = Len(path) => Len(decoded) = Len(script)
        /\ i # Len(path) => i \in 1 .. (Len(path) - 1)
        /\ Len(script) \in Nat
    BY <2>1, AtFacts
  <2>3. drange = path[i].range
    BY <2>1, <2>2 DEF OnPath
  <2>4. dmodel = ModelAt(n)
    BY <2>1 DEF RangeInv, DecoderInv
  <2>5. CASE i = Len(path)
    <3>1. n = Len(script) + 1 /\ phase \notin RangeEncoding
      BY <2>1, <2>2, <2>5 DEF RangeEncoding
    <3>2. trace[n] = Point /\ path[i].range = range
      BY <2>5, <3>1 DEF RangeInv, HistoryInv, PathEnds
    <3>3. ~(n <= Len(script))
      BY <2>2, <3>1
    <3>4. Point.model = model /\ Point.range = range
      BY DEF Point
    <3> QED
      BY <2>1, <2>3, <2>4, <3>2, <3>3, <3>4 DEF ModelAt
  <2>6. CASE i # Len(path)
    <3>1. ~(path[i].range < Bottom)
      BY <2>3 DEF RangeInv, CoderInv, RangesFit
    <3>2. BitStep(i)
      BY <2>2, <2>6, <3>1 DEF RangeInv, HistoryInv, PathSteps, ShiftStep
    <3>3. trace[n].range = path[i].range /\ n \in 1 .. Len(script)
      BY <2>2, <3>2 DEF BitStep
    <3>4. ModelAt(n) = trace[n].model
      BY <2>2, <3>3 DEF ModelAt
    <3> QED
      BY <2>1, <2>3, <2>4, <3>3, <3>4
  <2> QED
    BY <2>5, <2>6
<1> QED
  BY <1>1, RangeInvariance, PTL

\* RangeDecoder never reads past a section, and after its last bit has read all of it: the
\* check of decode_band_arith passes for every section that flush ended.
THEOREM RangeConsumesExactly == RangeSpec => []RangeExactConsumption
<1>1. RangeInv => RangeExactConsumption
  <2> SUFFICES ASSUME RangeInv, phase = "decode"
               PROVE  /\ pos <= Len(out)
                      /\ Len(decoded) = Len(script) => pos = Len(out)
    BY DEF RangeExactConsumption
  <2>1. PICK i, n : i = At /\ n = Len(decoded) + 1
    OBVIOUS
  <2>2. /\ pos <= Len(out) /\ BitAt(i) = n
        /\ i = Len(path) => pos = Len(out)
        /\ i # Len(path) => i \in 1 .. (Len(path) - 1)
        /\ Len(script) \in Nat /\ OnPath
    BY <2>1, AtFacts
  <2>3. ASSUME Len(decoded) = Len(script), i # Len(path) PROVE FALSE
    <3>1. ~(path[i].range < Bottom)
      BY <2>1, <2>2 DEF OnPath, RangeInv, CoderInv, RangesFit
    <3>2. BitStep(i)
      BY <2>2, <2>3, <3>1 DEF RangeInv, HistoryInv, PathSteps, ShiftStep
    <3>3. n \in 1 .. Len(script)
      BY <2>2, <3>2 DEF BitStep
    <3> QED
      BY <2>1, <2>2, <2>3, <3>3
  <2> QED
    BY <2>2, <2>3
<1> QED
  BY <1>1, RangeInvariance, PTL
================================================================================
