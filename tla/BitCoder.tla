-------------------------------- MODULE BitCoder --------------------------------
(***************************************************************************)
(* What the two binary coders have in common: a section is a sequence of   *)
(* bytes that stands for a sequence of bits, and each bit is coded with    *)
(* the adaptive probability of its context, of which encoder and decoder   *)
(* have a copy each.  A byte is a digit in base ByteBase.                  *)
(***************************************************************************)
EXTENDS Integers, Sequences

CONSTANTS ByteBase,    \* 256 in the code
          Rates,       \* 2 ^ shift for the adaptation shifts in use (16, 32)
          Contexts,    \* the indices of the model's probabilities
          MaxSymbols   \* bound on the bits of one section

ASSUME BitCoderAssumption ==
  /\ ByteBase \in Nat \ {0, 1}
  /\ Rates \subseteq Nat \ {0, 1}
  /\ MaxSymbols \in Nat

Bits == {0, 1}
Bytes == 0 .. (ByteBase - 1)

VARIABLES phase,
          script,   \* the context and rate of each bit, known to both sides
          model,    \* the encoder's probabilities
          out,      \* the bytes of the section
          dmodel,   \* the decoder's probabilities
          pos,      \* the bytes the decoder has read
          decoded,  \* the bits decode_bit has returned
          trace     \* history: the encoder at each bit

\* read_byte yields 0 past the end of the section, and counts on.
ByteAt(i) == IF i < Len(out) THEN out[i + 1] ELSE 0
================================================================================
