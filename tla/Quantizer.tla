-------------------------------- MODULE Quantizer --------------------------------
(***************************************************************************)
(* The quantiser of the encoder, quantize_band, and the reconstruction of  *)
(* the decoder, for one coefficient: midtread, round to nearest with       *)
(* halves away from zero (llround), and plain q * step.                    *)
(***************************************************************************)
EXTENDS Integers

\* Mutant: truncation in place of rounding, a dead zone of one step on each side.
QuantizedTruncated(v, step) ==
  IF step = 1 THEN v ELSE IF v >= 0 THEN v \div step ELSE -((-v) \div step)

\* A step of 1 leaves the band as it is.
Quantized(v, step) == IF step = 1 THEN v
                      ELSE IF v >= 0 THEN (2 * v + step) \div (2 * step)
                      ELSE -((-(2 * v) + step) \div (2 * step))

\* The value that the decoder holds for the coefficient.
Dequantized(q, step) == q * step
Restored(v, step) == Dequantized(Quantized(v, step), step)
================================================================================
