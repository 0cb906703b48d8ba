--------------------------------- MODULE Lifting ---------------------------------
(***************************************************************************)
(* The reversible integer transforms of the codec: floor_div, the 5/3      *)
(* lifting of one line (forward_line, inverse_line), of one level of a     *)
(* plane, and the YCoCg-R colour transform.  A line of n values is a       *)
(* function on 0 .. n - 1, a plane of w * h values one on pairs <<x, y>>.  *)
(***************************************************************************)
EXTENDS Integers

\* floor_div, built on the truncating division of C++
FloorDiv(a, b) == IF b <= 0 THEN 0
                  ELSE IF a >= 0 THEN a \div b
                  ELSE -((-a + b - 1) \div b)

Low(n) == (n + 1) \div 2
High(n) == n \div 2
Line(n) == 0 .. (n - 1)

--------------------------------------------------------------------------------
(* One line *)

\* Mutant: at the right edge of an even line the missing neighbour counts as 0.
PredictedZero(x, n, i) ==
  LET left == x[i - 1]
      right == IF i + 1 < n THEN x[i + 1] ELSE 0
  IN  FloorDiv(left + right, 2)

\* The value predicted for the odd sample i from its even neighbours.
Predicted(x, n, i) ==
  LET left == x[i - 1]
      right == IF i + 1 < n THEN x[i + 1] ELSE left
  IN  FloorDiv(left + right, 2)

\* What the even sample i gains from its odd neighbours.
Update(x, n, i) ==
  LET left == IF i > 0 THEN x[i - 1] ELSE x[IF i + 1 < n THEN i + 1 ELSE i]
      right == IF i + 1 < n THEN x[i + 1] ELSE left
  IN  FloorDiv(left + right + 2, 4)

\* Each pass of the code rewrites one parity in place and reads the other.
ForwardOdd(x, n) == [i \in Line(n) |-> IF i % 2 = 1 THEN x[i] - Predicted(x, n, i) ELSE x[i]]
ForwardEven(x, n) == [i \in Line(n) |-> IF i % 2 = 0 THEN x[i] + Update(x, n, i) ELSE x[i]]
InverseEven(x, n) == [i \in Line(n) |-> IF i % 2 = 0 THEN x[i] - Update(x, n, i) ELSE x[i]]
InverseOdd(x, n) == [i \in Line(n) |-> IF i % 2 = 1 THEN x[i] + Predicted(x, n, i) ELSE x[i]]

\* Even samples to the front, odd samples behind them, and back.
Deinterleave(x, n) == [i \in Line(n) |-> IF i < Low(n) THEN x[2 * i] ELSE x[2 * (i - Low(n)) + 1]]

Interleave(x, n) == [i \in Line(n) |-> IF i % 2 = 0 THEN x[i \div 2] ELSE x[Low(n) + i \div 2]]

ForwardLine(x, n) == Deinterleave(ForwardEven(ForwardOdd(x, n), n), n)
InverseLine(x, n) == InverseOdd(InverseEven(Interleave(x, n), n), n)

--------------------------------------------------------------------------------
(* One level of a plane *)

Cells(w, h) == Line(w) \X Line(h)

Row(p, w, y) == [x \in Line(w) |-> p[<<x, y>>]]
Column(p, h, x) == [y \in Line(h) |-> p[<<x, y>>]]

\* The plane with the given rows, or with the given columns.
OfRows(rows, w, h) == [c \in Cells(w, h) |-> rows[c[2]][c[1]]]
OfColumns(columns, w, h) == [c \in Cells(w, h) |-> columns[c[1]][c[2]]]

ForwardRows(p, w, h) == OfRows([y \in Line(h) |-> ForwardLine(Row(p, w, y), w)], w, h)
ForwardColumns(p, w, h) == OfColumns([x \in Line(w) |-> ForwardLine(Column(p, h, x), h)], w, h)
InverseRows(p, w, h) == OfRows([y \in Line(h) |-> InverseLine(Row(p, w, y), w)], w, h)
InverseColumns(p, w, h) == OfColumns([x \in Line(w) |-> InverseLine(Column(p, h, x), h)], w, h)

ForwardLevel(p, w, h) == ForwardColumns(ForwardRows(p, w, h), w, h)

InverseLevel(p, w, h) == InverseRows(InverseColumns(p, w, h), w, h)

\* The low band of a transformed plane, its detail bands H, V and D, and the plane that
\* inverse_level packs from them.
LowBand(p, w, h) == [c \in Cells(Low(w), Low(h)) |-> p[c]]

Detail(p, w, h) == [H |-> [c \in Cells(High(w), Low(h)) |-> p[<<Low(w) + c[1], c[2]>>]],
                    V |-> [c \in Cells(Low(w), High(h)) |-> p[<<c[1], Low(h) + c[2]>>]],
                    D |-> [c \in Cells(High(w), High(h)) |-> p[<<Low(w) + c[1], Low(h) + c[2]>>]]]

Packed(low, d, w, h) ==
  [c \in Cells(w, h) |->
     IF c[1] < Low(w) THEN IF c[2] < Low(h) THEN low[c] ELSE d.V[<<c[1], c[2] - Low(h)>>]
     ELSE IF c[2] < Low(h) THEN d.H[<<c[1] - Low(w), c[2]>>]
          ELSE d.D[<<c[1] - Low(w), c[2] - Low(h)>>]]

--------------------------------------------------------------------------------
(* How far errors of the bands spread *)

Close(a, b, e) == a - b <= e /\ b - a <= e

\* The difference of two lines that inverse_line makes of low halves that differ by low and
\* high halves that differ by high; and of two planes, whose bands differ by low, hv and d.
LineError(low, high) == low + high + (high + 1) \div 2
LevelError(low, hv, d) == LineError(LineError(low, hv), LineError(hv, d))

--------------------------------------------------------------------------------
(* YCoCg-R, from [r, g, b] to [y, co, cg] and back *)

ToYCoCg(c) == LET co == c.r - c.b
                  t == c.b + FloorDiv(co, 2)
                  cg == c.g - t
              IN  [y |-> t + FloorDiv(cg, 2), co |-> co, cg |-> cg]

FromYCoCg(p) == LET t == p.y - FloorDiv(p.cg, 2)
                    b == t - FloorDiv(p.co, 2)
                IN  [r |-> p.co + b, g |-> p.cg + t, b |-> b]

ClampU8(v) == IF v < 0 THEN 0 ELSE IF v > 255 THEN 255 ELSE v

\* The bytes that output_rgb writes for a pixel when the image is not resized.
Pixel(p) == LET c == FromYCoCg(p)
            IN  [r |-> ClampU8(c.r), g |-> ClampU8(c.g), b |-> ClampU8(c.b)]
================================================================================
