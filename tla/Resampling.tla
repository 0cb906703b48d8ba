------------------------------- MODULE Resampling -------------------------------
(***************************************************************************)
(* The chroma planes of an image below quality 95: downsample_2x of the    *)
(* encoder and upsample_plane of the decoder, on planes as in Lifting.     *)
(***************************************************************************)
EXTENDS Lifting

\* The division of C++, which truncates.
Truncated(a, b) == IF a >= 0 THEN a \div b ELSE -((-a) \div b)

\* The number of samples that sample i of a halved line of n stands for.
Span(i, n) == IF 2 * i + 1 < n THEN 2 ELSE 1

\* Mutant: the sum over the box counts the samples beyond an odd edge as if they were there.
Halved2xFour(p, w, h) ==
  [c \in Cells(Low(w), Low(h)) |->
     LET x == 2 * c[1]
         y == 2 * c[2]
         right == IF x + 1 < w THEN 1 ELSE 0
         below == IF y + 1 < h THEN 1 ELSE 0
     IN  Truncated(p[<<x, y>>] + right * p[<<x + right, y>>] + below * p[<<x, y + below>>]
                     + right * below * p[<<x + right, y + below>>] + 2, 4)]

\* downsample_2x: half of the number of samples is added to the sum before the division,
\* whatever the sign of the sum.
Halved2x(p, w, h) ==
  [c \in Cells(Low(w), Low(h)) |->
     LET x == 2 * c[1]
         y == 2 * c[2]
         right == Span(c[1], w) - 1
         below == Span(c[2], h) - 1
         n == (right + 1) * (below + 1)
     IN  Truncated(p[<<x, y>>] + right * p[<<x + right, y>>] + below * p[<<x, y + below>>]
                     + right * below * p[<<x + right, y + below>>] + n \div 2, n)]

\* The position i of a line of out samples, on a line of n: between samples at and next,
\* part / whole of the way.  The code has it as a double, sy or sx.
Place(i, n, out) ==
  LET whole == IF n = 1 THEN 1 ELSE out - 1
      at == IF n = 1 THEN 0 ELSE (i * (n - 1)) \div whole
  IN  [at |-> at,
       next |-> IF at + 1 < n THEN at + 1 ELSE n - 1,
       part |-> IF n = 1 THEN 0 ELSE (i * (n - 1)) % whole,
       whole |-> whole]

\* The four neighbours, weighted; the value is this over x.whole * y.whole.
Blend(p, x, y) ==
  LET a == p[<<x.at, y.at>>] * (x.whole - x.part) + p[<<x.next, y.at>>] * x.part
      b == p[<<x.at, y.next>>] * (x.whole - x.part) + p[<<x.next, y.next>>] * x.part
  IN  a * (y.whole - y.part) + b * y.part

\* llround of the double nearest to a / b.  That double is not exact, so that a half can
\* fall on either side.
RoundedHalf(a, b, up) == IF up THEN (2 * a + b) \div (2 * b) ELSE -((b - 2 * a) \div (2 * b))

\* The planes of ow * oh samples that upsample_plane may make of one of w * h: ups are the
\* samples whose halves are rounded up.
Upsampled(p, w, h, ow, oh, ups) ==
  [c \in Cells(ow, oh) |->
     LET x == Place(c[1], w, ow)
         y == Place(c[2], h, oh)
     IN  RoundedHalf(Blend(p, x, y), x.whole * y.whole, c \in ups)]

\* The samples whose value is halfway between two integers.
Ties(p, w, h, ow, oh) ==
  {c \in Cells(ow, oh) :
     LET x == Place(c[1], w, ow)
         y == Place(c[2], h, oh)
         whole == x.whole * y.whole
     IN  (2 * Blend(p, x, y)) % (2 * whole) = whole}
================================================================================
