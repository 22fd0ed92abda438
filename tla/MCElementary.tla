---------------------------- MODULE MCElementary ----------------------------
(***************************************************************************)
(* Model checking of ElementaryMachine on a binary format of five bits:    *)
(* 1.0 is 256 units, pi is 808.5, and the greatest double 29.0; beyond      *)
(* 16.0 the doubles are integers, as they are beyond 2^52.                 *)
(***************************************************************************)
EXTENDS ElementaryMachine

MCMagnitudes ==
  (0 .. 31) \union {m * 2 ^ e : m \in 16 .. 31, e \in 1 .. 7} \union {m * 256 : m \in 16 .. 29}

(* Bounds at 0 and above it, at 1, and around the multiples of pi/2 *)
MCBounds ==
  LET ms == {0, 3, 128, 256, 400, 416, 800, 832, 1152, 1216, 1600, 1664, 1984, 2432, 3200, 3328,
             4096, 4864, 7424}
  IN {OfNum(v) : v \in ms \union {-m : m \in ms}} \union {Infinity, MinusInfinity}

MCStarts == {Interval(l, r) : l \in MCBounds, r \in MCBounds} \union {universe}

MCOthers ==
  {universe, emptyset, positive, Interval(one, one), Interval(Zero(FALSE), Zero(FALSE)),
   Interval(minus_one, OfNum(-128)), Interval(OfNum(-128), Zero(FALSE)),
   Interval(OfNum(-416), OfNum(416))}
=============================================================================
