------------------------------- MODULE Binary64 -------------------------------
(***************************************************************************)
(* External: the arithmetic of Python's float, IEEE 754 binary64, as far   *)
(* as the histogram needs it: sums, small multiples and quotients of       *)
(* non-negative numbers, each rounded to 53 significant bits, half to      *)
(* even.  A number is <<a, b, c>>, standing for a/2^20 + b/2^40 + c/2^60   *)
(* with b and c below 2^20, so that every intermediate fits 32 bits.       *)
(* Exact for results that are zero or between 2^-8 and 2^10.               *)
(***************************************************************************)
EXTENDS Integers, Sequences

Limb == 2 ^ 20
Bits(n) == CHOOSE b \in 1 .. 31 : n >= 2 ^ (b - 1) /\ n \div 2 < 2 ^ (b - 1)

Carry(a, b, c) ==
  LET bc == b + c \div Limb
  IN <<a + bc \div Limb, bc % Limb, c % Limb>>

\* x + rest/den units, rest < den, rounded.
Nearest(x, rest, den) ==
  LET ulp  == IF x[1] = 0 THEN 1 ELSE 2 ^ (Bits(x[1]) - 13)
      low  == (x[3] % ulp) * den + rest
      odd  == (x[3] \div ulp) % 2 = 1
      up   == 2 * low > ulp * den \/ (2 * low = ulp * den /\ odd)
  IN Carry(x[1], x[2], (x[3] \div ulp) * ulp + (IF up THEN ulp ELSE 0))

Halves(v)  == <<v * (Limb \div 2), 0, 0>>
Plus(x, y) == Nearest(Carry(x[1] + y[1], x[2] + y[2], x[3] + y[3]), 0, 1)
Times(i, x) == Nearest(Carry(i * x[1], i * x[2], i * x[3]), 0, 1)

Over(x, n) ==
  LET second == (x[1] % n) * Limb + x[2]
      third  == (second % n) * Limb + x[3]
  IN Nearest(<<x[1] \div n, second \div n, third \div n>>, third % n, n)

Less(x, y) == \/ x[1] < y[1]
              \/ x[1] = y[1] /\ x[2] < y[2]
              \/ x[1] = y[1] /\ x[2] = y[2] /\ x[3] < y[3]
=============================================================================
