-------------------------------- MODULE RingN --------------------------------
(***************************************************************************)
(* ExW3/src/BoundedBuffer.h, RingN: the numbers 0..N-1 with an addition    *)
(* and a subtraction that stay among them.  A RingN<0> is always 0.        *)
(* The numbers are far below the bounds of their types.                    *)
(***************************************************************************)
EXTENDS Integers

\* RingN(size_type x)
Ring(N, x) == IF N = 0 THEN 0 ELSE x % N

\* operator+=, operator++ adds 1
RingPlus(N, v, r) == IF N = 0 THEN 0 ELSE (v + r) % N

\* Mutant: one more is added.
RingMinusLate(N, v, r) ==
    IF N = 0 THEN 0 ELSE ((IF v < r THEN N + (r % N) ELSE v) - r) % N

\* operator-=, operator-- subtracts 1.  Below zero the result is N - 1, whatever
\* is subtracted.
RingMinus(N, v, r) ==
    IF N = 0 THEN 0 ELSE ((IF v < r THEN N + (r % N) - 1 ELSE v) - r) % N
=============================================================================
