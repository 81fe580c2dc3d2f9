------------------------------- MODULE SizeT -------------------------------
(***************************************************************************)
(* std::size_t arithmetic of Width bits, and the power-of-two helpers of   *)
(* boost/intrusive/detail/math.hpp that the memory resources round with.   *)
(***************************************************************************)
EXTENDS Naturals

CONSTANT Width      \* bits of std::size_t

ASSUME WidthAssumption == Width \in Nat \ {0}

\* What the proofs use of exponentiation; TLC evaluates it for the instance.
ASSUME PowersAssumption == \A k \in 0 .. (Width - 1) : 2 ^ k \in Nat \ {0}

ASSUME ExponentsAdd ==
  \A j, k \in 0 .. (Width - 1) : j + k \in 0 .. (Width - 1) => 2 ^ (j + k) = 2 ^ j * 2 ^ k

HighBit == 2 ^ (Width - 1)
SizeMax == 2 * HighBit - 1          \* std::size_t(-1)
SizeType == 0 .. SizeMax
Wrap(n) == n % (SizeMax + 1)        \* the value a size_t expression stores

\* a - b on size_t
MinusWrap(a, b) == IF b <= a THEN a - b ELSE SizeMax + 1 + a - b

Pow2s == {2 ^ k : k \in 0 .. (Width - 1)}

\* is_pow2: x & (x - 1) is zero, so 0 counts.
IsPow2(n) == n = 0 \/ n \in Pow2s

\* ceil_pow2, called with n <= SizeMax \div 2 only
CeilPow2(n) == CHOOSE p \in Pow2s : n <= p /\ \A q \in Pow2s : n <= q => p <= q

\* ceil_log2, called with 0 < n <= HighBit only
CeilLog2(n) == CHOOSE k \in 0 .. (Width - 1) :
                 n <= 2 ^ k /\ \A j \in 0 .. (Width - 1) : n <= 2 ^ j => k <= j

\* previous_or_equal_pow2, called with n > 0 only
FloorPow2(n) == CHOOSE p \in Pow2s : p <= n /\ \A q \in Pow2s : q <= n => q <= p

Larger(a, b)  == IF a < b THEN b ELSE a
Smaller(a, b) == IF b < a THEN b ELSE a

\* Faulty form of the next definition.
DoubledUnchecked(n) == 2 * n

\* n * 2, or the largest size_t when that does not fit
DoubleSaturated(n) == IF SizeMax \div 2 < n THEN SizeMax ELSE 2 * n
=============================================================================
