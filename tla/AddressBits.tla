---------------------------- MODULE AddressBits ----------------------------
(***************************************************************************)
(* Addresses as numbers of Width bits.  The powers of two are a function   *)
(* of their own, not the operator ^, so that their bits can be reasoned    *)
(* about for every width: the provers know nothing of exponents.           *)
(***************************************************************************)
EXTENDS Integers

CONSTANT Width    \* bits of an address (32)

ASSUME WidthAssumption == Width \in Nat

Pow2[k \in 0 .. Width] == IF k = 0 THEN 1 ELSE 2 * Pow2[k - 1]

Addresses == 0 .. (Pow2[Width] - 1)

\* The bit of weight 2^k in address a.
Bit(a, k) == (a \div Pow2[k]) % 2
=============================================================================
