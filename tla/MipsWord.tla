------------------------------ MODULE MipsWord ------------------------------
(***************************************************************************)
(* Words of the simulated R2000, scaled: a byte has ByteBits bits instead  *)
(* of 8, a half word two bytes and a word four, as on the machine.  A word *)
(* is kept as the unsigned number of its bits; Signed is the C int.        *)
(***************************************************************************)
EXTENDS Integers, Bitwise

CONSTANT ByteBits

HalfBits == 2 * ByteBits

WordBits == 4 * ByteBits

ASSUME ByteBitsAssumption == ByteBits \in Nat \ {0}

Wrap(x) == x % 2^WordBits

(* x & SIGN_BIT *)
Negative(x) == x >= 2^(WordBits - 1)

Signed(x) == IF Negative(x) THEN x - 2^WordBits ELSE x

(* The low bits of x, as unsigned and as signed numbers made words again. *)
ZeroExtend(x, bits) == x % 2^bits

SignExtend(x, bits) ==
    LET low == x % 2^bits
    IN  IF low >= 2^(bits - 1) THEN Wrap(low - 2^bits) ELSE low

Complement(x) == 2^WordBits - 1 - x

Shl(x, n) == Wrap(x * 2^n)

Sra(x, n) == Wrap(Signed(x) \div 2^n)

Srl(x, n) == x \div 2^n

Abs(x) == IF x < 0 THEN -x ELSE x

(* Division and remainder of C, which truncate towards zero. *)
Quotient(a, b) ==
    LET q == Abs(a) \div Abs(b)
    IN  IF (a < 0) = (b < 0) THEN q ELSE -q

Remainder(a, b) == a - b * Quotient(a, b)

(* x / y of the smallest int and -1 does not fit: the host traps. *)
QuotientFits(x, y) == Quotient(Signed(x), Signed(y)) < 2^(WordBits - 1)

Truth(b) == IF b THEN 1 ELSE 0
=============================================================================
