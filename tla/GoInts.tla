------------------------------- MODULE GoInts -------------------------------
(* An int of the program: what fits in one, what a sum or a product becomes that   *)
(* does not, and which texts are read as one.  A decimal text is the integer it     *)
(* stands for; any other text is a value that is not an integer.                  *)
EXTENDS Integers

CONSTANT HalfRange        \* 2^63: an int of the program is below it

Ints == (-HalfRange)..(HalfRange - 1)
Wrapped(n) == ((n + HalfRange) % (2 * HalfRange)) - HalfRange

\* strconv succeeds on a text.
Decimal(value) == value \in Ints
=============================================================================
