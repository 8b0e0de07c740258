------------------------------- MODULE Coins -------------------------------
(***************************************************************************)
(* Decimal256 and the coins built on it (gears/src/types/base/coins).      *)
(*                                                                         *)
(* A decimal is the integer of its atomics: Unit of them make one.  The    *)
(* operations truncate as Decimal256 does; its width of 256 bits is not    *)
(* reached.  A list of coins is sorted by denomination and has no          *)
(* duplicates: it is a function from the denominations it lists to their   *)
(* amounts.  Coins::new accepts the functions IsCoins describes; a caller  *)
(* that computes anything else gets an error.                              *)
(***************************************************************************)
EXTENDS Integers, FiniteSets, Functions

CONSTANTS Denom, Unit

ASSUME CoinsAssumption == IsFiniteSet(Denom) /\ Unit \in Nat \ {0}

-----------------------------------------------------------------------------
(* Decimals.                                                               *)

DecMul(x, y) == (x * y) \div Unit
DecDiv(x, y) == (x * Unit) \div y
Floor(x) == Unit * (x \div Unit)
Whole(n) == Unit * n

\* Half a unit and more is rounded up.
Round(x) == IF 2 * (x - Floor(x)) >= Unit THEN Floor(x) + Unit ELSE Floor(x)

-----------------------------------------------------------------------------
(* Coins.                                                                  *)

IsCoinList(c) == DOMAIN c \subseteq Denom /\ c \in [DOMAIN c -> Nat]

NoCoins == [d \in {} |-> 0]

\* Coins::new: at least one coin, none of amount zero.
IsCoins(c) == DOMAIN c # {} /\ \A d \in DOMAIN c : c[d] > 0

AmountOf(c, d) == IF d \in DOMAIN c THEN c[d] ELSE 0

DropZeros(c) == Restrict(c, {d \in DOMAIN c : c[d] # 0})

\* DecimalCoins::is_all_gte.
IsAllGte(a, b) == \A d \in DOMAIN b : AmountOf(a, d) >= b[d]

Listed(a, b) == DOMAIN a \cup DOMAIN b

Plus(a, b) == [d \in Listed(a, b) |-> AmountOf(a, d) + AmountOf(b, d)]

Minus(a, b) == DropZeros([d \in Listed(a, b) |-> AmountOf(a, d) - AmountOf(b, d)])

\* checked_sub: also an error when nothing is left.
CanMinus(a, b) == IsAllGte(a, b) /\ IsCoins(Minus(a, b))

MulTruncate(c, m) == [d \in DOMAIN c |-> Floor(DecMul(c[d], m))]
MulRound(c, m) == [d \in DOMAIN c |-> Round(DecMul(c[d], m))]
QuoTruncate(c, q) == [d \in DOMAIN c |-> Floor(DecDiv(c[d], q))]

\* truncate_decimal: the whole coins, and the change.
Truncated(c) == DropZeros([d \in DOMAIN c |-> c[d] \div Unit])
Change(c) == DropZeros([d \in DOMAIN c |-> c[d] % Unit])

Lesser(x, y) == IF x < y THEN x ELSE y
Intersect(a, b) == DropZeros([d \in DOMAIN a |-> Lesser(a[d], AmountOf(b, d))])

\* From<UnsignedCoins>.
ToDecimal(c) == [d \in DOMAIN c |-> Whole(c[d])]
=============================================================================
