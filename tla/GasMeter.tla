------------------------------ MODULE GasMeter ------------------------------
(***************************************************************************)
(* The gas meters of gears/src/types/gas: BasicGasMeter (a limit) and      *)
(* InfiniteGasMeter (none), over gas amounts of a fixed width (a u63, see  *)
(* gears/src/types/auth/gas.rs).                                           *)
(***************************************************************************)
EXTENDS Integers

CONSTANT GasMax   \* Gas::MAX, the largest amount the width can hold

ASSUME GasMaxAssumption == GasMax \in Nat

Gas == 0 .. GasMax

Meter == [infinite : BOOLEAN, limit : Gas, consumed : Gas]

FiniteMeter(limit) == [infinite |-> FALSE, limit |-> limit, consumed |-> 0]

\* The limit of an infinite meter is never read; it is kept at 0.
InfiniteMeter == [infinite |-> TRUE, limit |-> 0, consumed |-> 0]

\* Gas::from(i64) and the choice made by replace_meter and the mode constructors.
MeterFor(maxGas) == IF maxGas > 0 THEN FiniteMeter(maxGas) ELSE InfiniteMeter

IsPastLimit(m) == ~m.infinite /\ m.consumed > m.limit

IsOutOfGas(m) == ~m.infinite /\ m.consumed >= m.limit

\* Mutated form of ConsumeGas: the limit is not looked at.
ConsumeNeverRefuses(m, amount) ==
    IF m.consumed + amount > GasMax
    THEN [meter |-> IF m.infinite THEN m ELSE [m EXCEPT !.consumed = GasMax],
          err |-> "overflow"]
    ELSE [meter |-> [m EXCEPT !.consumed = @ + amount], err |-> "none"]

(***************************************************************************)
(* PlainGasMeter::consume_gas of both meters: the sum is taken first (an   *)
(* overflow saturates a limited meter and leaves an infinite one alone),   *)
(* then a limited meter refuses when what it had consumed BEFORE this call *)
(* is above the limit.                                                     *)
(***************************************************************************)
ConsumeGas(m, amount) ==
    IF m.consumed + amount > GasMax
    THEN [meter |-> IF m.infinite THEN m ELSE [m EXCEPT !.consumed = GasMax],
          err |-> "overflow"]
    ELSE IF IsPastLimit(m)
    THEN [meter |-> m, err |-> "out_of_gas"]
    ELSE [meter |-> [m EXCEPT !.consumed = @ + amount], err |-> "none"]
=============================================================================
