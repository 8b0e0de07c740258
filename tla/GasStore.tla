------------------------------ MODULE GasStore ------------------------------
(***************************************************************************)
(* One transaction working on a store through its gas meter: GasKVStoreMut *)
(* and GasRange charge a GasGuard for every read, write, delete and step   *)
(* of an iterator (gears/src/types/store/gas).  Keys and values are one    *)
(* byte long; the costs are constants.                                     *)
(***************************************************************************)
EXTENDS GasMeter, KVCache, FiniteSetsExt

CONSTANTS Limits,         \* gas limits a fee may name
          ReadFlat, ReadPerByte, WriteFlat, WritePerByte, DeleteCost, IterNextFlat

ASSUME CostAssumption ==
    /\ {ReadFlat, ReadPerByte, WriteFlat, WritePerByte, DeleteCost, IterNextFlat} \subseteq Gas
    /\ Limits \subseteq Gas

VARIABLES txMeter,   \* the GasMeter<TxKind> shared by all stores of the tx
          txStore,   \* the content the tx sees
          txResult   \* the answer to the last operation: "none" or an error

txVars == <<txMeter, txStore, txResult>>

-----------------------------------------------------------------------------
\* A charge that follows others: after an error (`?`) it is not made.
Charge(r, amount) == IF r.err = "none" THEN ConsumeGas(r.meter, amount) ELSE r

Uncharged == [meter |-> txMeter, err |-> "none"]

\* GasGuard::get, set, delete and range.
GuardGet(found) ==
    LET r == Charge(Charge(Uncharged, ReadFlat), ReadPerByte)
    IN IF found THEN Charge(r, ReadPerByte) ELSE r

\* Mutated form of GuardSet: the bytes are not charged for.
GuardSetFlat == Charge(Uncharged, ReadFlat)

\* The flat part of a write is charged at the cost of a read.
GuardSet == Charge(Charge(Charge(Uncharged, ReadFlat), WritePerByte), WritePerByte)

GuardDelete == Charge(Uncharged, DeleteCost)

GuardRange == Charge(Charge(Charge(Uncharged, ReadPerByte), ReadPerByte), IterNextFlat)

-----------------------------------------------------------------------------
(***************************************************************************)
(* An error aborts the transaction: run_msg and run_ante_checks return it  *)
(* and the tx cache is dropped, so no operation follows one.               *)
(***************************************************************************)
Running == txResult = "none"

Get(k) ==
    LET r == GuardGet(txStore[k] # None)
    IN /\ Running
       /\ txMeter' = r.meter
       /\ txResult' = r.err
       /\ UNCHANGED txStore

Set(k, v) ==
    /\ Running
    /\ txMeter' = GuardSet.meter
    /\ txResult' = GuardSet.err
    /\ txStore' = IF GuardSet.err = "none" THEN [txStore EXCEPT ![k] = v] ELSE txStore

Delete(k) ==
    /\ Running
    /\ txMeter' = GuardDelete.meter
    /\ txResult' = GuardDelete.err
    /\ txStore' = IF GuardDelete.err = "none" THEN [txStore EXCEPT ![k] = None] ELSE txStore

\* GasRange::next on an iterator that has a pair to give.
NextPair ==
    /\ Running
    /\ \E k \in Key : txStore[k] # None
    /\ txMeter' = GuardRange.meter
    /\ txResult' = GuardRange.err
    /\ UNCHANGED txStore

-----------------------------------------------------------------------------
\* build_tx_gas_meter: infinite at height 0, else the limit of the fee.
TxInit ==
    /\ txMeter \in {InfiniteMeter} \cup {FiniteMeter(l) : l \in Limits}
    /\ txStore = Empty
    /\ txResult = "none"

TxNext ==
    \/ \E k \in Key : Get(k) \/ Delete(k)
    \/ \E k \in Key, v \in Val : Set(k, v)
    \/ NextPair

TxSpec == TxInit /\ [][TxNext]_txVars

-----------------------------------------------------------------------------
TxTypeOK ==
    /\ txMeter \in Meter
    /\ txStore \in Content
    /\ txResult \in {"none", "out_of_gas", "overflow"}

LargestCharge ==
    Max({ReadFlat, ReadPerByte, WritePerByte, DeleteCost, IterNextFlat})

(***************************************************************************)
(* Although consume_gas compares what was consumed before the call, a      *)
(* transaction never gets further above its limit than one single charge,  *)
(* whatever it does, unless the sum overflowed.                            *)
(***************************************************************************)
OvershootsOneCharge ==
    txMeter.infinite \/ txResult = "overflow" \/ txMeter.consumed <= txMeter.limit + LargestCharge

(***************************************************************************)
(* A write is only performed by a transaction that was within its limit    *)
(* when it asked, and was paid for: gas grows by at least the bytes        *)
(* written.                                                                *)
(***************************************************************************)
WritesArePaid ==
    [][\A k \in Key : txStore'[k] # txStore[k] /\ txStore'[k] # None =>
            /\ ~IsPastLimit(txMeter)
            /\ txMeter'.consumed >= txMeter.consumed + 2 * WritePerByte]_txVars

=============================================================================
