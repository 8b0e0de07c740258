---------------------------- MODULE BlockLedger ----------------------------
(***************************************************************************)
(* What BaseApp promises Tendermint, without caches, modes or meters: a    *)
(* ledger per store.  Blocks change a pending state; commit appends it to  *)
(* the history; a crash throws it away, of every store or, inside a commit,*)
(* of some.  A transaction takes effect as a whole, or only as far as its  *)
(* ante handler, or not at all.                                            *)
(***************************************************************************)
EXTENDS KVCache, Sequences

CONSTANTS Store,    \* the stores of the multi store
          Batches,  \* what a handler may write: one disjoint cache per store
          Txs       \* transactions, see BaseApp

VARIABLES history,  \* [Store -> Seq(Content)]: the committed versions
          pending,  \* [Store -> Content]: the state the block has reached
          stage     \* how far the block is

ledger == <<history, pending, stage>>

Latest(s) == IF history[s] = <<>> THEN Empty ELSE history[s][Len(history[s])]

Write(w, state) == [s \in Store |-> Overlay(w[s], state[s])]

Init ==
    /\ history = [s \in Store |-> <<>>]
    /\ pending = [s \in Store |-> Empty]
    /\ stage = "genesis"

\* Genesis, begin_block and end_block: module code that cannot fail.
Hook ==
    /\ \E w \in Batches : pending' = Write(w, pending)
    /\ <<stage, stage'>> \in {<<"genesis", "idle">>, <<"idle", "block">>, <<"block", "ended">>}
    /\ UNCHANGED history

\* All of the transaction, or what its ante handler did (fees, sequences).
DeliverTx ==
    /\ stage = "block"
    /\ \E tx \in Txs : pending' \in {Write(tx.ante, pending),
                                    Write(tx.msgs, Write(tx.ante, pending))}
    /\ UNCHANGED <<history, stage>>

(***************************************************************************)
(* What a commit makes of a store: its pending content; but a store whose  *)
(* every committed key was deleted may keep one of them.                   *)
(***************************************************************************)
Persisted(old, new, saved) ==
    \/ saved = new
    \/ \E k \in Present(old) :
          /\ Present(old) \cap Present(new) = {}
          /\ saved = [new EXCEPT ![k] = old[k]]

\* The stores of done append what the block made of them.
AppendTo(done) ==
    \E saved \in [Store -> Content] :
        /\ \A s \in Store : Persisted(Latest(s), pending[s], saved[s])
        /\ history' = [s \in Store |-> IF s \in done THEN Append(history[s], saved[s])
                                       ELSE history[s]]

Commit ==
    /\ stage = "ended"
    /\ stage' = "idle"
    /\ AppendTo(Store)
    /\ pending' = [s \in Store |-> Latest(s)']

(***************************************************************************)
(* A crash throws away what is pending.  It is atomic per store only: one  *)
(* that falls into a commit leaves some stores with the block and others   *)
(* without it, and the ledger goes on from there.  Whether a chain exists  *)
(* is what any one store says.                                             *)
(***************************************************************************)
Crash ==
    /\ UNCHANGED history \/ (stage = "ended" /\ \E done \in SUBSET Store : AppendTo(done))
    /\ pending' = [s \in Store |-> Latest(s)']
    /\ \E s \in Store : stage' = IF history'[s] = <<>> THEN "genesis" ELSE "idle"

Next == Hook \/ DeliverTx \/ Commit \/ Crash

Spec == Init /\ [][Next]_ledger
=============================================================================
