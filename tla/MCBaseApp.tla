----------------------------- MODULE MCBaseApp -----------------------------
(***************************************************************************)
(* Small instances of BaseApp: a batch writes or deletes at most one key,  *)
(* of one store.  There is one transaction that does not decode and one of *)
(* each other outcome for every choice of ante and message writes.         *)
(***************************************************************************)
EXTENDS BaseApp, FiniteSets

CONSTANTS AnteStore,  \* the store ante handlers write (fees, sequences)
          GasCosts    \* what ante handlers may cost

Quiet == [s \in Store |-> EmptyCache]

Touch(where) ==
    {Quiet}
      \cup {[Quiet EXCEPT ![s] = CacheDelete(EmptyCache, k)] : s \in where, k \in Key}
      \cup {[Quiet EXCEPT ![s] = CacheSet(EmptyCache, k, v)] :
              s \in where, k \in Key, v \in Val}

MCBatches == Touch(Store)

MCTxs ==
    {[decodes |-> FALSE, anteOk |-> TRUE, msgsOk |-> TRUE,
      ante |-> Quiet, msgs |-> Quiet, gas |-> 0]}
      \cup [decodes : {TRUE}, anteOk : {FALSE}, msgsOk : {TRUE},
            ante : Touch({AnteStore}), msgs : {Quiet}, gas : {0}]
      \cup [decodes : {TRUE}, anteOk : {TRUE}, msgsOk : BOOLEAN,
            ante : Touch({AnteStore}), msgs : Touch(Store), gas : GasCosts]
=============================================================================
