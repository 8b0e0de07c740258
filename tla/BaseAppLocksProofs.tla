------------------------- MODULE BaseAppLocksProofs -------------------------
(***************************************************************************)
(* The locks of BaseApp, for any number of stores and any height: no       *)
(* circular wait, no stale header, queries that see a whole commit or      *)
(* nothing of it, and no save after a panic.                               *)
(*                                                                         *)
(* What a thread holds is a function of the position it has reached in its *)
(* script (Keeps).  The rest of the invariant says who excludes whom, what *)
(* a poisoned lock tells, and how far a commit and a query have come.      *)
(***************************************************************************)
EXTENDS BaseAppLocks, FiniteSetTheorems, TLAPS

\* The handlers of BaseApp that take locks.
Requests == {"init_chain", "begin_block", "deliver_tx", "end_block", "commit", "check_tx",
             "query", "info"}
Kind == {"multi", "state", "header", "tree"}
Mode == {"no", "read", "write"}

\* The positions p of request r at which it has the state, and so on.
WritesState(r, p) ==
    \/ r \in {"init_chain", "commit"} /\ p >= 3
    \/ r = "begin_block" /\ p >= 5
    \/ r \in {"deliver_tx", "check_tx", "end_block"} /\ p >= 2

WritesMulti(r, p) ==
    \/ r \in {"init_chain", "commit"} /\ p >= 2
    \/ r = "begin_block" /\ p >= 6
    \/ r = "end_block" /\ p >= 3

ReadsHeader(r, p) ==
    \/ r \in {"deliver_tx", "check_tx"} /\ p \in {3, 4}
    \/ r = "end_block" /\ p \in {4, 5}
    \/ r = "commit" /\ p = 4

ReadsTree(r, p) ==
    \/ r = "init_chain" /\ p = 4
    \/ r = "begin_block" /\ p = 8
    \/ r \in {"deliver_tx", "check_tx"} /\ p = 6
    \/ r = "end_block" /\ p = 7
    \/ r = "query" /\ p \in {3, 4}

\* What request r holds, of a lock of kind k, before its step p.
Keeps(r, p, k) ==
    IF k = "state"
    THEN IF WritesState(r, p) THEN "write" ELSE IF r = "info" /\ p = 2 THEN "read" ELSE "no"
    ELSE IF k = "multi"
    THEN IF WritesMulti(r, p) THEN "write" ELSE IF r = "query" /\ p >= 2 THEN "read" ELSE "no"
    ELSE IF k = "header"
    THEN IF r = "begin_block" /\ p \in {2, 3} THEN "write"
         ELSE IF ReadsHeader(r, p) THEN "read" ELSE "no"
    ELSE IF r = "commit" /\ p \in {6, 7} THEN "write"
    ELSE IF ReadsTree(r, p) THEN "read" ELSE "no"

\* What a thread holds of lock l.
Has(t, l) ==
    IF l \in Store
    THEN IF l = Stores[turn[t]] THEN Keeps(req[t], pc[t], "tree") ELSE "no"
    ELSE Keeps(req[t], pc[t], l)

\* The requests each thread serves.
Served(t) ==
    CASE t = "consensus" -> {"init_chain", "begin_block", "deliver_tx", "end_block", "commit"}
      [] t = "mempool" -> {"check_tx"}
      [] t = "query" -> {"query", "info"}
      [] t = "rest" -> {"query"}

\* Who serves what, how far it is and what it holds.
Placed(t) ==
    IF req[t] \in Requests
    THEN /\ req[t] \in Served(t)
         /\ pc[t] <= Len(Script[req[t]]) + 1
         /\ \A l \in Lock : held[t][l] = Has(t, l)
    ELSE held[t] = NoLocks

\* Only a thread that is at a write() is asleep, and for that lock.
Asleep(t) ==
    queued[t] # {} => /\ req[t] \in Requests
                      /\ pc[t] <= Len(Script[req[t]])
                      /\ Step(t).op = "write"
                      /\ queued[t] = {On(t)}

Exclusive ==
    \A t, u \in Thread : \A l \in Lock :
        t # u /\ held[t][l] = "write" => held[u][l] = "no"

\* A poisoned lock is never held again, and a panic leaves one of the two
\* locks that every save needs poisoned.
Poisoned ==
    /\ \A l \in poisoned : \A t \in Thread : held[t][l] = "no"
    /\ poisoned # {} => "state" \in poisoned \/ "multi" \in poisoned

\* The handlers that copy the header have copied it.
SawHeader(t) ==
    \/ req[t] \in {"deliver_tx", "check_tx"} /\ pc[t] >= 4
    \/ req[t] = "end_block" /\ pc[t] >= 5

\* The header is never behind the block that has begun, nor is a copy of it
\* under the state lock.
Headers ==
    /\ begun <= header
    /\ \A t \in Thread : SawHeader(t) => seen[t].height >= begun

\* What the locks are for.
Locked ==
    /\ \A t \in Thread : Placed(t)
    /\ \A t \in Thread : Asleep(t)
    /\ Exclusive
    /\ Poisoned

\* How many of the stores a loop over them has done.
Done(t, p) == IF pc[t] <= p THEN turn[t] - 1 ELSE turn[t]

\* The first n stores are a version ahead of the others.
SavedUpTo(n) ==
    \E v \in Nat : \A i \in DOMAIN Stores :
        version[Stores[i]] = IF i <= n THEN v + 1 ELSE v

\* A commit has saved the stores up to the one it is at.
Committing(t) == req[t] = "commit" /\ pc[t] >= 2

Saved(t) ==
    /\ pc[t] <= 4 => turn[t] = 1
    /\ pc[t] = 8 => turn[t] = Len(Stores)
    /\ SavedUpTo(Done(t, 6))

\* All trees are at one version.
SameVersion == \A r, s \in Store : version[r] = version[s]

\* A commit brings the trees from one version to the next; only a panic while
\* it holds the multi store leaves them apart.
Versions ==
    /\ \A t \in Thread : Committing(t) => Saved(t)
    /\ \A t \in Thread : req[t] = "commit" /\ pc[t] = 1 => turn[t] = 1
    /\ "multi" \notin poisoned /\ (\A t \in Thread : ~Committing(t)) => SameVersion

\* The stores that a query has been at, with a version.
Opened(n, v) == {<<Stores[i], v>> : i \in 1 .. n}

\* A query has opened all the stores it has been at, at one version, or none.
Looked(t) ==
    /\ pc[t] = 1 => turn[t] = 1 /\ seen[t].found = {}
    /\ pc[t] >= 5 => turn[t] = Len(Stores)
    /\ pc[t] >= 2 =>
         \E v \in Nat :
             /\ \A s \in Store : Asked(t, s) = v
             /\ \/ /\ \A s \in Store : HasVersion(s, v)
                   /\ seen[t].found = Opened(Done(t, 3), v)
                \/ /\ \A s \in Store : ~HasVersion(s, v)
                   /\ seen[t].found = {}

Queries == \A t \in Thread : req[t] = "query" => Looked(t)

\* The inductive invariant.
IInv == TypeOK /\ Locked /\ Headers /\ Versions /\ Queries

-----------------------------------------------------------------------------
(* The scripts, step by step.                                              *)

\* Every handler has a script.
LEMMA ScriptDomain == DOMAIN Script = Requests
  BY DEF Script, Requests

\* The lengths of the scripts.
LEMMA ScriptSize ==
    /\ Len(Script["init_chain"]) = 5 /\ Len(Script["begin_block"]) = 9
    /\ Len(Script["deliver_tx"]) = 7 /\ Len(Script["end_block"]) = 8
    /\ Len(Script["commit"]) = 7 /\ Len(Script["check_tx"]) = 7
    /\ Len(Script["query"]) = 5 /\ Len(Script["info"]) = 1
  BY DEF Script, InitChain, BeginBlock, DeliverTx, EndBlock, Commit, CheckTx, Query, Info

\* A step that locks takes a lock the handler does not have yet, and only that
\* one.
Takes(r, p, s) ==
    s.op \in {"read", "write"} =>
      /\ s.on \in Kind
      /\ Keeps(r, p, s.on) = "no"
      /\ \A k \in Kind : Keeps(r, p + 1, k) = IF k = s.on THEN s.op ELSE Keeps(r, p, k)

\* A step that unlocks drops that lock only, and at the end of a loop body the
\* handler holds what it held where the body began.
Drops(r, p, s) ==
    s.op = "unlock" =>
      /\ s.on \in Kind
      /\ \A k \in Kind : Keeps(r, p + 1, k) = IF k = s.on THEN "no" ELSE Keeps(r, p, k)
      /\ s.on = "tree" =>
            /\ s.back \in Nat /\ p - s.back >= 1
            /\ \A k \in Kind : Keeps(r, p - s.back, k) = Keeps(r, p + 1, k)

\* Other steps leave the locks alone.
Stays(r, p, s) ==
    s.op \notin {"read", "write", "unlock"} =>
      \A k \in Kind : Keeps(r, p + 1, k) = Keeps(r, p, k)

\* Where a handler may panic it holds the state for writing, or nothing for
\* writing.
Guards(r, p, s) ==
    s.op \in {"work", "save"} =>
      \/ Keeps(r, p, "state") = "write"
      \/ \A k \in Kind : Keeps(r, p, k) # "write"

\* Where in the handlers the effects are.
Effects(r, p, s) ==
    /\ s.op = "set_header" => r = "begin_block" /\ p = 2
    /\ s.op = "begin" => r = "begin_block" /\ p = 6
    /\ s.op = "see_header" <=> \/ r \in {"deliver_tx", "check_tx"} /\ p = 3
                               \/ r = "end_block" /\ p = 4
    /\ s.op = "save" => r = "commit" /\ p = 6 /\ s.on = "tree"
    /\ s.op = "look" => r = "query" /\ p = 3 /\ s.on = "tree"
    /\ s.op = "work" => p >= 5

\* Where in the handlers each lock is waited for.
Waits(r, p, s) ==
    /\ s.op = "write" =>
         \/ s.on = "multi" /\ r \notin {"query", "info", "check_tx"}
         \/ /\ s.on = "state"
            /\ r \notin {"query", "info"}
            /\ r = "check_tx" => p = 1
            /\ r = "begin_block" => p = 4
         \/ s.on = "header" /\ r = "begin_block" /\ p = 1
         \/ s.on = "tree" /\ r = "commit" /\ p = 5
    /\ s.op = "read" =>
         \/ s.on = "header" /\ r \notin {"query", "info", "begin_block"}
         \/ s.on = "tree" /\ (WritesState(r, p) \/ (r = "query" /\ p = 2))
         \/ s.on = "multi" /\ r = "query" /\ p = 1
         \/ s.on = "state" /\ r = "info" /\ p = 1

Fits(r, p, s) ==
    /\ Takes(r, p, s) /\ Drops(r, p, s) /\ Stays(r, p, s)
    /\ Guards(r, p, s) /\ Effects(r, p, s) /\ Waits(r, p, s)

\* init_chain holds what the table says, step by step.
LEMMA InitChainFits == \A p \in 1 .. 5 : Fits("init_chain", p, Script["init_chain"][p])
<1> USE DEF Takes, Drops, Stays, Guards, Effects, Waits, Keeps, WritesState, WritesMulti,
            ReadsHeader, ReadsTree, Kind, W, R, U, Do, At, Again
<1> TAKE p \in 1 .. 5
<1>1. CASE p = 1
  BY <1>1 DEF Fits, Script, InitChain
<1>2. CASE p = 2
  BY <1>2 DEF Fits, Script, InitChain
<1>3. CASE p = 3
  BY <1>3 DEF Fits, Script, InitChain
<1>4. CASE p = 4
  BY <1>4 DEF Fits, Script, InitChain
<1>5. CASE p = 5
  BY <1>5 DEF Fits, Script, InitChain
<1> QED  BY <1>1, <1>2, <1>3, <1>4, <1>5

\* So does begin_block.
LEMMA BeginBlockFits == \A p \in 1 .. 9 : Fits("begin_block", p, Script["begin_block"][p])
<1> USE DEF Takes, Drops, Stays, Guards, Effects, Waits, Keeps, WritesState, WritesMulti,
            ReadsHeader, ReadsTree, Kind, W, R, U, Do, At, Again
<1> TAKE p \in 1 .. 9
<1>1. CASE p = 1
  BY <1>1 DEF Fits, Script, BeginBlock
<1>2. CASE p = 2
  BY <1>2 DEF Fits, Script, BeginBlock
<1>3. CASE p = 3
  BY <1>3 DEF Fits, Script, BeginBlock
<1>4. CASE p = 4
  BY <1>4 DEF Fits, Script, BeginBlock
<1>5. CASE p = 5
  BY <1>5 DEF Fits, Script, BeginBlock
<1>6. CASE p = 6
  BY <1>6 DEF Fits, Script, BeginBlock
<1>7. CASE p = 7
  BY <1>7 DEF Fits, Script, BeginBlock
<1>8. CASE p = 8
  BY <1>8 DEF Fits, Script, BeginBlock
<1>9. CASE p = 9
  BY <1>9 DEF Fits, Script, BeginBlock
<1> QED  BY <1>1, <1>2, <1>3, <1>4, <1>5, <1>6, <1>7, <1>8, <1>9

\* So does deliver_tx.
LEMMA DeliverTxFits == \A p \in 1 .. 7 : Fits("deliver_tx", p, Script["deliver_tx"][p])
<1> USE DEF Takes, Drops, Stays, Guards, Effects, Waits, Keeps, WritesState, WritesMulti,
            ReadsHeader, ReadsTree, Kind, W, R, U, Do, At, Again
<1> TAKE p \in 1 .. 7
<1>1. CASE p = 1
  BY <1>1 DEF Fits, Script, DeliverTx
<1>2. CASE p = 2
  BY <1>2 DEF Fits, Script, DeliverTx
<1>3. CASE p = 3
  BY <1>3 DEF Fits, Script, DeliverTx
<1>4. CASE p = 4
  BY <1>4 DEF Fits, Script, DeliverTx
<1>5. CASE p = 5
  BY <1>5 DEF Fits, Script, DeliverTx
<1>6. CASE p = 6
  BY <1>6 DEF Fits, Script, DeliverTx
<1>7. CASE p = 7
  BY <1>7 DEF Fits, Script, DeliverTx
<1> QED  BY <1>1, <1>2, <1>3, <1>4, <1>5, <1>6, <1>7

\* So does end_block.
LEMMA EndBlockFits == \A p \in 1 .. 8 : Fits("end_block", p, Script["end_block"][p])
<1> USE DEF Takes, Drops, Stays, Guards, Effects, Waits, Keeps, WritesState, WritesMulti,
            ReadsHeader, ReadsTree, Kind, W, R, U, Do, At, Again
<1> TAKE p \in 1 .. 8
<1>1. CASE p = 1
  BY <1>1 DEF Fits, Script, EndBlock
<1>2. CASE p = 2
  BY <1>2 DEF Fits, Script, EndBlock
<1>3. CASE p = 3
  BY <1>3 DEF Fits, Script, EndBlock
<1>4. CASE p = 4
  BY <1>4 DEF Fits, Script, EndBlock
<1>5. CASE p = 5
  BY <1>5 DEF Fits, Script, EndBlock
<1>6. CASE p = 6
  BY <1>6 DEF Fits, Script, EndBlock
<1>7. CASE p = 7
  BY <1>7 DEF Fits, Script, EndBlock
<1>8. CASE p = 8
  BY <1>8 DEF Fits, Script, EndBlock
<1> QED  BY <1>1, <1>2, <1>3, <1>4, <1>5, <1>6, <1>7, <1>8

\* So does commit.
LEMMA CommitFits == \A p \in 1 .. 7 : Fits("commit", p, Script["commit"][p])
<1> USE DEF Takes, Drops, Stays, Guards, Effects, Waits, Keeps, WritesState, WritesMulti,
            ReadsHeader, ReadsTree, Kind, W, R, U, Do, At, Again
<1> TAKE p \in 1 .. 7
<1>1. CASE p = 1
  BY <1>1 DEF Fits, Script, Commit
<1>2. CASE p = 2
  BY <1>2 DEF Fits, Script, Commit
<1>3. CASE p = 3
  BY <1>3 DEF Fits, Script, Commit
<1>4. CASE p = 4
  BY <1>4 DEF Fits, Script, Commit
<1>5. CASE p = 5
  BY <1>5 DEF Fits, Script, Commit
<1>6. CASE p = 6
  BY <1>6 DEF Fits, Script, Commit
<1>7. CASE p = 7
  BY <1>7 DEF Fits, Script, Commit
<1> QED  BY <1>1, <1>2, <1>3, <1>4, <1>5, <1>6, <1>7

\* So does check_tx.
LEMMA CheckTxFits == \A p \in 1 .. 7 : Fits("check_tx", p, Script["check_tx"][p])
<1> USE DEF Takes, Drops, Stays, Guards, Effects, Waits, Keeps, WritesState, WritesMulti,
            ReadsHeader, ReadsTree, Kind, W, R, U, Do, At, Again
<1> TAKE p \in 1 .. 7
<1>1. CASE p = 1
  BY <1>1 DEF Fits, Script, CheckTx
<1>2. CASE p = 2
  BY <1>2 DEF Fits, Script, CheckTx
<1>3. CASE p = 3
  BY <1>3 DEF Fits, Script, CheckTx
<1>4. CASE p = 4
  BY <1>4 DEF Fits, Script, CheckTx
<1>5. CASE p = 5
  BY <1>5 DEF Fits, Script, CheckTx
<1>6. CASE p = 6
  BY <1>6 DEF Fits, Script, CheckTx
<1>7. CASE p = 7
  BY <1>7 DEF Fits, Script, CheckTx
<1> QED  BY <1>1, <1>2, <1>3, <1>4, <1>5, <1>6, <1>7

\* So do run_query and typed_query.
LEMMA QueryFits == \A p \in 1 .. 5 : Fits("query", p, Script["query"][p])
<1> USE DEF Takes, Drops, Stays, Guards, Effects, Waits, Keeps, WritesState, WritesMulti,
            ReadsHeader, ReadsTree, Kind, W, R, U, Do, At, Again
<1> TAKE p \in 1 .. 5
<1>1. CASE p = 1
  BY <1>1 DEF Fits, Script, Query
<1>2. CASE p = 2
  BY <1>2 DEF Fits, Script, Query
<1>3. CASE p = 3
  BY <1>3 DEF Fits, Script, Query
<1>4. CASE p = 4
  BY <1>4 DEF Fits, Script, Query
<1>5. CASE p = 5
  BY <1>5 DEF Fits, Script, Query
<1> QED  BY <1>1, <1>2, <1>3, <1>4, <1>5

\* So does info.
LEMMA InfoFits == \A p \in 1 .. 1 : Fits("info", p, Script["info"][p])
<1> USE DEF Takes, Drops, Stays, Guards, Effects, Waits, Keeps, WritesState, WritesMulti,
            ReadsHeader, ReadsTree, Kind, W, R, U, Do, At, Again
<1> TAKE p \in 1 .. 1
<1>1. CASE p = 1
  BY <1>1 DEF Fits, Script, Info
<1> QED  BY <1>1

\* All handlers hold what the table says.
LEMMA ScriptFits ==
    \A r \in Requests : \A p \in 1 .. Len(Script[r]) : Fits(r, p, Script[r][p])
  BY ScriptSize, InitChainFits, BeginBlockFits, DeliverTxFits, EndBlockFits, CommitFits,
     CheckTxFits, QueryFits, InfoFits DEF Requests

-----------------------------------------------------------------------------
(* The order of the stores.                                                *)

\* The loops over the stores visit each of them once, in some order.
LEMMA StoresBijection ==
    /\ Len(Stores) \in Nat /\ Len(Stores) >= 1
    /\ DOMAIN Stores = 1 .. Len(Stores)
    /\ \A i \in DOMAIN Stores : Stores[i] \in Store
    /\ \A i, j \in DOMAIN Stores : Stores[i] = Stores[j] => i = j
    /\ \A s \in Store : \E i \in DOMAIN Stores : s = Stores[i]
<1> DEFINE n == Cardinality(Store)
<1>1. n \in Nat /\ ExistsBijection(1 .. n, Store)
  BY FS_CardinalityType, LocksAssumption
<1>2. PICK f : f \in Bijection(1 .. n, Store)
  BY <1>1 DEF ExistsBijection
<1>3. f \in [1 .. n -> Store] /\ IsInjective(f)
  BY <1>2 DEF Bijection, Injection, IsInjective
<1>4. Stores \in [1 .. n -> Store] /\ IsInjective(Stores)
  BY <1>3 DEF Stores, SetToSeq
<1>5. Stores \in Injection(1 .. n, Store)
  BY <1>4 DEF Injection, IsInjective
<1>6. IsFiniteSet(1 .. n) /\ Cardinality(1 .. n) = n
  BY <1>1, FS_Interval
<1>7. Stores \in Surjection(1 .. n, Store)
  BY <1>5, <1>6, FS_Injection, LocksAssumption
<1>8. n >= 1
  BY <1>1, FS_EmptySet, LocksAssumption
<1>9. Len(Stores) = n
  BY <1>1, <1>4
<1> QED  BY <1>1, <1>4, <1>7, <1>8, <1>9 DEF Surjection, IsInjective

-----------------------------------------------------------------------------
(* Types.                                                                  *)

\* No script is empty or longer than nine steps.
LEMMA LenScript == \A r \in Requests : Len(Script[r]) \in 1 .. 9
  BY ScriptSize DEF Requests

\* A thread in a handler is at a step of it, of which the table is true.
LEMMA StepFits ==
    ASSUME TypeOK, NEW t \in Thread, Busy(t), ~Ended(t)
    PROVE  /\ req[t] \in Requests
           /\ pc[t] \in 1 .. Len(Script[req[t]])
           /\ Fits(req[t], pc[t], Step(t))
<1>1. req[t] \in Requests
  BY ScriptDomain DEF Busy
<1>2. pc[t] \in 1 .. Len(Script[req[t]])
  <2>1. pc[t] \in 1 .. 10
    BY DEF TypeOK
  <2>2. Len(Script[req[t]]) \in 1 .. 9
    BY <1>1, LenScript
  <2> QED  BY <2>1, <2>2 DEF Ended
<1> QED  BY <1>1, <1>2, ScriptFits DEF Step

\* A step about a tree is about that of the store whose turn it is.
LEMMA OnLock ==
    ASSUME TypeOK, NEW t \in Thread, Busy(t), ~Ended(t),
           Step(t).op \in {"read", "write", "unlock", "save", "look"}
    PROVE  /\ On(t) \in Lock
           /\ Step(t).on = "tree" => On(t) = Stores[turn[t]] /\ On(t) \in Store
           /\ Step(t).on # "tree" => On(t) = Step(t).on /\ On(t) \notin Store /\ On(t) \in Kind
<1>1. Step(t).on \in Kind
  BY StepFits DEF Fits, Takes, Drops, Effects, Kind
<1>2. Stores[turn[t]] \in Store
  BY StoresBijection DEF TypeOK
<1> QED  BY <1>1, <1>2, LocksAssumption DEF On, Lock, Kind

\* The initial state has the right types.
LEMMA TypeInit == Init => TypeOK
<1> SUFFICES ASSUME Init PROVE TypeOK
  OBVIOUS
<1>1. 1 \in DOMAIN Stores
  BY StoresBijection
<1>2. cancelled \in BOOLEAN
  BY DEF Init
<1> QED  BY <1>1, <1>2 DEF Init, TypeOK, NoLocks

\* A thread that goes on stays in its script.
LEMMA AdvanceType ==
    ASSUME TypeOK, NEW t \in Thread, Busy(t), ~Ended(t), Advance(t)
    PROVE  pc' \in [Thread -> 1 .. 10] /\ turn' \in [Thread -> DOMAIN Stores]
<1> DEFINE n == Len(Script[req[t]])
<1>1. pc[t] \in 1 .. n /\ n \in 1 .. 9
  BY StepFits, LenScript
<1> HIDE DEF n
<1>2. pc[t] + 1 \in 1 .. 10
  BY <1>1
<1> QED  BY <1>2 DEF Advance, TypeOK

\* Unlocking, with the loop back to the next store, keeps the types.
LEMMA UnlockType ==
    ASSUME TypeOK, NEW t \in Thread, Busy(t), ~Ended(t), Unlock(t)
    PROVE  TypeOK'
<1>1. On(t) \in Lock
  BY OnLock DEF Unlock
<1>2. held' \in [Thread -> [Lock -> Mode]]
  BY <1>1 DEF TypeOK, Unlock, Mode
<1>3. pc' \in [Thread -> 1 .. 10] /\ turn' \in [Thread -> DOMAIN Stores]
  <2>1. CASE Step(t).on = "tree" /\ turn[t] < Len(Stores)
    <3>1. Step(t).back \in Nat /\ pc[t] - Step(t).back >= 1
      BY <2>1, StepFits DEF Fits, Drops, Unlock
    <3>2. pc[t] \in 1 .. 10 /\ turn[t] \in 1 .. Len(Stores)
      BY StoresBijection DEF TypeOK
    <3> DEFINE b == Step(t).back
    <3>3. pc[t] - b \in 1 .. 10
      <4>1. b \in Nat /\ pc[t] - b >= 1 /\ pc[t] \in 1 .. 10
        BY <3>1, <3>2
      <4> HIDE DEF b
      <4> QED  BY <4>1
    <3>4. turn[t] + 1 \in DOMAIN Stores
      BY <2>1, <3>2, StoresBijection
    <3> QED  BY <2>1, <3>3, <3>4 DEF Unlock, Repeat, TypeOK
  <2>2. CASE ~(Step(t).on = "tree" /\ turn[t] < Len(Stores))
    BY <2>2, AdvanceType DEF Unlock, Repeat
  <2> QED  BY <2>1, <2>2
<1> QED  BY <1>2, <1>3 DEF TypeOK, Unlock, Others, Mode

\* The effects of the handlers keep the types.
LEMMA EffectType ==
    ASSUME TypeOK, NEW t \in Thread, Busy(t), ~Ended(t), Effect(t)
    PROVE  TypeOK'
<1>1. header' \in Nat /\ begun' \in Nat
  BY DEF TypeOK, Effect, Save, Look
<1>2. version' \in [Store -> Nat]
  <2>1. CASE Save(t)
    <3>1. On(t) \in Store
      BY <2>1, OnLock, StepFits DEF Fits, Effects, Save
    <3> QED  BY <2>1, <3>1 DEF TypeOK, Save
  <2>2. CASE ~Save(t)
    BY <2>2 DEF Effect, TypeOK, Look
  <2> QED  BY <2>1, <2>2
<1>3. seen' \in [Thread -> [height : Nat, found : SUBSET (Store \X Nat)]]
  <2>1. CASE Look(t)
    <3>1. On(t) \in Store
      BY <2>1, OnLock, StepFits DEF Fits, Effects, Look
    <3>2. Asked(t, On(t)) \in Nat
      BY <3>1 DEF TypeOK, Asked
    <3>3. {<<On(t), Asked(t, On(t))>>} \subseteq Store \X Nat
      BY <3>1, <3>2
    <3>4. PICK F \in SUBSET (Store \X Nat) : seen' = [seen EXCEPT ![t].found = F]
      <4>1. seen[t].found \in SUBSET (Store \X Nat)
        BY DEF TypeOK
      <4> QED  BY <2>1, <3>3, <4>1 DEF Look, TypeOK
    <3> QED  BY <3>4 DEF TypeOK
  <2>2. CASE Step(t).op = "see_header" /\ seen' = [seen EXCEPT ![t].height = header]
    BY <2>2 DEF TypeOK
  <2> QED  BY <2>1, <2>2 DEF Effect, TypeOK, Save
<1> QED  BY <1>1, <1>2, <1>3, AdvanceType DEF TypeOK, Effect

\* Every step keeps the types.
LEMMA TypeStep == TypeOK /\ [Next]_vars => TypeOK'
<1> SUFFICES ASSUME TypeOK, [Next]_vars PROVE TypeOK'
  OBVIOUS
<1> USE DEF TypeOK
<1>1. ASSUME NEW t \in Thread, Run(t) PROVE TypeOK'
  <2>1. CASE Finish(t)
    BY <2>1 DEF Finish, NoLocks, Others
  <2>2. CASE Unwind(t)
    <3>1. cancelled' \in BOOLEAN
      BY <2>2 DEF Unwind
    <3> QED  BY <2>2, <3>1 DEF Unwind
  <2>3. CASE Busy(t) /\ ~Ended(t) /\ Acquire(t)
    <3>1. On(t) \in Lock
      BY <2>3, OnLock DEF Acquire
    <3> QED  BY <2>3, <3>1, AdvanceType DEF Acquire, Others
  <2>4. CASE Busy(t) /\ ~Ended(t) /\ Sleep(t)
    <3>1. On(t) \in Lock
      BY <2>4, OnLock DEF Sleep
    <3> QED  BY <2>4, <3>1 DEF Sleep, Others
  <2>5. CASE Busy(t) /\ ~Ended(t) /\ Unlock(t)
    BY <2>5, UnlockType
  <2>6. CASE Busy(t) /\ ~Ended(t) /\ Effect(t)
    BY <2>6, EffectType
  <2>7. CASE Busy(t) /\ ~Ended(t) /\ Panic(t)
    BY <2>7 DEF Panic, NoLocks, Others
  <2> QED  BY <1>1, <2>1, <2>2, <2>3, <2>4, <2>5, <2>6, <2>7 DEF Run
<1>2. ASSUME NEW t \in Thread, NEW r \in Requests, Start(t, r)
      PROVE  /\ req' \in [Thread -> DOMAIN Script \cup {"none", "unwinding", "dead"}]
             /\ pc' \in [Thread -> 1 .. 10]
             /\ turn' \in [Thread -> DOMAIN Stores]
  BY <1>2, ScriptDomain, StoresBijection DEF Start
<1>3. CASE StartConsensus
  BY <1>2, <1>3 DEF StartConsensus, Start, Thread, Abci, Requests
<1>4. CASE StartMempool
  BY <1>2, <1>4 DEF StartMempool, Start, Thread, Abci, Requests
<1>5. ASSUME NEW t \in {"query", "rest"}, StartQuery(t) PROVE TypeOK'
  <2>1. PICK h \in 0 .. MaxHeight :
            Start(t, "query") /\ seen' = [seen EXCEPT ![t] = [height |-> h, found |-> {}]]
    BY <1>5 DEF StartQuery
  <2>2. h \in Nat /\ t \in Thread
    BY LocksAssumption DEF Thread, Abci
  <2>3. seen' \in [Thread -> [height : Nat, found : SUBSET (Store \X Nat)]]
    BY <2>1, <2>2
  <2>4. "query" \in Requests
    BY DEF Requests
  <2> QED  BY <1>2, <1>5, <2>1, <2>2, <2>3, <2>4 DEF StartQuery, Start
<1>6. CASE StartInfo
  BY <1>2, <1>6 DEF StartInfo, Start, Thread, Abci, Requests
<1>7. CASE UNCHANGED vars
  BY <1>7 DEF vars
<1> QED  BY <1>1, <1>3, <1>4, <1>5, <1>6, <1>7 DEF Next

-----------------------------------------------------------------------------
(* Who holds what.                                                         *)

\* A thread is where it was when another one moves.
LEMMA OthersPlaced ==
    ASSUME NEW u \in Thread, Placed(u), Asleep(u),
           req'[u] = req[u], pc'[u] = pc[u], turn'[u] = turn[u], held'[u] = held[u],
           queued'[u] = queued[u]
    PROVE  Placed(u)' /\ Asleep(u)'
<1>1. \A l : Has(u, l)' = Has(u, l)
  BY DEF Has
<1>2. Placed(u)'
  BY <1>1 DEF Placed
<1>3. Step(u)' = Step(u) /\ On(u)' = On(u)
  BY DEF Step, On
<1> QED  BY <1>2, <1>3 DEF Asleep

\* A thread that serves nothing holds nothing.
LEMMA IdlePlaced ==
    ASSUME NEW u \in Thread, req'[u] \notin Requests, held'[u] = NoLocks, queued'[u] = {}
    PROVE  Placed(u)' /\ Asleep(u)'
  BY DEF Placed, Asleep

\* Locks that are dropped do not spoil the exclusion.
LEMMA FewerHeld ==
    ASSUME TypeOK, Exclusive, Poisoned, poisoned' = poisoned,
           \A u \in Thread : \A l \in Lock : held'[u][l] \in {"no", held[u][l]}
    PROVE  Exclusive' /\ Poisoned'
<1>1. Exclusive'
  BY DEF Exclusive
<1>2. Poisoned'
  BY DEF Poisoned, TypeOK
<1> QED  BY <1>1, <1>2

\* Taking a lock: RwLock admits a writer alone and readers together, and a
\* poisoned lock makes the handler panic instead.
LEMMA AcquireLocked ==
    ASSUME TypeOK, Locked, NEW t \in Thread, Busy(t), ~Ended(t), Acquire(t)
    PROVE  Locked'
<1> DEFINE s == Step(t)
           l0 == On(t)
<1>1. /\ s.op \in {"read", "write"}
      /\ l0 \notin poisoned
      /\ Blockers(t) = {}
      /\ held' = [held EXCEPT ![t][l0] = s.op]
      /\ queued' = [queued EXCEPT ![t] = {}]
      /\ pc' = [pc EXCEPT ![t] = @ + 1]
      /\ turn' = turn /\ req' = req /\ poisoned' = poisoned
  BY DEF Acquire, Advance
<1>2. /\ req[t] \in Requests
      /\ pc[t] \in 1 .. Len(Script[req[t]])
      /\ Takes(req[t], pc[t], s)
  BY StepFits DEF Fits
<1>3. /\ l0 \in Lock
      /\ s.on = "tree" => l0 = Stores[turn[t]] /\ l0 \in Store
      /\ s.on # "tree" => l0 = s.on /\ l0 \notin Store /\ l0 \in Kind
  BY <1>1, OnLock
<1>4. /\ s.on \in Kind
      /\ Keeps(req[t], pc[t], s.on) = "no"
      /\ \A k \in Kind : Keeps(req[t], pc[t] + 1, k) =
                             IF k = s.on THEN s.op ELSE Keeps(req[t], pc[t], k)
  BY <1>1, <1>2 DEF Takes
<1>5. /\ pc'[t] = pc[t] + 1 /\ req'[t] = req[t] /\ turn'[t] = turn[t]
      /\ \A l \in Lock : held'[t][l] = IF l = l0 THEN s.op ELSE held[t][l]
      /\ queued'[t] = {}
  BY <1>1, <1>3 DEF TypeOK
<1>6. \A u \in Thread \ {t} :
          /\ req'[u] = req[u] /\ pc'[u] = pc[u] /\ turn'[u] = turn[u] /\ held'[u] = held[u]
          /\ queued'[u] = queued[u]
  BY <1>1 DEF TypeOK
<1> HIDE DEF s, l0
<1>7. Placed(t)'
  <2>1. pc'[t] <= Len(Script[req'[t]]) + 1 /\ req'[t] \in Requests /\ req'[t] \in Served(t)
    BY <1>2, <1>5, LenScript DEF Locked, Placed
  <2>2. ASSUME NEW l \in Lock PROVE held'[t][l] = Has(t, l)'
    <3>1. held[t][l] = Has(t, l)
      BY <1>2 DEF Locked, Placed
    <3>2. l \in Kind \ {"tree"} \/ l \in Store
      BY DEF Lock, Kind
    <3>3. CASE l \in Store
      <4>1. "tree" \in Kind
        BY DEF Kind
      <4> QED  BY <1>3, <1>4, <1>5, <3>1, <3>3, <4>1 DEF Has
    <3>4. CASE l \notin Store
      BY <1>3, <1>4, <1>5, <3>1, <3>2, <3>4 DEF Has
    <3> QED  BY <3>3, <3>4
  <2> QED  BY <2>1, <2>2 DEF Placed
<1>8. Asleep(t)'
  BY <1>5 DEF Asleep
<1>9. \A u \in Thread : Placed(u)' /\ Asleep(u)'
  BY <1>6, <1>7, <1>8, OthersPlaced DEF Locked
<1>10. /\ s.op = "write" => Holders(l0) \subseteq {t}
       /\ s.op = "read" => Writers(l0) \subseteq {t}
  BY <1>1 DEF Blockers, s, l0
<1>11. Exclusive'
  <2> SUFFICES ASSUME NEW u \in Thread, NEW v \in Thread, NEW l \in Lock,
                      u # v, held'[u][l] = "write"
               PROVE  held'[v][l] = "no"
    BY DEF Exclusive
  <2>1. CASE l # l0
    BY <1>5, <1>6, <2>1 DEF Locked, Exclusive
  <2>2. CASE l = l0 /\ u = t
    <3>1. s.op = "write" /\ v \notin Holders(l0) /\ held'[v] = held[v]
      BY <1>5, <1>6, <1>10, <2>2
    <3> QED  BY <2>2, <3>1 DEF Holders
  <2>3. CASE l = l0 /\ u # t
    <3>1. held[u][l] = "write" /\ u \in Writers(l0) /\ u \in Holders(l0)
      BY <1>6, <2>3 DEF Writers, Holders
    <3> QED  BY <1>1, <1>10, <2>3, <3>1
  <2> QED  BY <2>1, <2>2, <2>3
<1>12. Poisoned'
  <2>1. ASSUME NEW l \in poisoned, NEW u \in Thread PROVE held'[u][l] = "no"
    <3>1. l \in Lock /\ l # l0 /\ held[u][l] = "no"
      BY <1>1 DEF TypeOK, Locked, Poisoned
    <3> QED  BY <1>5, <1>6, <3>1
  <2> QED  BY <1>1, <2>1 DEF Poisoned, Locked
<1> QED  BY <1>9, <1>11, <1>12 DEF Locked

\* Going to sleep on a write() changes no lock.
LEMMA SleepLocked ==
    ASSUME TypeOK, Locked, NEW t \in Thread, Busy(t), ~Ended(t), Sleep(t)
    PROVE  Locked'
<1>1. /\ req' = req /\ pc' = pc /\ turn' = turn /\ held' = held /\ poisoned' = poisoned
      /\ queued'[t] = {On(t)}
      /\ \A u \in Thread \ {t} : queued'[u] = queued[u]
  BY DEF Sleep, TypeOK
<1>2. req[t] \in Requests /\ pc[t] \in 1 .. Len(Script[req[t]]) /\ Step(t).op = "write"
  BY StepFits DEF Sleep
<1>3. Placed(t)' /\ Asleep(t)'
  <2>1. \A l : Has(t, l)' = Has(t, l)
    BY <1>1 DEF Has
  <2>2. Placed(t)'
    BY <1>1, <2>1 DEF Placed, Locked
  <2>3. Step(t)' = Step(t) /\ On(t)' = On(t)
    BY <1>1 DEF Step, On
  <2>4. pc[t] <= Len(Script[req[t]])
    BY <1>2, LenScript
  <2> QED  BY <1>1, <1>2, <2>2, <2>3, <2>4 DEF Asleep
<1>4. \A u \in Thread : Placed(u)' /\ Asleep(u)'
  BY <1>1, <1>3, OthersPlaced DEF Locked
<1>5. Exclusive' /\ Poisoned'
  BY <1>1, FewerHeld DEF Locked
<1> QED  BY <1>4, <1>5 DEF Locked

\* Unlocking, also at the end of a loop body.
LEMMA UnlockLocked ==
    ASSUME TypeOK, Locked, NEW t \in Thread, Busy(t), ~Ended(t), Unlock(t)
    PROVE  Locked'
<1> DEFINE s == Step(t)
           l0 == On(t)
<1>1. /\ s.op = "unlock"
      /\ held' = [held EXCEPT ![t][l0] = "no"]
      /\ req' = req /\ poisoned' = poisoned /\ queued' = queued
      /\ IF s.on = "tree" THEN Repeat(t) ELSE Advance(t)
  BY DEF Unlock
<1>2. /\ req[t] \in Requests
      /\ pc[t] \in 1 .. Len(Script[req[t]])
      /\ Drops(req[t], pc[t], s)
  BY StepFits DEF Fits
<1>3. /\ l0 \in Lock
      /\ s.on = "tree" => l0 = Stores[turn[t]] /\ l0 \in Store
      /\ s.on # "tree" => l0 = s.on /\ l0 \notin Store /\ l0 \in Kind
  BY <1>1, OnLock
<1>4. /\ s.on \in Kind
      /\ \A k \in Kind : Keeps(req[t], pc[t] + 1, k) =
                             IF k = s.on THEN "no" ELSE Keeps(req[t], pc[t], k)
      /\ s.on = "tree" =>
            /\ s.back \in Nat /\ pc[t] - s.back >= 1
            /\ \A k \in Kind : Keeps(req[t], pc[t] - s.back, k) = Keeps(req[t], pc[t] + 1, k)
  BY <1>1, <1>2 DEF Drops
<1>5. /\ req'[t] = req[t]
      /\ \A l \in Lock : held'[t][l] = IF l = l0 THEN "no" ELSE held[t][l]
      /\ queued'[t] = queued[t]
  BY <1>1, <1>3 DEF TypeOK
<1>6. \A u \in Thread \ {t} :
          /\ req'[u] = req[u] /\ pc'[u] = pc[u] /\ turn'[u] = turn[u] /\ held'[u] = held[u]
          /\ queued'[u] = queued[u]
  BY <1>1 DEF TypeOK, Repeat, Advance
<1>7. \/ pc'[t] = pc[t] + 1 /\ turn'[t] = turn[t]
      \/ s.on = "tree" /\ pc'[t] = pc[t] - s.back /\ turn'[t] = turn[t] + 1
  BY <1>1 DEF TypeOK, Repeat, Advance
<1> HIDE DEF s, l0
<1>8. \A k \in Kind :
          Keeps(req'[t], pc'[t], k) = IF k = s.on THEN "no" ELSE Keeps(req[t], pc[t], k)
  BY <1>4, <1>5, <1>7
<1>9. Placed(t)'
  <2>1. pc'[t] <= Len(Script[req'[t]]) + 1 /\ req'[t] \in Requests /\ req'[t] \in Served(t)
    <3>1. req'[t] \in Requests /\ req'[t] \in Served(t) /\ Len(Script[req'[t]]) \in 1 .. 9
      BY <1>2, <1>5, LenScript DEF Locked, Placed
    <3>2. CASE pc'[t] = pc[t] + 1
      BY <1>2, <1>5, <3>1, <3>2
    <3>3. CASE s.on = "tree" /\ pc'[t] = pc[t] - s.back
      <4> DEFINE b == s.back
      <4>1. b \in Nat /\ pc'[t] = pc[t] - b
        BY <1>4, <3>3
      <4> HIDE DEF b
      <4> QED  BY <1>2, <1>5, <3>1, <4>1
    <3> QED  BY <1>7, <3>1, <3>2, <3>3
  <2>2. ASSUME NEW l \in Lock PROVE held'[t][l] = Has(t, l)'
    <3>1. held[t][l] = Has(t, l)
      BY <1>2 DEF Locked, Placed
    <3>2. l \in Kind \ {"tree"} \/ l \in Store
      BY DEF Lock, Kind
    <3>3. CASE l \in Store
      <4>1. "tree" \in Kind
        BY DEF Kind
      <4>2. CASE s.on = "tree"
        BY <1>3, <1>5, <1>8, <3>1, <3>3, <4>1, <4>2 DEF Has
      <4>3. CASE s.on # "tree"
        BY <1>3, <1>5, <1>7, <1>8, <3>1, <3>3, <4>1, <4>3 DEF Has
      <4> QED  BY <4>2, <4>3
    <3>4. CASE l \notin Store
      BY <1>3, <1>5, <1>8, <3>1, <3>2, <3>4 DEF Has
    <3> QED  BY <3>3, <3>4
  <2> QED  BY <2>1, <2>2 DEF Placed
<1>10. Asleep(t)'
  BY <1>1, <1>5 DEF Asleep, Locked, s
<1>11. \A u \in Thread : Placed(u)' /\ Asleep(u)'
  BY <1>6, <1>9, <1>10, OthersPlaced DEF Locked
<1>12. Exclusive' /\ Poisoned'
  BY <1>1, <1>5, <1>6, FewerHeld DEF Locked
<1> QED  BY <1>11, <1>12 DEF Locked

\* The effects change no lock.
LEMMA EffectStep ==
    ASSUME TypeOK, NEW t \in Thread, Busy(t), ~Ended(t), Effect(t)
    PROVE  /\ Step(t).op \in {"set_header", "begin", "see_header", "work", "save", "look"}
           /\ pc'[t] = pc[t] + 1
           /\ \A u \in Thread \ {t} : pc'[u] = pc[u]
           /\ turn' = turn /\ req' = req /\ held' = held /\ queued' = queued
           /\ poisoned' = poisoned
  BY DEF Effect, Save, Look, Advance, TypeOK

\* So what is held is still what the table says.
LEMMA EffectLocked ==
    ASSUME TypeOK, Locked, NEW t \in Thread, Busy(t), ~Ended(t), Effect(t)
    PROVE  Locked'
<1>1. /\ req[t] \in Requests
      /\ pc[t] \in 1 .. Len(Script[req[t]])
      /\ Stays(req[t], pc[t], Step(t))
  BY StepFits DEF Fits
<1>2. \A k \in Kind : Keeps(req[t], pc[t] + 1, k) = Keeps(req[t], pc[t], k)
  BY <1>1, EffectStep DEF Stays
<1>3. Placed(t)'
  <2>1. pc'[t] <= Len(Script[req'[t]]) + 1 /\ req'[t] \in Requests /\ req'[t] \in Served(t)
    BY <1>1, EffectStep, LenScript DEF Locked, Placed
  <2>2. ASSUME NEW l \in Lock PROVE held'[t][l] = Has(t, l)'
    <3>1. held[t][l] = Has(t, l)
      BY <1>1 DEF Locked, Placed
    <3>2. l \in Kind \/ l \in Store
      BY DEF Lock, Kind
    <3>3. "tree" \in Kind
      BY DEF Kind
    <3> QED  BY <1>2, <3>1, <3>2, <3>3, EffectStep DEF Has
  <2> QED  BY <2>1, <2>2 DEF Placed
<1>4. Asleep(t)'
  BY EffectStep DEF Asleep, Locked
<1>5. \A u \in Thread : Placed(u)' /\ Asleep(u)'
  BY <1>3, <1>4, EffectStep, OthersPlaced DEF Locked
<1>6. Exclusive' /\ Poisoned'
  BY EffectStep, FewerHeld DEF Locked
<1> QED  BY <1>5, <1>6 DEF Locked

\* The end of a handler drops its guards, and the end of unwinding finds none.
LEMMA RestLocked ==
    ASSUME TypeOK, Locked, NEW t \in Thread, Finish(t) \/ Unwind(t)
    PROVE  Locked'
<1>1. /\ \A u \in Thread \ {t} : req'[u] = req[u] /\ held'[u] = held[u]
      /\ pc' = pc /\ turn' = turn /\ queued' = queued /\ poisoned' = poisoned
      /\ req'[t] \in {"none", "dead"}
  BY DEF Finish, Unwind, TypeOK
<1>2. held'[t] = NoLocks
  <2>1. CASE Finish(t)
    BY <2>1 DEF Finish, TypeOK
  <2>2. CASE Unwind(t)
    BY <2>2 DEF Unwind, TypeOK, Locked, Placed, Requests
  <2> QED  BY <2>1, <2>2
<1>3. queued[t] = {}
  <2>1. CASE Finish(t)
    <3>1. pc[t] > Len(Script[req[t]]) /\ req[t] \in Requests
      BY <2>1, ScriptDomain DEF Finish, Ended, Busy
    <3>2. pc[t] \in 1 .. 10
      BY DEF TypeOK
    <3>3. Len(Script[req[t]]) \in 1 .. 9
      BY <3>1, LenScript
    <3> QED  BY <3>1, <3>2, <3>3 DEF Locked, Asleep
  <2>2. CASE Unwind(t)
    BY <2>2 DEF Unwind, Locked, Asleep, Requests
  <2> QED  BY <2>1, <2>2
<1>4. Placed(t)' /\ Asleep(t)'
  BY <1>1, <1>2, <1>3, IdlePlaced DEF Requests
<1>5. \A u \in Thread : Placed(u)' /\ Asleep(u)'
  BY <1>1, <1>4, OthersPlaced DEF Locked
<1>6. \A u \in Thread : \A l \in Lock : held'[u][l] \in {"no", held[u][l]}
  BY <1>1, <1>2 DEF NoLocks
<1>7. Exclusive' /\ Poisoned'
  BY <1>1, <1>6, FewerHeld DEF Locked
<1> QED  BY <1>5, <1>7 DEF Locked

\* A panic drops the guards and poisons those for writing: none of these has
\* another holder, and the state is one of them if there are any.
LEMMA PanicLocked ==
    ASSUME TypeOK, Locked, NEW t \in Thread, Busy(t), ~Ended(t), Panic(t)
    PROVE  Locked'
<1> DEFINE lost == {l \in Lock : held[t][l] = "write"}
<1>1. /\ \A u \in Thread \ {t} :
            req'[u] = req[u] /\ held'[u] = held[u] /\ queued'[u] = queued[u]
      /\ pc' = pc /\ turn' = turn /\ poisoned' = poisoned \cup lost
      /\ req'[t] \in {"none", "unwinding"}
      /\ held'[t] = NoLocks /\ queued'[t] = {}
  BY DEF Panic, TypeOK
<1>2. Placed(t)' /\ Asleep(t)'
  BY <1>1, IdlePlaced DEF Requests
<1>3. \A u \in Thread : Placed(u)' /\ Asleep(u)'
  BY <1>1, <1>2, OthersPlaced DEF Locked
<1>4. Exclusive'
  BY <1>1 DEF Locked, Exclusive, NoLocks
<1>5. ASSUME NEW l \in poisoned', NEW u \in Thread PROVE held'[u][l] = "no"
  <2>1. l \in Lock
    BY <1>1 DEF TypeOK
  <2>2. CASE u = t
    BY <1>1, <2>1, <2>2 DEF NoLocks
  <2>3. CASE u # t
    BY <1>1, <2>1, <2>3 DEF Locked, Poisoned, Exclusive
  <2> QED  BY <2>2, <2>3
<1>6. poisoned' # {} => "state" \in poisoned' \/ "multi" \in poisoned'
  <2>1. CASE poisoned # {}
    BY <1>1, <2>1 DEF Locked, Poisoned
  <2>2. CASE poisoned = {}
    <3>1. Step(t).op \in {"work", "save"}
      BY <2>2 DEF Panic
    <3>2. req[t] \in Requests /\ Guards(req[t], pc[t], Step(t))
      BY StepFits DEF Fits
    <3>3. \A l \in Lock : held[t][l] = Has(t, l)
      BY <3>2 DEF Locked, Placed
    <3>4. CASE Keeps(req[t], pc[t], "state") = "write"
      <4>1. "state" \in Lock /\ "state" \notin Store
        BY LocksAssumption DEF Lock
      <4> QED  BY <1>1, <3>3, <3>4, <4>1 DEF Has
    <3>5. CASE \A k \in Kind : Keeps(req[t], pc[t], k) # "write"
      <4>1. ASSUME NEW l \in Lock PROVE held[t][l] # "write"
        <5>1. l \in Kind \/ l \in Store
          BY DEF Lock, Kind
        <5>2. "tree" \in Kind
          BY DEF Kind
        <5> QED  BY <3>3, <3>5, <5>1, <5>2 DEF Has
      <4> QED  BY <1>1, <2>2, <4>1
    <3> QED  BY <3>1, <3>2, <3>4, <3>5 DEF Guards
  <2> QED  BY <2>1, <2>2
<1> QED  BY <1>3, <1>4, <1>5, <1>6 DEF Locked, Poisoned

\* A request starts with nothing locked.
LEMMA StartLocked ==
    ASSUME TypeOK, Locked, NEW t \in Thread, NEW r \in Served(t), r \in Requests, Start(t, r)
    PROVE  Locked'
<1>1. /\ \A u \in Thread \ {t} : req'[u] = req[u] /\ pc'[u] = pc[u] /\ turn'[u] = turn[u]
      /\ req'[t] = r /\ pc'[t] = 1 /\ turn'[t] = 1
      /\ held' = held /\ queued' = queued /\ poisoned' = poisoned /\ req[t] = "none"
  BY DEF Start, TypeOK
<1>2. held[t] = NoLocks /\ queued[t] = {}
  BY <1>1 DEF Locked, Placed, Asleep, Requests
<1>3. Placed(t)'
  <2>1. \A k \in Kind : Keeps(r, 1, k) = "no"
    BY DEF Requests, Kind, Keeps, WritesState, WritesMulti, ReadsHeader, ReadsTree
  <2>2. ASSUME NEW l \in Lock PROVE held'[t][l] = Has(t, l)'
    <3>1. l \in Kind \/ l \in Store
      BY DEF Lock, Kind
    <3>2. "tree" \in Kind
      BY DEF Kind
    <3> QED  BY <1>1, <1>2, <2>1, <3>1, <3>2 DEF Has, NoLocks
  <2>3. 1 <= Len(Script[r]) + 1
    BY LenScript
  <2> QED  BY <1>1, <2>2, <2>3 DEF Placed
<1>4. Asleep(t)'
  BY <1>1, <1>2 DEF Asleep
<1>5. \A u \in Thread : Placed(u)' /\ Asleep(u)'
  BY <1>1, <1>3, <1>4, OthersPlaced DEF Locked
<1>6. Exclusive' /\ Poisoned'
  BY <1>1, FewerHeld DEF Locked
<1> QED  BY <1>5, <1>6 DEF Locked

\* What a thread in a handler holds, lock by lock.
LEMMA Holds ==
    ASSUME Locked, NEW t \in Thread, req[t] \in Requests
    PROVE  /\ held[t]["state"] = Keeps(req[t], pc[t], "state")
           /\ held[t]["multi"] = Keeps(req[t], pc[t], "multi")
           /\ held[t]["header"] = Keeps(req[t], pc[t], "header")
           /\ \A s \in Store :
                held[t][s] = IF s = Stores[turn[t]] THEN Keeps(req[t], pc[t], "tree") ELSE "no"
<1>1. \A l \in Lock : held[t][l] = Has(t, l)
  BY DEF Locked, Placed
<1>2. {"multi", "state", "header"} \cap Store = {}
  BY LocksAssumption
<1> QED  BY <1>1, <1>2 DEF Lock, Has

-----------------------------------------------------------------------------
(* Headers.                                                                *)

\* Steps that neither begin a block nor copy the header.
LEMMA HeadersKept ==
    ASSUME TypeOK, Headers, begun' = begun, header' = header \/ header' = header + 1,
           \A u \in Thread : SawHeader(u)' => SawHeader(u) /\ seen'[u].height = seen[u].height
    PROVE  Headers'
  BY DEF TypeOK, Headers

\* A handler that goes on from a step other than the copy has not copied the
\* header by that.
LEMMA NotYetSeen ==
    ASSUME TypeOK, NEW t \in Thread, Busy(t), ~Ended(t), Step(t).op # "see_header",
           req'[t] = req[t], pc'[t] \in Int, pc'[t] <= pc[t] + 1, SawHeader(t)'
    PROVE  SawHeader(t)
<1>1. pc[t] \in 1 .. 10
  BY DEF TypeOK
<1>2. Effects(req[t], pc[t], Step(t))
  BY StepFits DEF Fits
<1> QED  BY <1>1, <1>2 DEF SawHeader, Effects

\* Locks do not age a copied header.
LEMMA LockHeaders ==
    ASSUME TypeOK, Headers, NEW t \in Thread, Busy(t), ~Ended(t), Acquire(t) \/ Unlock(t)
    PROVE  Headers'
<1>1. req' = req /\ seen' = seen /\ begun' = begun /\ header' = header
  BY DEF Acquire, Unlock, Others
<1>2. \A u \in Thread \ {t} : pc'[u] = pc[u]
  BY DEF Acquire, Unlock, Advance, Repeat, TypeOK
<1>3. pc'[t] \in Int /\ pc'[t] <= pc[t] + 1
  <2>1. pc[t] \in 1 .. 10
    BY DEF TypeOK
  <2>2. CASE Advance(t)
    BY <2>1, <2>2 DEF Advance, TypeOK
  <2>3. CASE ~Advance(t)
    <3> DEFINE b == Step(t).back
    <3>1. pc'[t] = pc[t] - b /\ b \in Nat
      BY <2>3, StepFits DEF Acquire, Unlock, Repeat, TypeOK, Fits, Drops
    <3> HIDE DEF b
    <3> QED  BY <2>1, <3>1
  <2> QED  BY <2>2, <2>3
<1>4. Step(t).op # "see_header"
  BY DEF Acquire, Unlock
<1>5. SawHeader(t)' => SawHeader(t)
  BY <1>1, <1>3, <1>4, NotYetSeen
<1>6. \A u \in Thread : SawHeader(u)' => SawHeader(u)
  BY <1>1, <1>2, <1>5 DEF SawHeader
<1> QED  BY <1>1, <1>6, HeadersKept

\* begin_block begins a block under the state lock, so no handler with a copied
\* header is between its copy and its end.
LEMMA EffectHeaders ==
    ASSUME TypeOK, Locked, Headers, NEW t \in Thread, Busy(t), ~Ended(t), Effect(t)
    PROVE  Headers'
<1>1. /\ req[t] \in Requests
      /\ pc[t] \in 1 .. 10
      /\ Effects(req[t], pc[t], Step(t))
  BY StepFits DEF Fits, TypeOK
<1>2. \A u \in Thread \ {t} : SawHeader(u)' => SawHeader(u)
  BY EffectStep DEF SawHeader
<1>3. CASE Step(t).op = "see_header"
  <2>1. /\ seen'[t].height = header /\ begun' = begun /\ header' = header
        /\ \A u \in Thread \ {t} : seen'[u] = seen[u]
    BY <1>3 DEF Effect, Save, Look, TypeOK
  <2> QED  BY <1>2, <2>1 DEF Headers, TypeOK
<1>4. CASE Step(t).op = "begin"
  <2>1. begun' = header /\ header' = header /\ seen' = seen
    BY <1>4 DEF Effect, Save, Look
  <2>2. req[t] = "begin_block" /\ pc[t] = 6
    BY <1>1, <1>4 DEF Effects
  <2>3. held[t]["state"] = "write"
    BY <1>1, <2>2, Holds DEF Keeps, WritesState
  <2>4. ASSUME NEW u \in Thread, SawHeader(u)' PROVE FALSE
    <3>1. u # t
      BY <2>2, <2>4, EffectStep DEF SawHeader
    <3>2. SawHeader(u) /\ req[u] \in Requests /\ pc[u] \in 1 .. 10
      BY <1>2, <2>4, <3>1 DEF SawHeader, Requests, TypeOK
    <3>3. held[u]["state"] = "write"
      BY <3>2, Holds DEF Keeps, WritesState, SawHeader
    <3> QED  BY <2>3, <3>1, <3>3 DEF Locked, Exclusive, Lock
  <2> QED  BY <2>1, <2>4 DEF Headers, TypeOK
<1>5. CASE Step(t).op \notin {"see_header", "begin"}
  <2>1. begun' = begun /\ (header' = header \/ header' = header + 1)
    BY <1>5 DEF Effect, Save, Look
  <2>2. \A u \in Thread : seen'[u].height = seen[u].height
    <3>1. CASE seen' = seen
      BY <3>1
    <3>2. CASE Look(t)
      BY <3>2 DEF Look, TypeOK
    <3> QED  BY <1>5, <3>1, <3>2 DEF Effect, Save
  <2>3. pc'[t] \in Int /\ pc'[t] <= pc[t] + 1 /\ req'[t] = req[t]
    BY <1>1, EffectStep
  <2>4. SawHeader(t)' => SawHeader(t)
    BY <1>5, <2>3, NotYetSeen
  <2> QED  BY <1>2, <2>1, <2>2, <2>4, HeadersKept
<1> QED  BY <1>3, <1>4, <1>5

\* The end of a handler, sleep and panics leave the headers alone.
LEMMA IdleHeaders ==
    ASSUME TypeOK, Headers, NEW t \in Thread,
           Finish(t) \/ Unwind(t) \/ Sleep(t) \/ Panic(t)
    PROVE  Headers'
<1>1. /\ pc' = pc /\ seen' = seen /\ begun' = begun /\ header' = header
      /\ \A u \in Thread : req'[u] = req[u] \/ req'[u] \in {"none", "dead", "unwinding"}
  BY DEF Finish, Unwind, Sleep, Panic, Others, TypeOK
<1>2. \A u \in Thread : SawHeader(u)' => SawHeader(u)
  BY <1>1 DEF SawHeader
<1> QED  BY <1>1, <1>2, HeadersKept

\* A new request has copied no header.
LEMMA StartHeaders ==
    ASSUME TypeOK, Headers, NEW t \in Thread, NEW r \in Requests, Start(t, r),
           \A u \in Thread \ {t} : seen'[u] = seen[u]
    PROVE  Headers'
<1>1. /\ \A u \in Thread \ {t} : req'[u] = req[u] /\ pc'[u] = pc[u]
      /\ pc'[t] = 1 /\ begun' = begun /\ header' = header
  BY DEF Start, TypeOK
<1>2. \A u \in Thread : SawHeader(u)' => SawHeader(u) /\ u # t
  BY <1>1 DEF SawHeader
<1> QED  BY <1>1, <1>2, HeadersKept

-----------------------------------------------------------------------------
(* Versions.                                                               *)

\* The steps of commit.
LEMMA CommitSteps ==
    /\ Script["commit"][1] = W("multi") /\ Script["commit"][2] = W("state")
    /\ Script["commit"][3] = R("header") /\ Script["commit"][4] = U("header")
    /\ Script["commit"][5] = W("tree") /\ Script["commit"][6] = At("save")
    /\ Script["commit"][7] = Again(2)
  BY DEF Script, Commit

\* Trees at one version: none of them is ahead.
LEMMA SameUpToNone ==
    ASSUME TypeOK, SameVersion
    PROVE  SavedUpTo(0)
<1>1. Stores[1] \in Store /\ version[Stores[1]] \in Nat
  BY StoresBijection DEF TypeOK
<1>2. \A i \in DOMAIN Stores : version[Stores[i]] = version[Stores[1]] /\ ~(i <= 0)
  BY <1>1, StoresBijection DEF SameVersion
<1> QED  BY <1>1, <1>2 DEF SavedUpTo

\* When none or all of the trees are ahead they are at one version.
LEMMA UpToAllSame ==
    ASSUME SavedUpTo(0) \/ SavedUpTo(Len(Stores))
    PROVE  SameVersion
<1> SUFFICES ASSUME NEW r \in Store, NEW s \in Store PROVE version[r] = version[s]
  BY DEF SameVersion
<1>1. PICK i \in DOMAIN Stores : r = Stores[i]
  BY StoresBijection
<1>2. PICK j \in DOMAIN Stores : s = Stores[j]
  BY StoresBijection
<1>3. i \in 1 .. Len(Stores) /\ j \in 1 .. Len(Stores) /\ Len(Stores) \in Nat
  BY StoresBijection
<1> HIDE DEF Stores
<1> QED  BY <1>1, <1>2, <1>3 DEF SavedUpTo

\* Saving the next tree.
LEMMA SaveUpTo ==
    ASSUME TypeOK, NEW n \in DOMAIN Stores, SavedUpTo(n - 1),
           version' = [version EXCEPT ![Stores[n]] = @ + 1]
    PROVE  SavedUpTo(n)'
<1>1. PICK v \in Nat : \A i \in DOMAIN Stores :
          version[Stores[i]] = IF i <= n - 1 THEN v + 1 ELSE v
  BY DEF SavedUpTo
<1>2. ASSUME NEW i \in DOMAIN Stores
      PROVE  version'[Stores[i]] = IF i <= n THEN v + 1 ELSE v
  <2>1. i \in Nat /\ n \in Nat /\ Stores[i] \in Store /\ (Stores[i] = Stores[n] => i = n)
    BY StoresBijection
  <2>2. CASE i = n
    <3>1. version'[Stores[i]] = version[Stores[i]] + 1
      BY <2>1, <2>2 DEF TypeOK
    <3>2. version[Stores[i]] = v
      BY <1>1, <2>1, <2>2
    <3> QED  BY <2>1, <2>2, <3>1, <3>2
  <2>3. CASE i # n
    <3>1. version'[Stores[i]] = version[Stores[i]]
      BY <2>1, <2>3 DEF TypeOK
    <3>2. i <= n - 1 <=> i <= n
      BY <2>1, <2>3
    <3> QED  BY <1>1, <3>1, <3>2
  <2> QED  BY <2>2, <2>3
<1> QED  BY <1>2 DEF SavedUpTo

\* A commit has the multi store, then the state, for itself.
LEMMA CommitHolds ==
    ASSUME TypeOK, Locked, NEW t \in Thread, Committing(t)
    PROVE  /\ held[t]["multi"] = "write"
           /\ pc[t] >= 3 => held[t]["state"] = "write"
           /\ \A u \in Thread \ {t} : held[u]["multi"] = "no" /\ ~Committing(u)
<1>1. ASSUME NEW u \in Thread, Committing(u)
      PROVE  held[u]["multi"] = "write" /\ (pc[u] >= 3 => held[u]["state"] = "write")
  <2>1. req[u] = "commit" /\ pc[u] >= 2 /\ req[u] \in Requests
    BY <1>1 DEF Committing, Requests
  <2>2. held[u]["multi"] = Keeps(req[u], pc[u], "multi")
    BY <2>1, Holds
  <2>3. held[u]["state"] = Keeps(req[u], pc[u], "state")
    BY <2>1, Holds
  <2> QED  BY <2>1, <2>2, <2>3 DEF Keeps, WritesMulti, WritesState
<1>2. "multi" \in Lock
  BY DEF Lock
<1>3. \A u \in Thread \ {t} : held[u]["multi"] = "no"
  BY <1>1, <1>2 DEF Locked, Exclusive
<1>4. \A u \in Thread \ {t} : ~Committing(u)
  BY <1>1, <1>3
<1> QED  BY <1>1, <1>3, <1>4

\* Whoever gets the lock of the multi store finds the trees at one version: a
\* commit that panicked half way has poisoned it.
LEMMA LockedMultiSame ==
    ASSUME TypeOK, Locked, Versions, NEW t \in Thread, Busy(t), ~Ended(t), Acquire(t),
           On(t) = "multi", ~Committing(t)
    PROVE  SameVersion
<1>1. "multi" \notin poisoned
  BY DEF Acquire
<1>2. ASSUME NEW u \in Thread, Committing(u) PROVE FALSE
  <2>1. u # t /\ held[u]["multi"] = "write"
    BY <1>2, CommitHolds
  <2>2. u \in Blockers(t)
    BY <2>1 DEF Blockers, Acquire, Holders, Writers
  <2> QED  BY <2>2 DEF Acquire
<1> QED  BY <1>1, <1>2 DEF Versions

\* Steps that save nothing.
LEMMA VersionsKept ==
    ASSUME Versions, NEW t \in Thread, version' = version, poisoned' = poisoned,
           \A u \in Thread \ {t} : req'[u] = req[u] /\ pc'[u] = pc[u] /\ turn'[u] = turn[u],
           Committing(t)' => Saved(t)',
           req'[t] = "commit" /\ pc'[t] = 1 => turn'[t] = 1,
           ~Committing(t)' => ~Committing(t)
    PROVE  Versions'
<1>1. ASSUME NEW u \in Thread \ {t} PROVE Committing(u)' = Committing(u) /\ Saved(u)' = Saved(u)
  <2>1. \A n : SavedUpTo(n)' = SavedUpTo(n)
    BY DEF SavedUpTo
  <2>2. Done(u, 6)' = Done(u, 6)
    BY DEF Done
  <2> QED  BY <2>1, <2>2 DEF Committing, Saved
<1>2. SameVersion' = SameVersion
  BY DEF SameVersion
<1>3. \A u \in Thread : Committing(u)' => Saved(u)'
  BY <1>1 DEF Versions
<1>4. \A u \in Thread : req'[u] = "commit" /\ pc'[u] = 1 => turn'[u] = 1
  BY DEF Versions
<1>5. "multi" \notin poisoned' /\ (\A u \in Thread : ~Committing(u)') => SameVersion'
  BY <1>1, <1>2 DEF Versions
<1> QED  BY <1>3, <1>4, <1>5 DEF Versions

\* A commit that has just locked the multi store begins with trees at one
\* version.
LEMMA AcquireVersions ==
    ASSUME TypeOK, Locked, Versions, NEW t \in Thread, Busy(t), ~Ended(t), Acquire(t)
    PROVE  Versions'
<1>1. /\ req' = req /\ turn' = turn /\ version' = version /\ poisoned' = poisoned
      /\ pc'[t] = pc[t] + 1 /\ pc[t] \in 1 .. 10
      /\ \A u \in Thread \ {t} : pc'[u] = pc[u]
      /\ Step(t).op \in {"read", "write"}
  BY DEF Acquire, Advance, Others, TypeOK
<1>2. \A n : SavedUpTo(n)' = SavedUpTo(n)
  BY <1>1 DEF SavedUpTo
<1>3. ASSUME req[t] = "commit" PROVE Saved(t)'
  <2>1. pc[t] \in {1, 2, 3, 5}
    <3>1. pc[t] \in 1 .. 7
      BY <1>3, StepFits, ScriptSize
    <3> QED  BY <1>1, <1>3, <3>1, CommitSteps DEF Step, U, At, Again
  <2>2. CASE pc[t] = 1
    <3>1. On(t) = "multi"
      BY <1>3, <2>2, CommitSteps DEF On, Step, W
    <3>2. SameVersion
      BY <2>2, <3>1, LockedMultiSame DEF Committing
    <3>3. turn[t] = 1
      BY <1>3, <2>2 DEF Versions
    <3>4. Done(t, 6)' = 0
      BY <1>1, <2>2, <3>3 DEF Done
    <3> QED  BY <1>1, <1>2, <2>2, <3>2, <3>3, <3>4, SameUpToNone DEF Saved
  <2>3. CASE pc[t] \in {2, 3, 5}
    <3>1. Saved(t)
      BY <1>3, <2>3 DEF Versions, Committing
    <3>2. Done(t, 6)' = Done(t, 6)
      BY <1>1, <2>3 DEF Done
    <3> QED  BY <1>1, <1>2, <2>3, <3>1, <3>2 DEF Saved
  <2> QED  BY <2>1, <2>2, <2>3
<1>4. /\ Committing(t)' => Saved(t)'
      /\ ~(pc'[t] = 1)
      /\ ~Committing(t)' => ~Committing(t)
  BY <1>1, <1>3 DEF Committing
<1> QED  BY <1>1, <1>4, VersionsKept

\* Its loop goes on with the next tree and ends after the last.
LEMMA UnlockVersions ==
    ASSUME TypeOK, Locked, Versions, NEW t \in Thread, Busy(t), ~Ended(t), Unlock(t)
    PROVE  Versions'
<1>1. /\ req' = req /\ version' = version /\ poisoned' = poisoned
      /\ pc[t] \in 1 .. 10
      /\ \A u \in Thread \ {t} : pc'[u] = pc[u] /\ turn'[u] = turn[u]
      /\ Step(t).op = "unlock"
  BY DEF Unlock, Advance, Repeat, Others, TypeOK
<1>2. \A n : SavedUpTo(n)' = SavedUpTo(n)
  BY <1>1 DEF SavedUpTo
<1>3. ASSUME req[t] = "commit"
      PROVE  Saved(t)' /\ Committing(t)' /\ pc'[t] # 1
  <2>1. pc[t] \in {4, 7}
    <3>1. pc[t] \in 1 .. 7
      BY <1>3, StepFits, ScriptSize
    <3> QED  BY <1>1, <1>3, <3>1, CommitSteps DEF Step, W, R, At
  <2>2. Saved(t)
    BY <1>3, <2>1 DEF Versions, Committing
  <2>3. turn[t] \in 1 .. Len(Stores) /\ Len(Stores) \in Nat
    BY StoresBijection DEF TypeOK
  <2>4. CASE pc[t] = 4
    <3>1. Step(t).on # "tree"
      BY <1>3, <2>4, CommitSteps DEF Step, U
    <3>2. pc'[t] = 5 /\ turn'[t] = turn[t]
      BY <2>4, <3>1 DEF Unlock, Advance, TypeOK
    <3>3. Done(t, 6)' = Done(t, 6)
      BY <2>4, <3>2 DEF Done
    <3> QED  BY <1>1, <1>2, <1>3, <2>2, <3>2, <3>3 DEF Saved, Committing
  <2>5. CASE pc[t] = 7
    <3>1. Step(t).on = "tree" /\ Step(t).back = 2
      BY <1>3, <2>5, CommitSteps DEF Step, Again
    <3>2. CASE turn[t] < Len(Stores)
      <4>1. pc'[t] = 5 /\ turn'[t] = turn[t] + 1
        BY <2>5, <3>1, <3>2 DEF Unlock, Repeat, TypeOK
      <4>2. Done(t, 6)' = Done(t, 6)
        BY <2>3, <2>5, <4>1 DEF Done
      <4> QED  BY <1>1, <1>2, <1>3, <2>2, <4>1, <4>2 DEF Saved, Committing
    <3>3. CASE ~(turn[t] < Len(Stores))
      <4>1. pc'[t] = 8 /\ turn'[t] = turn[t] /\ turn[t] = Len(Stores)
        BY <2>3, <2>5, <3>1, <3>3 DEF Unlock, Repeat, Advance, TypeOK
      <4>2. Done(t, 6)' = Done(t, 6)
        BY <2>5, <4>1 DEF Done
      <4> QED  BY <1>1, <1>2, <1>3, <2>2, <4>1, <4>2 DEF Saved, Committing
    <3> QED  BY <3>2, <3>3
  <2> QED  BY <2>1, <2>4, <2>5
<1>4. /\ Committing(t)' => Saved(t)'
      /\ req'[t] = "commit" => pc'[t] # 1
      /\ ~Committing(t)' => ~Committing(t)
  BY <1>1, <1>3 DEF Committing
<1> QED  BY <1>1, <1>4, VersionsKept

\* It saves one tree after the other, and nobody else saves.
LEMMA EffectVersions ==
    ASSUME TypeOK, Locked, Versions, NEW t \in Thread, Busy(t), ~Ended(t), Effect(t)
    PROVE  Versions'
<1>1. pc[t] \in 1 .. 10 /\ req[t] \in Requests /\ Effects(req[t], pc[t], Step(t))
  BY StepFits DEF Fits, TypeOK
<1>2. CASE req[t] # "commit"
  <2>1. version' = version
    BY <1>1, <1>2 DEF Effect, Save, Look, Effects
  <2>2. ~Committing(t) /\ ~Committing(t)' /\ req'[t] # "commit"
    BY <1>2, EffectStep DEF Committing
  <2> QED  BY <2>1, <2>2, EffectStep, VersionsKept
<1>3. CASE req[t] = "commit"
  <2>1. pc[t] = 6
    <3>1. pc[t] \in 1 .. 7
      BY <1>3, StepFits, ScriptSize
    <3> QED  BY <1>3, <3>1, EffectStep, CommitSteps DEF Step, U, W, R, Again
  <2>2. Step(t).op = "save" /\ Step(t).on = "tree"
    BY <1>3, <2>1, CommitSteps DEF Step, At
  <2>3. version' = [version EXCEPT ![Stores[turn[t]]] = @ + 1]
    BY <2>2 DEF Effect, Save, Look, On
  <2>4. Saved(t) /\ Committing(t)
    BY <1>3, <2>1 DEF Versions, Committing
  <2>5. turn[t] \in DOMAIN Stores
    BY DEF TypeOK
  <2>6. SavedUpTo(turn[t] - 1)
    BY <2>1, <2>4 DEF Saved, Done
  <2>7. SavedUpTo(turn[t])'
    BY <2>3, <2>5, <2>6, SaveUpTo, EffectStep
  <2>8. Done(t, 6)' = turn[t] /\ pc'[t] = 7
    BY <2>1, EffectStep DEF Done
  <2>9. Saved(t)' /\ Committing(t)'
    BY <1>3, <2>7, <2>8, EffectStep DEF Saved, Committing
  <2>10. ASSUME NEW u \in Thread \ {t}
         PROVE  ~Committing(u)' /\ ~(req'[u] = "commit" /\ pc'[u] = 1 /\ turn'[u] # 1)
    BY <2>4, CommitHolds, EffectStep DEF Committing, Versions
  <2> QED  BY <2>8, <2>9, <2>10 DEF Versions
<1> QED  BY <1>2, <1>3

\* At its end all the trees are saved.
LEMMA RestVersions ==
    ASSUME TypeOK, Locked, Versions, NEW t \in Thread, Finish(t) \/ Unwind(t) \/ Sleep(t)
    PROVE  Versions'
<1>1. /\ pc' = pc /\ turn' = turn /\ version' = version /\ poisoned' = poisoned
      /\ \A u \in Thread \ {t} : req'[u] = req[u]
      /\ req'[t] = req[t] \/ req'[t] \in {"none", "dead"}
  BY DEF Finish, Unwind, Sleep, Others, TypeOK
<1>2. \A n : SavedUpTo(n)' = SavedUpTo(n)
  BY <1>1 DEF SavedUpTo
<1>3. CASE ~Committing(t) \/ req'[t] = req[t]
  <2>1. Committing(t)' => Committing(t) /\ Saved(t)'
    <3>1. Done(t, 6)' = Done(t, 6)
      BY <1>1 DEF Done
    <3> QED  BY <1>1, <1>2, <1>3, <3>1 DEF Committing, Saved, Versions
  <2>2. req'[t] = "commit" /\ pc'[t] = 1 => turn'[t] = 1
    BY <1>1 DEF Versions
  <2>3. ~Committing(t)' => ~Committing(t)
    BY <1>1, <1>3 DEF Committing
  <2> QED  BY <1>1, <2>1, <2>2, <2>3, VersionsKept
<1>4. CASE Committing(t) /\ req'[t] # req[t]
  <2>1. Finish(t)
    BY <1>4 DEF Committing, Unwind, Sleep
  <2>2. pc[t] = 8
    <3>1. pc[t] > 7
      BY <1>4, <2>1, ScriptSize DEF Finish, Ended, Committing
    <3>2. req[t] = "commit" /\ req[t] \in Requests
      BY <1>4 DEF Committing, Requests
    <3>3. pc[t] <= Len(Script[req[t]]) + 1
      BY <3>2 DEF Locked, Placed
    <3>4. pc[t] <= 8
      BY <3>2, <3>3, ScriptSize
    <3>5. pc[t] \in 1 .. 10
      BY DEF TypeOK
    <3> QED  BY <3>1, <3>4, <3>5
  <2>3. SavedUpTo(Len(Stores))
    BY <1>4, <2>2 DEF Versions, Saved, Done
  <2>4. SameVersion'
    BY <1>1, <2>3, UpToAllSame DEF SameVersion
  <2>5. \A u \in Thread : ~Committing(u)'
    BY <1>1, <1>4, CommitHolds DEF Committing
  <2>6. \A u \in Thread : req'[u] = "commit" /\ pc'[u] = 1 => turn'[u] = 1
    BY <1>1, <1>4 DEF Versions, Committing
  <2> QED  BY <2>4, <2>5, <2>6 DEF Versions
<1> QED  BY <1>3, <1>4

\* A panic in it poisons the multi store.
LEMMA PanicVersions ==
    ASSUME TypeOK, Locked, Versions, NEW t \in Thread, Busy(t), ~Ended(t), Panic(t)
    PROVE  Versions'
<1>1. /\ pc' = pc /\ turn' = turn /\ version' = version
      /\ poisoned' = poisoned \cup {l \in Lock : held[t][l] = "write"}
      /\ \A u \in Thread \ {t} : req'[u] = req[u]
      /\ req'[t] \in {"none", "unwinding"}
  BY DEF Panic, Others, TypeOK
<1>2. \A n : SavedUpTo(n)' = SavedUpTo(n)
  BY <1>1 DEF SavedUpTo
<1>3. ASSUME NEW u \in Thread, Committing(u)' PROVE Saved(u)'
  <2>1. Committing(u) /\ Saved(u) /\ Done(u, 6)' = Done(u, 6)
    BY <1>1, <1>3 DEF Committing, Versions, Done
  <2> QED  BY <1>1, <1>2, <2>1 DEF Saved
<1>4. \A u \in Thread : req'[u] = "commit" /\ pc'[u] = 1 => turn'[u] = 1
  BY <1>1 DEF Versions
<1>5. ASSUME "multi" \notin poisoned', \A u \in Thread : ~Committing(u)' PROVE SameVersion'
  <2>1. ~Committing(t)
    BY <1>1, <1>5, CommitHolds DEF Lock
  <2>2. \A u \in Thread : ~Committing(u)
    BY <1>1, <1>5, <2>1 DEF Committing
  <2> QED  BY <1>1, <1>5, <2>2 DEF Versions, SameVersion
<1> QED  BY <1>3, <1>4, <1>5 DEF Versions

\* A new request saves nothing.
LEMMA StartVersions ==
    ASSUME TypeOK, Versions, NEW t \in Thread, NEW r \in Requests, Start(t, r)
    PROVE  Versions'
<1>1. /\ \A u \in Thread \ {t} : req'[u] = req[u] /\ pc'[u] = pc[u] /\ turn'[u] = turn[u]
      /\ pc'[t] = 1 /\ turn'[t] = 1 /\ version' = version /\ poisoned' = poisoned
      /\ req[t] = "none"
  BY DEF Start, TypeOK
<1>2. ~Committing(t)' /\ ~Committing(t)
  BY <1>1 DEF Committing
<1> QED  BY <1>1, <1>2, VersionsKept

-----------------------------------------------------------------------------
(* Queries.                                                                *)

\* The steps of a query.
LEMMA QuerySteps ==
    /\ Script["query"][1] = R("multi") /\ Script["query"][2] = R("tree")
    /\ Script["query"][3] = At("look") /\ Script["query"][4] = Again(2)
    /\ Script["query"][5] = Do("work")
  BY DEF Script, Query

\* Queries of other threads, while the trees stay as they are.
LEMMA QueriesKept ==
    ASSUME Queries, NEW t \in Thread, version' = version,
           \A u \in Thread \ {t} : /\ req'[u] = req[u] /\ pc'[u] = pc[u]
                                  /\ turn'[u] = turn[u] /\ seen'[u] = seen[u],
           req'[t] = "query" => Looked(t)'
    PROVE  Queries'
<1>1. ASSUME NEW u \in Thread \ {t}, req'[u] = "query" PROVE Looked(u)'
  <2>1. Looked(u) /\ Done(u, 3)' = Done(u, 3)
    BY <1>1 DEF Queries, Done
  <2> QED  BY <1>1, <2>1 DEF Looked, Asked, HasVersion
<1> QED  BY <1>1 DEF Queries

\* A query that has locked the multi store finds its height in all the trees or
\* in none.
LEMMA AcquireQueries ==
    ASSUME TypeOK, Locked, Versions, Queries, NEW t \in Thread, Busy(t), ~Ended(t), Acquire(t)
    PROVE  Queries'
<1>1. /\ req' = req /\ turn' = turn /\ version' = version /\ seen' = seen
      /\ pc'[t] = pc[t] + 1 /\ pc[t] \in 1 .. 10
      /\ \A u \in Thread \ {t} : pc'[u] = pc[u]
      /\ Step(t).op \in {"read", "write"}
  BY DEF Acquire, Advance, Others, TypeOK
<1>2. ASSUME req[t] = "query" PROVE Looked(t)'
  <2>1. pc[t] \in {1, 2}
    <3>1. pc[t] \in 1 .. 5
      BY <1>2, StepFits, ScriptSize
    <3> QED  BY <1>1, <1>2, <3>1, QuerySteps DEF Step, Do, At, Again
  <2>2. Looked(t)
    BY <1>2 DEF Queries
  <2>3. CASE pc[t] = 1
    <3>1. On(t) = "multi"
      BY <1>2, <2>3, QuerySteps DEF On, Step, R
    <3>2. SameVersion
      BY <2>3, <3>1, LockedMultiSame DEF Committing
    <3>3. turn[t] = 1 /\ seen[t].found = {}
      BY <2>2, <2>3 DEF Looked
    <3>4. Done(t, 3)' = 0 /\ pc'[t] = 2
      BY <1>1, <2>3, <3>3 DEF Done
    <3>5. \A s \in Store : version[s] \in Nat
      BY DEF TypeOK
    <3>6. seen[t].height \in Nat
      BY DEF TypeOK
    <3>7. PICK v \in Nat : \A s \in Store : Asked(t, s) = v
      BY <3>2, <3>5, <3>6, LocksAssumption DEF SameVersion, Asked
    <3>8. \/ \A s \in Store : HasVersion(s, v)
          \/ \A s \in Store : ~HasVersion(s, v)
      BY <3>2 DEF SameVersion, HasVersion
    <3>9. \A s \in Store : Asked(t, s)' = Asked(t, s) /\ HasVersion(s, v)' = HasVersion(s, v)
      BY <1>1 DEF Asked, HasVersion
    <3>10. Opened(0, v) = {}
      BY DEF Opened
    <3> QED  BY <1>1, <3>3, <3>4, <3>7, <3>8, <3>9, <3>10 DEF Looked
  <2>4. CASE pc[t] = 2
    <3>1. Done(t, 3)' = Done(t, 3) /\ pc'[t] = 3
      BY <1>1, <2>4 DEF Done
    <3> QED  BY <1>1, <2>2, <2>4, <3>1 DEF Looked, Asked, HasVersion
  <2> QED  BY <2>1, <2>3, <2>4
<1> QED  BY <1>1, <1>2, QueriesKept

\* Its loop goes on with the next tree and ends after the last.
LEMMA UnlockQueries ==
    ASSUME TypeOK, Locked, Queries, NEW t \in Thread, Busy(t), ~Ended(t), Unlock(t)
    PROVE  Queries'
<1>1. /\ req' = req /\ version' = version /\ seen' = seen
      /\ pc[t] \in 1 .. 10
      /\ \A u \in Thread \ {t} : pc'[u] = pc[u] /\ turn'[u] = turn[u]
      /\ Step(t).op = "unlock"
  BY DEF Unlock, Advance, Repeat, Others, TypeOK
<1>2. ASSUME req[t] = "query" PROVE Looked(t)'
  <2>1. pc[t] = 4
    <3>1. pc[t] \in 1 .. 5
      BY <1>2, StepFits, ScriptSize
    <3> QED  BY <1>1, <1>2, <3>1, QuerySteps DEF Step, R, At, Do
  <2>2. Looked(t)
    BY <1>2 DEF Queries
  <2>3. turn[t] \in 1 .. Len(Stores) /\ Len(Stores) \in Nat
    BY StoresBijection DEF TypeOK
  <2>4. Step(t).on = "tree" /\ Step(t).back = 2
    BY <1>2, <2>1, QuerySteps DEF Step, Again
  <2>5. \/ pc'[t] = 2 /\ turn'[t] = turn[t] + 1
        \/ pc'[t] = 5 /\ turn'[t] = turn[t] /\ turn[t] = Len(Stores)
    BY <2>1, <2>3, <2>4 DEF Unlock, Repeat, Advance, TypeOK
  <2>6. Done(t, 3)' = Done(t, 3)
    BY <2>1, <2>3, <2>5 DEF Done
  <2> QED  BY <1>1, <2>1, <2>2, <2>5, <2>6 DEF Looked, Asked, HasVersion
<1> QED  BY <1>1, <1>2, QueriesKept

\* The end of a handler, sleep and panics change nothing a query has found.
LEMMA RestQueries ==
    ASSUME TypeOK, Queries, NEW t \in Thread,
           Finish(t) \/ Unwind(t) \/ Sleep(t) \/ Panic(t)
    PROVE  Queries'
<1>1. /\ pc' = pc /\ turn' = turn /\ version' = version /\ seen' = seen
      /\ \A u \in Thread \ {t} : req'[u] = req[u]
      /\ req'[t] = req[t] \/ req'[t] # "query"
  BY DEF Finish, Unwind, Sleep, Panic, Others, TypeOK
<1>2. req'[t] = "query" => Looked(t)'
  <2>1. Done(t, 3)' = Done(t, 3)
    BY <1>1 DEF Done
  <2> QED  BY <1>1, <2>1 DEF Queries, Looked, Asked, HasVersion
<1> QED  BY <1>1, <1>2, QueriesKept

\* A new query has found nothing.
LEMMA StartQueries ==
    ASSUME TypeOK, Queries, NEW t \in Thread, NEW r \in Requests, Start(t, r),
           \A u \in Thread \ {t} : seen'[u] = seen[u],
           r = "query" => seen'[t].found = {}
    PROVE  Queries'
<1>1. /\ \A u \in Thread \ {t} : req'[u] = req[u] /\ pc'[u] = pc[u] /\ turn'[u] = turn[u]
      /\ pc'[t] = 1 /\ turn'[t] = 1 /\ version' = version /\ req'[t] = r
  BY DEF Start, TypeOK
<1>2. req'[t] = "query" => Looked(t)'
  BY <1>1 DEF Looked
<1> QED  BY <1>1, <1>2, QueriesKept

\* Opening the next tree (QueryTree::new) agrees with those before.
LEMMA LookQueries ==
    ASSUME TypeOK, Queries, NEW t \in Thread, Busy(t), ~Ended(t), Effect(t),
           Step(t).op = "look"
    PROVE  Queries'
<1>1. req[t] = "query" /\ pc[t] = 3 /\ Step(t).on = "tree"
  BY StepFits DEF Fits, Effects
<1>2. /\ version' = version
      /\ seen' = [seen EXCEPT ![t].found =
                    IF HasVersion(On(t), Asked(t, On(t)))
                    THEN @ \cup {<<On(t), Asked(t, On(t))>>} ELSE @]
  BY DEF Effect, Look, Save
<1>3. On(t) = Stores[turn[t]] /\ On(t) \in Store
  BY <1>1, OnLock
<1>4. Looked(t)
  BY <1>1 DEF Queries
<1>5. turn[t] \in 1 .. Len(Stores) /\ Len(Stores) \in Nat
  BY StoresBijection DEF TypeOK
<1>6. /\ seen'[t].height = seen[t].height
      /\ seen'[t].found = IF HasVersion(On(t), Asked(t, On(t)))
                          THEN seen[t].found \cup {<<On(t), Asked(t, On(t))>>}
                          ELSE seen[t].found
      /\ \A u \in Thread \ {t} : seen'[u] = seen[u]
  BY <1>2 DEF TypeOK
<1>7. pc'[t] = 4 /\ turn'[t] = turn[t] /\ Done(t, 3) = turn[t] - 1 /\ Done(t, 3)' = turn[t]
  BY <1>1, EffectStep DEF Done
<1>8. ASSUME NEW v PROVE Opened(turn[t], v) = Opened(turn[t] - 1, v) \cup {<<On(t), v>>}
  <2>1. \A i : i \in 1 .. turn[t] <=> i \in 1 .. turn[t] - 1 \/ i = turn[t]
    BY <1>5
  <2> QED  BY <1>3, <2>1 DEF Opened
<1>9. PICK v \in Nat :
         /\ \A s \in Store : Asked(t, s) = v
         /\ \/ /\ \A s \in Store : HasVersion(s, v)
               /\ seen[t].found = Opened(turn[t] - 1, v)
            \/ /\ \A s \in Store : ~HasVersion(s, v)
               /\ seen[t].found = {}
  BY <1>1, <1>4, <1>7 DEF Looked
<1>10. Looked(t)'
  <2>1. \A s \in Store : Asked(t, s)' = Asked(t, s) /\ HasVersion(s, v)' = HasVersion(s, v)
    BY <1>2, <1>6 DEF Asked, HasVersion
  <2>2. CASE /\ \A s \in Store : HasVersion(s, v)
             /\ seen[t].found = Opened(turn[t] - 1, v)
    <3>1. seen'[t].found = Opened(turn[t], v)
      BY <1>3, <1>6, <1>8, <1>9, <2>2
    <3> QED  BY <1>5, <1>7, <1>9, <2>1, <2>2, <3>1 DEF Looked
  <2>3. CASE (\A s \in Store : ~HasVersion(s, v)) /\ seen[t].found = {}
    <3>1. seen'[t].found = {}
      BY <1>3, <1>6, <1>9, <2>3
    <3> QED  BY <1>5, <1>7, <1>9, <2>1, <2>3, <3>1 DEF Looked
  <2> QED  BY <1>9, <2>2, <2>3
<1> QED  BY <1>2, <1>6, <1>10, EffectStep, QueriesKept

\* No query is between its trees while a commit saves one: the multi store
\* excludes them.
LEMMA SaveQueries ==
    ASSUME TypeOK, Locked, Queries, NEW t \in Thread, Busy(t), ~Ended(t), Effect(t),
           Step(t).op = "save"
    PROVE  Queries'
<1>1. req[t] = "commit" /\ pc[t] = 6
  BY StepFits DEF Fits, Effects
<1>2. seen' = seen
  BY DEF Effect, Look, Save
<1>3. Committing(t)
  BY <1>1 DEF Committing
<1>4. ASSUME NEW u \in Thread, req'[u] = "query" PROVE Looked(u)'
  <2>1. u # t /\ req[u] = "query" /\ pc'[u] = pc[u] /\ turn'[u] = turn[u]
    BY <1>1, <1>4, EffectStep
  <2>2. held[u]["multi"] = "no"
    BY <1>3, <2>1, CommitHolds
  <2>3. held[u]["multi"] = Keeps("query", pc[u], "multi")
    BY <2>1, Holds DEF Requests
  <2>4. ~(pc[u] >= 2) /\ pc[u] \in 1 .. 10
    BY <2>2, <2>3 DEF Keeps, WritesMulti, TypeOK
  <2>5. Looked(u)
    BY <2>1 DEF Queries
  <2> QED  BY <1>2, <2>1, <2>4, <2>5 DEF Looked
<1> QED  BY <1>4 DEF Queries

\* The effects of all handlers, seen by the queries.
LEMMA EffectQueries ==
    ASSUME TypeOK, Locked, Queries, NEW t \in Thread, Busy(t), ~Ended(t), Effect(t)
    PROVE  Queries'
<1>1. CASE Step(t).op \in {"look", "save"}
  BY <1>1, LookQueries, SaveQueries
<1>2. CASE Step(t).op \notin {"look", "save"}
  <2>1. version' = version /\ \A u \in Thread \ {t} : seen'[u] = seen[u]
    BY <1>2 DEF Effect, Look, Save, TypeOK
  <2>2. ASSUME req'[t] = "query" PROVE Looked(t)'
    <3>1. req[t] = "query" /\ Looked(t)
      BY <2>2, EffectStep DEF Queries
    <3>2. pc[t] = 5
      <4>1. pc[t] \in 1 .. 5
        BY <3>1, StepFits, ScriptSize
      <4> QED  BY <1>2, <3>1, <4>1, EffectStep, QuerySteps DEF Step, R, At, Again
    <3>3. seen' = seen
      BY <3>1, <3>2, QuerySteps DEF Effect, Look, Save, Step, Do
    <3>4. pc'[t] = 6 /\ turn'[t] = turn[t] /\ Done(t, 3)' = Done(t, 3)
      BY <3>2, EffectStep DEF Done
    <3>5. \A s, v : Asked(t, s)' = Asked(t, s) /\ HasVersion(s, v)' = HasVersion(s, v)
      BY <2>1, <3>3 DEF Asked, HasVersion
    <3> QED  BY <3>1, <3>2, <3>3, <3>4, <3>5 DEF Looked
  <2> QED  BY <2>1, <2>2, EffectStep, QueriesKept
<1> QED  BY <1>1, <1>2

-----------------------------------------------------------------------------
(* The invariant.                                                          *)

\* The invariant holds when the application starts.
LEMMA InitInvariant == Init => IInv
<1> SUFFICES ASSUME Init PROVE IInv
  OBVIOUS
<1>1. TypeOK
  BY TypeInit
<1>2. \A t \in Thread : req[t] = "none" /\ held[t] = NoLocks /\ queued[t] = {}
  BY DEF Init
<1>3. \A t \in Thread : \A l \in Lock : held[t][l] = "no"
  BY <1>2 DEF NoLocks
<1>4. Locked
  <2>1. \A t \in Thread : Placed(t) /\ Asleep(t)
    BY <1>2 DEF Placed, Asleep, Requests
  <2>2. Exclusive /\ Poisoned
    BY <1>3 DEF Exclusive, Poisoned, Init
  <2> QED  BY <2>1, <2>2 DEF Locked
<1>5. Headers
  BY <1>2 DEF Headers, SawHeader, Init
<1>6. Versions
  BY <1>2 DEF Versions, Committing, SameVersion, Init
<1>7. Queries
  BY <1>2 DEF Queries
<1> QED  BY <1>1, <1>4, <1>5, <1>6, <1>7 DEF IInv

\* A step of a thread keeps the invariant.
LEMMA RunInvariant ==
    ASSUME IInv, NEW t \in Thread, Run(t)
    PROVE  Locked' /\ Headers' /\ Versions' /\ Queries'
<1>1. CASE Finish(t) \/ Unwind(t)
  BY <1>1, RestLocked, IdleHeaders, RestVersions, RestQueries DEF IInv
<1>2. CASE Busy(t) /\ ~Ended(t) /\ Acquire(t)
  BY <1>2, AcquireLocked, LockHeaders, AcquireVersions, AcquireQueries DEF IInv
<1>3. CASE Busy(t) /\ ~Ended(t) /\ Sleep(t)
  BY <1>3, SleepLocked, IdleHeaders, RestVersions, RestQueries DEF IInv
<1>4. CASE Busy(t) /\ ~Ended(t) /\ Unlock(t)
  BY <1>4, UnlockLocked, LockHeaders, UnlockVersions, UnlockQueries DEF IInv
<1>5. CASE Busy(t) /\ ~Ended(t) /\ Effect(t)
  BY <1>5, EffectLocked, EffectHeaders, EffectVersions, EffectQueries DEF IInv
<1>6. CASE Busy(t) /\ ~Ended(t) /\ Panic(t)
  BY <1>6, PanicLocked, IdleHeaders, PanicVersions, RestQueries DEF IInv
<1> QED  BY <1>1, <1>2, <1>3, <1>4, <1>5, <1>6 DEF Run

\* A request that arrives keeps the invariant.
LEMMA StartInvariant ==
    ASSUME IInv, NEW t \in Thread, NEW r \in Requests, r \in Served(t), Start(t, r),
           \A u \in Thread \ {t} : seen'[u] = seen[u],
           r = "query" => seen'[t].found = {}
    PROVE  Locked' /\ Headers' /\ Versions' /\ Queries'
  BY StartLocked, StartHeaders, StartVersions, StartQueries DEF IInv

\* Every step keeps the invariant.
LEMMA NextInvariant == IInv /\ [Next]_vars => IInv'
<1> SUFFICES ASSUME IInv, [Next]_vars PROVE IInv'
  OBVIOUS
<1>1. TypeOK'
  BY TypeStep DEF IInv
<1> DEFINE Rest == Locked /\ Headers /\ Versions /\ Queries
<1>2. ASSUME NEW t \in Thread, Run(t) PROVE Rest'
  BY <1>2, RunInvariant
<1>3. ASSUME StartConsensus PROVE Rest'
  <2>1. PICK r \in {"init_chain", "begin_block", "deliver_tx", "end_block", "commit"} :
            Start("consensus", r) /\ seen' = seen
    BY <1>3 DEF StartConsensus
  <2>2. r \in Requests /\ r \in Served("consensus") /\ r # "query" /\ "consensus" \in Thread
    BY DEF Requests, Served, Thread, Abci
  <2> QED  BY <2>1, <2>2, StartInvariant
<1>4. ASSUME StartMempool PROVE Rest'
  <2>1. "check_tx" \in Requests /\ "check_tx" \in Served("mempool") /\ "mempool" \in Thread
    BY DEF Requests, Served, Thread, Abci
  <2> QED  BY <1>4, <2>1, StartInvariant DEF StartMempool
<1>5. ASSUME NEW t \in {"query", "rest"}, StartQuery(t) PROVE Rest'
  <2>1. PICK h \in 0 .. MaxHeight :
            Start(t, "query") /\ seen' = [seen EXCEPT ![t] = [height |-> h, found |-> {}]]
    BY <1>5 DEF StartQuery
  <2>2. "query" \in Requests /\ "query" \in Served(t) /\ t \in Thread
    BY DEF Requests, Served, Thread, Abci
  <2>3. seen'[t].found = {} /\ \A u \in Thread \ {t} : seen'[u] = seen[u]
    BY <2>1, <2>2 DEF IInv, TypeOK
  <2> QED  BY <2>1, <2>2, <2>3, StartInvariant
<1>6. ASSUME StartInfo PROVE Rest'
  <2>1. "info" \in Requests /\ "info" \in Served("query") /\ "query" \in Thread
    BY DEF Requests, Served, Thread, Abci
  <2> QED  BY <1>6, <2>1, StartInvariant DEF StartInfo
<1>7. ASSUME UNCHANGED vars PROVE Rest'
  <2>1. \A t \in Thread : Placed(t)' /\ Asleep(t)'
    BY <1>7, OthersPlaced DEF IInv, Locked, vars
  <2>2. Exclusive' /\ Poisoned'
    BY <1>7 DEF IInv, Locked, Exclusive, Poisoned, vars
  <2>3. Headers'
    BY <1>7 DEF IInv, Headers, SawHeader, vars
  <2>4. Versions'
    BY <1>7 DEF IInv, Versions, Committing, Saved, SavedUpTo, Done, SameVersion, vars
  <2>5. Queries'
    BY <1>7 DEF IInv, Queries, Looked, Done, Asked, HasVersion, vars
  <2> QED  BY <2>1, <2>2, <2>3, <2>4, <2>5 DEF Locked
<1>8. Rest'
  BY <1>2, <1>3, <1>4, <1>5, <1>6, <1>7 DEF Next
<1> QED  BY <1>1, <1>8 DEF IInv

\* The invariant holds in every state.
LEMMA Invariant == Spec => []IInv
  BY InitInvariant, NextInvariant, PTL DEF Spec

-----------------------------------------------------------------------------
(* Circular waits.                                                         *)

\* A request tells which thread serves it.
LEMMA ServedBy ==
    ASSUME IInv, NEW t \in Thread, req[t] \in Requests
    PROVE  /\ req[t] \in {"query", "info"} <=> t \in {"query", "rest"}
           /\ req[t] = "check_tx" <=> t = "mempool"
           /\ req[t] \notin {"query", "info", "check_tx"} <=> t = "consensus"
<1>1. req[t] \in Served(t)
  BY DEF IInv, Locked, Placed
<1> QED  BY <1>1 DEF Served, Thread, Abci

\* Whom a thread waits for holds the lock it wants, or is asleep on it and came
\* first.
LEMMA BlockedBy ==
    ASSUME IInv, NEW t \in Thread, NEW u \in Blockers(t)
    PROVE  /\ u \in Thread /\ u # t
           /\ Busy(t) /\ ~Ended(t) /\ Step(t).op \in {"read", "write"}
           /\ req[t] \in Requests /\ Waits(req[t], pc[t], Step(t))
           /\ Step(t).op = "write" => held[u][On(t)] # "no"
           /\ Step(t).op = "read" => held[u][On(t)] = "write" \/ On(t) \in queued[u]
<1>1. Busy(t) /\ ~Ended(t) /\ Step(t).op \in {"read", "write"}
  BY DEF Blockers
<1>2. req[t] \in Requests /\ Waits(req[t], pc[t], Step(t))
  BY <1>1, StepFits DEF IInv, Fits
<1> QED  BY <1>1, <1>2 DEF Blockers, Holders, Writers

\* Only a thread in a handler holds a lock.
LEMMA HolderServes ==
    ASSUME IInv, NEW u \in Thread, NEW l \in Lock, held[u][l] # "no"
    PROVE  req[u] \in Requests
  BY DEF IInv, Locked, Placed, NoLocks

\* A thread asleep is at a write() of that lock.
LEMMA AsleepAt ==
    ASSUME IInv, NEW u \in Thread, NEW l \in queued[u]
    PROVE  /\ Busy(u) /\ ~Ended(u) /\ Step(u).op = "write" /\ l = On(u)
           /\ req[u] \in Requests /\ Waits(req[u], pc[u], Step(u))
<1>1. /\ req[u] \in Requests
      /\ pc[u] <= Len(Script[req[u]])
      /\ Step(u).op = "write"
      /\ l = On(u)
  BY DEF IInv, Locked, Asleep
<1>2. pc[u] \in 1 .. 10
  BY DEF IInv, TypeOK
<1>3. Len(Script[req[u]]) \in 1 .. 9
  BY <1>1, LenScript
<1>4. Busy(u) /\ ~Ended(u)
  BY <1>1, <1>2, <1>3, ScriptDomain DEF Busy, Ended
<1> QED  BY <1>1, <1>4, StepFits DEF IInv, Fits

\* Only a commit writes, or waits to write, a tree.
LEMMA TreeWriters ==
    ASSUME IInv, NEW u \in Thread, NEW s \in Store, held[u][s] = "write" \/ s \in queued[u]
    PROVE  Committing(u) /\ pc[u] >= 5
<1>1. s \in Lock
  BY DEF Lock
<1>2. CASE held[u][s] = "write"
  <2>1. req[u] \in Requests
    BY <1>1, <1>2, HolderServes
  <2>2. Keeps(req[u], pc[u], "tree") = "write"
    BY <1>2, <2>1, Holds DEF IInv
  <2> QED  BY <2>2 DEF Keeps, Committing
<1>3. CASE s \in queued[u]
  <2>1. /\ Busy(u) /\ ~Ended(u) /\ Step(u).op = "write" /\ s = On(u)
        /\ req[u] \in Requests /\ Waits(req[u], pc[u], Step(u))
    BY <1>3, AsleepAt
  <2>2. Step(u).on = "tree"
    BY <2>1, OnLock DEF IInv
  <2> QED  BY <2>1, <2>2 DEF Waits, Committing
<1> QED  BY <1>2, <1>3

\* Only begin_block writes, or waits to write, the header, and before it locks
\* anything else.
LEMMA HeaderWriters ==
    ASSUME IInv, NEW u \in Thread, held[u]["header"] = "write" \/ "header" \in queued[u]
    PROVE  u = "consensus" /\ req[u] = "begin_block" /\ pc[u] \in 1 .. 3
<1>1. "header" \in Lock /\ "header" \notin Store
  BY LocksAssumption DEF Lock
<1>2. CASE held[u]["header"] = "write"
  <2>1. req[u] \in Requests
    BY <1>1, <1>2, HolderServes
  <2>2. Keeps(req[u], pc[u], "header") = "write"
    BY <1>2, <2>1, Holds DEF IInv
  <2> QED  BY <2>1, <2>2, ServedBy DEF Keeps
<1>3. CASE "header" \in queued[u]
  <2>1. /\ Busy(u) /\ ~Ended(u) /\ Step(u).op = "write" /\ "header" = On(u)
        /\ req[u] \in Requests /\ Waits(req[u], pc[u], Step(u))
    BY <1>3, AsleepAt
  <2>2. Step(u).on = "header"
    BY <1>1, <2>1, OnLock DEF IInv
  <2> QED  BY <2>1, <2>2, ServedBy DEF Waits
<1> QED  BY <1>2, <1>3

\* Whoever has a tree has the state or the multi store.
LEMMA TreeHolders ==
    ASSUME IInv, NEW u \in Thread, NEW s \in Store, held[u][s] # "no"
    PROVE  held[u]["state"] = "write" \/ held[u]["multi"] # "no"
<1>1. req[u] \in Requests
  BY HolderServes DEF Lock
<1>2. Keeps(req[u], pc[u], "tree") # "no"
  BY <1>1, Holds DEF IInv
<1>3. \/ Keeps(req[u], pc[u], "state") = "write"
      \/ Keeps(req[u], pc[u], "multi") # "no"
  BY <1>2 DEF Keeps, ReadsTree, WritesState, WritesMulti
<1> QED  BY <1>1, <1>3, Holds DEF IInv

\* Nobody ever waits for a tree: the state and the multi store, which are
\* locked before, keep commit and the others apart.
LEMMA TreesFree ==
    ASSUME IInv, NEW t \in Thread, Step(t).on = "tree"
    PROVE  Blockers(t) = {}
<1> SUFFICES ASSUME NEW u \in Blockers(t) PROVE FALSE
  OBVIOUS
<1>1. /\ u \in Thread /\ u # t
      /\ Busy(t) /\ ~Ended(t) /\ Step(t).op \in {"read", "write"}
      /\ req[t] \in Requests /\ Waits(req[t], pc[t], Step(t))
      /\ Step(t).op = "write" => held[u][On(t)] # "no"
      /\ Step(t).op = "read" => held[u][On(t)] = "write" \/ On(t) \in queued[u]
  BY BlockedBy
<1>2. On(t) \in Store
  BY <1>1, OnLock DEF IInv
<1>3. {"state", "multi"} \subseteq Lock
  BY DEF Lock
<1>4. CASE Step(t).op = "write"
  <2>1. req[t] = "commit" /\ pc[t] = 5
    BY <1>1, <1>4 DEF Waits
  <2>2. held[t]["state"] = "write" /\ held[t]["multi"] = "write"
    BY <2>1, CommitHolds DEF IInv, Committing
  <2>3. held[u]["state"] = "write" \/ held[u]["multi"] # "no"
    BY <1>1, <1>2, <1>4, TreeHolders
  <2> QED  BY <1>1, <1>3, <2>2, <2>3 DEF IInv, Locked, Exclusive
<1>5. CASE Step(t).op = "read"
  <2>1. Committing(u) /\ pc[u] >= 5
    BY <1>1, <1>2, <1>5, TreeWriters
  <2>2. held[u]["multi"] = "write" /\ held[u]["state"] = "write"
    <3>1. pc[u] \in 1 .. 10
      BY <1>1 DEF IInv, TypeOK
    <3>2. pc[u] >= 3
      BY <2>1, <3>1
    <3> QED  BY <1>1, <2>1, <3>2, CommitHolds DEF IInv
  <2>3. WritesState(req[t], pc[t]) \/ (req[t] = "query" /\ pc[t] = 2)
    BY <1>1, <1>5 DEF Waits
  <2>4. held[t]["state"] = "write" \/ held[t]["multi"] = "read"
    BY <1>1, <2>3, Holds DEF IInv, Keeps, WritesMulti
  <2> QED  BY <1>1, <1>3, <2>2, <2>4 DEF IInv, Locked, Exclusive
<1> QED  BY <1>1, <1>4, <1>5

\* check_tx copies and unlocks the header without waiting.
LEMMA CheckTxSteps ==
    Script["check_tx"][3] = Do("see_header") /\ Script["check_tx"][4] = U("header")
  BY DEF Script, CheckTx

\* A query waits for its first lock only, and never for another query.
LEMMA QueryBlockers ==
    ASSUME IInv, NEW t \in {"query", "rest"}
    PROVE  /\ Blockers(t) \cap {"query", "rest"} = {}
           /\ req[t] \in Requests /\ pc[t] >= 2 => Blockers(t) = {}
<1>1. t \in Thread
  BY DEF Thread, Abci
<1>2. ASSUME NEW u \in Blockers(t) PROVE u \notin {"query", "rest"} /\ ~(pc[t] >= 2)
  <2>1. /\ u \in Thread /\ u # t
        /\ Busy(t) /\ ~Ended(t) /\ Step(t).op \in {"read", "write"}
        /\ req[t] \in Requests /\ Waits(req[t], pc[t], Step(t))
        /\ Step(t).op = "read" => held[u][On(t)] = "write" \/ On(t) \in queued[u]
    BY <1>1, <1>2, BlockedBy
  <2>2. req[t] \in {"query", "info"}
    BY <1>1, <2>1, ServedBy
  <2>3. Step(t).op = "read"
    BY <2>1, <2>2 DEF Waits
  <2>4. On(t) \in Lock
    BY <1>1, <2>1, OnLock DEF IInv
  <2>5. Step(t).on # "tree"
    BY <1>1, <1>2, TreesFree
  <2>6. pc[t] = 1
    BY <2>1, <2>2, <2>3, <2>5 DEF Waits
  <2>7. CASE held[u][On(t)] = "write"
    <3>1. req[u] \in Requests
      BY <2>1, <2>4, <2>7, HolderServes
    <3>2. ASSUME req[u] \in {"query", "info"} PROVE FALSE
      <4>1. \A k \in Kind : Keeps(req[u], pc[u], k) # "write"
        BY <3>2 DEF Kind, Keeps, WritesState, WritesMulti
      <4>2. held[u][On(t)] = Has(u, On(t))
        BY <2>1, <2>4, <3>1 DEF IInv, Locked, Placed
      <4>3. On(t) \in Kind \/ On(t) \in Store
        BY <2>4 DEF Lock, Kind
      <4>4. "tree" \in Kind
        BY DEF Kind
      <4> QED  BY <2>7, <4>1, <4>2, <4>3, <4>4 DEF Has
    <3> QED  BY <2>1, <2>6, <3>1, <3>2, ServedBy
  <2>8. CASE On(t) \in queued[u]
    <3>1. Step(u).op = "write" /\ req[u] \in Requests /\ Waits(req[u], pc[u], Step(u))
      BY <2>1, <2>8, AsleepAt
    <3>2. req[u] \notin {"query", "info"}
      BY <3>1 DEF Waits
    <3> QED  BY <2>1, <2>6, <3>1, <3>2, ServedBy
  <2> QED  BY <2>1, <2>3, <2>7, <2>8
<1> QED  BY <1>2

\* check_tx waits for the consensus thread, or for an info that is about to
\* end.
LEMMA MempoolBlockers ==
    ASSUME IInv, NEW u \in Blockers("mempool")
    PROVE  \/ u = "consensus"
           \/ u \in {"query", "rest"} /\ Blockers(u) = {} /\ pc["mempool"] = 1
<1> DEFINE t == "mempool"
<1>1. t \in Thread
  BY DEF Thread, Abci
<1>2. /\ u \in Thread /\ u # t
      /\ Busy(t) /\ ~Ended(t) /\ Step(t).op \in {"read", "write"}
      /\ req[t] \in Requests /\ Waits(req[t], pc[t], Step(t))
      /\ Step(t).op = "write" => held[u][On(t)] # "no"
      /\ Step(t).op = "read" => held[u][On(t)] = "write" \/ On(t) \in queued[u]
  BY <1>1, BlockedBy
<1>3. req[t] = "check_tx"
  BY <1>1, <1>2, ServedBy
<1>4. Step(t).on # "tree"
  BY <1>1, TreesFree
<1>5. /\ Step(t).op = "write" => Step(t).on = "state" /\ pc[t] = 1
      /\ Step(t).op = "read" => Step(t).on = "header"
  BY <1>2, <1>3, <1>4 DEF Waits
<1>6. On(t) = Step(t).on
  BY <1>4 DEF On
<1>7. CASE Step(t).op = "read"
  BY <1>2, <1>5, <1>6, <1>7, HeaderWriters
<1>8. CASE Step(t).op = "write" /\ u # "consensus"
  <2>1. u \in {"query", "rest"}
    BY <1>2, <1>8 DEF Thread, Abci
  <2>2. held[u]["state"] # "no"
    BY <1>2, <1>5, <1>6, <1>8
  <2>3. req[u] \in Requests
    BY <1>2, <2>2, HolderServes DEF Lock
  <2>4. Keeps(req[u], pc[u], "state") # "no"
    BY <1>2, <2>2, <2>3, Holds DEF IInv
  <2>5. req[u] \in {"query", "info"}
    BY <1>2, <2>1, <2>3, ServedBy
  <2>6. pc[u] = 2
    BY <2>4, <2>5 DEF Keeps, WritesState
  <2>7. Blockers(u) = {}
    BY <2>1, <2>3, <2>6, QueryBlockers
  <2> QED  BY <1>5, <1>8, <2>1, <2>7
<1> QED  BY <1>2, <1>7, <1>8

\* Whom the consensus thread waits for waits for nobody: check_tx waits for the
\* header only while begin_block has it or wants it, and begin_block then wants
\* nothing that check_tx has except the header.
LEMMA ConsensusBlockers ==
    ASSUME IInv, NEW u \in Blockers("consensus")
    PROVE  Blockers(u) = {}
<1> DEFINE t == "consensus"
<1>1. t \in Thread
  BY DEF Thread, Abci
<1>2. /\ u \in Thread /\ u # t
      /\ Busy(t) /\ ~Ended(t) /\ Step(t).op \in {"read", "write"}
      /\ req[t] \in Requests /\ Waits(req[t], pc[t], Step(t))
      /\ Step(t).op = "write" => held[u][On(t)] # "no"
      /\ Step(t).op = "read" => held[u][On(t)] = "write" \/ On(t) \in queued[u]
  BY <1>1, BlockedBy
<1>3. req[t] \notin {"query", "info", "check_tx"}
  BY <1>1, <1>2, ServedBy
<1>4. Step(t).on # "tree"
  BY <1>1, TreesFree
<1>5. On(t) = Step(t).on
  BY <1>4 DEF On
<1>6. Step(t).op = "write"
  <2>1. ASSUME Step(t).op = "read" PROVE FALSE
    <3>1. On(t) = "header"
      BY <1>2, <1>3, <1>4, <1>5, <2>1 DEF Waits
    <3> QED  BY <1>2, <2>1, <3>1, HeaderWriters
  <2> QED  BY <1>2, <2>1
<1>7. On(t) \in {"multi", "state", "header"} /\ held[u][On(t)] # "no"
  BY <1>2, <1>4, <1>5, <1>6 DEF Waits
<1>8. req[u] \in Requests /\ On(t) \in Lock /\ pc[u] \in 1 .. 10
  BY <1>2, <1>7, HolderServes DEF Lock, IInv, TypeOK
<1>9. Keeps(req[u], pc[u], On(t)) # "no"
  BY <1>2, <1>7, <1>8, Holds DEF IInv
<1>10. CASE u \in {"query", "rest"}
  <2>1. req[u] \in {"query", "info"}
    BY <1>2, <1>8, <1>10, ServedBy
  <2>2. pc[u] >= 2
    BY <1>7, <1>8, <1>9, <2>1 DEF Keeps, WritesState, WritesMulti, ReadsHeader
  <2> QED  BY <1>8, <1>10, <2>2, QueryBlockers
<1>11. CASE u = "mempool"
  <2>1. req[u] = "check_tx"
    BY <1>2, <1>8, <1>11, ServedBy
  <2>2. pc[u] >= 2 /\ On(t) \in {"state", "header"}
    BY <1>7, <1>8, <1>9, <2>1 DEF Keeps, WritesState, WritesMulti, ReadsHeader
  <2>3. ASSUME NEW v \in Blockers(u) PROVE FALSE
    <3>1. /\ v \in Thread /\ v # u
          /\ Busy(u) /\ ~Ended(u) /\ Step(u).op \in {"read", "write"}
          /\ Waits(req[u], pc[u], Step(u))
          /\ Step(u).op = "read" => held[v][On(u)] = "write" \/ On(u) \in queued[v]
      BY <1>2, <2>3, BlockedBy
    <3>2. Step(u).on # "tree"
      BY <1>2, <2>3, TreesFree
    <3>3. Step(u).op = "read" /\ Step(u).on = "header"
      BY <1>8, <2>1, <2>2, <3>1, <3>2 DEF Waits
    <3>4. On(u) = "header"
      BY <3>3 DEF On
    <3>5. v = t /\ req[t] = "begin_block" /\ pc[t] \in 1 .. 3
      BY <3>1, <3>3, <3>4, HeaderWriters
    <3>6. On(t) = "header"
      BY <1>2, <1>5, <1>6, <2>2, <3>5 DEF Waits
    <3>7. pc[u] \in {3, 4}
      BY <1>9, <2>1, <3>6 DEF Keeps, ReadsHeader
    <3>8. Step(u).op \notin {"read", "write"}
      BY <2>1, <3>7, CheckTxSteps DEF Step, Do, U
    <3> QED  BY <3>1, <3>8
  <2> QED  BY <2>3
<1> QED  BY <1>2, <1>10, <1>11 DEF Thread, Abci

(***************************************************************************)
(* Type correctness: every thread stays in the script of the handler it    *)
(* serves, at a store of its loop, and heights and versions stay natural   *)
(* numbers.                                                                *)
(***************************************************************************)
THEOREM TypeCorrect == Spec => []TypeOK
  BY Invariant, PTL DEF IInv

(***************************************************************************)
(* No threads ever wait for each other in a circle, for any set of stores: *)
(* begin_block and end_block lock the state before the multi store         *)
(* (gears/src/baseapp/abci.rs), init_chain and commit the other way round, *)
(* but all four run on the one consensus thread, and the others wait for   *)
(* it only while they hold nothing that it wants.                          *)
(***************************************************************************)
THEOREM DeadlockFree == Spec => []NoCyclicWait
<1>1. IInv => NoCyclicWait
  <2> SUFFICES ASSUME IInv, NEW S \in (SUBSET Thread) \ {{}}
               PROVE  \E t \in S : Blockers(t) \cap S = {}
    BY DEF NoCyclicWait
  <2>1. CASE "consensus" \in S
    <3>1. ASSUME Blockers("consensus") \cap S # {}
          PROVE  \E t \in S : Blockers(t) \cap S = {}
      <4>1. PICK u \in S : u \in Blockers("consensus")
        BY <3>1
      <4>2. Blockers(u) = {}
        BY <4>1, ConsensusBlockers
      <4> QED  BY <4>1, <4>2
    <3> QED  BY <2>1, <3>1
  <2>2. CASE "consensus" \notin S /\ "mempool" \in S
    <3>1. ASSUME Blockers("mempool") \cap S # {}
          PROVE  \E t \in S : Blockers(t) \cap S = {}
      <4>1. PICK u \in S : u \in Blockers("mempool")
        BY <3>1
      <4>2. Blockers(u) = {}
        BY <2>2, <4>1, MempoolBlockers
      <4> QED  BY <4>1, <4>2
    <3> QED  BY <2>2, <3>1
  <2>3. CASE "consensus" \notin S /\ "mempool" \notin S
    <3>1. PICK t \in S : TRUE
      OBVIOUS
    <3>2. S \subseteq {"query", "rest"}
      BY <2>3 DEF Thread, Abci
    <3> QED  BY <3>1, <3>2, QueryBlockers
  <2> QED  BY <2>1, <2>2, <2>3
<1> QED  BY <1>1, Invariant, PTL

(***************************************************************************)
(* deliver_tx, check_tx and end_block never work under a header older than *)
(* the block the state has begun: they copy it after they have locked the  *)
(* state, which begin_block needs to begin the next block.                 *)
(***************************************************************************)
THEOREM FreshHeader == Spec => []HeaderNotStale
<1>1. IInv => HeaderNotStale
  <2> SUFFICES ASSUME IInv, NEW t \in {"consensus", "mempool"}, Busy(t), ~Ended(t),
                      req[t] \in {"deliver_tx", "check_tx", "end_block"}, Step(t).op = "work"
               PROVE  seen[t].height >= begun
    BY DEF HeaderNotStale
  <2>1. t \in Thread
    BY DEF Thread, Abci
  <2>2. pc[t] >= 5 /\ pc[t] \in 1 .. 10
    BY <2>1, StepFits DEF IInv, TypeOK, Fits, Effects
  <2>3. SawHeader(t)
    BY <2>2 DEF SawHeader
  <2> QED  BY <2>1, <2>3 DEF IInv, Headers
<1> QED  BY <1>1, Invariant, PTL

(***************************************************************************)
(* A query opens every store at one version or none, at any height, that   *)
(* of the latest version included, and for any set of stores, although     *)
(* commit saves the trees one by one and may panic between two: it holds   *)
(* the multi store for writing all the time, and a panic poisons it.       *)
(***************************************************************************)
THEOREM WholeCommits == Spec => []QueryAllOrNothing
<1>1. IInv => QueryAllOrNothing
  <2> SUFFICES ASSUME IInv, NEW t \in {"query", "rest"}, req[t] = "query", Ended(t)
               PROVE  \/ seen[t].found = {}
                      \/ \E p \in seen[t].found : seen[t].found = Store \X {p[2]}
    BY DEF QueryAllOrNothing
  <2>1. t \in Thread /\ pc[t] \in 1 .. 10 /\ pc[t] > 5
    BY ScriptSize DEF Thread, Abci, Ended, IInv, TypeOK
  <2>2. Looked(t)
    BY <2>1 DEF IInv, Queries
  <2>3. Done(t, 3) = Len(Stores)
    BY <2>1, <2>2 DEF Looked, Done
  <2>4. ASSUME NEW v PROVE Opened(Len(Stores), v) = Store \X {v}
    <3>1. {Stores[i] : i \in 1 .. Len(Stores)} = Store
      BY StoresBijection
    <3> QED  BY <3>1 DEF Opened
  <2>5. PICK v \in Nat : seen[t].found = Opened(Done(t, 3), v) \/ seen[t].found = {}
    BY <2>1, <2>2 DEF Looked
  <2>6. ASSUME seen[t].found = Store \X {v}, seen[t].found # {}
        PROVE  \E p \in seen[t].found : seen[t].found = Store \X {p[2]}
    BY <2>6
  <2> QED  BY <2>3, <2>4, <2>5, <2>6
<1> QED  BY <1>1, Invariant, PTL

(***************************************************************************)
(* After a panic that poisoned a lock no tree is ever saved again:         *)
(* whatever panics with a write lock leaves the state or the multi store   *)
(* poisoned, and commit saves with both.                                   *)
(***************************************************************************)
THEOREM PoisonStopsSaves == Spec => NoSaveAfterPanic
<1>1. IInv /\ [Next]_vars => [poisoned # {} => version' = version]_vars
  <2> SUFFICES ASSUME IInv, Next, version' # version PROVE poisoned = {}
    BY DEF vars
  <2>1. PICK t \in Thread : Busy(t) /\ ~Ended(t) /\ Effect(t) /\ Save(t)
    <3>1. ASSUME NEW t \in Thread, Run(t)
          PROVE  Busy(t) /\ ~Ended(t) /\ Effect(t) /\ Save(t)
      BY <3>1 DEF Run, Finish, Unwind, Acquire, Sleep, Unlock, Panic, Others, Effect, Look
    <3>2. \E t \in Thread : Run(t)
      BY DEF Next, StartConsensus, StartMempool, StartQuery, StartInfo, Start
    <3> QED  BY <3>1, <3>2
  <2>2. req[t] = "commit" /\ pc[t] = 6
    BY <2>1, StepFits DEF IInv, Fits, Effects, Save
  <2>3. held[t]["multi"] = "write" /\ held[t]["state"] = "write"
    BY <2>2, CommitHolds DEF IInv, Committing
  <2> QED  BY <2>3 DEF IInv, Locked, Poisoned
<1> QED  BY <1>1, Invariant, PTL DEF Spec, NoSaveAfterPanic
=============================================================================
