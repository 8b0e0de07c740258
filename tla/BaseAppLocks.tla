---------------------------- MODULE BaseAppLocks ----------------------------
(***************************************************************************)
(* The threads that share one BaseApp and the locks they take: the ABCI    *)
(* server serves each connection of the consensus engine (consensus,       *)
(* mempool, query) on a thread of its own, and the REST and gRPC servers   *)
(* query a clone of the application on theirs.  What the handlers compute  *)
(* is in module BaseApp; here are the RwLocks around it, in the order in   *)
(* which each handler takes them, and what a panic does to them.           *)
(***************************************************************************)
EXTENDS Integers, Sequences, SequencesExt, FiniteSets

CONSTANTS Store,      \* one IAVL tree, behind a lock of its own, per store
          MaxHeight   \* bound: blocks

ASSUME LocksAssumption ==
    /\ IsFiniteSet(Store) /\ Store # {} /\ Store \cap {"multi", "state", "header", "tree"} = {}
    /\ MaxHeight \in Nat

Abci == {"consensus", "mempool", "query"}
Thread == Abci \cup {"rest"}
Lock == {"multi", "state", "header"} \cup Store

VARIABLES req,        \* the request each thread serves, "none" or "dead"
          pc,         \* its position in the script of that request
          turn,       \* the store it is at, of those a loop of that script goes through
          held,       \* what each thread holds of each lock
          queued,     \* threads asleep in a write(), by lock
          poisoned,   \* locks whose writer panicked
          cancelled,  \* the CancellationToken of the ABCI server
          stage,      \* what the consensus engine may send next
          header,     \* height of BaseApp.block_header
          begun,      \* height of the block ApplicationState works on
          version,    \* latest version of each tree
          seen        \* what a thread has read: a header, or trees at a version

vars == <<req, pc, turn, held, queued, poisoned, cancelled, stage, header, begun, version, seen>>

-----------------------------------------------------------------------------
(* Scripts: the steps of each handler that other threads can notice.       *)

W(l) == [op |-> "write", on |-> l]
R(l) == [op |-> "read", on |-> l]
U(l) == [op |-> "unlock", on |-> l]
Do(e) == [op |-> e, on |-> "multi"]

\* In a loop over the stores "tree" is the lock of the one whose turn it is;
\* the end of its body, which begins so many steps before, unlocks it.
At(e) == [op |-> e, on |-> "tree"]
Again(steps) == [op |-> "unlock", on |-> "tree", back |-> steps]

\* In the order of the HashMap.
Stores == SetToSeq(Store)

InitChain == <<W("multi"), W("state"), R("tree"), Again(1), Do("work")>>

\* Reads of the caches fall through to the trees.
BeginBlock ==
    <<W("header"), Do("set_header"), U("header"), W("state"), W("multi"), Do("begin"),
      R("tree"), Again(1), Do("work")>>

DeliverTx ==
    <<W("state"), R("header"), Do("see_header"), U("header"), R("tree"), Again(1), Do("work")>>

EndBlock ==
    <<W("state"), W("multi"), R("header"), Do("see_header"), U("header"),
      R("tree"), Again(1), Do("work")>>

Commit ==
    <<W("multi"), W("state"), R("header"), U("header"), W("tree"), At("save"), Again(2)>>

\* Mutated form of CheckTx: the header is read before the state is locked.
CheckHeaderFirst ==
    <<R("header"), Do("see_header"), U("header"), W("state"), R("tree"), Again(1), Do("work")>>

CheckTx ==
    <<W("state"), R("header"), Do("see_header"), U("header"), R("tree"), Again(1), Do("work")>>

\* Mutated forms of Query: a height taken from the state as well, no lock on
\* the multi store while the trees are opened.
QueryReadsState ==
    <<R("multi"), R("state"), U("state"), R("tree"), At("look"), Again(2), Do("work")>>
QueryUnlocked == <<R("tree"), At("look"), Again(2), Do("work")>>

\* run_query and typed_query: open every tree at the version asked for.
Query == <<R("multi"), R("tree"), At("look"), Again(2), Do("work")>>

Info == <<R("state")>>

Script ==
    [init_chain |-> InitChain, begin_block |-> BeginBlock, deliver_tx |-> DeliverTx,
     end_block |-> EndBlock, commit |-> Commit, check_tx |-> CheckTx,
     query |-> Query, info |-> Info]

-----------------------------------------------------------------------------
(* std::sync::RwLock.                                                      *)

Holders(l) == {t \in Thread : held[t][l] # "no"}
Writers(l) == {t \in Thread : held[t][l] = "write"}

Busy(t) == req[t] \in DOMAIN Script
Ended(t) == Busy(t) /\ pc[t] > Len(Script[req[t]])
Step(t) == Script[req[t]][pc[t]]

\* The lock, or the tree, a step is about.
On(t) == IF Step(t).on = "tree" THEN Stores[turn[t]] ELSE Step(t).on

\* Whom t waits for.  A reader also waits for writers that came before it.
Blockers(t) ==
    IF ~Busy(t) \/ Ended(t) THEN {}
    ELSE IF Step(t).op = "write" THEN Holders(On(t)) \ {t}
    ELSE IF Step(t).op = "read"
    THEN (Writers(On(t)) \cup {u \in Thread : On(t) \in queued[u]}) \ {t}
    ELSE {}

Advance(t) == pc' = [pc EXCEPT ![t] = @ + 1] /\ UNCHANGED turn

\* The end of the body of a loop.
Repeat(t) ==
    IF turn[t] < Len(Stores)
    THEN /\ pc' = [pc EXCEPT ![t] = @ - Step(t).back]
         /\ turn' = [turn EXCEPT ![t] = @ + 1]
    ELSE Advance(t)

Others == <<cancelled, stage, header, begun, version>>

\* Mutated form of Acquire: PoisonError::into_inner.
AcquirePoisoned(t) ==
    /\ Step(t).op \in {"read", "write"}
    /\ Blockers(t) = {}
    /\ held' = [held EXCEPT ![t][On(t)] = Step(t).op]
    /\ queued' = [queued EXCEPT ![t] = {}]
    /\ Advance(t)
    /\ UNCHANGED <<req, poisoned, seen, Others>>

Acquire(t) ==
    /\ Step(t).op \in {"read", "write"}
    /\ On(t) \notin poisoned
    /\ Blockers(t) = {}
    /\ held' = [held EXCEPT ![t][On(t)] = Step(t).op]
    /\ queued' = [queued EXCEPT ![t] = {}]
    /\ Advance(t)
    /\ UNCHANGED <<req, poisoned, seen, Others>>

Sleep(t) ==
    /\ Step(t).op = "write"
    /\ Blockers(t) # {}
    /\ On(t) \notin queued[t]
    /\ queued' = [queued EXCEPT ![t] = {On(t)}]
    /\ UNCHANGED <<req, pc, turn, held, poisoned, seen, Others>>

Unlock(t) ==
    /\ Step(t).op = "unlock"
    /\ held' = [held EXCEPT ![t][On(t)] = "no"]
    /\ IF Step(t).on = "tree" THEN Repeat(t) ELSE Advance(t)
    /\ UNCHANGED <<req, queued, poisoned, seen, Others>>

-----------------------------------------------------------------------------
(* What the handlers do under their locks.                                 *)

Save(t) ==
    /\ Step(t).op = "save"
    /\ version' = [version EXCEPT ![On(t)] = @ + 1]
    /\ UNCHANGED <<header, begun, seen>>

\* QueryTree::new opens a tree that has the version asked for; version 0 asks
\* for the latest one, which a tree that was never saved does not have.
Asked(t, s) == IF seen[t].height = 0 THEN version[s] ELSE seen[t].height
HasVersion(s, v) == v \in 1 .. version[s]

Look(t) ==
    /\ Step(t).op = "look"
    /\ seen' = [seen EXCEPT ![t].found =
                  IF HasVersion(On(t), Asked(t, On(t)))
                  THEN @ \cup {<<On(t), Asked(t, On(t))>>} ELSE @]
    /\ UNCHANGED <<header, begun, version>>

Effect(t) ==
    /\ \/ Step(t).op = "set_header" /\ header' = header + 1 /\ UNCHANGED <<begun, version, seen>>
       \/ Step(t).op = "begin" /\ begun' = header /\ UNCHANGED <<header, version, seen>>
       \/ /\ Step(t).op = "see_header"
          /\ seen' = [seen EXCEPT ![t].height = header]
          /\ UNCHANGED <<header, begun, version>>
       \/ Step(t).op = "work" /\ UNCHANGED <<header, begun, version, seen>>
       \/ Save(t)
       \/ Look(t)
    /\ Advance(t)
    /\ UNCHANGED <<req, held, queued, poisoned, cancelled, stage>>

NoLocks == [l \in Lock |-> "no"]

\* The end of the handler drops its guards and the answer is sent.
Finish(t) ==
    /\ Ended(t)
    /\ req' = [req EXCEPT ![t] = "none"]
    /\ held' = [held EXCEPT ![t] = NoLocks]
    /\ UNCHANGED <<pc, turn, queued, poisoned, seen, Others>>

(***************************************************************************)
(* A panic, in the work of a handler, while a tree is saved, or on a       *)
(* poisoned lock: unwinding drops the guards and poisons the locks held    *)
(* for writing.  Only then is the drop guard of the ABCI wrapper reached,  *)
(* which cancels the token; a REST or gRPC task just fails.                *)
(***************************************************************************)
Panic(t) ==
    /\ \/ Step(t).op \in {"work", "save"}
       \/ Step(t).op \in {"read", "write"} /\ On(t) \in poisoned /\ Blockers(t) = {}
    /\ poisoned' = poisoned \cup {l \in Lock : held[t][l] = "write"}
    /\ held' = [held EXCEPT ![t] = NoLocks]
    /\ queued' = [queued EXCEPT ![t] = {}]
    /\ req' = [req EXCEPT ![t] = IF t \in Abci THEN "unwinding" ELSE "none"]
    /\ UNCHANGED <<pc, turn, seen, Others>>

\* Mutated form of Unwind: the drop guard was disarmed before the call.
UnwindDisarmed(t) ==
    /\ req[t] = "unwinding"
    /\ req' = [req EXCEPT ![t] = "dead"]
    /\ cancelled' = cancelled
    /\ UNCHANGED <<pc, turn, held, queued, poisoned, stage, header, begun, version, seen>>

Unwind(t) ==
    /\ req[t] = "unwinding"
    /\ req' = [req EXCEPT ![t] = "dead"]
    /\ cancelled' = TRUE
    /\ UNCHANGED <<pc, turn, held, queued, poisoned, stage, header, begun, version, seen>>

-----------------------------------------------------------------------------
(* Requests.                                                               *)

Start(t, r) ==
    /\ req[t] = "none"
    /\ t \in Abci => ~cancelled
    /\ req' = [req EXCEPT ![t] = r]
    /\ pc' = [pc EXCEPT ![t] = 1]
    /\ turn' = [turn EXCEPT ![t] = 1]
    /\ UNCHANGED <<held, queued, poisoned, cancelled, header, begun, version>>

\* The consensus connection sends one request at a time, block by block.
StartConsensus ==
    /\ \/ stage = "genesis" /\ Start("consensus", "init_chain") /\ stage' = "committed"
       \/ /\ stage = "committed"
          /\ header < MaxHeight
          /\ Start("consensus", "begin_block")
          /\ stage' = "begun"
       \/ stage = "begun" /\ Start("consensus", "deliver_tx") /\ stage' = "begun"
       \/ stage = "begun" /\ Start("consensus", "end_block") /\ stage' = "ended"
       \/ stage = "ended" /\ Start("consensus", "commit") /\ stage' = "committed"
    /\ UNCHANGED seen

StartMempool == Start("mempool", "check_tx") /\ UNCHANGED <<seen, stage>>

StartQuery(t) ==
    /\ \E h \in 0 .. MaxHeight :
          Start(t, "query") /\ seen' = [seen EXCEPT ![t] = [height |-> h, found |-> {}]]
    /\ UNCHANGED stage

StartInfo == Start("query", "info") /\ UNCHANGED <<seen, stage>>

Init ==
    /\ req = [t \in Thread |-> "none"]
    /\ pc = [t \in Thread |-> 1]
    /\ turn = [t \in Thread |-> 1]
    /\ held = [t \in Thread |-> NoLocks]
    /\ queued = [t \in Thread |-> {}]
    /\ poisoned = {}
    /\ cancelled = FALSE
    /\ stage = "genesis"
    /\ header = 0
    /\ begun = 0
    /\ version = [s \in Store |-> 0]
    /\ seen = [t \in Thread |-> [height |-> 0, found |-> {}]]

Run(t) ==
    \/ Finish(t)
    \/ Unwind(t)
    \/ /\ Busy(t)
       /\ ~Ended(t)
       /\ Acquire(t) \/ Sleep(t) \/ Unlock(t) \/ Effect(t) \/ Panic(t)

Next ==
    \/ \E t \in Thread : Run(t)
    \/ StartConsensus
    \/ StartMempool
    \/ \E t \in {"query", "rest"} : StartQuery(t)
    \/ StartInfo

\* Every thread is scheduled again and again; requests come or do not come.
Fairness == \A t \in Thread : WF_vars(Run(t))

Spec == Init /\ [][Next]_vars /\ Fairness

-----------------------------------------------------------------------------
(* Properties.                                                             *)

TypeOK ==
    /\ req \in [Thread -> DOMAIN Script \cup {"none", "unwinding", "dead"}]
    /\ pc \in [Thread -> 1 .. 10]
    /\ turn \in [Thread -> DOMAIN Stores]
    /\ held \in [Thread -> [Lock -> {"no", "read", "write"}]]
    /\ queued \in [Thread -> SUBSET Lock]
    /\ poisoned \subseteq Lock
    /\ cancelled \in BOOLEAN
    /\ stage \in {"genesis", "committed", "begun", "ended"}
    /\ header \in Nat /\ begun \in Nat
    /\ version \in [Store -> Nat]
    /\ seen \in [Thread -> [height : Nat, found : SUBSET (Store \X Nat)]]

(***************************************************************************)
(* No threads ever wait for each other in a circle, although begin_block   *)
(* and end_block lock the state before the multi store and init_chain and  *)
(* commit lock them the other way round.                                   *)
(***************************************************************************)
NoCyclicWait ==
    \A S \in (SUBSET Thread) \ {{}} : \E t \in S : Blockers(t) \cap S = {}

(***************************************************************************)
(* A handler that works under the state lock never works under a header    *)
(* older than the block its state has begun (a newer one it may see:       *)
(* begin_block sets the header before it locks the state).                 *)
(***************************************************************************)
HeaderNotStale ==
    \A t \in {"consensus", "mempool"} :
        Busy(t) /\ ~Ended(t) /\ req[t] \in {"deliver_tx", "check_tx", "end_block"}
          /\ Step(t).op = "work" => seen[t].height >= begun

(***************************************************************************)
(* A query opens every store at one version or finds that version in none, *)
(* even while a commit is saving the stores one after the other: a query   *)
(* for the latest version does not mix the trees of two blocks.            *)
(***************************************************************************)
QueryAllOrNothing ==
    \A t \in {"query", "rest"} :
        req[t] = "query" /\ Ended(t) =>
            \/ seen[t].found = {}
            \/ \E p \in seen[t].found : seen[t].found = Store \X {p[2]}

(***************************************************************************)
(* Once a panic has poisoned the state, which it may have left half        *)
(* written, no tree is ever saved again.                                   *)
(***************************************************************************)
NoSaveAfterPanic == [][poisoned # {} => version' = version]_vars

(***************************************************************************)
(* A panic in any ABCI handler ends the service: all ABCI threads come to  *)
(* rest for good, none of them stuck behind a lock, whatever the REST and  *)
(* gRPC clients keep asking.                                               *)
(***************************************************************************)
PanicStops ==
    (\E t \in Abci : req[t] = "dead") ~> [](\A t \in Abci : req[t] \in {"none", "dead"})
=============================================================================
