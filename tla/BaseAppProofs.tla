--------------------------- MODULE BaseAppProofs ---------------------------
(***************************************************************************)
(* Proofs about the ABCI application (module BaseApp) for every set of     *)
(* stores, keys, values and transactions: the invariants the runs check    *)
(* and the refinement of the ledger; at the end, the gas of a transaction   *)
(* on its stores (module GasStore).                                        *)
(*                                                                         *)
(* The argument works on whole states, store -> content.  A family of      *)
(* caches, one per store, acts on states by Over; pouring one family into  *)
(* another composes the actions (PourFacts), and writing a family a second *)
(* time has no effect (OverAbsorbs).  The caches themselves appear only in *)
(* the lemmas.                                                             *)
(***************************************************************************)
EXTENDS BaseApp, KVCacheProofs, GasStore

States == [Store -> Content]

\* A family of caches, each disjoint.
Sound(c) == c \in [Store -> Cache] /\ \A s \in Store : Disjoint(c[s])

\* Writing b again hides whatever c wrote before it.
Covers(b, c) == \A v \in States : Over(b, Over(c, v)) = Over(b, v)

-----------------------------------------------------------------------------
(* The algebra of caches and states.                                       *)

LEMMA OverType ==
    ASSUME NEW c \in [Store -> Cache], NEW v \in States
    PROVE  Over(c, v) \in States
  BY OverlayType DEF Over, States

LEMMA NoCachesFacts ==
    /\ Sound(NoCaches)
    /\ \A v \in States : Over(NoCaches, v) = v
<1>1. Sound(NoCaches)
  BY EmptyCacheFacts DEF Sound, NoCaches
<1>2. ASSUME NEW v \in States PROVE Over(NoCaches, v) = v
  BY EmptyCacheFacts DEF Over, NoCaches, States
<1> QED
  BY <1>1, <1>2

(***************************************************************************)
(* Pouring a family of caches into another (upgrade_cache,                 *)
(* append_block_cache, consume_block_cache of the multi store) reads as    *)
(* the one written over the other.                                         *)
(***************************************************************************)
LEMMA PourFacts ==
    ASSUME NEW dst, Sound(dst), NEW src, Sound(src)
    PROVE  /\ Sound(Pour(dst, src))
           /\ \A v \in States : Over(Pour(dst, src), v) = Over(src, Over(dst, v))
<1>1. Sound(Pour(dst, src))
  BY SetsThenDeletesFacts DEF Sound, Pour
<1>2. ASSUME NEW v \in States
      PROVE  Over(Pour(dst, src), v) = Over(src, Over(dst, v))
  BY SetsThenDeletesFacts DEF Sound, Pour, Over, States
<1> QED
  BY <1>1, <1>2

(***************************************************************************)
(* take_block_cache of the application state reads the same, because the   *)
(* caches are disjoint.                                                    *)
(***************************************************************************)
LEMMA TakeFacts ==
    ASSUME NEW c, Sound(c), NEW bank \in Bank, Sound(bank.block)
    PROVE  /\ Sound(TakeBlockCache(c, bank))
           /\ \A v \in States :
                Over(TakeBlockCache(c, bank), v) = Over(bank.block, Over(c, v))
<1>1. Sound(TakeBlockCache(c, bank))
  BY DeletesThenSetsFacts DEF Sound, TakeBlockCache
<1>2. ASSUME NEW v \in States
      PROVE  Over(TakeBlockCache(c, bank), v) = Over(bank.block, Over(c, v))
  BY DeletesThenSetsFacts DEF Sound, TakeBlockCache, Over, States
<1> QED
  BY <1>1, <1>2

\* What a family wrote before b is hidden when the family is written after b.
LEMMA OverAbsorbs ==
    ASSUME NEW c \in [Store -> Cache], NEW b \in [Store -> Cache], NEW v \in States
    PROVE  Over(c, Over(b, Over(c, v))) = Over(c, Over(b, v))
<1>1. ASSUME NEW x \in Cache, NEW y \in Cache, NEW m \in Content
      PROVE  Overlay(x, Overlay(y, Overlay(x, m))) = Overlay(x, Overlay(y, m))
  BY DEF Overlay, Cache, Content
<1> QED
  BY <1>1 DEF Over, States

LEMMA OverIdempotent ==
    ASSUME NEW c \in [Store -> Cache], NEW v \in States
    PROVE  Over(c, Over(c, v)) = Over(c, v)
<1>1. NoCaches \in [Store -> Cache] /\ Over(c, v) \in States
  BY NoCachesFacts, OverType DEF Sound
<1> QED
  BY <1>1, NoCachesFacts, OverAbsorbs

LEMMA PourCovers ==
    ASSUME NEW b, Sound(b), NEW c, Sound(c)
    PROVE  Covers(Pour(b, c), c)
<1> SUFFICES ASSUME NEW v \in States
             PROVE  Over(Pour(b, c), Over(c, v)) = Over(Pour(b, c), v)
  BY DEF Covers
<1>1. Over(c, v) \in States
  BY OverType DEF Sound
<1>2. Over(Pour(b, c), Over(c, v)) = Over(c, Over(b, Over(c, v)))
  BY <1>1, PourFacts
<1>3. Over(c, Over(b, Over(c, v))) = Over(c, Over(b, v))
  BY OverAbsorbs DEF Sound
<1> QED
  BY <1>2, <1>3, PourFacts

LEMMA PourKeepsCovers ==
    ASSUME NEW b, Sound(b), NEW c, Sound(c), NEW w, Sound(w), Covers(b, c)
    PROVE  Covers(Pour(b, w), c)
<1> SUFFICES ASSUME NEW v \in States
             PROVE  Over(Pour(b, w), Over(c, v)) = Over(Pour(b, w), v)
  BY DEF Covers
<1>1. Over(c, v) \in States
  BY OverType DEF Sound
<1>2. Over(Pour(b, w), Over(c, v)) = Over(w, Over(b, Over(c, v)))
  BY <1>1, PourFacts
<1> QED
  BY <1>2, PourFacts DEF Covers

-----------------------------------------------------------------------------
(* What one transaction does to a bank (run_tx).                           *)

GoodBank(b) == b \in Bank /\ Sound(b.tx) /\ Sound(b.block)

\* The state on disk, on which every view is built.
LEMMA HashType ==
    ASSUME NEW d \in [Store -> Seq(Content)]
    PROVE  Hash(d) \in States
<1>1. ASSUME NEW s \in Store PROVE Tree(d, s) \in Content
  BY DEF Tree, Empty, Content
<1> QED
  BY <1>1 DEF Hash, States

LEMMA ViewIsOver ==
    ASSUME disk \in [Store -> Seq(Content)], NEW b
    PROVE  View(b) = Over(b.tx, Over(b.block, Hash(disk)))
  BY DEF View, Over, Hash

\* With an empty tx cache only the block cache is read.
LEMMA BlockView ==
    ASSUME disk \in [Store -> Seq(Content)], NEW b, GoodBank(b), b.tx = NoCaches
    PROVE  View(b) = Over(b.block, Hash(disk)) /\ View(b) \in States
<1>1. Over(b.block, Hash(disk)) \in States
  BY HashType, OverType DEF GoodBank, Sound
<1> QED
  BY <1>1, ViewIsOver, NoCachesFacts

LEMMA BatchSound ==
    ASSUME NEW w \in Batches
    PROVE  Sound(w)
  BY BaseAppAssumption DEF Sound

LEMMA BankOps ==
    ASSUME NEW b, GoodBank(b), NEW w, Sound(w)
    PROVE  /\ GoodBank(WriteTx(b, w)) /\ WriteTx(b, w).block = b.block
           /\ WriteTx(b, w).tx = Pour(b.tx, w)
           /\ GoodBank(ClearTx(b)) /\ ClearTx(b).block = b.block
           /\ ClearTx(b).tx = NoCaches
           /\ GoodBank(Upgrade(b)) /\ Upgrade(b).tx = NoCaches
           /\ Upgrade(b).block = Pour(b.block, b.tx)
           /\ GoodBank(AppendBlockCache(b, w)) /\ AppendBlockCache(b, w).tx = b.tx
           /\ AppendBlockCache(b, w).block = Pour(b.block, w)
<1>1. Sound(Pour(b.tx, w)) /\ Sound(Pour(b.block, w)) /\ Sound(Pour(b.block, b.tx))
  BY PourFacts DEF GoodBank
<1>2. Sound(NoCaches)
  BY NoCachesFacts
<1>3. GoodBank(WriteTx(b, w)) /\ WriteTx(b, w).block = b.block
        /\ WriteTx(b, w).tx = Pour(b.tx, w)
  BY <1>1 DEF GoodBank, Bank, WriteTx, Sound
<1>4. GoodBank(ClearTx(b)) /\ ClearTx(b).block = b.block /\ ClearTx(b).tx = NoCaches
  BY <1>2 DEF GoodBank, Bank, ClearTx, Sound
<1>5. GoodBank(Upgrade(b)) /\ Upgrade(b).tx = NoCaches
        /\ Upgrade(b).block = Pour(b.block, b.tx)
  BY <1>1, <1>2 DEF GoodBank, Bank, Upgrade, Sound
<1>6. GoodBank(AppendBlockCache(b, w)) /\ AppendBlockCache(b, w).tx = b.tx
        /\ AppendBlockCache(b, w).block = Pour(b.block, w)
  BY <1>1 DEF GoodBank, Bank, AppendBlockCache, Sound
<1> QED
  BY <1>3, <1>4, <1>5, <1>6

\* The writes of w went through the tx cache of b into its block cache.
Written(b, w) == [tx |-> NoCaches, block |-> Pour(b.block, Pour(NoCaches, w))]

LEMMA WrittenFacts ==
    ASSUME NEW b, GoodBank(b), b.tx = NoCaches, NEW w, Sound(w)
    PROVE  /\ GoodBank(Written(b, w)) /\ Written(b, w).tx = NoCaches
           /\ Upgrade(WriteTx(b, w)) = Written(b, w)
           /\ ClearTx(WriteTx(b, w)) = b
           /\ \A v \in States :
                Over(Written(b, w).block, v) = Over(w, Over(b.block, v))
<1> DEFINE p == Pour(NoCaches, w)
<1>1. Sound(p) /\ \A v \in States : Over(p, v) = Over(w, v)
  BY NoCachesFacts, PourFacts
<1>2. Sound(Pour(b.block, p)) /\
        \A v \in States : Over(Pour(b.block, p), v) = Over(p, Over(b.block, v))
  BY <1>1, PourFacts DEF GoodBank
<1>3. GoodBank(Written(b, w)) /\ Written(b, w).tx = NoCaches
        /\ Written(b, w).block = Pour(b.block, p)
  BY <1>2, NoCachesFacts DEF GoodBank, Bank, Written, Sound
<1>4. Upgrade(WriteTx(b, w)) = Written(b, w)
  BY BankOps DEF Upgrade, Written
<1>5. ClearTx(WriteTx(b, w)) = b
  BY DEF ClearTx, WriteTx, GoodBank, Bank
<1>6. ASSUME NEW v \in States
      PROVE  Over(Written(b, w).block, v) = Over(w, Over(b.block, v))
  <2>1. Over(b.block, v) \in States
    BY OverType DEF GoodBank, Sound
  <2> QED
    BY <2>1, <1>1, <1>2, <1>3
<1> QED
  BY <1>3, <1>4, <1>5, <1>6

LEMMA TxFacts ==
    ASSUME NEW tx \in Txs
    PROVE  /\ Sound(tx.ante) /\ Sound(tx.msgs)
           /\ tx.ante \in Batches /\ tx.msgs \in Batches
           /\ tx.gas \in Nat
           /\ tx.decodes \in BOOLEAN /\ tx.anteOk \in BOOLEAN /\ tx.msgsOk \in BOOLEAN
<1>1. tx \in Tx
  BY BaseAppAssumption
<1>2. /\ tx.ante \in Batches /\ tx.msgs \in Batches
      /\ tx.gas \in Nat
      /\ tx.decodes \in BOOLEAN /\ tx.anteOk \in BOOLEAN /\ tx.msgsOk \in BOOLEAN
  BY <1>1, GasMaxAssumption DEF Tx, Gas
<1> QED
  BY <1>2, BatchSound

\* A charge that fits the width: refused only above the limit.
LEMMA ConsumeFacts ==
    ASSUME NEW m \in Meter, NEW amount \in Nat, m.consumed + amount <= GasMax
    PROVE  /\ ConsumeGas(m, amount).meter \in Meter
           /\ IsPastLimit(m) => ConsumeGas(m, amount) = [meter |-> m, err |-> "out_of_gas"]
           /\ ~IsPastLimit(m) =>
                ConsumeGas(m, amount) = [meter |-> [m EXCEPT !.consumed = @ + amount],
                                         err |-> "none"]
<1>1. m.consumed \in Nat /\ m.consumed + amount \in Gas
  BY GasMaxAssumption DEF Meter, Gas
<1> QED
  BY <1>1, GasMaxAssumption DEF ConsumeGas, Meter, Gas

\* What a delivered transaction leaves in the bank, case by case.
Outcome(b, meter, tx) ==
    IF ~tx.decodes \/ IsOutOfGas(meter) \/ ~tx.anteOk THEN b
    ELSE IF ~tx.msgsOk THEN Written(b, tx.ante)
    ELSE Written(Written(b, tx.ante), tx.msgs)

(***************************************************************************)
(* run_tx in deliver mode: a whole transaction, its ante part or nothing   *)
(* goes to the block cache, and the block meter moves only when it was     *)
(* below its limit.                                                        *)
(***************************************************************************)
LEMMA RunTxDeliver ==
    ASSUME NEW b, GoodBank(b), b.tx = NoCaches,
           NEW m \in Meter, NEW tx \in Txs, GasFits(m, tx)
    PROVE  LET r == RunTx("deliver", b, m, tx)
           IN  /\ r.bank = Outcome(b, m, tx)
               /\ r.meter \in Meter
               /\ \/ r.meter = m
                  \/ ~IsOutOfGas(m) /\ r.meter = [m EXCEPT !.consumed = @ + tx.gas]
<1> DEFINE r == RunTx("deliver", b, m, tx)
           a == Written(b, tx.ante)
<1>0. Sound(tx.ante) /\ Sound(tx.msgs) /\ tx.gas \in Nat
        /\ tx.decodes \in BOOLEAN /\ tx.anteOk \in BOOLEAN /\ tx.msgsOk \in BOOLEAN
  BY TxFacts
<1>1. Refused("deliver", m) <=> IsOutOfGas(m)
  BY DEF Refused
<1>2. CASE ~tx.decodes \/ IsOutOfGas(m)
  BY <1>1, <1>2 DEF RunTx, Outcome
<1>3. CASE tx.decodes /\ ~IsOutOfGas(m) /\ ~tx.anteOk
  <2>1. AfterAnte(b, tx) = b
    BY <1>0, <1>3, WrittenFacts DEF AfterAnte
  <2> QED
    BY <1>1, <1>3, <2>1 DEF RunTx, Outcome
<1>4. CASE tx.decodes /\ ~IsOutOfGas(m) /\ tx.anteOk
  <2>1. AfterAnte(b, tx) = a
    BY <1>0, <1>4, WrittenFacts DEF AfterAnte
  <2>2. GoodBank(a) /\ a.tx = NoCaches
    BY <1>0, WrittenFacts
  <2>3. CASE ~tx.msgsOk
    <3>1. AfterMsgs("deliver", a, tx) = a
      BY <1>0, <2>2, <2>3, WrittenFacts DEF AfterMsgs
    <3> QED
      BY <1>1, <1>4, <2>1, <2>3, <3>1 DEF RunTx, Outcome
  <2>4. CASE tx.msgsOk
    <3>1. AfterMsgs("deliver", a, tx) = WriteTx(a, tx.msgs)
      BY <2>4 DEF AfterMsgs
    <3>2. Upgrade(WriteTx(a, tx.msgs)) = Written(a, tx.msgs)
      BY <1>0, <2>2, WrittenFacts
    <3>3. ~IsPastLimit(m)
      BY <1>4, GasMaxAssumption DEF IsPastLimit, IsOutOfGas, Meter, Gas
    <3>4. /\ ConsumeGas(m, tx.gas) = [meter |-> [m EXCEPT !.consumed = @ + tx.gas],
                                      err |-> "none"]
          /\ ConsumeGas(m, tx.gas).meter \in Meter
      BY <1>0, <3>3, ConsumeFacts DEF GasFits
    <3>5. r = [bank |-> Written(a, tx.msgs), meter |-> [m EXCEPT !.consumed = @ + tx.gas]]
      BY <1>1, <1>4, <2>1, <2>4, <3>1, <3>2, <3>4 DEF RunTx
    <3> QED
      BY <1>4, <2>4, <3>4, <3>5 DEF Outcome
  <2> QED
    BY <1>0, <2>3, <2>4
<1> QED
  BY <1>0, <1>2, <1>3, <1>4

LEMMA OutcomeFacts ==
    ASSUME NEW b, GoodBank(b), b.tx = NoCaches, NEW m, NEW tx \in Txs
    PROVE  LET o == Outcome(b, m, tx)
           IN  /\ GoodBank(o) /\ o.tx = NoCaches
               /\ \A c : Sound(c) /\ Covers(b.block, c) => Covers(o.block, c)
               /\ \A v \in States : Over(o.block, v) =
                    IF ~tx.decodes \/ IsOutOfGas(m) \/ ~tx.anteOk THEN Over(b.block, v)
                    ELSE IF ~tx.msgsOk THEN Over(tx.ante, Over(b.block, v))
                    ELSE Over(tx.msgs, Over(tx.ante, Over(b.block, v)))
<1> DEFINE a == Written(b, tx.ante)
           z == Written(a, tx.msgs)
<1>0. Sound(tx.ante) /\ Sound(tx.msgs)
  BY TxFacts
<1>1. /\ GoodBank(a) /\ a.tx = NoCaches
      /\ \A v \in States : Over(a.block, v) = Over(tx.ante, Over(b.block, v))
  BY <1>0, WrittenFacts
<1>2. /\ GoodBank(z) /\ z.tx = NoCaches
      /\ \A v \in States : Over(z.block, v) = Over(tx.msgs, Over(a.block, v))
  BY <1>0, <1>1, WrittenFacts
<1>3. ASSUME NEW c, Sound(c), Covers(b.block, c)
      PROVE  Covers(a.block, c) /\ Covers(z.block, c)
  <2>1. \A v \in States : Over(c, v) \in States
    BY <1>3, OverType DEF Sound
  <2> QED
    BY <1>1, <1>2, <1>3, <2>1 DEF Covers
<1> QED
  BY <1>1, <1>2, <1>3 DEF Outcome

(***************************************************************************)
(* run_tx in check mode: an accepted transaction leaves its ante writes,   *)
(* whatever the block meter then answers; the tx cache is empty again.     *)
(***************************************************************************)
LEMMA RunTxCheck ==
    ASSUME NEW b, GoodBank(b), b.tx = NoCaches,
           NEW m \in Meter, NEW tx \in Txs, GasFits(m, tx)
    PROVE  LET r == RunTx("check", b, m, tx)
           IN  /\ GoodBank(r.bank) /\ r.bank.tx = NoCaches
               /\ r.meter \in Meter
               /\ \A v \in States : Over(r.bank.block, v) =
                    IF tx.decodes /\ tx.anteOk THEN Over(tx.ante, Over(b.block, v))
                    ELSE Over(b.block, v)
<1> DEFINE r == RunTx("check", b, m, tx)
           a == Written(b, tx.ante)
<1>0. Sound(tx.ante) /\ tx.gas \in Nat /\ tx.decodes \in BOOLEAN /\ tx.anteOk \in BOOLEAN
  BY TxFacts
<1>1. ~Refused("check", m)
  BY DEF Refused
<1>2. CASE ~tx.decodes
  BY <1>2 DEF RunTx
<1>3. CASE tx.decodes /\ ~tx.anteOk
  <2>1. AfterAnte(b, tx) = b
    BY <1>0, <1>3, WrittenFacts DEF AfterAnte
  <2> QED
    BY <1>1, <1>3, <2>1 DEF RunTx
<1>4. CASE tx.decodes /\ tx.anteOk
  <2>1. AfterMsgs("check", AfterAnte(b, tx), tx) = a
    BY <1>0, <1>4, WrittenFacts DEF AfterAnte, AfterMsgs
  <2>2. /\ GoodBank(a) /\ a.tx = NoCaches
        /\ \A v \in States : Over(a.block, v) = Over(tx.ante, Over(b.block, v))
    BY <1>0, WrittenFacts
  <2>3. /\ GoodBank(Upgrade(a)) /\ Upgrade(a).tx = NoCaches
        /\ Upgrade(a).block = Pour(a.block, NoCaches)
    BY <2>2, NoCachesFacts, BankOps
  <2>4. ASSUME NEW v \in States
        PROVE  Over(Upgrade(a).block, v) = Over(a.block, v)
    <3>1. Over(a.block, v) \in States
      BY <2>2, OverType DEF GoodBank, Sound
    <3>2. Over(Pour(a.block, NoCaches), v) = Over(NoCaches, Over(a.block, v))
      BY <2>2, NoCachesFacts, PourFacts DEF GoodBank
    <3> QED
      BY <2>3, <3>1, <3>2, NoCachesFacts
  <2>5. r.bank \in {a, Upgrade(a)} /\ r.meter = ConsumeGas(m, tx.gas).meter
    BY <1>1, <1>4, <2>1 DEF RunTx
  <2>6. r.meter \in Meter
    BY <1>0, <2>5, ConsumeFacts DEF GasFits
  <2> QED
    BY <1>4, <2>2, <2>3, <2>4, <2>5, <2>6
<1> QED
  BY <1>0, <1>2, <1>3, <1>4

-----------------------------------------------------------------------------
(***************************************************************************)
(* The inductive invariant.  Beyond types it says that every cache is      *)
(* disjoint, that tx caches are empty between calls, that the block cache  *)
(* of deliver mode covers what the application bank holds (so that taking  *)
(* or consuming it loses nothing), and that outside a block the two read   *)
(* the same.                                                               *)
(***************************************************************************)
IInv ==
    /\ TypeOK
    /\ Sound(app) /\ GoodBank(check) /\ GoodBank(deliver)
    /\ TxCachesEmpty
    /\ Covers(deliver.block, app)
    /\ phase # "block" => Over(app, Hash(disk)) = Over(deliver.block, Hash(disk))
    /\ BlockGasBounded

\* BaseApp::new with empty caches, over any disk.
Fresh ==
    /\ app = NoCaches
    /\ check = EmptyBank
    /\ deliver = EmptyBank

LEMMA FreshFacts ==
    Fresh => /\ Sound(app) /\ GoodBank(check) /\ GoodBank(deliver)
             /\ app \in [Store -> Cache] /\ check \in Bank /\ deliver \in Bank
             /\ TxCachesEmpty
             /\ Covers(deliver.block, app)
             /\ Over(app, Hash(disk)) = Over(deliver.block, Hash(disk))
<1> SUFFICES ASSUME Fresh
             PROVE  /\ Sound(app) /\ GoodBank(check) /\ GoodBank(deliver)
                    /\ app \in [Store -> Cache] /\ check \in Bank /\ deliver \in Bank
                    /\ TxCachesEmpty
                    /\ Covers(deliver.block, app)
                    /\ Over(app, Hash(disk)) = Over(deliver.block, Hash(disk))
  OBVIOUS
<1>1. app = NoCaches /\ deliver.block = NoCaches /\ deliver.tx = NoCaches
        /\ check.block = NoCaches /\ check.tx = NoCaches
  BY DEF Fresh, EmptyBank
<1>2. GoodBank(EmptyBank)
  BY NoCachesFacts DEF EmptyBank, GoodBank, Bank, Sound
<1>3. Covers(NoCaches, NoCaches)
  BY NoCachesFacts DEF Covers
<1> QED
  BY <1>1, <1>2, <1>3, NoCachesFacts DEF Fresh, TxCachesEmpty, GoodBank, Sound

LEMMA MeterForType ==
    ASSUME NEW g \in Int, g <= GasMax
    PROVE  MeterFor(g) \in Meter /\ MeterFor(g).consumed = 0
  BY GasMaxAssumption DEF MeterFor, FiniteMeter, InfiniteMeter, Meter, Gas

LEMMA SavedType ==
    ASSUME IInv, NEW s \in Store
    PROVE  Saved(s) \in Seq(Content)
<1>1. SetsThenDeletes(app[s], deliver.block[s]) \in Cache
  BY SetsThenDeletesFacts DEF IInv, TypeOK, Bank
<1>2. Tree(disk, s) \in Content
  BY DEF IInv, TypeOK, Tree, Empty, Content
<1>3. CommitTree(Tree(disk, s), SetsThenDeletes(app[s], deliver.block[s])) \in Content
  BY <1>1, <1>2, CommitTreeFacts
<1> QED
  BY <1>3 DEF Saved, IInv, TypeOK

LEMMA InitIInv == Init => IInv
<1> SUFFICES ASSUME Init PROVE IInv
  OBVIOUS
<1>1. disk \in [Store -> Seq(Content)]
  BY DEF Init
<1>2. InfiniteMeter \in Meter
  BY GasMaxAssumption DEF InfiniteMeter, Meter, Gas
<1>3. Hash(disk) \in [Store -> Content]
  BY <1>1, HashType DEF States
<1>4. Fresh
  BY DEF Init, Fresh
<1>5. TypeOK
  BY <1>1, <1>2, <1>3, <1>4, FreshFacts DEF Init, TypeOK, InfoOf, NothingChecked
<1>6. BlockGasBounded
  BY DEF Init, BlockGasBounded, InfiniteMeter
<1> QED
  BY <1>4, <1>5, <1>6, FreshFacts DEF IInv

\* The whole invariant after a step that leaves fresh caches behind.
LEMMA FreshIInv ==
    ASSUME Fresh', disk' \in [Store -> Seq(Content)], headVersion' \in Nat,
           info' = InfoOf(headVersion', disk'),
           checkMeter' \in Meter, deliverMeter' \in Meter, BlockGasBounded',
           header' \in Nat, phase' \in {"genesis", "idle", "block", "ended"},
           params' \in {"none", "cached", "saved"}, checked' = NothingChecked, tears' \in Nat
    PROVE  IInv'
<1>1. /\ Sound(app)' /\ GoodBank(check)' /\ GoodBank(deliver)'
      /\ (app \in [Store -> Cache])' /\ (check \in Bank)' /\ (deliver \in Bank)'
      /\ TxCachesEmpty'
      /\ Covers(deliver.block, app)'
      /\ (Over(app, Hash(disk)) = Over(deliver.block, Hash(disk)))'
  BY FreshFacts, PTL
<1>2. Hash(disk') \in [Store -> Content]
  BY HashType DEF States
<1>3. TypeOK'
  BY <1>1, <1>2 DEF TypeOK, InfoOf, NothingChecked
<1> QED
  BY <1>1, <1>3 DEF IInv

-----------------------------------------------------------------------------
(* Every handler preserves the invariant.                                  *)

\* The hooks write to the application bank and append it to both modes.
LEMMA AppendStep ==
    ASSUME IInv, NEW c, Sound(c), NEW d, GoodBank(d), d.tx = NoCaches,
           app' = c, check' = AppendBlockCache(check, c),
           deliver' = AppendBlockCache(d, c)
    PROVE  /\ Sound(app') /\ GoodBank(check') /\ GoodBank(deliver')
           /\ app' \in [Store -> Cache] /\ check' \in Bank /\ deliver' \in Bank
           /\ TxCachesEmpty'
           /\ deliver'.block = Pour(d.block, c)
           /\ Covers(deliver'.block, app')
<1>1. GoodBank(check) /\ check.tx = NoCaches
  BY DEF IInv, TxCachesEmpty
<1>2. GoodBank(check') /\ check'.tx = NoCaches
  BY <1>1, BankOps
<1>3. GoodBank(deliver') /\ deliver'.tx = NoCaches /\ deliver'.block = Pour(d.block, c)
  BY BankOps
<1>4. Covers(deliver'.block, app')
  BY <1>3, PourCovers DEF GoodBank
<1> QED
  BY <1>2, <1>3, <1>4 DEF TxCachesEmpty, GoodBank, Sound

LEMMA InitChainIInv ==
    ASSUME IInv, NEW w \in Batches, InitChain(w)
    PROVE  IInv'
<1> DEFINE c == Pour(app, w)
           h == Hash(disk)
<1>0. Sound(w) /\ Sound(app) /\ GoodBank(deliver) /\ deliver.tx = NoCaches /\ h \in States
  BY BatchSound, HashType DEF IInv, TxCachesEmpty, TypeOK
<1>1. Sound(c) /\ \A v \in States : Over(c, v) = Over(w, Over(app, v))
  BY <1>0, PourFacts
<1>2. /\ Sound(app') /\ GoodBank(check') /\ GoodBank(deliver')
      /\ app' \in [Store -> Cache] /\ check' \in Bank /\ deliver' \in Bank
      /\ TxCachesEmpty'
      /\ deliver'.block = Pour(deliver.block, c)
      /\ Covers(deliver'.block, app')
  BY <1>0, <1>1, AppendStep DEF InitChain
<1>3. Over(app, h) = Over(deliver.block, h) /\ Over(app, h) \in States
  BY <1>0, OverType DEF IInv, InitChain, Sound
<1>4. Over(deliver'.block, h) = Over(c, Over(app, h))
  BY <1>0, <1>1, <1>2, <1>3, PourFacts DEF GoodBank
<1>5. Over(c, Over(app, h)) = Over(c, h)
  <2>1. Over(app, Over(app, h)) = Over(app, h)
    BY <1>0, OverIdempotent DEF Sound
  <2> QED
    BY <1>0, <1>1, <1>3, <2>1
<1>6. Over(app', Hash(disk')) = Over(deliver'.block, Hash(disk'))
  BY <1>4, <1>5 DEF InitChain
<1>7. TypeOK' /\ BlockGasBounded'
  BY <1>2 DEF IInv, TypeOK, InitChain, BlockGasBounded
<1> QED
  BY <1>2, <1>6, <1>7 DEF IInv

LEMMA MaxGasType ==
    ASSUME NEW p
    PROVE  MeterFor(MaxGas(p)) \in Meter /\ MeterFor(MaxGas(p)).consumed = 0
<1>1. MaxGas(p) \in Int /\ MaxGas(p) <= GasMax
  BY BaseAppAssumption, GasMaxAssumption DEF MaxGas
<1> QED
  BY <1>1, MeterForType

LEMMA BeginBlockIInv ==
    ASSUME IInv, NEW w \in Batches, BeginBlock(w)
    PROVE  IInv'
<1>0. Sound(w) /\ Sound(app) /\ GoodBank(deliver) /\ deliver.tx = NoCaches
  BY BatchSound DEF IInv, TxCachesEmpty
<1>1. Sound(Pour(app, w))
  BY <1>0, PourFacts
<1>2. /\ Sound(app') /\ GoodBank(check') /\ GoodBank(deliver')
      /\ app' \in [Store -> Cache] /\ check' \in Bank /\ deliver' \in Bank
      /\ TxCachesEmpty'
      /\ Covers(deliver'.block, app')
  BY <1>0, <1>1, AppendStep DEF BeginBlock
<1>3. checkMeter' \in Meter /\ deliverMeter' \in Meter /\ deliverMeter'.consumed = 0
  BY MaxGasType DEF BeginBlock
<1>4. TypeOK'
  BY <1>2, <1>3 DEF IInv, TypeOK, BeginBlock
<1>5. BlockGasBounded' /\ phase' = "block"
  BY <1>3 DEF BlockGasBounded, BeginBlock
<1> QED
  BY <1>2, <1>4, <1>5 DEF IInv

LEMMA EndBlockIInv ==
    ASSUME IInv, NEW w \in Batches, EndBlock(w)
    PROVE  IInv'
<1> DEFINE t == TakeBlockCache(app, deliver)
           c == Pour(t, w)
           d == [deliver EXCEPT !.block = NoCaches]
           h == Hash(disk)
<1>0. Sound(w) /\ Sound(app) /\ GoodBank(deliver) /\ deliver.tx = NoCaches /\ h \in States
  BY BatchSound, HashType DEF IInv, TxCachesEmpty, TypeOK
<1>1. Sound(t)
  BY <1>0, TakeFacts DEF GoodBank
<1>2. Sound(c)
  BY <1>0, <1>1, PourFacts
<1>3. GoodBank(d) /\ d.tx = NoCaches /\ d.block = NoCaches
  BY <1>0, NoCachesFacts DEF GoodBank, Bank, Sound
<1>4. /\ Sound(app') /\ GoodBank(check') /\ GoodBank(deliver')
      /\ app' \in [Store -> Cache] /\ check' \in Bank /\ deliver' \in Bank
      /\ TxCachesEmpty'
      /\ deliver'.block = Pour(NoCaches, c)
      /\ Covers(deliver'.block, app')
  BY <1>2, <1>3, AppendStep DEF EndBlock
<1>5. Over(deliver'.block, h) = Over(c, h)
  BY <1>0, <1>2, <1>4, PourFacts, NoCachesFacts
<1>6. Over(app', Hash(disk')) = Over(deliver'.block, Hash(disk'))
  BY <1>5 DEF EndBlock
<1>7. TypeOK' /\ BlockGasBounded'
  BY <1>4 DEF IInv, TypeOK, EndBlock, BlockGasBounded
<1> QED
  BY <1>4, <1>6, <1>7 DEF IInv

LEMMA DeliverTxIInv ==
    ASSUME IInv, NEW tx \in Txs, DeliverTx(tx)
    PROVE  IInv'
<1> DEFINE o == Outcome(deliver, deliverMeter, tx)
<1>0. /\ Sound(app) /\ GoodBank(deliver) /\ deliver.tx = NoCaches
      /\ deliverMeter \in Meter /\ Covers(deliver.block, app)
      /\ GasFits(deliverMeter, tx)
  BY DEF IInv, TxCachesEmpty, TypeOK, DeliverTx
<1>1. /\ deliver' = o /\ deliverMeter' \in Meter
      /\ \/ deliverMeter' = deliverMeter
         \/ /\ ~IsOutOfGas(deliverMeter)
            /\ deliverMeter' = [deliverMeter EXCEPT !.consumed = @ + tx.gas]
  BY <1>0, RunTxDeliver DEF DeliverTx
<1>2. GoodBank(deliver') /\ deliver'.tx = NoCaches /\ Covers(deliver'.block, app)
  BY <1>0, <1>1, OutcomeFacts
<1>3. TypeOK'
  BY <1>1, <1>2 DEF IInv, TypeOK, DeliverTx, stores, GoodBank
<1>4. TxCachesEmpty' /\ Sound(app') /\ GoodBank(check') /\ Covers(deliver'.block, app')
  BY <1>2 DEF IInv, TxCachesEmpty, DeliverTx, stores
<1>5. BlockGasBounded'
  <2>1. CASE deliverMeter' = deliverMeter
    BY <2>1 DEF IInv, BlockGasBounded
  <2>2. CASE /\ ~IsOutOfGas(deliverMeter)
             /\ deliverMeter' = [deliverMeter EXCEPT !.consumed = @ + tx.gas]
    <3>1. CASE deliverMeter.infinite
      BY <1>0, <2>2, <3>1 DEF BlockGasBounded, Meter
    <3>2. CASE ~deliverMeter.infinite
      <4>1. deliverMeter.consumed < deliverMeter.limit
        BY <1>0, <2>2, <3>2, GasMaxAssumption DEF IsOutOfGas, Meter, Gas
      <4>2. /\ deliverMeter'.consumed = deliverMeter.consumed + tx.gas
            /\ deliverMeter'.limit = deliverMeter.limit
        BY <1>0, <2>2 DEF Meter
      <4>3. deliverMeter'.consumed < deliverMeter'.limit + tx.gas
        BY <1>0, <4>1, <4>2, TxFacts, GasMaxAssumption DEF Meter, Gas
      <4> QED
        BY <4>3 DEF BlockGasBounded
    <3> QED
      BY <1>0, <3>1, <3>2 DEF Meter
  <2> QED
    BY <1>1, <2>1, <2>2
<1> QED
  BY <1>2, <1>3, <1>4, <1>5 DEF IInv, DeliverTx

LEMMA CheckTxIInv ==
    ASSUME IInv, NEW tx \in Txs, CheckTx(tx)
    PROVE  IInv'
<1>0. /\ GoodBank(check) /\ check.tx = NoCaches /\ checkMeter \in Meter
      /\ GasFits(checkMeter, tx)
  BY DEF IInv, TxCachesEmpty, TypeOK, CheckTx
<1>1. GoodBank(check') /\ check'.tx = NoCaches /\ checkMeter' \in Meter
  BY <1>0, RunTxCheck DEF CheckTx
<1>2. TypeOK'
  BY <1>1 DEF IInv, TypeOK, CheckTx, stores, GoodBank, Touched
<1> QED
  BY <1>1, <1>2 DEF IInv, CheckTx, stores, TxCachesEmpty, BlockGasBounded

LEMMA CommitIInv ==
    ASSUME IInv, Commit
    PROVE  IInv'
<1>1. Fresh'
  BY DEF Commit, Fresh, ResetCheck
<1>2. disk' \in [Store -> Seq(Content)]
  BY SavedType DEF Commit
<1>3. headVersion' \in Nat
  BY DEF Commit, NextHead, IInv, TypeOK
<1>4. /\ checkMeter' \in Meter /\ deliverMeter' \in Meter /\ BlockGasBounded'
      /\ header' \in Nat /\ phase' \in {"genesis", "idle", "block", "ended"}
      /\ info' = InfoOf(headVersion', disk')
      /\ params' \in {"none", "cached", "saved"} /\ checked' = NothingChecked /\ tears' \in Nat
  BY DEF Commit, IInv, TypeOK, BlockGasBounded
<1> QED
  BY <1>1, <1>2, <1>3, <1>4, FreshIInv

LEMMA RestartIInv ==
    ASSUME disk' \in [Store -> Seq(Content)], tears' \in Nat, NEW saved, Restart(saved)
    PROVE  IInv'
<1>1. Fresh'
  BY DEF Restart, Fresh
<1>2. headVersion' \in Nat
  BY DEF Restart
<1>3. checkMeter' \in Meter /\ deliverMeter' \in Meter /\ deliverMeter'.consumed = 0
  BY MaxGasType DEF Restart
<1>4. /\ BlockGasBounded'
      /\ header' \in Nat /\ phase' \in {"genesis", "idle", "block", "ended"}
      /\ info' = InfoOf(headVersion', disk')
      /\ params' \in {"none", "cached", "saved"} /\ checked' = NothingChecked
  BY <1>3 DEF Restart, BlockGasBounded
<1> QED
  BY <1>1, <1>2, <1>3, <1>4, FreshIInv

LEMMA NextIInv == IInv /\ [Next]_vars => IInv'
<1> SUFFICES ASSUME IInv, [Next]_vars PROVE IInv'
  OBVIOUS
<1>1. CASE \E w \in Batches : InitChain(w) \/ BeginBlock(w) \/ EndBlock(w)
  BY <1>1, InitChainIInv, BeginBlockIInv, EndBlockIInv
<1>2. CASE \E tx \in Txs : DeliverTx(tx) \/ CheckTx(tx)
  BY <1>2, DeliverTxIInv, CheckTxIInv
<1>3. CASE Commit
  BY <1>3, CommitIInv
<1>4. CASE Crash
  BY <1>4, RestartIInv DEF Crash, IInv, TypeOK
<1>5. CASE CrashInCommit
  <2>1. disk' \in [Store -> Seq(Content)] /\ tears' \in Nat
    BY <1>5, SavedType DEF CrashInCommit, IInv, TypeOK
  <2> QED
    BY <1>5, <2>1, RestartIInv DEF CrashInCommit
<1>6. CASE UNCHANGED vars
  BY <1>6 DEF vars, stores, modes, IInv, TypeOK, TxCachesEmpty, BlockGasBounded
<1> QED
  BY <1>1, <1>2, <1>3, <1>4, <1>5, <1>6 DEF Next

LEMMA SpecIInv == Spec => []IInv
  BY InitIInv, NextIInv, PTL DEF Spec

-----------------------------------------------------------------------------
(***************************************************************************)
(* The handlers keep every piece of the application well typed, crashes    *)
(* included.                                                               *)
(***************************************************************************)
THEOREM BaseAppTypeCorrect == Spec => []TypeOK
<1>1. IInv => TypeOK
  BY DEF IInv
<1> QED
  BY <1>1, SpecIInv, PTL

(***************************************************************************)
(* Between two calls both modes have an empty tx cache: no error path of   *)
(* run_tx leaves writes for the next transaction to upgrade.               *)
(***************************************************************************)
THEOREM BaseAppTxCachesEmpty == Spec => []TxCachesEmpty
<1>1. IInv => TxCachesEmpty
  BY DEF IInv
<1> QED
  BY <1>1, SpecIInv, PTL

(***************************************************************************)
(* Whatever the transactions of a block cost, the gas charged to it stays  *)
(* below its limit plus the gas of one transaction.                        *)
(***************************************************************************)
THEOREM BaseAppBlockGasBounded == Spec => []BlockGasBounded
<1>1. IInv => BlockGasBounded
  BY DEF IInv
<1> QED
  BY <1>1, SpecIInv, PTL

(***************************************************************************)
(* Outside a block the bank the hooks write to and the bank transactions   *)
(* write to read the same.                                                 *)
(***************************************************************************)
THEOREM BaseAppModesAgree == Spec => []ModesAgree
<1>1. IInv => ModesAgree
  <2> SUFFICES ASSUME IInv, phase # "block" PROVE AppView = View(deliver)
    BY DEF ModesAgree
  <2>1. View(deliver) = Over(deliver.block, Hash(disk))
    BY BlockView DEF IInv, TypeOK, TxCachesEmpty
  <2>2. AppView = Over(app, Hash(disk))
    BY DEF AppView, Over, Hash
  <2> QED
    BY <2>1, <2>2 DEF IInv
<1> QED
  BY <1>1, SpecIInv, PTL

(***************************************************************************)
(* deliver_tx is atomic in every reachable state, for every transaction.   *)
(***************************************************************************)
THEOREM BaseAppDeliverAtomic == Spec => []DeliverAtomic
<1>1. IInv => DeliverAtomic
  <2> SUFFICES ASSUME IInv, NEW tx \in Txs, GasFits(deliverMeter, tx)
               PROVE  View(RunTx("deliver", deliver, deliverMeter, tx).bank) =
                        IF ~tx.decodes \/ IsOutOfGas(deliverMeter) \/ ~tx.anteOk
                        THEN View(deliver)
                        ELSE IF ~tx.msgsOk THEN Over(tx.ante, View(deliver))
                        ELSE Over(tx.msgs, Over(tx.ante, View(deliver)))
    BY DEF DeliverAtomic
  <2> DEFINE o == Outcome(deliver, deliverMeter, tx)
             h == Hash(disk)
  <2>0. /\ disk \in [Store -> Seq(Content)] /\ h \in States
        /\ GoodBank(deliver) /\ deliver.tx = NoCaches /\ deliverMeter \in Meter
    BY HashType DEF IInv, TypeOK, TxCachesEmpty
  <2>1. RunTx("deliver", deliver, deliverMeter, tx).bank = o
    BY <2>0, RunTxDeliver
  <2>2. /\ GoodBank(o) /\ o.tx = NoCaches
        /\ Over(o.block, h) =
             IF ~tx.decodes \/ IsOutOfGas(deliverMeter) \/ ~tx.anteOk
             THEN Over(deliver.block, h)
             ELSE IF ~tx.msgsOk THEN Over(tx.ante, Over(deliver.block, h))
             ELSE Over(tx.msgs, Over(tx.ante, Over(deliver.block, h)))
    BY <2>0, OutcomeFacts
  <2>3. View(deliver) = Over(deliver.block, h) /\ View(o) = Over(o.block, h)
    BY <2>0, <2>2, BlockView
  <2> QED
    BY <2>1, <2>2, <2>3
<1> QED
  BY <1>1, SpecIInv, PTL

(***************************************************************************)
(* check_tx shows the mempool exactly the ante part of what it accepts.    *)
(***************************************************************************)
THEOREM BaseAppCheckAppliesAnte == Spec => []CheckAppliesAnte
<1>1. IInv => CheckAppliesAnte
  <2> SUFFICES ASSUME IInv, NEW tx \in Txs, GasFits(checkMeter, tx)
               PROVE  View(RunTx("check", check, checkMeter, tx).bank) =
                        IF tx.decodes /\ tx.anteOk THEN Over(tx.ante, View(check))
                        ELSE View(check)
    BY DEF CheckAppliesAnte
  <2> DEFINE b == RunTx("check", check, checkMeter, tx).bank
             h == Hash(disk)
  <2>0. /\ disk \in [Store -> Seq(Content)] /\ h \in States
        /\ GoodBank(check) /\ check.tx = NoCaches /\ checkMeter \in Meter
    BY HashType DEF IInv, TypeOK, TxCachesEmpty
  <2>1. /\ GoodBank(b) /\ b.tx = NoCaches
        /\ Over(b.block, h) =
             IF tx.decodes /\ tx.anteOk THEN Over(tx.ante, Over(check.block, h))
             ELSE Over(check.block, h)
    BY <2>0, RunTxCheck
  <2>2. View(check) = Over(check.block, h) /\ View(b) = Over(b.block, h)
    BY <2>0, <2>1, BlockView
  <2> QED
    BY <2>1, <2>2
<1> QED
  BY <1>1, SpecIInv, PTL

-----------------------------------------------------------------------------
(* Check mode beside the application bank.                                 *)

\* CheckFollowsApp in terms of families of caches.
CInv ==
    \A s \in Store, k \in Key : k \notin checked[s] =>
        Over(check.block, Hash(disk))[s][k] = Over(app, Hash(disk))[s][k]

LEMMA CInvIsCheckFollowsApp ==
    ASSUME IInv
    PROVE  CheckFollowsApp <=> CInv
<1>1. View(check) = Over(check.block, Hash(disk))
  BY BlockView DEF IInv, TypeOK, TxCachesEmpty
<1>2. AppView = Over(app, Hash(disk))
  BY DEF AppView, Over, Hash
<1> QED
  BY ONLY <1>1, <1>2 DEF CheckFollowsApp, CInv

\* What a family writes at a key depends on that key alone.
LEMMA OverPoint ==
    ASSUME NEW c, NEW x, NEW y, NEW s \in Store, NEW k \in Key, x[s][k] = y[s][k]
    PROVE  Over(c, x)[s][k] = Over(c, y)[s][k]
  BY DEF Over, Overlay

LEMMA OverUntouched ==
    ASSUME NEW c, NEW x, NEW s \in Store, NEW k \in Key, k \notin Touched(c)[s]
    PROVE  Over(c, x)[s][k] = x[s][k]
<1>1. ~(k \in c[s].delete \/ c[s].storage[k] # None)
  BY DEF Touched
<1> QED
  BY <1>1 DEF Over, Overlay

\* The hooks append the application bank, which reads the same over itself.
LEMMA AppendCheck ==
    ASSUME IInv, CInv, NEW c, Sound(c), app' = c, check' = AppendBlockCache(check, c),
           disk' = disk, checked' = checked,
           Over(c, Over(app, Hash(disk))) = Over(c, Hash(disk))
    PROVE  CInv'
<1> DEFINE h == Hash(disk)
<1>1. h \in States /\ GoodBank(check)
  BY HashType DEF IInv, TypeOK
<1>2. Over(check'.block, h) = Over(c, Over(check.block, h))
  <2>1. check'.block = Pour(check.block, c)
    BY <1>1, BankOps
  <2> QED
    BY <1>1, <2>1, PourFacts DEF GoodBank
<1>3. ASSUME NEW s \in Store, NEW k \in Key, k \notin checked[s]
      PROVE  Over(check'.block, h)[s][k] = Over(c, h)[s][k]
  <2>1. Over(check.block, h)[s][k] = Over(app, h)[s][k]
    BY <1>3 DEF CInv
  <2>2. Over(c, Over(check.block, h))[s][k] = Over(c, Over(app, h))[s][k]
    <3> DEFINE x == Over(check.block, h)
               y == Over(app, h)
    <3>1. x[s][k] = y[s][k]
      BY <2>1
    <3>2. Over(c, x)[s][k] = Over(c, y)[s][k]
      <4> HIDE DEF x, y
      <4> QED
        BY ONLY <3>1, OverPoint, s \in Store, k \in Key
    <3> QED
      BY <3>2
  <2> QED
    BY <1>2, <2>2
<1> QED
  BY <1>3 DEF CInv

LEMMA HookCheck ==
    ASSUME IInv, CInv, NEW w \in Batches, InitChain(w) \/ BeginBlock(w) \/ EndBlock(w)
    PROVE  CInv'
<1> DEFINE h == Hash(disk)
<1>0. /\ Sound(w) /\ Sound(app) /\ GoodBank(deliver) /\ h \in States
      /\ Over(app, h) \in States /\ Over(app, Over(app, h)) = Over(app, h)
  BY BatchSound, HashType, OverType, OverIdempotent DEF IInv, TypeOK, Sound
<1>1. CASE InitChain(w) \/ BeginBlock(w)
  <2> DEFINE c == Pour(app, w)
  <2>1. Sound(c) /\ \A v \in States : Over(c, v) = Over(w, Over(app, v))
    BY <1>0, PourFacts
  <2>2. Over(c, Over(app, h)) = Over(c, h)
    BY <1>0, <2>1
  <2>3. /\ app' = c /\ check' = AppendBlockCache(check, c)
        /\ disk' = disk /\ checked' = checked
    BY <1>1 DEF InitChain, BeginBlock
  <2> QED
    BY <2>1, <2>2, <2>3, AppendCheck
<1>2. CASE EndBlock(w)
  <2> DEFINE t == TakeBlockCache(app, deliver)
             c == Pour(t, w)
  <2>1. Sound(t) /\ \A v \in States : Over(t, v) = Over(deliver.block, Over(app, v))
    BY <1>0, TakeFacts DEF GoodBank
  <2>2. Sound(c) /\ \A v \in States : Over(c, v) = Over(w, Over(t, v))
    BY <1>0, <2>1, PourFacts
  <2>3. Over(c, Over(app, h)) = Over(c, h)
    BY <1>0, <2>1, <2>2
  <2>4. /\ app' = c /\ check' = AppendBlockCache(check, c)
        /\ disk' = disk /\ checked' = checked
    BY <1>2 DEF EndBlock
  <2> QED
    BY <2>2, <2>3, <2>4, AppendCheck
<1> QED
  BY <1>1, <1>2

LEMMA CheckTxCheck ==
    ASSUME IInv, CInv, NEW tx \in Txs, CheckTx(tx)
    PROVE  CInv'
<1> DEFINE h == Hash(disk)
<1>0. /\ GoodBank(check) /\ check.tx = NoCaches /\ checkMeter \in Meter
      /\ GasFits(checkMeter, tx) /\ h \in States
  BY HashType DEF IInv, TypeOK, TxCachesEmpty, CheckTx
<1>1. Over(check'.block, h) = IF tx.decodes /\ tx.anteOk
                              THEN Over(tx.ante, Over(check.block, h))
                              ELSE Over(check.block, h)
  BY <1>0, RunTxCheck DEF CheckTx
<1>2. /\ disk' = disk /\ app' = app
      /\ checked' = IF tx.decodes /\ tx.anteOk THEN [s \in Store |-> checked[s] \cup Touched(tx.ante)[s]]
                    ELSE checked
  BY DEF CheckTx, stores
<1>3. ASSUME NEW s \in Store, NEW k \in Key, k \notin checked'[s]
      PROVE  Over(check'.block, h)[s][k] = Over(app, h)[s][k]
  <2>1. Over(check'.block, h)[s][k] = Over(check.block, h)[s][k]
    <3>1. CASE tx.decodes /\ tx.anteOk
      <4>1. k \notin Touched(tx.ante)[s]
        BY ONLY <1>2, <1>3, <3>1, s \in Store
      <4> QED
        BY <1>1, <3>1, <4>1, OverUntouched
    <3>2. CASE ~(tx.decodes /\ tx.anteOk)
      BY ONLY <1>1, <3>2
    <3> QED
      BY ONLY <3>1, <3>2
  <2>2. k \notin checked[s]
    BY ONLY <1>2, <1>3, s \in Store
  <2> QED
    BY <2>1, <2>2 DEF CInv
<1> QED
  BY <1>2, <1>3 DEF CInv

\* Fresh caches read alike over whatever is on disk.
LEMMA FreshCheck ==
    ASSUME Fresh, disk \in [Store -> Seq(Content)]
    PROVE  CInv
<1>1. check.block = NoCaches /\ app = NoCaches
  BY DEF Fresh, EmptyBank
<1> QED
  BY ONLY <1>1 DEF CInv

LEMMA NextCheck == IInv /\ IInv' /\ CInv /\ [Next]_vars => CInv'
<1> SUFFICES ASSUME IInv, IInv', CInv, [Next]_vars PROVE CInv'
  OBVIOUS
<1>1. CASE \E w \in Batches : InitChain(w) \/ BeginBlock(w) \/ EndBlock(w)
  BY <1>1, HookCheck
<1>2. ASSUME NEW tx \in Txs, DeliverTx(tx)
      PROVE  CInv'
  BY <1>2 DEF DeliverTx, stores, CInv
<1>3. ASSUME NEW tx \in Txs, CheckTx(tx)
      PROVE  CInv'
  BY <1>3, CheckTxCheck
<1>4. CASE Commit \/ Crash \/ CrashInCommit
  <2>1. Fresh'
    BY <1>4 DEF Commit, Crash, CrashInCommit, Restart, Fresh, ResetCheck
  <2>2. (disk \in [Store -> Seq(Content)])'
    BY DEF IInv, TypeOK
  <2> QED
    BY <2>1, <2>2, FreshCheck, PTL
<1>5. CASE UNCHANGED vars
  BY <1>5 DEF vars, stores, modes, CInv
<1> QED
  BY <1>1, <1>2, <1>3, <1>4, <1>5 DEF Next

(***************************************************************************)
(* Check mode never shows the mempool anything but the state the hooks     *)
(* left and the ante writes of what was checked since the last commit.     *)
(***************************************************************************)
THEOREM BaseAppCheckFollowsApp == Spec => []CheckFollowsApp
<1>1. Init => CInv
  <2>1. Init => Fresh /\ disk \in [Store -> Seq(Content)]
    BY DEF Init, Fresh
  <2> QED
    BY <2>1, FreshCheck
<1>2. IInv /\ CInv => CheckFollowsApp
  BY CInvIsCheckFollowsApp
<1> QED
  BY <1>1, <1>2, NextCheck, SpecIInv, PTL DEF Spec

-----------------------------------------------------------------------------
(***************************************************************************)
(* What is on disk, wherever a crash falls.                                *)
(***************************************************************************)

\* How far the stores are apart: the part of InfoMatchesDisk a save can break.
Spread == \A s1, s2 \in Store : Len(disk[s1]) - Len(disk[s2]) <= tears

LEMMA RestartInfo ==
    ASSUME Spread', NEW saved, Restart(saved)
    PROVE  InfoMatchesDisk'
<1>1. info' = InfoOf(headVersion', disk') /\ \E s \in Store : headVersion' = Len(disk'[s])
  BY DEF Restart
<1> QED
  BY <1>1 DEF InfoMatchesDisk, InfoOf, Hash, Spread

LEMMA SavedLength ==
    ASSUME IInv, NEW s \in Store
    PROVE  Len(Saved(s)) = Len(disk[s]) + 1 /\ Len(disk[s]) \in Nat
  BY DEF IInv, TypeOK, Saved

\* The stores of done are one version further.
LEMMA SpreadAfterSaves ==
    ASSUME IInv, Spread, NEW done \in SUBSET Store,
           disk' = [s \in Store |-> IF s \in done THEN Saved(s) ELSE disk[s]],
           tears' = IF done \in {{}, Store} THEN tears ELSE tears + 1
    PROVE  Spread'
<1>1. ASSUME NEW s \in Store
      PROVE  Len(disk'[s]) = (IF s \in done THEN Len(disk[s]) + 1 ELSE Len(disk[s]))
               /\ Len(disk[s]) \in Nat
  BY SavedLength
<1>2. tears \in Nat
  BY DEF IInv, TypeOK
<1>3. ASSUME NEW s1 \in Store, NEW s2 \in Store
      PROVE  Len(disk'[s1]) - Len(disk'[s2]) <= tears'
  <2>1. Len(disk[s1]) - Len(disk[s2]) <= tears
    BY DEF Spread
  <2>2. CASE done \in {{}, Store}
    <3>1. s1 \in done <=> s2 \in done
      BY ONLY <2>2, s1 \in Store, s2 \in Store
    <3> QED
      BY ONLY <1>1, <1>2, <2>1, <2>2, <3>1, tears' = IF done \in {{}, Store} THEN tears ELSE tears + 1,
              s1 \in Store, s2 \in Store
  <2>3. CASE done \notin {{}, Store}
    <3>1. tears' = tears + 1
      BY ONLY <2>3, tears' = IF done \in {{}, Store} THEN tears ELSE tears + 1
    <3>2. /\ Len(disk[s1]) \in Nat /\ Len(disk[s2]) \in Nat
          /\ Len(disk'[s1]) \in {Len(disk[s1]), Len(disk[s1]) + 1}
          /\ Len(disk'[s2]) \in {Len(disk[s2]), Len(disk[s2]) + 1}
      BY ONLY <1>1, s1 \in Store, s2 \in Store
    <3> DEFINE a == Len(disk[s1])
               b == Len(disk[s2])
               aa == Len(disk'[s1])
               bb == Len(disk'[s2])
    <3>3. a \in Nat /\ b \in Nat /\ aa \in {a, a + 1} /\ bb \in {b, b + 1} /\ a - b <= tears
      BY ONLY <2>1, <3>2
    <3>4. aa - bb <= tears + 1
      <4> HIDE DEF a, b, aa, bb
      <4> QED
        BY ONLY <1>2, <3>3
    <3> QED
      BY ONLY <3>1, <3>4
  <2> QED
    BY ONLY <2>2, <2>3
<1> QED
  BY ONLY <1>3 DEF Spread

LEMMA NextInfo ==
    ASSUME IInv, InfoMatchesDisk, [Next]_vars
    PROVE  InfoMatchesDisk'
<1>0. Spread
  BY DEF InfoMatchesDisk, Spread
<1>1. ASSUME NEW w \in Batches, InitChain(w) \/ BeginBlock(w) \/ EndBlock(w)
      PROVE  InfoMatchesDisk'
  BY <1>1 DEF InitChain, BeginBlock, EndBlock, InfoMatchesDisk, Tree
<1>2. ASSUME NEW tx \in Txs, DeliverTx(tx) \/ CheckTx(tx)
      PROVE  InfoMatchesDisk'
  BY <1>2 DEF DeliverTx, CheckTx, stores, InfoMatchesDisk, Tree
<1>3. CASE Commit
  <2>1. /\ headVersion' = headVersion + 1 /\ info' = InfoOf(headVersion', disk')
        /\ disk' = [s \in Store |-> IF s \in Store THEN Saved(s) ELSE disk[s]]
        /\ tears' = tears
    BY <1>3 DEF Commit, NextHead
  <2>2. Spread'
    BY <1>0, <2>1, SpreadAfterSaves
  <2>3. \E s \in Store : headVersion' = Len(disk'[s])
    BY <2>1, SavedLength DEF InfoMatchesDisk
  <2> QED
    BY <2>1, <2>2, <2>3 DEF InfoMatchesDisk, InfoOf, Hash, Spread
<1>4. CASE Crash
  <2>1. Spread'
    BY <1>0, <1>4 DEF Crash, Spread
  <2> QED
    BY <1>4, <2>1, RestartInfo DEF Crash
<1>5. CASE CrashInCommit
  <2>1. PICK done \in SUBSET Store :
          /\ disk' = [s \in Store |-> IF s \in done THEN Saved(s) ELSE disk[s]]
          /\ tears' = IF done \in {{}, Store} THEN tears ELSE tears + 1
          /\ Restart(params = "saved" \/ (params = "cached" /\ ParamsStore \in done))
    BY <1>5 DEF CrashInCommit
  <2>2. Spread'
    BY <1>0, <2>1, SpreadAfterSaves
  <2> QED
    BY <2>1, <2>2, RestartInfo
<1>6. CASE UNCHANGED vars
  BY <1>6 DEF vars, stores, modes, InfoMatchesDisk, Tree
<1> QED
  BY <1>1, <1>2, <1>3, <1>4, <1>5, <1>6 DEF Next

(***************************************************************************)
(* What info answers is what some store has on disk, and every other store *)
(* is as many versions away from it as crashes fell between the saves of   *)
(* two stores at most.                                                     *)
(***************************************************************************)
THEOREM BaseAppInfoMatchesDisk == Spec => []InfoMatchesDisk
<1>1. Init => InfoMatchesDisk
  BY BaseAppAssumption DEF Init, InfoMatchesDisk, InfoOf, Hash
<1>2. IInv /\ InfoMatchesDisk /\ [Next]_vars => InfoMatchesDisk'
  BY NextInfo
<1> QED
  BY <1>1, <1>2, SpecIInv, PTL DEF Spec

-----------------------------------------------------------------------------
(* The handlers implement the ledger.                                      *)

LEMMA LedgerWrite ==
    ASSUME NEW w, NEW v
    PROVE  Ledger!Write(w, v) = Over(w, v)
  BY DEF Ledger!Write, Ledger!Overlay, Over, Overlay

LEMMA InitLedger == Init => Ledger!Init
<1> SUFFICES ASSUME Init PROVE Ledger!Init
  OBVIOUS
<1>1. deliver = EmptyBank /\ disk = [s \in Store |-> <<>>] /\ phase = "genesis"
  BY DEF Init
<1>2. View(deliver) = Hash(disk)
  <2>1. GoodBank(deliver) /\ deliver.tx = NoCaches /\ deliver.block = NoCaches
    BY <1>1, NoCachesFacts DEF EmptyBank, GoodBank, Bank, Sound
  <2>2. disk \in [Store -> Seq(Content)]
    BY <1>1
  <2> QED
    BY <2>1, <2>2, BlockView, HashType, NoCachesFacts
<1>3. Hash(disk) = [s \in Store |-> Empty]
  BY <1>1 DEF Hash, Tree
<1> QED
  BY <1>1, <1>2, <1>3 DEF Ledger!Init, Ledger!Empty, Empty

\* The view of deliver mode, now and after a step that keeps the disk.
LEMMA DeliverView ==
    IInv => View(deliver) = Over(deliver.block, Hash(disk)) /\ View(deliver) \in States
  BY BlockView DEF IInv, TypeOK, TxCachesEmpty

LEMMA DeliverViewNext ==
    IInv' => View(deliver)' = Over(deliver'.block, Hash(disk')) /\ View(deliver)' \in States
<1>1. IInv' => (View(deliver) = Over(deliver.block, Hash(disk)) /\ View(deliver) \in States)'
  BY DeliverView, PTL
<1> QED
  BY <1>1

LEMMA HookLedger ==
    ASSUME IInv, IInv', NEW w \in Batches, InitChain(w) \/ BeginBlock(w)
    PROVE  View(deliver)' = Over(w, View(deliver))
<1> DEFINE c == Pour(app, w)
           h == Hash(disk)
<1>0. /\ Sound(w) /\ Sound(app) /\ GoodBank(deliver) /\ h \in States
      /\ disk' = disk /\ deliver' = AppendBlockCache(deliver, c) /\ phase # "block"
  BY BatchSound, HashType DEF IInv, TypeOK, InitChain, BeginBlock
<1>1. Sound(c) /\ \A v \in States : Over(c, v) = Over(w, Over(app, v))
  BY <1>0, PourFacts
<1>2. deliver'.block = Pour(deliver.block, c)
  BY <1>0, <1>1, BankOps
<1>3. View(deliver) = Over(app, h) /\ View(deliver) = Over(deliver.block, h)
        /\ View(deliver) \in States
  BY <1>0, DeliverView DEF IInv
<1>4. View(deliver)' = Over(deliver'.block, h)
  BY <1>0, DeliverViewNext
<1>5. Over(deliver'.block, h) = Over(c, View(deliver))
  BY <1>0, <1>1, <1>2, <1>3, PourFacts DEF GoodBank
<1>6. Over(app, View(deliver)) = View(deliver)
  BY <1>0, <1>3, OverIdempotent DEF Sound
<1> QED
  BY <1>1, <1>3, <1>4, <1>5, <1>6

LEMMA EndBlockLedger ==
    ASSUME IInv, IInv', NEW w \in Batches, EndBlock(w)
    PROVE  View(deliver)' = Over(w, View(deliver))
<1> DEFINE t == TakeBlockCache(app, deliver)
           c == Pour(t, w)
           d == [deliver EXCEPT !.block = NoCaches]
           h == Hash(disk)
<1>0. /\ Sound(w) /\ Sound(app) /\ GoodBank(deliver) /\ h \in States
      /\ disk' = disk /\ deliver' = AppendBlockCache(d, c)
      /\ Covers(deliver.block, app)
  BY BatchSound, HashType DEF IInv, TypeOK, EndBlock
<1>1. Sound(t) /\ Over(t, h) = Over(deliver.block, Over(app, h))
  BY <1>0, TakeFacts DEF GoodBank
<1>2. Over(t, h) = View(deliver)
  BY <1>0, <1>1, DeliverView DEF Covers
<1>3. Sound(c) /\ Over(c, h) = Over(w, Over(t, h))
  BY <1>0, <1>1, PourFacts
<1>4. GoodBank(d) /\ d.block = NoCaches
  BY <1>0, NoCachesFacts DEF GoodBank, Bank, Sound
<1>5. deliver'.block = Pour(NoCaches, c)
  <2>1. AppendBlockCache(d, c).block = Pour(d.block, c)
    BY <1>3, <1>4, BankOps
  <2> QED
    BY <1>0, <1>4, <2>1
<1>6. Over(deliver'.block, h) = Over(c, h)
  BY <1>0, <1>3, <1>5, PourFacts, NoCachesFacts
<1> QED
  BY <1>0, <1>2, <1>3, <1>6, DeliverViewNext

LEMMA DeliverTxLedger ==
    ASSUME IInv, IInv', NEW tx \in Txs, DeliverTx(tx)
    PROVE  View(deliver)' \in {View(deliver), Over(tx.ante, View(deliver)),
                              Over(tx.msgs, Over(tx.ante, View(deliver)))}
<1> DEFINE o == Outcome(deliver, deliverMeter, tx)
           h == Hash(disk)
<1>0. /\ GoodBank(deliver) /\ deliver.tx = NoCaches /\ deliverMeter \in Meter
      /\ GasFits(deliverMeter, tx) /\ h \in States /\ disk' = disk
  BY HashType DEF IInv, TxCachesEmpty, TypeOK, DeliverTx, stores
<1>1. deliver' = o
  BY <1>0, RunTxDeliver DEF DeliverTx
<1>2. Over(o.block, h) \in {Over(deliver.block, h), Over(tx.ante, Over(deliver.block, h)),
                           Over(tx.msgs, Over(tx.ante, Over(deliver.block, h)))}
  BY <1>0, OutcomeFacts
<1> QED
  BY <1>0, <1>1, <1>2, DeliverView, DeliverViewNext

\* What commit saves of a store is what deliver mode read of it, or keeps a leaf.
LEMMA SavedPersists ==
    ASSUME IInv, NEW s \in Store
    PROVE  \E m \in Content :
              /\ Saved(s) = Append(disk[s], m)
              /\ Ledger!Persisted(Ledger!Latest(s), View(deliver)[s], m)
<1> DEFINE tree == Tree(disk, s)
           c == SetsThenDeletes(app[s], deliver.block[s])
           m == CommitTree(tree, c)
           new == View(deliver)[s]
<1>0. /\ app[s] \in Cache /\ deliver.block[s] \in Cache /\ Hash(disk) \in States
      /\ Sound(app) /\ Sound(deliver.block)
  BY HashType DEF IInv, TypeOK, Bank, GoodBank
<1>1. tree \in Content /\ Hash(disk)[s] = tree /\ Ledger!Latest(s) = tree
  BY <1>0 DEF Hash, States, Tree, Ledger!Latest, Ledger!Empty, Empty
<1>2. c \in Cache /\ Overlay(c, tree) = Overlay(deliver.block[s], Overlay(app[s], tree))
  BY <1>0, <1>1, SetsThenDeletesFacts
<1>3. new = Overlay(c, tree)
  <2>1. View(deliver) = Over(deliver.block, Over(app, Hash(disk)))
    BY <1>0, DeliverView DEF IInv, Covers
  <2> QED
    BY <1>1, <1>2, <2>1 DEF Over
<1>4. m \in Content /\ (\/ m = new
                        \/ \E k \in Present(tree) \cap c.delete :
                             /\ Present(tree) \subseteq c.delete
                             /\ m = [new EXCEPT ![k] = tree[k]])
  <2> HIDE DEF tree, c, new
  <2> QED
    BY <1>1, <1>2, <1>3, CommitTreeFacts
<1>5. Present(tree) \subseteq c.delete => Present(tree) \cap Present(new) = {}
  BY <1>2, <1>3 DEF Present, Overlay
<1>6. Ledger!Persisted(tree, new, m)
  BY <1>4, <1>5 DEF Ledger!Persisted, Ledger!Present, Present
<1>7. Saved(s) = Append(disk[s], m)
  BY DEF Saved
<1> QED
  BY <1>1, <1>4, <1>6, <1>7

\* A commit, whole or stopped half way, appends what deliver mode read.
LEMMA AppendLedger ==
    ASSUME IInv, NEW done \in SUBSET Store,
           disk' = [s \in Store |-> IF s \in done THEN Saved(s) ELSE disk[s]]
    PROVE  Ledger!AppendTo(done)
<1> DEFINE Saves(s, m) == /\ Saved(s) = Append(disk[s], m)
                          /\ Ledger!Persisted(Ledger!Latest(s), View(deliver)[s], m)
           saved == [s \in Store |-> CHOOSE m \in Content : Saves(s, m)]
<1>1. ASSUME NEW s \in Store
      PROVE  saved[s] \in Content /\ Saves(s, saved[s])
  <2>1. \E m \in Content : Saves(s, m)
    BY SavedPersists
  <2> HIDE DEF Saves
  <2> QED
    BY <2>1
<1>2. saved \in [Store -> Content]
  BY <1>1
<1>3. disk' = [s \in Store |-> IF s \in done THEN Append(disk[s], saved[s]) ELSE disk[s]]
  BY <1>1
<1>4. Ledger!Content = Content
  BY DEF Ledger!Content, Content
<1> HIDE DEF saved
<1> QED
  BY <1>1, <1>2, <1>3, <1>4 DEF Ledger!AppendTo

\* With empty caches deliver mode reads the latest versions.
LEMMA FreshLedger ==
    ASSUME IInv', deliver' = EmptyBank
    PROVE  View(deliver)' = [s \in Store |-> Ledger!Latest(s)']
<1>1. View(deliver)' = Hash(disk')
  <2>1. disk' \in [Store -> Seq(Content)] /\ deliver'.block = NoCaches
    BY DEF IInv, TypeOK, EmptyBank
  <2> QED
    BY <2>1, HashType, DeliverViewNext, NoCachesFacts
<1> QED
  BY <1>1 DEF Hash, Tree, Ledger!Latest, Ledger!Empty, Empty

\* The process comes back: the ledger falls back to its history.
LEMMA RestartLedger ==
    ASSUME IInv', NEW saved, Restart(saved)
    PROVE  /\ View(deliver)' = [s \in Store |-> Ledger!Latest(s)']
           /\ \E s \in Store : phase' = IF disk'[s] = <<>> THEN "genesis" ELSE "idle"
<1>1. deliver' = EmptyBank /\ phase' = IF headVersion' = 0 THEN "genesis" ELSE "idle"
  BY DEF Restart
<1>2. PICK s \in Store : headVersion' = Len(disk'[s])
  BY DEF Restart
<1>3. headVersion' = 0 <=> disk'[s] = <<>>
  BY <1>2 DEF IInv, TypeOK
<1> QED
  BY <1>1, <1>3, FreshLedger

LEMMA NextLedger ==
    ASSUME IInv, IInv', [Next]_vars
    PROVE  [Ledger!Next]_(Ledger!ledger)
<1>1. ASSUME NEW w \in Batches, InitChain(w) \/ BeginBlock(w)
      PROVE  Ledger!Hook
  <2>1. View(deliver)' = Ledger!Write(w, View(deliver))
    BY <1>1, HookLedger, LedgerWrite
  <2>2. disk' = disk /\ <<phase, phase'>> \in {<<"genesis", "idle">>, <<"idle", "block">>}
    BY <1>1 DEF InitChain, BeginBlock
  <2> QED
    BY <2>1, <2>2 DEF Ledger!Hook
<1>2. ASSUME NEW w \in Batches, EndBlock(w)
      PROVE  Ledger!Hook
  <2>1. View(deliver)' = Ledger!Write(w, View(deliver))
    BY <1>2, EndBlockLedger, LedgerWrite
  <2>2. disk' = disk /\ phase = "block" /\ phase' = "ended"
    BY <1>2 DEF EndBlock
  <2> QED
    BY <2>1, <2>2 DEF Ledger!Hook
<1>3. ASSUME NEW tx \in Txs, DeliverTx(tx)
      PROVE  [Ledger!DeliverTx]_(Ledger!ledger)
  <2>1. disk' = disk /\ phase' = phase /\ phase = "block"
    BY <1>3 DEF DeliverTx, stores
  <2>2. CASE View(deliver)' = View(deliver)
    BY <2>1, <2>2 DEF Ledger!ledger
  <2>3. CASE View(deliver)' \in {Ledger!Write(tx.ante, View(deliver)),
                                Ledger!Write(tx.msgs, Ledger!Write(tx.ante, View(deliver)))}
    BY <2>1, <2>3 DEF Ledger!DeliverTx
  <2> QED
    BY <1>3, <2>2, <2>3, DeliverTxLedger, LedgerWrite
<1>4. ASSUME NEW tx \in Txs, CheckTx(tx)
      PROVE  UNCHANGED Ledger!ledger
  BY <1>4 DEF CheckTx, stores, View, Tree, Ledger!ledger
<1>5. CASE Commit
  <2>1. /\ disk' = [s \in Store |-> IF s \in Store THEN Saved(s) ELSE disk[s]]
        /\ phase = "ended" /\ phase' = "idle" /\ deliver' = EmptyBank
    BY <1>5 DEF Commit
  <2>2. Ledger!AppendTo(Store)
    BY <2>1, AppendLedger
  <2> QED
    BY <2>1, <2>2, FreshLedger DEF Ledger!Commit, Ledger!Next
<1>6. CASE Crash
  <2>1. disk' = disk
    BY <1>6 DEF Crash
  <2> QED
    BY <1>6, <2>1, RestartLedger DEF Crash, Ledger!Crash, Ledger!Next
<1>7. CASE CrashInCommit
  <2>1. PICK done \in SUBSET Store :
          /\ disk' = [s \in Store |-> IF s \in done THEN Saved(s) ELSE disk[s]]
          /\ Restart(params = "saved" \/ (params = "cached" /\ ParamsStore \in done))
    BY <1>7 DEF CrashInCommit
  <2>2. Ledger!AppendTo(done) /\ phase = "ended"
    BY <1>7, <2>1, AppendLedger DEF CrashInCommit
  <2> QED
    BY <2>1, <2>2, RestartLedger DEF Ledger!Crash, Ledger!Next
<1>8. CASE UNCHANGED vars
  BY <1>8 DEF vars, stores, modes, View, Tree, Ledger!ledger
<1> QED
  BY <1>1, <1>2, <1>3, <1>4, <1>5, <1>6, <1>7, <1>8 DEF Next, Ledger!Next

(***************************************************************************)
(* The handlers implement the ledger: what commit appends to the history   *)
(* of a store is what the hooks and the transactions of the block made of  *)
(* it, and a crash leaves every store with its latest commit, the one that *)
(* was under way included or not store by store.                           *)
(***************************************************************************)
THEOREM BaseAppImplementsLedger == Spec => LedgerSpec
<1>1. IInv /\ IInv' /\ [Next]_vars => [Ledger!Next]_(Ledger!ledger)
  BY NextLedger
<1> QED
  BY <1>1, InitLedger, SpecIInv, PTL DEF Spec, LedgerSpec, Ledger!Spec

-----------------------------------------------------------------------------
(***************************************************************************)
(* Gas within a transaction (module GasStore): the stores of the           *)
(* application seen by one transaction through its own meter.              *)
(***************************************************************************)
\* What a sequence of charges may leave of a meter, when the largest is l.
Charged(r, l) ==
    /\ r.meter \in Meter
    /\ r.err \in {"none", "out_of_gas", "overflow"}
    /\ \/ r.meter.infinite
       \/ r.err = "overflow"
       \/ r.meter.consumed <= r.meter.limit + l

\* consume_gas looks at the limit before it adds: a meter that is not past its
\* limit may get past it by the amount, and one that is stays where it is.
LEMMA ChargeKeeps ==
    ASSUME NEW l \in Nat, NEW r, Charged(r, l), NEW amount \in Gas, amount <= l
    PROVE  /\ Charged(Charge(r, amount), l)
           /\ Charge(r, amount).err = "none" =>
                /\ r.err = "none" /\ ~IsPastLimit(r.meter)
                /\ Charge(r, amount).meter.consumed = r.meter.consumed + amount
<1> USE GasMaxAssumption DEF Charge, ConsumeGas, IsPastLimit, Charged, Meter, Gas
<1>1. CASE r.err # "none"
  BY <1>1
<1>2. CASE r.err = "none"
  <2> DEFINE m == r.meter
  <2>1. m \in Meter /\ m.consumed \in Nat /\ m.limit \in Nat
    OBVIOUS
  <2>2. CASE m.consumed + amount > GasMax
    BY <1>2, <2>1, <2>2
  <2>3. CASE ~(m.consumed + amount > GasMax) /\ IsPastLimit(m)
    BY <1>2, <2>1, <2>3
  <2>4. CASE ~(m.consumed + amount > GasMax) /\ ~IsPastLimit(m)
    BY <1>2, <2>1, <2>4
  <2> QED BY <2>2, <2>3, <2>4
<1> QED BY <1>1, <1>2

Costs == {ReadFlat, ReadPerByte, WritePerByte, DeleteCost, IterNextFlat}

\* LargestCharge is the largest of the costs.
LEMMA LargestIsLargest ==
    LargestCharge \in Nat /\ \A c \in Costs : c \in Gas /\ c <= LargestCharge
<1> DEFINE Largest(x) == x \in Costs /\ \A c \in Costs : x >= c
<1>1. Costs \subseteq Gas
  BY CostAssumption DEF Gas, Costs
<1>2. \A c \in Costs : c \in Nat
  BY <1>1, GasMaxAssumption DEF Gas
<1>3. \E x : Largest(x)
  <2>1. {ReadFlat, ReadPerByte, WritePerByte, DeleteCost, IterNextFlat} \subseteq Nat
    BY <1>2 DEF Costs
  <2> QED BY <2>1 DEF Costs
<1>4. LargestCharge = CHOOSE x \in Costs : \A c \in Costs : x >= c
  BY DEF LargestCharge, Max, Costs
<1>5. Largest(LargestCharge)
  BY <1>3, <1>4
<1> QED BY <1>1, <1>2, <1>5

\* The invariant of a transaction: its meter is one that charges have left, the
\* last answer among them.
TxInv ==
    /\ Charged([meter |-> txMeter, err |-> txResult], LargestCharge)
    /\ txStore \in Content

\* What the charges of each operation leave; a write that is answered was within
\* the limit, and has paid for its bytes.
LEMMA GuardsKeep ==
    ASSUME TxInv, txResult = "none"
    PROVE  /\ \A found \in BOOLEAN : Charged(GuardGet(found), LargestCharge)
           /\ Charged(GuardSet, LargestCharge)
           /\ Charged(GuardDelete, LargestCharge)
           /\ Charged(GuardRange, LargestCharge)
           /\ GuardSet.err = "none" =>
                /\ ~IsPastLimit(txMeter)
                /\ GuardSet.meter.consumed >= txMeter.consumed + 2 * WritePerByte
<1> DEFINE l == LargestCharge
           C(r, a) == Charge(r, a)
           f == Uncharged
<1>1. l \in Nat /\ \A c \in Costs : c \in Gas /\ c <= l
  BY LargestIsLargest
<1>2. Charged(f, l) /\ f.meter = txMeter
  BY DEF TxInv, Uncharged, Charged
<1>3. \A r : \A c \in Costs : Charged(r, l) =>
        /\ Charged(C(r, c), l)
        /\ C(r, c).err = "none" =>
             r.err = "none" /\ ~IsPastLimit(r.meter) /\ C(r, c).meter.consumed = r.meter.consumed + c
  BY <1>1, ChargeKeeps
<1>4. /\ ReadFlat \in Costs /\ ReadPerByte \in Costs /\ WritePerByte \in Costs
      /\ DeleteCost \in Costs /\ IterNextFlat \in Costs
  BY DEF Costs
<1>5. ReadFlat \in Nat /\ WritePerByte \in Nat
  BY <1>1, <1>4, GasMaxAssumption DEF Gas
<1>6. f.meter.consumed \in Nat
  BY <1>2, GasMaxAssumption DEF Charged, Meter, Gas
<1> DEFINE g1 == C(f, ReadFlat)
           g2 == C(g1, ReadPerByte)
           g3 == C(g2, ReadPerByte)
           s2 == C(g1, WritePerByte)
           s3 == C(s2, WritePerByte)
           r1 == C(f, ReadPerByte)
           r2 == C(r1, ReadPerByte)
           r3 == C(r2, IterNextFlat)
           d1 == C(f, DeleteCost)
<1>7. /\ \A found \in BOOLEAN : GuardGet(found) = IF found THEN g3 ELSE g2
      /\ GuardSet = s3 /\ GuardDelete = d1 /\ GuardRange = r3
  BY DEF GuardGet, GuardSet, GuardDelete, GuardRange
<1> HIDE DEF C, f, l
<1>8. Charged(g1, l) /\ Charged(r1, l) /\ Charged(d1, l)
  BY <1>2, <1>3, <1>4
<1>9. Charged(g2, l) /\ Charged(s2, l) /\ Charged(r2, l)
  BY <1>8, <1>3, <1>4
<1>10. Charged(g3, l) /\ Charged(s3, l) /\ Charged(r3, l)
  BY <1>9, <1>3, <1>4
<1>11. ASSUME s3.err = "none"
       PROVE  ~IsPastLimit(txMeter) /\ s3.meter.consumed >= txMeter.consumed + 2 * WritePerByte
  <2>1. s2.err = "none" /\ s3.meter.consumed = s2.meter.consumed + WritePerByte
    BY <1>3, <1>4, <1>9, <1>11
  <2>2. g1.err = "none" /\ s2.meter.consumed = g1.meter.consumed + WritePerByte
    BY <1>3, <1>4, <1>8, <2>1
  <2>3. ~IsPastLimit(f.meter) /\ g1.meter.consumed = f.meter.consumed + ReadFlat
    BY <1>2, <1>3, <1>4, <2>2
  <2> QED BY <1>2, <1>5, <1>6, <2>1, <2>2, <2>3
<1> QED BY <1>7, <1>8, <1>9, <1>10, <1>11 DEF l

LEMMA TxStep ==
    ASSUME TxInv, [TxNext]_txVars
    PROVE  /\ TxInv'
           /\ \A k \in Key : txStore'[k] # txStore[k] /\ txStore'[k] # None =>
                /\ ~IsPastLimit(txMeter)
                /\ txMeter'.consumed >= txMeter.consumed + 2 * WritePerByte
<1> DEFINE l == LargestCharge
           Left(r) == r = [meter |-> txMeter', err |-> txResult']
<1>0. txStore \in Content
  BY DEF TxInv
<1>1. ASSUME NEW k \in Key, Get(k) PROVE TxInv' /\ txStore' = txStore
  <2>1. Charged(GuardGet(txStore[k] # None), l)
    BY <1>1, GuardsKeep DEF Get, Running
  <2>2. /\ txMeter' = GuardGet(txStore[k] # None).meter
        /\ txResult' = GuardGet(txStore[k] # None).err
        /\ txStore' = txStore
    BY <1>1 DEF Get
  <2> QED BY <1>0, <2>1, <2>2 DEF TxInv, Charged
<1>2. ASSUME NEW k \in Key, Delete(k)
      PROVE  TxInv' /\ \A j \in Key : txStore'[j] = txStore[j] \/ txStore'[j] = None
  <2>1. Charged(GuardDelete, l)
    BY <1>2, GuardsKeep DEF Delete, Running
  <2>2. txMeter' = GuardDelete.meter /\ txResult' = GuardDelete.err
    BY <1>2 DEF Delete
  <2>3. txStore' = txStore \/ txStore' = [txStore EXCEPT ![k] = None]
    BY <1>2 DEF Delete
  <2> QED BY <1>0, <2>1, <2>2, <2>3 DEF TxInv, Charged, Content
<1>3. ASSUME NEW k \in Key, NEW v \in Val, Set(k, v)
      PROVE  /\ TxInv'
             /\ txStore' # txStore =>
                  /\ ~IsPastLimit(txMeter)
                  /\ txMeter'.consumed >= txMeter.consumed + 2 * WritePerByte
  <2>1. /\ Charged(GuardSet, l)
        /\ GuardSet.err = "none" =>
                /\ ~IsPastLimit(txMeter)
                /\ GuardSet.meter.consumed >= txMeter.consumed + 2 * WritePerByte
    BY <1>3, GuardsKeep DEF Set, Running
  <2>2. txMeter' = GuardSet.meter /\ txResult' = GuardSet.err
    BY <1>3 DEF Set
  <2>3. /\ txStore' # txStore => GuardSet.err = "none"
        /\ txStore' = txStore \/ txStore' = [txStore EXCEPT ![k] = v]
    BY <1>3 DEF Set
  <2>4. txStore' \in Content
    BY <1>0, <2>3 DEF Content
  <2> QED BY <2>1, <2>2, <2>3, <2>4 DEF TxInv, Charged
<1>4. CASE NextPair
  <2>1. Charged(GuardRange, l)
    BY <1>4, GuardsKeep DEF NextPair, Running
  <2>2. /\ txMeter' = GuardRange.meter /\ txResult' = GuardRange.err
        /\ txStore' = txStore
    BY <1>4 DEF NextPair
  <2> QED BY <1>0, <2>1, <2>2 DEF TxInv, Charged
<1>5. CASE UNCHANGED txVars
  BY <1>5 DEF txVars, TxInv, Charged
<1> QED BY <1>1, <1>2, <1>3, <1>4, <1>5 DEF TxNext

LEMMA TxInvariant == TxSpec => []TxInv
<1>1. TxInit => TxInv
  <2> SUFFICES ASSUME TxInit PROVE TxInv
    OBVIOUS
  <2>1. LargestCharge \in Nat
    BY LargestIsLargest
  <2>2. /\ txMeter \in Meter /\ (txMeter.infinite \/ txMeter.consumed = 0)
        /\ txMeter.limit \in Nat
    <3> USE GasMaxAssumption DEF Meter, Gas
    <3>1. CASE txMeter = [infinite |-> TRUE, limit |-> 0, consumed |-> 0]
      BY <3>1
    <3>2. ASSUME NEW x \in Limits, txMeter = [infinite |-> FALSE, limit |-> x, consumed |-> 0]
          PROVE  txMeter \in Meter /\ txMeter.consumed = 0 /\ txMeter.limit \in Nat
      <4>1. x \in 0 .. GasMax
        BY CostAssumption DEF Gas
      <4> QED BY <3>2, <4>1
    <3> QED BY <3>1, <3>2 DEF TxInit, InfiniteMeter, FiniteMeter
  <2>3. txResult = "none" /\ txStore \in Content
    BY DEF TxInit, Content, Empty
  <2> QED BY <2>1, <2>2, <2>3 DEF TxInv, Charged
<1>2. TxInv /\ [TxNext]_txVars => TxInv'
  BY TxStep
<1> QED BY <1>1, <1>2, PTL DEF TxSpec

\* consume_gas compares what was consumed before the call; still no sequence of
\* reads, writes, deletes and iterator steps brings a transaction further above
\* its limit than one charge, at whatever costs, unless the sum overflowed.
THEOREM GasOvershootBounded == TxSpec => []OvershootsOneCharge
<1>1. TxInv => OvershootsOneCharge
  BY DEF TxInv, Charged, OvershootsOneCharge
<1> QED BY <1>1, TxInvariant, PTL

\* GasKVStoreMut::set charges before it writes: what is written was asked for
\* within the limit, and the meter has grown by the price of its bytes.
THEOREM GasWritesPaid == TxSpec => WritesArePaid
<1> DEFINE Paid == \A k \in Key : txStore'[k] # txStore[k] /\ txStore'[k] # None =>
                /\ ~IsPastLimit(txMeter)
                /\ txMeter'.consumed >= txMeter.consumed + 2 * WritePerByte
<1>1. TxInv /\ [TxNext]_txVars => [Paid]_txVars
  BY TxStep
<1>2. WritesArePaid <=> [][Paid]_txVars
  BY DEF WritesArePaid
<1> HIDE DEF Paid
<1> QED BY <1>1, <1>2, TxInvariant, PTL DEF TxSpec
=============================================================================
