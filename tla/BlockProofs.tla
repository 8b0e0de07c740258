---------------------------- MODULE BlockProofs ----------------------------
(***************************************************************************)
(* Proofs about what the handlers of two modules do at the beginning of a  *)
(* block and in it: x/upgrade (module Upgrade), for any set of upgrades,   *)
(* of binaries and of heights to skip, and x/distribution with x/mint      *)
(* (modules Distribution and DistributionQueries), for any accounts,       *)
(* validators, denominations, votes, parameters and number of blocks.      *)
(***************************************************************************)
EXTENDS Upgrade, DistributionQueries, SumProofs

(***************************************************************************)
(*                               x/upgrade                                 *)
(***************************************************************************)

(***************************************************************************)
(* What the block cache may hold, compared with what was committed: the    *)
(* plan executed, if any, is the committed one and due just now, and the   *)
(* binary does not already contain an upgrade that is still to come.       *)
(***************************************************************************)
BlockOnDisk ==
    status = "block" =>
        /\ mem.height = disk.height + 1
        /\ \A n \in Name : mem.done[n] # disk.done[n] =>
              /\ disk.plan = [name |-> n, height |-> mem.height]
              /\ n \in binary
        /\ disk.plan # None /\ disk.plan.name \in binary =>
              mem.height >= disk.plan.height

UpgradeInv == TypeOK /\ PlanNotPassed /\ BlockOnDisk

\* What the keeper's operations make of a state is a state.
LEMMA KeeperStates ==
    ASSUME NEW s, State(s), NEW h \in Nat, h = s.height + 1
    PROVE  /\ State([s EXCEPT !.height = h])
           /\ DeletePlan(s) \in Store
           /\ State([DeletePlan(s) EXCEPT !.height = h])
           /\ s.plan # None => /\ ApplyUpgrade(s, h) \in Store
                               /\ State([ApplyUpgrade(s, h) EXCEPT !.height = h])
  <1>1. /\ [s EXCEPT !.height = h] \in Store
        /\ [s EXCEPT !.height = h].height = h /\ [s EXCEPT !.height = h].done = s.done
    BY DEF State, Store
  <1>2. /\ DeletePlan(s) \in Store
        /\ DeletePlan(s).height = s.height /\ DeletePlan(s).done = s.done
    BY DEF State, Store, DeletePlan
  <1>3. /\ [DeletePlan(s) EXCEPT !.height = h] \in Store
        /\ [DeletePlan(s) EXCEPT !.height = h].height = h
        /\ [DeletePlan(s) EXCEPT !.height = h].done = s.done
    BY <1>2 DEF Store
  <1>4. ASSUME s.plan # None
        PROVE  /\ ApplyUpgrade(s, h) \in Store
               /\ ApplyUpgrade(s, h).done = [s.done EXCEPT ![s.plan.name] = h]
    <2>1. s.plan.name \in Name /\ s.done \in [Name -> Nat] /\ s.protocol + 1 \in Nat
      BY <1>4 DEF State, Store, Plan
    <2>2. [s.done EXCEPT ![s.plan.name] = h] \in [Name -> Nat]
      BY <2>1
    <2>3. s.height \in Nat
      BY DEF State, Store
    <2> QED
      BY <2>1, <2>2, <2>3 DEF Store, ApplyUpgrade
  <1>5. ASSUME s.plan # None
        PROVE  State([ApplyUpgrade(s, h) EXCEPT !.height = h])
    BY <1>4, <1>5 DEF State, Store
  <1> QED
    BY <1>1, <1>2, <1>3, <1>4, <1>5 DEF State, Store

\* The state every chain starts from.
LEMMA UpgradeInitInv == UpgradeInit => UpgradeInv
  <1> SUFFICES ASSUME UpgradeInit PROVE UpgradeInv
    OBVIOUS
  <1>1. State(disk)
    BY DEF UpgradeInit, State, Store
  <1> QED
    BY <1>1 DEF UpgradeInit, UpgradeInv, TypeOK, PlanNotPassed, BlockOnDisk

\* A block that goes on with the committed state, with the plan deleted, or
\* with the plan applied keeps the invariant.
LEMMA BeginsUpgradeInv ==
    ASSUME UpgradeInv, NEW s, NEW p,
           Begins(s, p), s \in Store, State([s EXCEPT !.height = Height]),
           p \in {"block"} \cup Stopped,
           p = "block" =>
              /\ s.plan # None => s.plan.height > Height
              /\ \A n \in Name : s.done[n] # disk.done[n] =>
                    disk.plan = [name |-> n, height |-> Height] /\ n \in binary
              /\ disk.plan # None /\ disk.plan.name \in binary =>
                    Height >= disk.plan.height
    PROVE  UpgradeInv'
  <1> DEFINE t == [s EXCEPT !.height = Height]
  <1>1. mem' = t /\ status' = p /\ UNCHANGED <<disk, binary>> /\ verified' = TRUE
    BY DEF Begins
  <1>2. t.height = Height /\ t.plan = s.plan /\ t.done = s.done
    BY DEF Store
  <1>3. TypeOK'
    BY <1>1 DEF UpgradeInv, TypeOK, State
  <1>4. PlanNotPassed'
    BY <1>1, <1>2 DEF UpgradeInv, PlanNotPassed, Stopped
  <1>5. BlockOnDisk'
    BY <1>1, <1>2 DEF BlockOnDisk, Height, Stopped
  <1> QED
    BY <1>3, <1>4, <1>5 DEF UpgradeInv

\* Every step keeps the invariant.
LEMMA UpgradeNextInv == UpgradeInv /\ [UpgradeNext]_upgradeVars => UpgradeInv'
  <1> SUFFICES ASSUME UpgradeInv, [UpgradeNext]_upgradeVars PROVE UpgradeInv'
    OBVIOUS
  <1>a. Height \in Nat /\ Height = disk.height + 1 /\ disk.height \in Nat
    BY DEF UpgradeInv, TypeOK, State, Store, Height
  <1>b. /\ State(disk)
        /\ State([disk EXCEPT !.height = Height])
        /\ disk \in Store /\ DeletePlan(disk) \in Store
        /\ State([DeletePlan(disk) EXCEPT !.height = Height])
        /\ disk.plan # None => /\ ApplyUpgrade(disk, Height) \in Store
                                /\ State([ApplyUpgrade(disk, Height) EXCEPT !.height = Height])
    BY <1>a, KeeperStates DEF UpgradeInv, TypeOK, State
  <1>c. disk.plan # None => disk.plan.height \in Nat /\ disk.plan.height >= Height
                            /\ disk.plan = [name |-> disk.plan.name, height |-> disk.plan.height]
    BY <1>a DEF UpgradeInv, TypeOK, State, Store, PlanNotPassed, Plan
  <1>1. CASE BeginCorrupt
    BY <1>1, <1>b, BeginsUpgradeInv DEF BeginCorrupt, Stopped
  <1>2. CASE BeginSkip
    <2>1. DeletePlan(disk).plan = None /\ DeletePlan(disk).done = disk.done
      BY <1>b DEF DeletePlan, Store
    <2>2. disk.plan.height <= Height
      BY <1>2 DEF BeginSkip, ShouldExecute
    <2>3. Begins(DeletePlan(disk), "block")
      BY <1>2 DEF BeginSkip
    <2> QED
      BY <2>1, <2>2, <2>3, <1>a, <1>b, <1>c, BeginsUpgradeInv
  <1>3. CASE BeginNeeded
    BY <1>3, <1>b, BeginsUpgradeInv DEF BeginNeeded, Stopped
  <1>4. CASE BeginApply
    <2>1. disk.plan # None /\ disk.plan.height <= Height /\ disk.plan.name \in binary
      BY <1>4 DEF BeginApply, ShouldExecute
    <2>2. disk.plan = [name |-> disk.plan.name, height |-> Height]
      BY <2>1, <1>a, <1>c
    <2>3. CASE Begins(ApplyUpgrade(disk, Height), "block")
      <3>1. /\ ApplyUpgrade(disk, Height).plan = None
            /\ \A n \in Name : ApplyUpgrade(disk, Height).done[n] # disk.done[n] =>
                  n = disk.plan.name
        BY <1>b, <2>1 DEF ApplyUpgrade, Store, State
      <3> QED
        BY <2>1, <2>2, <2>3, <3>1, <1>a, <1>b, <1>c, BeginsUpgradeInv
    <2>4. CASE Begins(disk, "handler")
      BY <2>4, <1>b, BeginsUpgradeInv DEF Stopped
    <2> QED
      BY <1>4, <2>3, <2>4 DEF BeginApply
  <1>5. CASE BeginEarly
    BY <1>5, <1>b, BeginsUpgradeInv DEF BeginEarly, Stopped
  <1>6. CASE BeginGoesOn
    <2>1. /\ Begins(disk, "block")
          /\ disk.plan # None => disk.plan.height > Height /\ disk.plan.name \notin binary
      BY <1>6, <1>a, <1>c DEF BeginGoesOn, ShouldExecute, UpdatedEarly
    <2> QED
      BY <2>1, <1>a, <1>b, BeginsUpgradeInv
  <1>7. CASE \E n \in Name, h \in 1 .. LastHeight + 1 :
               ScheduleUpgrade([name |-> n, height |-> h])
    <2> PICK n \in Name, h \in 1 .. LastHeight + 1 :
               ScheduleUpgrade([name |-> n, height |-> h])
      BY <1>7
    <2> DEFINE p == [name |-> n, height |-> h]
    <2>1. /\ p \in Plan /\ p.height > mem.height /\ status = "block"
          /\ mem' = [mem EXCEPT !.plan = p]
          /\ UNCHANGED <<disk, status, binary, verified>>
      BY UpgradeAssumption DEF ScheduleUpgrade, MaySchedule, Plan
    <2>2. State(mem)
      BY DEF UpgradeInv, TypeOK
    <2>3. /\ mem'.plan = p /\ mem'.height = mem.height /\ mem'.done = mem.done
          /\ State(mem')
      BY <2>1, <2>2 DEF State, Store
    <2> QED
      BY <2>1, <2>3 DEF UpgradeInv, TypeOK, PlanNotPassed, BlockOnDisk
  <1>8. CASE CancelUpgrade
    <2>1. State(mem) /\ mem' = [mem EXCEPT !.plan = None]
          /\ UNCHANGED <<disk, status, binary, verified>>
      BY <1>8 DEF CancelUpgrade, DeletePlan, UpgradeInv, TypeOK
    <2>2. /\ mem'.plan = None /\ mem'.height = mem.height /\ mem'.done = mem.done
          /\ State(mem')
      BY <2>1 DEF State, Store
    <2> QED
      BY <2>1, <2>2 DEF UpgradeInv, TypeOK, PlanNotPassed, BlockOnDisk
  <1>9. CASE Commit
    BY <1>9 DEF Commit, UpgradeInv, TypeOK, State, PlanNotPassed, BlockOnDisk
  <1>10. CASE \E b \in Binaries : Restart(b)
    BY <1>10 DEF Restart, UpgradeInv, TypeOK, State, PlanNotPassed, BlockOnDisk
  <1>11. CASE UNCHANGED upgradeVars
    BY <1>11 DEF upgradeVars, UpgradeInv, TypeOK, State, PlanNotPassed, BlockOnDisk
  <1> QED
    BY <1>1, <1>2, <1>3, <1>4, <1>5, <1>6, <1>7, <1>8, <1>9, <1>10, <1>11 DEF UpgradeNext

\* The invariant holds in every reachable state.
LEMMA UpgradeInvHolds == UpgradeSpec => []UpgradeInv
  BY UpgradeInitInv, UpgradeNextInv, PTL DEF UpgradeSpec

\* The state of the module is well formed, and no upgrade is marked done for
\* a height the chain has not reached.
THEOREM UpgradeTypeCorrect == UpgradeSpec => []TypeOK
  <1>1. UpgradeInv => TypeOK
    BY DEF UpgradeInv
  <1> QED
    BY UpgradeInvHolds, <1>1, PTL

\* No block goes on at or after the height of a pending plan.
THEOREM UpgradePlanNotPassed == UpgradeSpec => []PlanNotPassed
  <1>1. UpgradeInv => PlanNotPassed
    BY DEF UpgradeInv
  <1> QED
    BY UpgradeInvHolds, <1>1, PTL

\* Only a commit changes what is committed.
LEMMA OnlyCommit ==
    ASSUME [UpgradeNext]_upgradeVars PROVE UNCHANGED disk \/ (Commit /\ status = "block")
  BY DEF UpgradeNext, upgradeVars, Commit, Begins, BeginCorrupt, BeginSkip, BeginNeeded, BeginApply,
         BeginEarly, BeginGoesOn, ScheduleUpgrade, CancelUpgrade, Restart

\* An upgrade is completed by the block its committed plan names, and by a
\* binary that has its handler; until then no block is committed by a binary
\* that already contains it.
THEOREM UpgradeAppliedOnTime == UpgradeSpec => AppliedOnTime
  <1>1. UpgradeInv /\ [UpgradeNext]_upgradeVars =>
          [/\ \A n \in Name : disk'.done[n] # disk.done[n] =>
                 /\ disk.plan = [name |-> n, height |-> disk'.height]
                 /\ n \in binary
           /\ disk'.height # disk.height /\ disk.plan # None /\ disk.plan.name \in binary =>
                 disk'.height >= disk.plan.height]_upgradeVars
    BY OnlyCommit DEF UpgradeInv, BlockOnDisk, Commit
  <1> QED
    BY UpgradeInvHolds, <1>1, PTL DEF UpgradeSpec, AppliedOnTime

(***************************************************************************)
(*                             x/distribution                              *)
(***************************************************************************)

(***************************************************************************)
(* Lists of coins.                                                         *)
(***************************************************************************)

CoinLists == UNION {[D -> Nat] : D \in SUBSET Denom}

\* A list of coins has denominations that exist and natural amounts.
LEMMA CoinListIs == ASSUME NEW c PROVE c \in CoinLists <=> IsCoinList(c)
<1>1. ASSUME c \in CoinLists PROVE IsCoinList(c)
  <2>1. PICK D \in SUBSET Denom : c \in [D -> Nat]
    BY <1>1 DEF CoinLists
  <2> QED BY <2>1 DEF IsCoinList
<1>2. ASSUME IsCoinList(c) PROVE c \in CoinLists
  BY <1>2 DEF CoinLists, IsCoinList
<1> QED BY <1>1, <1>2

\* Amounts of some denominations are a list of coins.
LEMMA ListOf ==
    ASSUME NEW D \in SUBSET Denom, NEW f, f \in [D -> Nat]
    PROVE  f \in CoinLists
  BY DEF CoinLists

\* amount_of: what a list says of any denomination is natural.
LEMMA AmountType ==
    ASSUME NEW c \in CoinLists, NEW d
    PROVE  AmountOf(c, d) \in Nat
<1>1. c \in [DOMAIN c -> Nat]
  BY CoinListIs DEF IsCoinList
<1> QED BY <1>1 DEF AmountOf

\* Coins that are absent from the store count for nothing.
LEMMA NoCoinsFacts == NoCoins \in CoinLists /\ \A d : AmountOf(NoCoins, d) = 0
<1>1. NoCoins \in [{} -> Nat]
  BY DEF NoCoins
<1>2. NoCoins \in CoinLists
  BY <1>1, ListOf
<1> QED BY <1>2 DEF NoCoins, AmountOf

\* A list without its zeros has the same amounts.
LEMMA DropZerosFacts ==
    ASSUME NEW D \in SUBSET Denom, NEW f, f \in [D -> Nat]
    PROVE  /\ DropZeros(f) \in CoinLists
           /\ \A d : AmountOf(DropZeros(f), d) = AmountOf(f, d)
           /\ \A d \in DOMAIN DropZeros(f) : DropZeros(f)[d] > 0
<1> DEFINE E == {d \in D : f[d] # 0}
<1>1. DropZeros(f) = [d \in E |-> f[d]]
  BY DEF DropZeros, Restrict
<1>2. E \in SUBSET Denom /\ [d \in E |-> f[d]] \in [E -> Nat]
  OBVIOUS
<1>3. DropZeros(f) \in CoinLists
  BY <1>1, <1>2, ListOf
<1>4. \A d : AmountOf(DropZeros(f), d) = AmountOf(f, d)
  BY <1>1 DEF AmountOf
<1> QED BY <1>1, <1>3, <1>4

\* Adding lists adds amounts.
LEMMA PlusFacts ==
    ASSUME NEW a \in CoinLists, NEW b \in CoinLists
    PROVE  /\ Plus(a, b) \in CoinLists
           /\ \A d : AmountOf(Plus(a, b), d) = AmountOf(a, d) + AmountOf(b, d)
<1>1. DOMAIN a \subseteq Denom /\ DOMAIN b \subseteq Denom
  BY CoinListIs DEF IsCoinList
<1>2. \A d : AmountOf(a, d) \in Nat /\ AmountOf(b, d) \in Nat
  BY AmountType
<1>3. Plus(a, b) \in [Listed(a, b) -> Nat] /\ Listed(a, b) \in SUBSET Denom
  BY <1>1, <1>2 DEF Plus, Listed
<1>4. Plus(a, b) \in CoinLists
  BY <1>3, ListOf
<1>5. ASSUME NEW d PROVE AmountOf(Plus(a, b), d) = AmountOf(a, d) + AmountOf(b, d)
  <2>1. CASE d \in Listed(a, b)
    <3>1. AmountOf(Plus(a, b), d) = Plus(a, b)[d]
      BY <1>3, <2>1 DEF AmountOf
    <3> QED BY <2>1, <3>1 DEF Plus
  <2>2. CASE d \notin Listed(a, b)
    <3>1. AmountOf(Plus(a, b), d) = 0
      BY <1>3, <2>2 DEF AmountOf
    <3>2. AmountOf(a, d) = 0 /\ AmountOf(b, d) = 0
      BY <2>2 DEF AmountOf, Listed
    <3> QED BY <3>1, <3>2
  <2> QED BY <2>1, <2>2
<1> QED BY <1>4, <1>5

\* checked_sub of a list that is covered subtracts amounts.
LEMMA MinusFacts ==
    ASSUME NEW a \in CoinLists, NEW b \in CoinLists, IsAllGte(a, b)
    PROVE  /\ Minus(a, b) \in CoinLists
           /\ \A d : AmountOf(Minus(a, b), d) = AmountOf(a, d) - AmountOf(b, d)
           /\ \A d \in DOMAIN Minus(a, b) : Minus(a, b)[d] > 0
<1> DEFINE D == Listed(a, b)
           f == [d \in D |-> AmountOf(a, d) - AmountOf(b, d)]
<1>1. D \in SUBSET Denom
  BY CoinListIs DEF IsCoinList, Listed
<1>2. \A d : AmountOf(a, d) \in Nat /\ AmountOf(b, d) \in Nat
  BY AmountType
<1>3. \A d \in D : AmountOf(a, d) >= AmountOf(b, d)
  <2> TAKE d \in D
  <2>1. CASE d \in DOMAIN b
    BY <2>1 DEF IsAllGte, AmountOf
  <2>2. CASE d \notin DOMAIN b
    <3>1. AmountOf(b, d) = 0
      BY <2>2 DEF AmountOf
    <3> QED BY <1>2, <3>1
  <2> QED BY <2>1, <2>2
<1>4. \A d \in D : AmountOf(a, d) - AmountOf(b, d) \in Nat
  BY <1>2, <1>3
<1>5. f \in [D -> Nat]
  BY <1>4
<1>6. Minus(a, b) = DropZeros(f)
  BY DEF Minus
<1>7. \A d : AmountOf(f, d) = AmountOf(a, d) - AmountOf(b, d)
  <2> TAKE d
  <2>1. CASE d \in D
    BY <2>1 DEF AmountOf
  <2>2. CASE d \notin D
    <3>1. AmountOf(f, d) = 0 /\ AmountOf(a, d) = 0 /\ AmountOf(b, d) = 0
      BY <2>2 DEF AmountOf, Listed
    <3> QED BY <3>1
  <2> QED BY <2>1, <2>2
<1> HIDE DEF f, D
<1>8. /\ DropZeros(f) \in CoinLists
      /\ \A d : AmountOf(DropZeros(f), d) = AmountOf(f, d)
      /\ \A d \in DOMAIN DropZeros(f) : DropZeros(f)[d] > 0
  BY <1>1, <1>5, DropZerosFacts
<1> QED BY <1>6, <1>7, <1>8

\* checked_sub, where it is not an error, subtracts amounts and leaves coins.
LEMMA CanMinusFacts ==
    ASSUME NEW a \in CoinLists, NEW b \in CoinLists, CanMinus(a, b)
    PROVE  /\ Minus(a, b) \in CoinLists /\ IsCoins(Minus(a, b))
           /\ \A d : AmountOf(Minus(a, b), d) = AmountOf(a, d) - AmountOf(b, d)
  BY MinusFacts DEF CanMinus

(***************************************************************************)
(* Decimals: quotients are rounded down, and nothing is lost between the   *)
(* whole part and the rest.                                                *)
(***************************************************************************)

\* A division and its rest make up what was divided.
LEMMA DivNat ==
    ASSUME NEW x \in Nat, NEW y \in Nat \ {0}
    PROVE  x \div y \in Nat /\ x % y \in Nat /\ x = y * (x \div y) + (x % y)
  BY Z3

\* A decimal has a smallest part.
LEMMA UnitNat == Unit \in Nat \ {0}
  BY CoinsAssumption

\* The operations of Decimal256 on decimals that are not negative.
LEMMA DecTypes ==
    ASSUME NEW x \in Nat, NEW y \in Nat
    PROVE  /\ DecMul(x, y) \in Nat /\ Floor(x) \in Nat /\ Whole(x) \in Nat /\ Round(x) \in Nat
           /\ y # 0 => DecDiv(x, y) \in Nat
           /\ x # 0 => Whole(x) # 0
<1>1. x * y \in Nat /\ x * Unit \in Nat /\ Unit * x \in Nat
  BY UnitNat
<1>2. (x * y) \div Unit \in Nat /\ x \div Unit \in Nat
  BY <1>1, UnitNat, DivNat
<1>3. Unit * (x \div Unit) \in Nat
  BY <1>2, UnitNat
<1>4. y # 0 => (x * Unit) \div y \in Nat
  BY <1>1, DivNat
<1>5. Floor(x) \in Nat /\ Round(x) \in Nat
  BY <1>3, UnitNat DEF Floor, Round
<1>6. x # 0 => Unit * x # 0
  BY UnitNat, Z3
<1> QED BY <1>1, <1>2, <1>4, <1>5, <1>6 DEF DecMul, DecDiv, Whole

\* From<UnsignedCoins>: the same coins, in decimals.
LEMMA ToDecimalFacts ==
    ASSUME NEW c \in CoinLists
    PROVE  /\ ToDecimal(c) \in CoinLists
           /\ \A d : AmountOf(ToDecimal(c), d) = Unit * AmountOf(c, d)
           /\ IsCoins(c) => IsCoins(ToDecimal(c))
<1>1. DOMAIN c \in SUBSET Denom /\ c \in [DOMAIN c -> Nat]
  BY CoinListIs DEF IsCoinList
<1>2. \A d \in DOMAIN c : Whole(c[d]) \in Nat /\ (c[d] # 0 => Whole(c[d]) # 0)
  BY <1>1, DecTypes
<1>3. ToDecimal(c) \in [DOMAIN c -> Nat]
  BY <1>2 DEF ToDecimal
<1>4. ToDecimal(c) \in CoinLists
  BY <1>1, <1>3, ListOf
<1>5. \A d : AmountOf(ToDecimal(c), d) = Unit * AmountOf(c, d)
  <2> TAKE d
  <2>1. Unit * 0 = 0
    BY UnitNat
  <2> QED BY <2>1 DEF AmountOf, ToDecimal, Whole
<1>6. IsCoins(c) => IsCoins(ToDecimal(c))
  BY <1>1, <1>2 DEF IsCoins, ToDecimal
<1> QED BY <1>4, <1>5, <1>6

\* truncate_decimal: the whole coins and the change are what there was.
LEMMA TruncateFacts ==
    ASSUME NEW c \in CoinLists
    PROVE  /\ Truncated(c) \in CoinLists /\ Change(c) \in CoinLists
           /\ \A d : AmountOf(c, d) = Unit * AmountOf(Truncated(c), d) + AmountOf(Change(c), d)
           /\ \A d \in DOMAIN Truncated(c) : Truncated(c)[d] > 0
           /\ \A d \in DOMAIN Change(c) : Change(c)[d] > 0
<1> DEFINE f == [d \in DOMAIN c |-> c[d] \div Unit]
           g == [d \in DOMAIN c |-> c[d] % Unit]
<1>1. DOMAIN c \in SUBSET Denom /\ c \in [DOMAIN c -> Nat]
  BY CoinListIs DEF IsCoinList
<1>2. \A d \in DOMAIN c : /\ c[d] \div Unit \in Nat /\ c[d] % Unit \in Nat
                          /\ c[d] = Unit * (c[d] \div Unit) + (c[d] % Unit)
  BY <1>1, UnitNat, DivNat
<1>3. f \in [DOMAIN c -> Nat] /\ g \in [DOMAIN c -> Nat]
  BY <1>2
<1>4. Truncated(c) = DropZeros(f) /\ Change(c) = DropZeros(g)
  BY DEF Truncated, Change
<1>5. \A d : AmountOf(c, d) = Unit * AmountOf(f, d) + AmountOf(g, d)
  <2> TAKE d
  <2>1. CASE d \in DOMAIN c
    <3>1. AmountOf(c, d) = c[d] /\ AmountOf(f, d) = c[d] \div Unit /\ AmountOf(g, d) = c[d] % Unit
      BY <2>1 DEF AmountOf
    <3>2. c[d] = Unit * (c[d] \div Unit) + (c[d] % Unit)
      BY <1>2, <2>1
    <3> QED BY <3>1, <3>2, Zenon
  <2>2. CASE d \notin DOMAIN c
    <3>1. AmountOf(c, d) = 0 /\ AmountOf(f, d) = 0 /\ AmountOf(g, d) = 0
      BY <2>2 DEF AmountOf
    <3>2. Unit * 0 + 0 = 0
      BY UnitNat
    <3> QED BY <3>1, <3>2
  <2> QED BY <2>1, <2>2
<1> HIDE DEF f, g
<1>6. /\ DropZeros(f) \in CoinLists /\ \A d : AmountOf(DropZeros(f), d) = AmountOf(f, d)
      /\ \A d \in DOMAIN DropZeros(f) : DropZeros(f)[d] > 0
  BY <1>1, <1>3, DropZerosFacts
<1>7. /\ DropZeros(g) \in CoinLists /\ \A d : AmountOf(DropZeros(g), d) = AmountOf(g, d)
      /\ \A d \in DOMAIN DropZeros(g) : DropZeros(g)[d] > 0
  BY <1>1, <1>3, DropZerosFacts
<1> QED BY <1>4, <1>5, <1>6, <1>7

\* Coins multiplied or divided by a decimal are coins.
LEMMA ScaledTypes ==
    ASSUME NEW c \in CoinLists, NEW m \in Nat
    PROVE  /\ MulTruncate(c, m) \in CoinLists /\ MulRound(c, m) \in CoinLists
           /\ m # 0 => QuoTruncate(c, m) \in CoinLists
<1>1. DOMAIN c \in SUBSET Denom /\ c \in [DOMAIN c -> Nat]
  BY CoinListIs DEF IsCoinList
<1>2. \A d \in DOMAIN c : /\ Floor(DecMul(c[d], m)) \in Nat /\ Round(DecMul(c[d], m)) \in Nat
                          /\ m # 0 => Floor(DecDiv(c[d], m)) \in Nat
  <2> TAKE d \in DOMAIN c
  <2>1. c[d] \in Nat
    BY <1>1
  <2>2. DecMul(c[d], m) \in Nat /\ (m # 0 => DecDiv(c[d], m) \in Nat)
    BY <2>1, DecTypes
  <2> QED BY <2>2, DecTypes
<1>3. MulTruncate(c, m) \in [DOMAIN c -> Nat] /\ MulRound(c, m) \in [DOMAIN c -> Nat]
  BY <1>2 DEF MulTruncate, MulRound
<1>4. m # 0 => QuoTruncate(c, m) \in [DOMAIN c -> Nat]
  BY <1>2 DEF QuoTruncate
<1> QED BY <1>1, <1>3, <1>4, ListOf

\* What two lists have in common is a list.
LEMMA IntersectType ==
    ASSUME NEW a \in CoinLists, NEW b \in CoinLists
    PROVE  Intersect(a, b) \in CoinLists
<1>1. DOMAIN a \in SUBSET Denom /\ a \in [DOMAIN a -> Nat] /\ \A d : AmountOf(b, d) \in Nat
  BY CoinListIs, AmountType DEF IsCoinList
<1>2. [d \in DOMAIN a |-> Lesser(a[d], AmountOf(b, d))] \in [DOMAIN a -> Nat]
  BY <1>1 DEF Lesser
<1> QED BY <1>1, <1>2, DropZerosFacts DEF Intersect

(***************************************************************************)
(* Stores.                                                                 *)
(***************************************************************************)

Records == [ratio : CoinLists, count : Int]
Histories == UNION {[D -> Records] : D \in SUBSET Nat}
Infos == [prev : Int, stake : Nat, height : Int, stored : BOOLEAN]

Stores ==
    [pool : CoinLists, module : CoinLists, collector : CoinLists, supply : CoinLists,
     staked : CoinLists, bal : [Accounts -> CoinLists], proposer : Validators,
     first : Validators, outstanding : [Validators -> CoinLists],
     commission : [Validators -> CoinLists], rewards : [Validators -> CoinLists],
     period : [Validators -> Nat], hist : [Validators -> Histories],
     info : [Accounts \X Validators -> Infos], withdraw : [Accounts -> Payees \cup {NoAddr}]]

\* The records of one validator, as a genesis has them.
LEMMA HistoryIs == ASSUME NEW h, HistoryTypeOK(h) PROVE h \in Histories
<1>1. \A p \in DOMAIN h : h[p] \in Records
  <2> TAKE p \in DOMAIN h
  <2>1. /\ h[p] = [ratio |-> h[p].ratio, count |-> h[p].count]
        /\ h[p].ratio \in CoinLists /\ h[p].count \in Int
    BY CoinListIs DEF HistoryTypeOK
  <2> QED BY <2>1 DEF Records
<1>2. h \in [DOMAIN h -> Records]
  BY <1>1 DEF HistoryTypeOK
<1>3. DOMAIN h \in SUBSET Nat
  BY DEF HistoryTypeOK
<1> QED BY <1>2, <1>3 DEF Histories

\* Records of some periods are a history.
LEMMA HistoryOf == ASSUME NEW D \in SUBSET Nat, NEW h \in [D -> Records] PROVE h \in Histories
  BY DEF Histories

\* A history has records of periods.
LEMMA HistoryFacts == ASSUME NEW h \in Histories
                      PROVE  DOMAIN h \in SUBSET Nat /\ h \in [DOMAIN h -> Records]
  BY DEF Histories

\* The lists of several holders.
LEMMA ListsOf == ASSUME NEW S, NEW f, AreCoinLists(f, S) PROVE f \in [S -> CoinLists]
  BY CoinListIs DEF AreCoinLists

\* The store of a genesis is a store.
LEMMA StoreIs == ASSUME NEW s, StoreTypeOK(s) PROVE s \in Stores
<1>1. /\ s.pool \in CoinLists /\ s.module \in CoinLists /\ s.collector \in CoinLists
      /\ s.supply \in CoinLists /\ s.staked \in CoinLists
  BY CoinListIs DEF StoreTypeOK
<1>2. /\ s.bal \in [Accounts -> CoinLists] /\ s.outstanding \in [Validators -> CoinLists]
      /\ s.commission \in [Validators -> CoinLists] /\ s.rewards \in [Validators -> CoinLists]
  BY ListsOf DEF StoreTypeOK
<1>3. s.hist \in [Validators -> Histories]
  BY HistoryIs DEF StoreTypeOK
<1>4. /\ s = [pool |-> s.pool, module |-> s.module, collector |-> s.collector,
            supply |-> s.supply, staked |-> s.staked, bal |-> s.bal,
            proposer |-> s.proposer, first |-> s.first, outstanding |-> s.outstanding,
            commission |-> s.commission, rewards |-> s.rewards, period |-> s.period,
            hist |-> s.hist, info |-> s.info, withdraw |-> s.withdraw]
      /\ s.proposer \in Validators /\ s.first \in Validators /\ s.period \in [Validators -> Nat]
      /\ s.info \in [Accounts \X Validators -> Infos]
      /\ s.withdraw \in [Accounts -> Payees \cup {NoAddr}]
  BY DEF StoreTypeOK, Infos
<1> QED BY <1>1, <1>2, <1>3, <1>4 DEF Stores

\* The holders of coins are finitely many.
LEMMA FiniteHolders == IsFiniteSet(Accounts) /\ IsFiniteSet(Validators) /\ Validators \subseteq Accounts
                       /\ Known \subseteq Validators
  BY DistributionAssumption, FS_Subset

\* One holder's coins change.
LEMMA SumCoinsFacts ==
    ASSUME NEW S, IsFiniteSet(S), NEW f \in [S -> CoinLists], NEW d
    PROVE  /\ SumCoins(f, S, d) \in Nat
           /\ \A a \in S, c \in CoinLists :
                SumCoins([f EXCEPT ![a] = c], S, d) =
                  SumCoins(f, S, d) + (AmountOf(c, d) - AmountOf(f[a], d))
<1> DEFINE g == [x \in S |-> AmountOf(f[x], d)]
<1>1. \A x \in S : g[x] \in Nat
  BY AmountType
<1>2. Total(g, S) \in Nat
  <2> HIDE DEF g
  <2> QED BY <1>1, SumNat
<1>3. ASSUME NEW a \in S, NEW c \in CoinLists
      PROVE  SumCoins([f EXCEPT ![a] = c], S, d) =
                  SumCoins(f, S, d) + (AmountOf(c, d) - AmountOf(f[a], d))
  <2> DEFINE h == [x \in S |-> AmountOf([f EXCEPT ![a] = c][x], d)]
  <2>1. \A x \in S : h[x] \in Nat
    BY AmountType
  <2>2. \A x \in S \ {a} : g[x] = h[x]
    OBVIOUS
  <2>3. h[a] = AmountOf(c, d) /\ g[a] = AmountOf(f[a], d)
    OBVIOUS
  <2>4. Total(h, S) = Total(g, S) + (h[a] - g[a])
    <3> HIDE DEF g, h
    <3>1. \A x \in S : g[x] \in Int /\ h[x] \in Int
      BY <1>1, <2>1
    <3> QED BY <2>2, <3>1, SumUpdate
  <2>5. SumCoins([f EXCEPT ![a] = c], S, d) = Total(h, S) /\ SumCoins(f, S, d) = Total(g, S)
    BY DEF SumCoins
  <2> HIDE DEF g, h
  <2> QED BY <2>3, <2>4, <2>5
<1> QED BY <1>2, <1>3 DEF SumCoins

\* From<UnsignedCoins> keeps sums and differences.
LEMMA WholeAdd ==
    /\ \A x, y \in Int : Whole(x + y) = Whole(x) + Whole(y)
    /\ \A x, y \in Int : Whole(x - y) = Whole(x) - Whole(y)
    /\ \A x \in Int : Whole(x) \in Int
<1>1. Unit \in Int
  BY UnitNat
<1>2. ASSUME NEW x \in Int, NEW y \in Int
      PROVE Whole(x + y) = Whole(x) + Whole(y) /\ Whole(x - y) = Whole(x) - Whole(y)
  BY <1>1, Z3 DEF Whole
<1>3. \A x \in Int : Whole(x) \in Int
  BY <1>1 DEF Whole
<1> QED BY <1>2, <1>3

(***************************************************************************)
(* What the module holds beyond what it owes, and what is held beyond the  *)
(* supply, of one denomination.                                            *)
(***************************************************************************)
Excess(s, d) ==
    Whole(AmountOf(s.module, d)) - AmountOf(s.pool, d) - SumCoins(s.outstanding, Validators, d)
Held(s, d) ==
    AmountOf(s.collector, d) + AmountOf(s.module, d) + SumCoins(s.bal, Accounts, d)
      + AmountOf(s.staked, d) - AmountOf(s.supply, d)

\* A step that moves neither.
Kept(s, t) == \A d : Excess(t, d) = Excess(s, d) /\ Held(t, d) = Held(s, d)

\* Everything a store says of a denomination is a number.
LEMMA StoreAmounts ==
    ASSUME NEW s \in Stores, NEW d
    PROVE  /\ AmountOf(s.pool, d) \in Nat /\ AmountOf(s.module, d) \in Nat
           /\ AmountOf(s.collector, d) \in Nat /\ AmountOf(s.staked, d) \in Nat
           /\ AmountOf(s.supply, d) \in Nat
           /\ SumCoins(s.outstanding, Validators, d) \in Nat
           /\ SumCoins(s.bal, Accounts, d) \in Nat
           /\ \A v \in Validators : AmountOf(s.outstanding[v], d) \in Nat
           /\ \A a \in Accounts : AmountOf(s.bal[a], d) \in Nat
           /\ Excess(s, d) \in Int /\ Held(s, d) \in Int
<1>1. /\ s.pool \in CoinLists /\ s.module \in CoinLists /\ s.collector \in CoinLists
      /\ s.supply \in CoinLists /\ s.staked \in CoinLists
      /\ s.bal \in [Accounts -> CoinLists] /\ s.outstanding \in [Validators -> CoinLists]
  BY DEF Stores
<1>2. /\ AmountOf(s.pool, d) \in Nat /\ AmountOf(s.module, d) \in Nat
      /\ AmountOf(s.collector, d) \in Nat /\ AmountOf(s.staked, d) \in Nat
      /\ AmountOf(s.supply, d) \in Nat
      /\ \A v \in Validators : AmountOf(s.outstanding[v], d) \in Nat
      /\ \A a \in Accounts : AmountOf(s.bal[a], d) \in Nat
  BY <1>1, AmountType
<1>3. SumCoins(s.outstanding, Validators, d) \in Nat /\ SumCoins(s.bal, Accounts, d) \in Nat
  BY <1>1, FiniteHolders, SumCoinsFacts
<1>4. Whole(AmountOf(s.module, d)) \in Int
  BY <1>2, WholeAdd
<1> QED BY <1>2, <1>3, <1>4 DEF Excess, Held

(***************************************************************************)
(* Lists without zeros, which are the ones that can be read back.          *)
(***************************************************************************)

\* A list can be read back when none of its amounts is zero.
LEMMA ListableIs ==
    ASSUME NEW c \in CoinLists
    PROVE  Listable(c) <=> \A d \in DOMAIN c : c[d] > 0
<1>1. DOMAIN NoCoins = {} /\ c \in [DOMAIN c -> Nat] /\ NoCoins \in [{} -> Nat]
  BY CoinListIs DEF IsCoinList, NoCoins
<1>2. DOMAIN c = {} => c = NoCoins
  BY <1>1
<1> QED BY <1>1, <1>2 DEF Listable, IsCoins

\* What Coins::new accepts can be read back.
LEMMA CoinsNotEmpty == ASSUME NEW c, IsCoins(c) PROVE c # NoCoins /\ Listable(c)
  BY DEF IsCoins, NoCoins, Listable

\* Adding lists that can be read back yields one that can.
LEMMA PlusListable ==
    ASSUME NEW a \in CoinLists, NEW b \in CoinLists, Listable(a), Listable(b)
    PROVE  /\ Listable(Plus(a, b))
           /\ IsCoins(a) \/ IsCoins(b) => IsCoins(Plus(a, b))
<1>1. /\ DOMAIN a \in SUBSET Denom /\ a \in [DOMAIN a -> Nat]
      /\ DOMAIN b \in SUBSET Denom /\ b \in [DOMAIN b -> Nat]
  BY CoinListIs DEF IsCoinList
<1>2. (\A d \in DOMAIN a : a[d] > 0) /\ (\A d \in DOMAIN b : b[d] > 0)
  BY ListableIs
<1>3. DOMAIN Plus(a, b) = DOMAIN a \cup DOMAIN b
  BY DEF Plus, Listed
<1>4. \A d \in DOMAIN a \cup DOMAIN b : AmountOf(a, d) + AmountOf(b, d) > 0
  BY <1>1, <1>2 DEF AmountOf
<1>5. \A d \in DOMAIN Plus(a, b) : Plus(a, b)[d] > 0
  BY <1>3, <1>4 DEF Plus, Listed
<1>6. Plus(a, b) \in CoinLists
  BY PlusFacts
<1> QED BY <1>3, <1>5, <1>6, ListableIs DEF IsCoins

\* truncate_decimal drops the coins that are zero.
LEMMA SplitListable ==
    ASSUME NEW c \in CoinLists
    PROVE  Listable(Truncated(c)) /\ Listable(Change(c))
  BY TruncateFacts, ListableIs

\* From<UnsignedCoins> makes no coin zero.
LEMMA DecimalListable ==
    ASSUME NEW c \in CoinLists, Listable(c)
    PROVE  Listable(ToDecimal(c)) /\ (c # NoCoins => IsCoins(ToDecimal(c)))
<1>1. CASE c = NoCoins
  <2>1. ToDecimal(c) = NoCoins
    BY <1>1 DEF ToDecimal, NoCoins
  <2> QED BY <1>1, <2>1 DEF Listable
<1>2. CASE IsCoins(c)
  BY <1>2, ToDecimalFacts DEF Listable
<1> QED BY <1>1, <1>2 DEF Listable

(***************************************************************************)
(* What makes a store sound: the counts are those of the references, every *)
(* list can be read back, records are of periods that have ended.          *)
(***************************************************************************)
Sound(s) ==
    /\ s \in Stores /\ Listable(s.collector)
    /\ \A v \in Validators : Counted(s, v) /\ Readable(s, v) /\ Ended(s, v)

\* The references of a validator do not change.  Rewards may be its first.
SameReferences(s, t, v) ==
    /\ t.info = s.info /\ t.hist[v] = s.hist[v] /\ t.period[v] = s.period[v]
    /\ s.rewards[v] # NoCoins => t.rewards[v] # NoCoins

\* What the reference counts rest on has not changed.
LEMMA ReferencesKept ==
    ASSUME NEW s \in Stores, NEW t \in Stores, NEW v \in Validators,
           Counted(s, v), Ended(s, v), HistoricalReadable(s, v), SameReferences(s, t, v)
    PROVE  Counted(t, v) /\ Ended(t, v) /\ HistoricalReadable(t, v)
<1>1. DOMAIN s.hist[v] \subseteq Nat /\ s.period[v] \in Nat
  BY HistoryFacts DEF Stores
<1>2. \A p \in DOMAIN s.hist[v] : CurrentAfter(t, v, p) = CurrentAfter(s, v, p)
  <2> TAKE p \in DOMAIN s.hist[v]
  <2>1. CASE s.rewards[v] # NoCoins
    BY <2>1 DEF CurrentAfter, SameReferences
  <2>2. CASE s.rewards[v] = NoCoins
    <3>1. p + 1 # s.period[v]
      BY <1>1, <2>2 DEF Ended
    <3> QED BY <3>1 DEF CurrentAfter, SameReferences
  <2> QED BY <2>1, <2>2
<1>3. \A p : Started(t, v, p) = Started(s, v, p)
  BY DEF Started, SameReferences
<1>4. Counted(t, v)
  BY <1>2, <1>3 DEF Counted, SameReferences
<1>5. Ended(t, v)
  BY DEF Ended, SameReferences
<1>6. HistoricalReadable(t, v)
  BY DEF HistoricalReadable, SameReferences
<1> QED BY <1>4, <1>5, <1>6

\* Only coins move, and every list can still be read back.
LEMMA SoundOf ==
    ASSUME NEW s, Sound(s), NEW t \in Stores, Listable(t.collector), Listable(t.pool),
           \A v \in Validators : /\ SameReferences(s, t, v) /\ Listable(t.outstanding[v])
                                 /\ Listable(t.commission[v]) /\ Listable(t.rewards[v])
    PROVE  Sound(t)
<1>1. s \in Stores
  BY DEF Sound
<1>2. \A v \in Validators : Counted(s, v) /\ Ended(s, v) /\ HistoricalReadable(s, v)
  BY DEF Sound, Readable
<1>3. \A v \in Validators : Counted(t, v) /\ Ended(t, v) /\ HistoricalReadable(t, v)
  BY <1>1, <1>2, ReferencesKept
<1>4. \A v \in Validators : Readable(t, v)
  BY <1>3 DEF Readable, PoolReadable, OutstandingReadable, CommissionReadable, CurrentReadable
<1> QED BY <1>3, <1>4 DEF Sound

\* The lists of a sound store can be read back.
LEMMA SoundLists ==
    ASSUME NEW s, Sound(s)
    PROVE  /\ s \in Stores /\ Listable(s.collector) /\ Listable(s.pool)
           /\ \A v \in Validators : /\ Listable(s.outstanding[v]) /\ Listable(s.commission[v])
                                    /\ Listable(s.rewards[v])
<1>1. s.proposer \in Validators
  BY DEF Sound, Stores
<1> QED
  BY <1>1 DEF Sound, Readable, PoolReadable, OutstandingReadable, CommissionReadable, CurrentReadable

\* allocate_tokens_to_validator: the tokens become outstanding.
LEMMA AllocateFacts ==
    ASSUME NEW s, Sound(s), NEW v \in Validators, NEW c \in CoinLists, IsCoins(c),
           NEW t \in AllocateToValidator(s, v, c)
    PROVE  /\ Sound(t) /\ t.proposer = s.proposer /\ t.info = s.info
           /\ \A d : Excess(t, d) = Excess(s, d) - AmountOf(c, d) /\ Held(t, d) = Held(s, d)
<1> DEFINE m == MulRound(c, CommissionRate[v])
<1>1. IsCoins(m) /\ CanMinus(c, m) /\ m \in CoinLists
  <2>1. CommissionRate[v] \in Nat
    BY DistributionAssumption
  <2> QED BY <2>1, ScaledTypes DEF AllocateToValidator
<1> DEFINE com == [s.commission EXCEPT ![v] = Plus(s.commission[v], m)]
           rew == [s.rewards EXCEPT ![v] = Plus(s.rewards[v], Minus(c, m))]
           out == [s.outstanding EXCEPT ![v] = Plus(s.outstanding[v], c)]
<1>2. t = [s EXCEPT !.commission = com, !.rewards = rew, !.outstanding = out]
  BY <1>1 DEF AllocateToValidator
<1>3. Minus(c, m) \in CoinLists /\ IsCoins(Minus(c, m))
  BY <1>1, CanMinusFacts
<1>4. s \in Stores /\ s.commission \in [Validators -> CoinLists]
      /\ s.rewards \in [Validators -> CoinLists] /\ s.outstanding \in [Validators -> CoinLists]
  BY DEF Sound, Stores
<1>5. /\ Plus(s.commission[v], m) \in CoinLists /\ Plus(s.rewards[v], Minus(c, m)) \in CoinLists
      /\ Plus(s.outstanding[v], c) \in CoinLists
      /\ \A d : AmountOf(Plus(s.outstanding[v], c), d) = AmountOf(s.outstanding[v], d) + AmountOf(c, d)
  BY <1>1, <1>3, <1>4, PlusFacts
<1>6. /\ Listable(Plus(s.commission[v], m)) /\ Listable(Plus(s.outstanding[v], c))
      /\ IsCoins(Plus(s.rewards[v], Minus(c, m)))
  BY <1>1, <1>3, <1>4, PlusListable, SoundLists, CoinsNotEmpty
<1> HIDE DEF m
<1>7. /\ com \in [Validators -> CoinLists] /\ rew \in [Validators -> CoinLists]
      /\ out \in [Validators -> CoinLists]
      /\ \A w \in Validators : /\ Listable(com[w]) /\ Listable(rew[w]) /\ Listable(out[w])
                               /\ s.rewards[w] # NoCoins => rew[w] # NoCoins
  BY <1>4, <1>5, <1>6, SoundLists, CoinsNotEmpty
<1>8. \A d : SumCoins(out, Validators, d) = SumCoins(s.outstanding, Validators, d) + AmountOf(c, d)
  <2> TAKE d
  <2>1. SumCoins(out, Validators, d) = SumCoins(s.outstanding, Validators, d)
          + (AmountOf(Plus(s.outstanding[v], c), d) - AmountOf(s.outstanding[v], d))
    BY <1>4, <1>5, FiniteHolders, SumCoinsFacts
  <2>2. SumCoins(s.outstanding, Validators, d) \in Nat /\ AmountOf(s.outstanding[v], d) \in Nat
        /\ AmountOf(c, d) \in Nat
    BY <1>4, StoreAmounts, AmountType
  <2> QED BY <1>5, <2>1, <2>2
<1> HIDE DEF com, rew, out
<1>9. /\ t \in Stores /\ t.commission = com /\ t.rewards = rew /\ t.outstanding = out
      /\ t.collector = s.collector /\ t.pool = s.pool /\ t.module = s.module /\ t.bal = s.bal
      /\ t.supply = s.supply /\ t.staked = s.staked /\ t.info = s.info /\ t.hist = s.hist
      /\ t.period = s.period /\ t.proposer = s.proposer
  BY <1>2, <1>4, <1>7 DEF Stores
<1>10. Sound(t)
  BY <1>7, <1>9, SoundLists, SoundOf DEF SameReferences
<1>11. ASSUME NEW d PROVE Excess(t, d) = Excess(s, d) - AmountOf(c, d) /\ Held(t, d) = Held(s, d)
  <2>1. AmountOf(c, d) \in Nat
    BY AmountType
  <2>2. /\ AmountOf(s.module, d) \in Nat /\ AmountOf(s.pool, d) \in Nat
        /\ SumCoins(s.outstanding, Validators, d) \in Nat
    BY <1>4, StoreAmounts
  <2>3. Whole(AmountOf(s.module, d)) \in Int
    BY <2>2, WholeAdd
  <2> QED BY <1>8, <1>9, <2>1, <2>2, <2>3 DEF Excess, Held
<1> QED BY <1>9, <1>10, <1>11

\* The fees are collected: the module owes nobody for them yet.
LEMMA CollectFacts ==
    ASSUME NEW s, Sound(s)
    PROVE  /\ Sound(Collect(s)) /\ Collect(s).proposer = s.proposer
           /\ \A d : /\ Excess(Collect(s), d) = Excess(s, d) + AmountOf(ToDecimal(s.collector), d)
                     /\ Held(Collect(s), d) = Held(s, d)
<1> DEFINE t == Collect(s)
           m == Plus(s.module, s.collector)
<1>1. s \in Stores /\ s.module \in CoinLists /\ s.collector \in CoinLists /\ s.pool \in CoinLists
  BY DEF Sound, Stores
<1>2. m \in CoinLists /\ \A d : AmountOf(m, d) = AmountOf(s.module, d) + AmountOf(s.collector, d)
  BY <1>1, PlusFacts
<1>3. t = [s EXCEPT !.module = m, !.collector = NoCoins]
  BY DEF Collect
<1> HIDE DEF m
<1>4. /\ t \in Stores /\ t.module = m /\ t.collector = NoCoins
      /\ t.commission = s.commission /\ t.rewards = s.rewards /\ t.outstanding = s.outstanding
      /\ t.pool = s.pool /\ t.bal = s.bal /\ t.supply = s.supply /\ t.staked = s.staked
      /\ t.info = s.info /\ t.hist = s.hist /\ t.period = s.period /\ t.proposer = s.proposer
  BY <1>1, <1>2, <1>3, NoCoinsFacts DEF Stores
<1> HIDE DEF t
<1>5. Sound(t)
  <2>1. Listable(s.pool)
    BY SoundLists
  <2> QED BY <1>4, <2>1, SoundLists, SoundOf DEF SameReferences, Listable
<1>6. ASSUME NEW d
      PROVE  /\ Excess(t, d) = Excess(s, d) + AmountOf(ToDecimal(s.collector), d)
             /\ Held(t, d) = Held(s, d)
  <2>1. /\ AmountOf(s.module, d) \in Nat /\ AmountOf(s.pool, d) \in Nat
        /\ AmountOf(s.collector, d) \in Nat /\ AmountOf(s.staked, d) \in Nat
        /\ AmountOf(s.supply, d) \in Nat /\ SumCoins(s.bal, Accounts, d) \in Nat
        /\ SumCoins(s.outstanding, Validators, d) \in Nat
    BY <1>1, StoreAmounts
  <2>2. /\ Whole(AmountOf(s.module, d)) \in Int /\ Whole(AmountOf(s.collector, d)) \in Int
        /\ Whole(AmountOf(m, d)) = Whole(AmountOf(s.module, d)) + Whole(AmountOf(s.collector, d))
    BY <1>2, <2>1, WholeAdd
  <2>3. AmountOf(ToDecimal(s.collector), d) = Whole(AmountOf(s.collector, d))
    BY <1>1, ToDecimalFacts DEF Whole
  <2>4. AmountOf(NoCoins, d) = 0
    BY NoCoinsFacts
  <2>5. Held(t, d) = Held(s, d)
    BY <1>2, <1>4, <2>1, <2>4 DEF Held
  <2>6. Excess(t, d) = Excess(s, d) + AmountOf(ToDecimal(s.collector), d)
    BY <1>4, <2>1, <2>2, <2>3 DEF Excess
  <2> QED BY <2>5, <2>6
<1> QED BY <1>4, <1>5, <1>6 DEF t

(***************************************************************************)
(* While the fees of s are shared: a store, and what is left of the fees.  *)
(***************************************************************************)
Shares(s) ==
    {a \in [st : Stores, left : CoinLists] :
        /\ Sound(a.st) /\ IsCoins(a.left)
        /\ \A d \in Denom : /\ Excess(a.st, d) = Excess(s, d) + AmountOf(a.left, d)
                            /\ Held(a.st, d) = Held(s, d)}

\* One share of what is left is allocated.
LEMMA ShareFacts ==
    ASSUME NEW s \in Stores, NEW a \in Shares(s), NEW v \in Validators,
           NEW c \in CoinLists, IsCoins(c), CanMinus(a.left, c),
           NEW t \in AllocateToValidator(a.st, v, c)
    PROVE  [st |-> t, left |-> Minus(a.left, c)] \in Shares(s)
<1>1. Sound(a.st) /\ a.left \in CoinLists /\ a.st \in Stores
  BY DEF Shares
<1>2. /\ Sound(t)
      /\ \A d : Excess(t, d) = Excess(a.st, d) - AmountOf(c, d) /\ Held(t, d) = Held(a.st, d)
  BY <1>1, AllocateFacts
<1>3. /\ Minus(a.left, c) \in CoinLists /\ IsCoins(Minus(a.left, c))
      /\ \A d : AmountOf(Minus(a.left, c), d) = AmountOf(a.left, d) - AmountOf(c, d)
  BY <1>1, CanMinusFacts
<1>4. t \in Stores
  BY <1>2 DEF Sound
<1>5. ASSUME NEW d \in Denom
      PROVE  /\ Excess(t, d) = Excess(s, d) + AmountOf(Minus(a.left, c), d)
             /\ Held(t, d) = Held(s, d)
  <2>1. AmountOf(a.left, d) \in Nat /\ AmountOf(c, d) \in Nat
    BY <1>1, AmountType
  <2>2. Excess(s, d) \in Int
    BY StoreAmounts
  <2>3. Excess(a.st, d) = Excess(s, d) + AmountOf(a.left, d) /\ Held(a.st, d) = Held(s, d)
    BY DEF Shares
  <2> QED BY <1>2, <1>3, <2>1, <2>2, <2>3
<1> QED BY <1>2, <1>3, <1>4, <1>5 DEF Shares

\* One vote of allocate_tokens shares what is left.
LEMMA VoteShares ==
    ASSUME NEW s \in Stores, NEW acc \in SUBSET Shares(s), NEW fee \in CoinLists,
           NEW total \in Nat \ {0},
           NEW vote \in [validator : Accounts, power : Nat, signed : BOOLEAN]
    PROVE  AllocateVote(acc, vote, fee, total) \in SUBSET Shares(s)
<1> DEFINE fraction == Floor(DecDiv(Whole(vote.power), Whole(total)))
           reward == MulTruncate(fee, fraction)
<1>1. fraction \in Nat
  <2>1. Whole(vote.power) \in Nat /\ Whole(total) \in Nat /\ Whole(total) # 0
    BY DecTypes
  <2>2. DecDiv(Whole(vote.power), Whole(total)) \in Nat
    BY <2>1, DecTypes
  <2> QED BY <2>2, DecTypes
<1>2. reward \in CoinLists
  BY <1>1, ScaledTypes
<1> SUFFICES ASSUME NEW b \in AllocateVote(acc, vote, fee, total) PROVE b \in Shares(s)
  OBVIOUS
<1>3. /\ vote.validator \in Known /\ IsCoins(reward)
      /\ \E a \in acc : /\ CanMinus(a.left, reward)
                        /\ \E t \in AllocateToValidator(a.st, vote.validator, reward) :
                              b = [st |-> t, left |-> Minus(a.left, reward)]
  BY DEF AllocateVote
<1> HIDE DEF reward
<1> QED BY <1>2, <1>3, ShareFacts, FiniteHolders

\* The reward of the proposer comes first.
LEMMA ProposerShares ==
    ASSUME NEW s, Sound(s), s.collector # NoCoins, NEW reward \in CoinLists, IsCoins(reward)
    PROVE  AllocateToProposer(Collect(s), ToDecimal(s.collector), reward) \in SUBSET Shares(s)
<1> DEFINE fees == ToDecimal(s.collector)
           a == [st |-> Collect(s), left |-> fees]
<1>1. /\ s \in Stores /\ Sound(Collect(s)) /\ s.collector \in CoinLists
      /\ Collect(s).proposer \in Validators /\ Collect(s) \in Stores
  BY CollectFacts DEF Sound, Stores
<1>2. fees \in CoinLists /\ IsCoins(fees)
  BY <1>1, DecimalListable, ToDecimalFacts, SoundLists
<1>3. \A d : /\ Excess(Collect(s), d) = Excess(s, d) + AmountOf(fees, d)
             /\ Held(Collect(s), d) = Held(s, d)
  BY CollectFacts
<1> HIDE DEF fees
<1>4. a \in Shares(s)
  BY <1>1, <1>2, <1>3 DEF Shares
<1> SUFFICES ASSUME NEW b \in AllocateToProposer(Collect(s), fees, reward) PROVE b \in Shares(s)
  BY DEF fees
<1>5. CASE Collect(s).proposer \notin Known
  BY <1>4, <1>5 DEF AllocateToProposer
<1>6. CASE Collect(s).proposer \in Known
  <2>1. CanMinus(a.left, reward)
    BY <1>6 DEF AllocateToProposer
  <2>2. PICK t \in AllocateToValidator(a.st, Collect(s).proposer, reward) :
               b = [st |-> t, left |-> Minus(a.left, reward)]
    BY <1>6 DEF AllocateToProposer
  <2> HIDE DEF a
  <2> QED BY <1>1, <1>4, <2>1, <2>2, ShareFacts
<1> QED BY <1>5, <1>6

\* What is left goes to the pool.
LEMMA RestToPool ==
    ASSUME NEW s, Sound(s), NEW c \in CoinLists, Listable(c)
    PROVE  LET t == [s EXCEPT !.pool = Plus(@, c)]
           IN  /\ Sound(t) /\ t.info = s.info
               /\ \A d : Excess(t, d) = Excess(s, d) - AmountOf(c, d) /\ Held(t, d) = Held(s, d)
<1> DEFINE t == [s EXCEPT !.pool = Plus(@, c)]
           m == Plus(s.pool, c)
<1>0. s \in Stores /\ Listable(s.pool)
  BY SoundLists
<1>1. s \in Stores /\ s.pool \in CoinLists /\ Listable(s.pool)
  BY <1>0 DEF Stores
<1>2. m \in CoinLists /\ Listable(m) /\ \A d : AmountOf(m, d) = AmountOf(s.pool, d) + AmountOf(c, d)
  BY <1>1, PlusFacts, PlusListable
<1>3. t = [s EXCEPT !.pool = m]
  OBVIOUS
<1> HIDE DEF m
<1>4. /\ t \in Stores /\ t.pool = m /\ t.collector = s.collector
      /\ t.commission = s.commission /\ t.rewards = s.rewards /\ t.outstanding = s.outstanding
      /\ t.module = s.module /\ t.bal = s.bal /\ t.supply = s.supply /\ t.staked = s.staked
      /\ t.info = s.info /\ t.hist = s.hist /\ t.period = s.period /\ t.proposer = s.proposer
  BY <1>1, <1>2, <1>3 DEF Stores
<1> HIDE DEF t
<1>5. Sound(t)
  BY <1>2, <1>4, SoundLists, SoundOf DEF SameReferences
<1>6. ASSUME NEW d PROVE Excess(t, d) = Excess(s, d) - AmountOf(c, d) /\ Held(t, d) = Held(s, d)
  <2>1. /\ AmountOf(s.module, d) \in Nat /\ AmountOf(s.pool, d) \in Nat
        /\ SumCoins(s.outstanding, Validators, d) \in Nat
    BY <1>1, StoreAmounts
  <2>2. Whole(AmountOf(s.module, d)) \in Int
    BY <2>1, WholeAdd
  <2>3. AmountOf(c, d) \in Nat
    BY AmountType
  <2>4. Held(t, d) = Held(s, d)
    BY <1>4 DEF Held
  <2> QED BY <1>2, <1>4, <2>1, <2>2, <2>3, <2>4 DEF Excess
<1> QED BY <1>4, <1>5, <1>6 DEF t

\* The powers of the votes are natural numbers.
LEMMA PowerType ==
    ASSUME NEW votes \in Votes
    PROVE  /\ Power(votes) \in Nat /\ SignedPower(votes) \in Nat /\ Len(votes) \in Nat
           /\ \A i \in 1 .. Len(votes) :
                votes[i] \in [validator : Accounts, power : Nat, signed : BOOLEAN]
<1>1. votes \in Seq([validator : Accounts, power : Nat, signed : BOOLEAN])
  BY DistributionAssumption
<1>2. /\ Len(votes) \in Nat /\ DOMAIN votes = 1 .. Len(votes)
      /\ \A i \in 1 .. Len(votes) :
            votes[i] \in [validator : Accounts, power : Nat, signed : BOOLEAN]
  <2> DEFINE R == [validator : Accounts, power : Nat, signed : BOOLEAN]
  <2>1. votes \in Seq(R)
    BY <1>1
  <2> HIDE DEF R
  <2>2. /\ Len(votes) \in Nat /\ DOMAIN votes = 1 .. Len(votes)
        /\ \A i \in 1 .. Len(votes) : votes[i] \in R
    BY <2>1
  <2> QED BY <2>2 DEF R
<1>3. ASSUME NEW S \in SUBSET DOMAIN votes PROVE PowerOf(votes, S) \in Nat
  <2> DEFINE f == [i \in S |-> votes[i].power]
  <2>1. \A i \in S : f[i] \in Nat
    BY <1>2
  <2>2. IsFiniteSet(S)
    <3>1. IsFiniteSet(1 .. Len(votes))
      BY <1>2, FS_Interval
    <3> QED BY <1>2, <3>1, FS_Subset
  <2>3. Total(f, S) \in Nat
    <3> HIDE DEF f
    <3> QED BY <2>1, <2>2, SumNat
  <2> QED BY <2>3 DEF PowerOf
<1> QED BY <1>2, <1>3 DEF Power, SignedPower

\* allocate_tokens: every coin of the fees is owed to somebody afterwards.
LEMMA AllocateTokensFacts ==
    ASSUME NEW s, Sound(s), NEW votes \in Votes, NEW t \in AllocateTokens(s, votes)
    PROVE  /\ Sound(t)
           /\ \A d \in Denom : Excess(t, d) = Excess(s, d) /\ Held(t, d) = Held(s, d)
<1> DEFINE n == Len(votes)
           fees == ToDecimal(s.collector)
           c == Collect(s)
           total == Power(votes)
           fraction == DecDiv(Whole(SignedPower(votes)), Whole(total))
           proposer == BaseProposerReward + Floor(DecMul(BonusProposerReward, fraction))
           reward == MulTruncate(fees, proposer)
           fee == MulTruncate(fees, Unit - proposer - CommunityTax)
           base == AllocateToProposer(c, fees, reward)
           paid == CHOOSE g : g = [i \in 0..n |-> IF i = 0 THEN base
                                                  ELSE AllocateVote(g[i - 1], votes[i], fee, total)]
           V == SUBSET Shares(s)
           step == [z \in (1..n) \X V |-> AllocateVote(z[2], votes[z[1]], fee, total)]
<1>0. s \in Stores /\ Listable(s.collector)
  BY SoundLists
<1>a. s.collector # NoCoins
  BY DEF AllocateTokens
<1>1. s \in Stores /\ s.collector \in CoinLists /\ Listable(s.collector) /\ s.collector # NoCoins
  BY <1>0, <1>a DEF Stores
<1>2. fees \in CoinLists /\ IsCoins(fees)
  BY <1>1, ToDecimalFacts, DecimalListable
<1>3. /\ total \in Nat /\ SignedPower(votes) \in Nat /\ n \in Nat
      /\ \A i \in 1 .. n : votes[i] \in [validator : Accounts, power : Nat, signed : BOOLEAN]
  BY PowerType
<1>4. CASE total = 0
  <2>1. t = [c EXCEPT !.pool = Plus(@, fees)]
    BY <1>1, <1>4 DEF AllocateTokens
  <2>2. /\ Sound(c)
        /\ \A d : Excess(c, d) = Excess(s, d) + AmountOf(fees, d) /\ Held(c, d) = Held(s, d)
    BY CollectFacts
  <2>3. Listable(fees)
    BY <1>2, CoinsNotEmpty
  <2> HIDE DEF c, fees
  <2>4. /\ Sound(t)
        /\ \A d : Excess(t, d) = Excess(c, d) - AmountOf(fees, d) /\ Held(t, d) = Held(c, d)
    BY <1>2, <2>1, <2>2, <2>3, RestToPool
  <2>5. \A d : AmountOf(fees, d) \in Nat /\ Excess(s, d) \in Int
    BY <1>1, <1>2, AmountType, StoreAmounts
  <2> QED BY <2>2, <2>4, <2>5
<1>5. CASE total # 0
  <2>2. proposer \in Nat /\ CommunityTax \in Nat
    <3>1. Whole(SignedPower(votes)) \in Nat /\ Whole(total) \in Nat /\ Whole(total) # 0
      BY <1>3, <1>5, DecTypes
    <3>2. fraction \in Nat
      BY <3>1, DecTypes
    <3>3. BaseProposerReward \in Nat /\ BonusProposerReward \in Nat /\ CommunityTax \in Nat
      BY DistributionAssumption
    <3> HIDE DEF fraction
    <3>4. DecMul(BonusProposerReward, fraction) \in Nat
      BY <3>2, <3>3, DecTypes
    <3>5. Floor(DecMul(BonusProposerReward, fraction)) \in Nat
      BY <3>4, DecTypes
    <3> QED BY <3>3, <3>5
  <2>1. /\ IsCoins(reward) /\ proposer + CommunityTax <= Unit /\ IsCoins(fee)
        /\ \E a \in paid[n] : t = [a.st EXCEPT !.pool = Plus(@, a.left)]
    <3>1. /\ IsCoins(reward) /\ ~(proposer + CommunityTax > Unit) /\ IsCoins(fee)
          /\ t \in {[a.st EXCEPT !.pool = Plus(@, a.left)] : a \in paid[n]}
      BY <1>a, <1>5 DEF AllocateTokens
    <3> HIDE DEF proposer, paid, reward, fee, n
    <3> QED BY <2>2, <3>1, UnitNat
  <2>3. reward \in CoinLists /\ fee \in CoinLists
    <3>1. Unit - proposer - CommunityTax \in Nat
      BY <2>1, <2>2, UnitNat
    <3> HIDE DEF proposer, fees
    <3> QED BY <1>2, <2>2, <3>1, ScaledTypes
  <2> HIDE DEF reward, fee, proposer, fraction
  <2>4. base \in V
    BY <1>1, <2>1, <2>3, ProposerShares
  <2>5. \A i \in 1..n, acc \in V : AllocateVote(acc, votes[i], fee, total) \in V
    BY <1>1, <1>3, <1>5, <2>3, VoteShares
  <2> HIDE DEF base, V, n, total
  <2>6. \E g : g = [i \in 0..n |-> IF i = 0 THEN base
                                   ELSE AllocateVote(g[i - 1], votes[i], fee, total)]
    <3>1. \A i \in 1..n, a \in V : step[<<i, a>>] = AllocateVote(a, votes[i], fee, total)
      OBVIOUS
    <3>2. step \in [(1..n) \X V -> V]
      BY <2>5
    <3> HIDE DEF step
    <3>3. PICK f : IsLoop(f, n, V, base, step)
      BY <1>3, <2>4, <3>2, LoopExists
    <3>4. /\ f \in [0..n -> V] /\ f[0] = base
          /\ \A i \in 1..n : f[i] = step[<<i, f[i - 1]>>]
      BY <3>3 DEF IsLoop
    <3>5. ASSUME NEW i \in 0..n
          PROVE  f[i] = IF i = 0 THEN base ELSE AllocateVote(f[i - 1], votes[i], fee, total)
      <4>1. CASE i = 0
        BY <3>4, <4>1
      <4>2. CASE i # 0
        <5>1. i \in 1..n /\ i - 1 \in 0..n
          BY <1>3, <4>2
        <5>2. f[i - 1] \in V
          BY <3>4, <5>1
        <5> QED BY <3>1, <3>4, <4>2, <5>1, <5>2
      <4> QED BY <4>1, <4>2
    <3>6. f = [i \in 0..n |-> IF i = 0 THEN base ELSE AllocateVote(f[i - 1], votes[i], fee, total)]
      BY <3>4, <3>5
    <3> QED BY <3>6
  <2>7. paid = [i \in 0..n |-> IF i = 0 THEN base
                               ELSE AllocateVote(paid[i - 1], votes[i], fee, total)]
    BY <2>6
  <2> HIDE DEF paid
  <2>8. \A i \in 0..n : i \in {j \in 0..n : paid[j] \in V}
    <3> DEFINE G == {j \in 0..n : paid[j] \in V}
    <3>1. 0 \in G
      BY <1>3, <2>4, <2>7
    <3>2. ASSUME NEW i \in 1..n, i - 1 \in G PROVE i \in G
      <4>1. i \in 0..n /\ i # 0 /\ paid[i] = AllocateVote(paid[i - 1], votes[i], fee, total)
        BY <1>3, <2>7
      <4> QED BY <2>5, <3>2, <4>1
    <3> HIDE DEF G
    <3>3. \A i \in 0..n : i \in G
      BY <1>3, <3>1, <3>2, LoopInduction
    <3> QED BY <3>3 DEF G
  <2>9. PICK a \in Shares(s) : t = [a.st EXCEPT !.pool = Plus(@, a.left)]
    <3>1. paid[n] \in V
      BY <1>3, <2>8
    <3> QED BY <2>1, <3>1 DEF V
  <2>10. /\ Sound(a.st) /\ a.left \in CoinLists /\ Listable(a.left)
         /\ \A d \in Denom : /\ Excess(a.st, d) = Excess(s, d) + AmountOf(a.left, d)
                             /\ Held(a.st, d) = Held(s, d)
    BY CoinsNotEmpty DEF Shares
  <2>11. /\ Sound(t)
         /\ \A d : Excess(t, d) = Excess(a.st, d) - AmountOf(a.left, d) /\ Held(t, d) = Held(a.st, d)
    BY <2>9, <2>10, RestToPool
  <2>12. \A d : AmountOf(a.left, d) \in Nat /\ Excess(s, d) \in Int
    BY <1>1, <2>10, AmountType, StoreAmounts
  <2> QED BY <2>10, <2>11, <2>12
<1> QED BY <1>4, <1>5

(***************************************************************************)
(* Withdrawals.                                                            *)
(***************************************************************************)

\* The outstanding rewards of one validator become c.
LEMMA OutstandingSet ==
    ASSUME NEW s \in Stores, NEW v \in Validators, NEW c \in CoinLists
    PROVE  LET t == [s EXCEPT !.outstanding[v] = c]
           IN  /\ t \in Stores
               /\ \A d : Excess(t, d) = Excess(s, d) + AmountOf(s.outstanding[v], d) - AmountOf(c, d)
               /\ \A d : Held(t, d) = Held(s, d)
<1> DEFINE t == [s EXCEPT !.outstanding[v] = c]
           out == [s.outstanding EXCEPT ![v] = c]
<1>1. s.outstanding \in [Validators -> CoinLists]
  BY DEF Stores
<1>2. out \in [Validators -> CoinLists] /\ t = [s EXCEPT !.outstanding = out]
  BY <1>1
<1>3. \A d : SumCoins(out, Validators, d) = SumCoins(s.outstanding, Validators, d)
                 + (AmountOf(c, d) - AmountOf(s.outstanding[v], d))
  BY <1>1, FiniteHolders, SumCoinsFacts
<1> HIDE DEF out
<1>4. /\ t \in Stores /\ t.outstanding = out /\ t.pool = s.pool /\ t.collector = s.collector
      /\ t.module = s.module /\ t.bal = s.bal /\ t.supply = s.supply /\ t.staked = s.staked
  BY <1>2 DEF Stores
<1> HIDE DEF t
<1>5. ASSUME NEW d
      PROVE  /\ Excess(t, d) = Excess(s, d) + AmountOf(s.outstanding[v], d) - AmountOf(c, d)
             /\ Held(t, d) = Held(s, d)
  <2>1. /\ AmountOf(s.module, d) \in Nat /\ AmountOf(s.pool, d) \in Nat
        /\ SumCoins(s.outstanding, Validators, d) \in Nat /\ AmountOf(s.outstanding[v], d) \in Nat
    BY StoreAmounts
  <2>2. Whole(AmountOf(s.module, d)) \in Int
    BY <2>1, WholeAdd
  <2>3. AmountOf(c, d) \in Nat
    BY AmountType
  <2>4. Held(t, d) = Held(s, d)
    BY <1>4 DEF Held
  <2> QED BY <1>3, <1>4, <2>1, <2>2, <2>3, <2>4 DEF Excess
<1> QED BY <1>4, <1>5 DEF t

\* send_coins_from_module_to_account.
LEMMA SendFacts ==
    ASSUME NEW s \in Stores, NEW a \in Payees, NEW c \in CoinLists,
           NEW t \in SendFromModule(s, a, c)
    PROVE  /\ t \in Stores
           /\ \A d : /\ Excess(t, d) = Excess(s, d) - Whole(AmountOf(c, d))
                     /\ Held(t, d) = Held(s, d)
           /\ t.pool = s.pool /\ t.collector = s.collector /\ t.outstanding = s.outstanding
           /\ t.commission = s.commission /\ t.rewards = s.rewards /\ t.period = s.period
           /\ t.hist = s.hist /\ t.info = s.info
<1> DEFINE m == Minus(s.module, c)
           bal == [s.bal EXCEPT ![a] = Plus(s.bal[a], c)]
<1>1. IsAllGte(s.module, c) /\ t = [s EXCEPT !.module = m, !.bal = bal] /\ a \in Accounts
  BY DEF SendFromModule, Payees
<1>2. s.module \in CoinLists /\ s.bal \in [Accounts -> CoinLists]
  BY DEF Stores
<1>3. m \in CoinLists /\ \A d : AmountOf(m, d) = AmountOf(s.module, d) - AmountOf(c, d)
  BY <1>1, <1>2, MinusFacts
<1>4. /\ Plus(s.bal[a], c) \in CoinLists
      /\ \A d : AmountOf(Plus(s.bal[a], c), d) = AmountOf(s.bal[a], d) + AmountOf(c, d)
  BY <1>1, <1>2, PlusFacts
<1>5. bal \in [Accounts -> CoinLists]
  BY <1>2, <1>4
<1>6. \A d : SumCoins(bal, Accounts, d) = SumCoins(s.bal, Accounts, d)
                 + (AmountOf(Plus(s.bal[a], c), d) - AmountOf(s.bal[a], d))
  BY <1>1, <1>2, <1>4, FiniteHolders, SumCoinsFacts
<1> HIDE DEF m, bal
<1>7. /\ t \in Stores /\ t.module = m /\ t.bal = bal /\ t.supply = s.supply /\ t.staked = s.staked
      /\ t.pool = s.pool /\ t.collector = s.collector /\ t.outstanding = s.outstanding
      /\ t.commission = s.commission /\ t.rewards = s.rewards /\ t.period = s.period
      /\ t.hist = s.hist /\ t.info = s.info
  BY <1>1, <1>3, <1>5 DEF Stores
<1>8. ASSUME NEW d
      PROVE  /\ Excess(t, d) = Excess(s, d) - Whole(AmountOf(c, d))
             /\ Held(t, d) = Held(s, d)
  <2>1. /\ AmountOf(s.module, d) \in Nat /\ AmountOf(s.pool, d) \in Nat
        /\ SumCoins(s.outstanding, Validators, d) \in Nat /\ SumCoins(s.bal, Accounts, d) \in Nat
        /\ AmountOf(s.bal[a], d) \in Nat /\ AmountOf(s.collector, d) \in Nat
        /\ AmountOf(s.staked, d) \in Nat /\ AmountOf(s.supply, d) \in Nat
    BY <1>1, StoreAmounts
  <2>2. AmountOf(c, d) \in Nat
    BY AmountType
  <2>3. /\ Whole(AmountOf(s.module, d)) \in Int /\ Whole(AmountOf(c, d)) \in Int
        /\ Whole(AmountOf(m, d)) = Whole(AmountOf(s.module, d)) - Whole(AmountOf(c, d))
    BY <1>3, <2>1, <2>2, WholeAdd
  <2>4. SumCoins(bal, Accounts, d) = SumCoins(s.bal, Accounts, d) + AmountOf(c, d)
    BY <1>4, <1>6, <2>1, <2>2
  <2>5. Held(t, d) = Held(s, d)
    BY <1>3, <1>7, <2>1, <2>2, <2>4 DEF Held
  <2>6. Excess(t, d) = Excess(s, d) - Whole(AmountOf(c, d))
    BY <1>7, <2>1, <2>3 DEF Excess
  <2> QED BY <2>5, <2>6
<1> QED BY <1>7, <1>8

\* A validator without tokens leaves its rewards to the community pool.
LEMMA RewardsToPoolFacts ==
    ASSUME NEW s, Sound(s), NEW v \in Validators, NEW t \in RewardsToPool(s, v)
    PROVE  /\ Sound(t) /\ Kept(s, t) /\ t.info = s.info /\ t.hist = s.hist
           /\ t.period = s.period /\ t.rewards = s.rewards
<1> DEFINE c == Minus(s.outstanding[v], s.rewards[v])
           u == [s EXCEPT !.pool = Plus(@, s.rewards[v])]
<1>1. /\ CanMinus(s.outstanding[v], s.rewards[v]) /\ s \in Stores
      /\ t = [s EXCEPT !.pool = Plus(@, s.rewards[v]), !.outstanding[v] = c]
  BY DEF RewardsToPool, Sound
<1>2. s.outstanding[v] \in CoinLists /\ s.rewards[v] \in CoinLists /\ s.pool \in CoinLists
  BY <1>1 DEF Stores
<1>3. /\ c \in CoinLists /\ IsCoins(c)
      /\ \A d : AmountOf(c, d) = AmountOf(s.outstanding[v], d) - AmountOf(s.rewards[v], d)
  BY <1>1, <1>2, CanMinusFacts
<1>4. Listable(s.rewards[v])
  BY SoundLists
<1> HIDE DEF c
<1>5. /\ Sound(u)
      /\ \A d : Excess(u, d) = Excess(s, d) - AmountOf(s.rewards[v], d) /\ Held(u, d) = Held(s, d)
  BY <1>2, <1>4, RestToPool
<1>6. /\ u \in Stores /\ t = [u EXCEPT !.outstanding[v] = c] /\ u.outstanding = s.outstanding
      /\ u.info = s.info /\ u.hist = s.hist /\ u.period = s.period /\ u.rewards = s.rewards
  BY <1>1, <1>5 DEF Sound, Stores
<1> HIDE DEF u
<1>7. /\ t \in Stores
      /\ \A d : Excess(t, d) = Excess(u, d) + AmountOf(u.outstanding[v], d) - AmountOf(c, d)
      /\ \A d : Held(t, d) = Held(u, d)
  BY <1>3, <1>6, OutstandingSet
<1>8. Kept(s, t)
  <2>1. \A d : Excess(s, d) \in Int /\ AmountOf(s.outstanding[v], d) \in Nat
    BY <1>1, StoreAmounts
  <2>2. \A d : AmountOf(s.rewards[v], d) \in Nat
    BY <1>2, AmountType
  <2> QED BY <1>3, <1>5, <1>6, <1>7, <2>1, <2>2 DEF Kept
<1>9. /\ t.info = u.info /\ t.hist = u.hist /\ t.period = u.period /\ t.rewards = u.rewards
      /\ t.pool = u.pool /\ t.collector = u.collector /\ t.commission = u.commission
      /\ t.outstanding = [u.outstanding EXCEPT ![v] = c]
  BY <1>6 DEF Stores
<1>10. \A w \in Validators : Listable(t.outstanding[w])
  <2>1. u.outstanding \in [Validators -> CoinLists]
    BY <1>6 DEF Stores
  <2> QED BY <1>3, <1>5, <1>9, <2>1, SoundLists, CoinsNotEmpty
<1>11. Sound(t)
  BY <1>5, <1>7, <1>9, <1>10, SoundLists, SoundOf DEF SameReferences
<1> QED BY <1>6, <1>8, <1>9, <1>11

(***************************************************************************)
(* Historical rewards.                                                     *)
(***************************************************************************)

\* What a change of the history of v leaves alone.
HistoryOnly(s, t, v) ==
    /\ t.pool = s.pool /\ t.module = s.module /\ t.collector = s.collector
    /\ t.supply = s.supply /\ t.staked = s.staked /\ t.bal = s.bal
    /\ t.outstanding = s.outstanding /\ t.commission = s.commission
    /\ t.rewards = s.rewards /\ t.info = s.info /\ t.period = s.period
    /\ \A w \in Validators \ {v} : t.hist[w] = s.hist[w]

\* A write of the records of one validator.
LEMMA HistorySet ==
    ASSUME NEW s \in Stores, NEW v \in Validators, NEW h \in Histories
    PROVE  LET t == [s EXCEPT !.hist[v] = h]
           IN  t \in Stores /\ HistoryOnly(s, t, v) /\ t.hist[v] = h
<1> DEFINE t == [s EXCEPT !.hist[v] = h]
           g == [s.hist EXCEPT ![v] = h]
<1>1. s.hist \in [Validators -> Histories]
  BY DEF Stores
<1>2. /\ g \in [Validators -> Histories] /\ t = [s EXCEPT !.hist = g] /\ g[v] = h
      /\ \A w \in Validators \ {v} : g[w] = s.hist[w]
  BY <1>1
<1> HIDE DEF g
<1>3. t \in Stores /\ HistoryOnly(s, t, v) /\ t.hist[v] = h
  BY <1>2 DEF Stores, HistoryOnly
<1> QED BY <1>3

\* increment_reference_count adds one reference, up to the limit.
LEMMA IncrementFacts ==
    ASSUME NEW s \in Stores, NEW v \in Validators, NEW p \in Int,
           NEW t \in IncrementReferenceCount(s, v, p)
    PROVE  /\ t \in Stores /\ HistoryOnly(s, t, v)
           /\ p \in DOMAIN s.hist[v] /\ DOMAIN t.hist[v] = DOMAIN s.hist[v]
           /\ \A q \in DOMAIN s.hist[v] :
                /\ t.hist[v][q].ratio = s.hist[v][q].ratio
                /\ t.hist[v][q].count = s.hist[v][q].count + (IF q = p THEN 1 ELSE 0)
           /\ t.hist[v][p].count <= UpperLimit
<1> DEFINE g == s.hist[v]
           h == [g EXCEPT ![p] = [g[p] EXCEPT !.count = g[p].count + 1]]
<1>1. p \in DOMAIN g /\ g[p].count < UpperLimit
  BY DEF IncrementReferenceCount
<1>2. s.hist \in [Validators -> Histories] /\ g \in Histories
  BY DEF Stores
<1>3. DOMAIN g \in SUBSET Nat /\ g \in [DOMAIN g -> Records]
  BY <1>2, HistoryFacts
<1>4. t = [s EXCEPT !.hist[v] = h]
  <2>1. t = [s EXCEPT !.hist[v][p].count = @ + 1]
    BY <1>1 DEF IncrementReferenceCount
  <2> QED BY <2>1
<1>5. h \in [DOMAIN g -> Records]
  <2>1. [g[p] EXCEPT !.count = g[p].count + 1] \in Records
    BY <1>1, <1>3 DEF Records
  <2> QED BY <1>3, <2>1
<1>6. h \in Histories
  BY <1>3, <1>5, HistoryOf
<1>7. \A q \in DOMAIN g : /\ h[q].ratio = g[q].ratio
                          /\ h[q].count = g[q].count + (IF q = p THEN 1 ELSE 0)
  BY <1>3 DEF Records
<1>8. h[p].count <= UpperLimit
  BY <1>1, <1>3, <1>7 DEF Records, UpperLimit
<1>9. DOMAIN h = DOMAIN g
  OBVIOUS
<1> HIDE DEF h
<1>10. t \in Stores /\ HistoryOnly(s, t, v) /\ t.hist[v] = h
  BY <1>4, <1>6, HistorySet
<1> QED BY <1>1, <1>7, <1>8, <1>9, <1>10

\* decrement_reference_count: the record goes with its last reference.
LEMMA DecrementFacts ==
    ASSUME NEW s \in Stores, NEW v \in Validators, NEW p \in Int,
           NEW t \in DecrementReferenceCount(s, v, p)
    PROVE  /\ t \in Stores /\ HistoryOnly(s, t, v) /\ p \in DOMAIN s.hist[v]
           /\ DOMAIN t.hist[v] =
                DOMAIN s.hist[v] \ (IF s.hist[v][p].count = 1 THEN {p} ELSE {})
           /\ \A q \in DOMAIN t.hist[v] :
                /\ t.hist[v][q].ratio = s.hist[v][q].ratio
                /\ t.hist[v][q].count = s.hist[v][q].count - (IF q = p THEN 1 ELSE 0)
<1> DEFINE g == s.hist[v]
<1>1. p \in DOMAIN g
  BY DEF DecrementReferenceCount
<1>2. s.hist \in [Validators -> Histories] /\ g \in Histories
  BY DEF Stores
<1>3. DOMAIN g \in SUBSET Nat /\ g \in [DOMAIN g -> Records]
  BY <1>2, HistoryFacts
<1>4. CASE g[p].count = 1
  <2> DEFINE h == [q \in DOMAIN g \ {p} |-> g[q]]
  <2>1. t = [s EXCEPT !.hist[v] = h]
    BY <1>1, <1>4 DEF DecrementReferenceCount, Restrict
  <2>2. h \in [DOMAIN g \ {p} -> Records] /\ DOMAIN g \ {p} \in SUBSET Nat
    BY <1>3
  <2>3. h \in Histories
    BY <2>2, HistoryOf
  <2>4. \A q \in DOMAIN g \ {p} : /\ h[q].ratio = g[q].ratio
                                  /\ h[q].count = g[q].count - (IF q = p THEN 1 ELSE 0)
    BY <1>3 DEF Records
  <2>5. DOMAIN h = DOMAIN g \ {p}
    OBVIOUS
  <2> HIDE DEF h
  <2>6. t \in Stores /\ HistoryOnly(s, t, v) /\ t.hist[v] = h
    BY <2>1, <2>3, HistorySet
  <2> QED BY <1>1, <1>4, <2>4, <2>5, <2>6
<1>5. CASE g[p].count # 1
  <2> DEFINE h == [g EXCEPT ![p] = [g[p] EXCEPT !.count = g[p].count - 1]]
  <2>1. t = [s EXCEPT !.hist[v] = h]
    <3>1. t = [s EXCEPT !.hist[v][p].count = @ - 1]
      BY <1>1, <1>5 DEF DecrementReferenceCount
    <3> QED BY <3>1
  <2>2. h \in [DOMAIN g -> Records]
    <3>1. [g[p] EXCEPT !.count = g[p].count - 1] \in Records
      BY <1>1, <1>3 DEF Records
    <3> QED BY <1>3, <3>1
  <2>3. h \in Histories
    BY <1>3, <2>2, HistoryOf
  <2>4. \A q \in DOMAIN g : /\ h[q].ratio = g[q].ratio
                            /\ h[q].count = g[q].count - (IF q = p THEN 1 ELSE 0)
    BY <1>3 DEF Records
  <2>5. DOMAIN h = DOMAIN g
    OBVIOUS
  <2> HIDE DEF h
  <2>6. t \in Stores /\ HistoryOnly(s, t, v) /\ t.hist[v] = h
    BY <2>1, <2>3, HistorySet
  <2> QED BY <1>1, <1>5, <2>4, <2>5, <2>6
<1> QED BY <1>4, <1>5

\* A write of records moves no coins.
LEMMA HistoryOnlyKept ==
    ASSUME NEW s, NEW t, NEW v, HistoryOnly(s, t, v)
    PROVE  Kept(s, t)
  BY DEF HistoryOnly, Kept, Excess, Held

\* What is left when v's own references have been seen to.
LEMMA SoundAfter ==
    ASSUME NEW s, Sound(s), NEW t \in Stores, NEW v \in Validators,
           Listable(t.collector), Listable(t.pool),
           \A w \in Validators : /\ Listable(t.outstanding[w]) /\ Listable(t.commission[w])
                                 /\ Listable(t.rewards[w]),
           \A w \in Validators \ {v} :
                /\ t.hist[w] = s.hist[w] /\ t.period[w] = s.period[w] /\ t.rewards[w] = s.rewards[w]
                /\ \A d \in Accounts : t.info[<<d, w>>] = s.info[<<d, w>>],
           Counted(t, v), Ended(t, v), HistoricalReadable(t, v)
    PROVE  Sound(t)
<1>1. ASSUME NEW w \in Validators, w # v
      PROVE  Counted(t, w) /\ Ended(t, w) /\ HistoricalReadable(t, w)
  <2>1. Counted(s, w) /\ Ended(s, w) /\ HistoricalReadable(s, w)
    BY DEF Sound, Readable
  <2>2. /\ t.hist[w] = s.hist[w] /\ t.period[w] = s.period[w] /\ t.rewards[w] = s.rewards[w]
        /\ \A d \in Accounts : t.info[<<d, w>>] = s.info[<<d, w>>]
    BY <1>1
  <2>3. \A p : Started(t, w, p) = Started(s, w, p)
    <3> TAKE p
    <3>1. {d \in Accounts : t.info[<<d, w>>].stored /\ t.info[<<d, w>>].prev = p}
            = {d \in Accounts : s.info[<<d, w>>].stored /\ s.info[<<d, w>>].prev = p}
      BY <2>2
    <3> QED BY <3>1 DEF Started
  <2>4. \A p : CurrentAfter(t, w, p) = CurrentAfter(s, w, p)
    BY <2>2 DEF CurrentAfter
  <2>5. Counted(t, w)
    BY <2>1, <2>2, <2>3, <2>4 DEF Counted
  <2> QED BY <2>1, <2>2, <2>5 DEF Ended, HistoricalReadable
<1>2. \A w \in Validators : Counted(t, w) /\ Ended(t, w) /\ HistoricalReadable(t, w)
  BY <1>1
<1> QED BY <1>2 DEF Sound, Readable, PoolReadable, OutstandingReadable, CommissionReadable,
                    CurrentReadable

StakeType == stake \in [Accounts \X Validators -> Nat] /\ height \in Nat

\* The tokens of a validator are the sum of its delegations.
LEMMA TokensType == ASSUME StakeType, NEW v \in Validators PROVE Tokens(v) \in Nat
<1> DEFINE f == [d \in Accounts |-> stake[<<d, v>>]]
<1>1. \A d \in Accounts : f[d] \in Nat
  BY DEF StakeType
<1>2. Total(f, Accounts) \in Nat
  <2> HIDE DEF f
  <2> QED BY <1>1, FiniteHolders, SumNat
<1> QED BY <1>2 DEF Tokens

\* Nothing starts at a period iff none of the delegations names it.
LEMMA StartedFacts ==
    ASSUME NEW s \in Stores, NEW v \in Validators, NEW p
    PROVE  /\ Started(s, v, p) \in Nat
           /\ Started(s, v, p) = 0 <=>
                \A d \in Accounts : ~(s.info[<<d, v>>].stored /\ s.info[<<d, v>>].prev = p)
<1> DEFINE D == {d \in Accounts : s.info[<<d, v>>].stored /\ s.info[<<d, v>>].prev = p}
<1>1. IsFiniteSet(D)
  BY FiniteHolders, FS_Subset
<1>2. Cardinality(D) \in Nat /\ (Cardinality(D) = 0 <=> D = {})
  BY <1>1, FS_CardinalityType, FS_EmptySet
<1> QED BY <1>2 DEF Started

\* What the end of period p of v leaves: u has given up one reference of the
\* period before, and t has the record of p besides.
PeriodEnds(s, u, t, v, p, ratio) ==
    /\ p = s.period[v] /\ s.rewards[v] # NoCoins /\ p - 1 \in DOMAIN s.hist[v]
    /\ DOMAIN u.hist[v] =
            DOMAIN s.hist[v] \ (IF s.hist[v][p - 1].count = 1 THEN {p - 1} ELSE {})
    /\ \A q \in DOMAIN u.hist[v] :
            /\ u.hist[v][q].ratio = s.hist[v][q].ratio
            /\ u.hist[v][q].count = s.hist[v][q].count - (IF q = p - 1 THEN 1 ELSE 0)
    /\ DOMAIN t.hist[v] = DOMAIN u.hist[v] \cup {p}
    /\ t.hist[v][p] = [ratio |-> ratio, count |-> 1]
    /\ \A q \in DOMAIN u.hist[v] \ {p} : t.hist[v][q] = u.hist[v][q]
    /\ t.info = s.info /\ t.period[v] = p + 1 /\ t.rewards[v] = s.rewards[v]

\* The references of the period that has ended pass to the new record.
LEMMA PeriodCounted ==
    ASSUME NEW s, Sound(s), NEW v \in Validators, NEW u, NEW t, NEW p, NEW ratio,
           IsCoins(ratio), PeriodEnds(s, u, t, v, p, ratio)
    PROVE  Counted(t, v) /\ Ended(t, v) /\ HistoricalReadable(t, v)
<1> DEFINE g == s.hist[v]
           h == t.hist[v]
           k == u.hist[v]
<1>0. /\ p = s.period[v] /\ s.rewards[v] # NoCoins /\ p - 1 \in DOMAIN g
      /\ DOMAIN k = DOMAIN g \ (IF g[p - 1].count = 1 THEN {p - 1} ELSE {})
      /\ DOMAIN h = DOMAIN k \cup {p} /\ h[p] = [ratio |-> ratio, count |-> 1]
      /\ \A q \in DOMAIN k \ {p} : h[q] = k[q]
  BY DEF PeriodEnds
<1>a. \A q \in DOMAIN k : /\ k[q].ratio = g[q].ratio
                          /\ k[q].count = g[q].count - (IF q = p - 1 THEN 1 ELSE 0)
  BY DEF PeriodEnds
<1>b. t.info = s.info /\ t.period[v] = p + 1 /\ t.rewards[v] = s.rewards[v]
  BY DEF PeriodEnds
<1>1. /\ s \in Stores /\ p \in Nat /\ DOMAIN g \subseteq 0 .. p - 1
      /\ \A q \in DOMAIN g : g[q].count \in Int
  <2>1. s \in Stores /\ p \in Nat /\ DOMAIN g \subseteq 0 .. p - 1
    BY <1>0 DEF Sound, Ended, Stores
  <2>2. g \in [DOMAIN g -> Records]
    BY <2>1, HistoryFacts DEF Stores
  <2> QED BY <2>1, <2>2 DEF Records
<1>2. \A q : Started(t, v, q) = Started(s, v, q) /\ Started(s, v, q) \in Nat
  <2>1. \A q : Started(t, v, q) = Started(s, v, q)
    BY <1>b DEF Started
  <2>2. \A q : Started(s, v, q) \in Nat
    BY <1>1, StartedFacts
  <2> QED BY <2>1, <2>2
<1>3. /\ \A q \in DOMAIN g : g[q].count = Started(s, v, q) + CurrentAfter(s, v, q) /\ g[q].count > 0
      /\ \A d \in Accounts : s.info[<<d, v>>].stored => s.info[<<d, v>>].prev \in DOMAIN g
  <2>1. Counted(s, v)
    BY DEF Sound
  <2> QED BY ONLY <2>1 DEF Counted, g
<1>4. DOMAIN k \subseteq DOMAIN g /\ p \notin DOMAIN g /\ DOMAIN h = DOMAIN k \cup {p}
      /\ h[p] = [ratio |-> ratio, count |-> 1] /\ \A q \in DOMAIN k : h[q] = k[q]
  <2> HIDE DEF g, h, k
  <2> QED BY ONLY <1>0, <1>1
<1>5. CurrentAfter(t, v, p) = 1 /\ \A q \in DOMAIN k : CurrentAfter(t, v, q) = 0
  <2>1. t.period[v] = p + 1 /\ t.rewards[v] # NoCoins /\ p \in Nat /\ DOMAIN k \subseteq 0 .. p - 1
    BY <1>0, <1>1, <1>4, <1>b
  <2> HIDE DEF k
  <2> QED BY ONLY <2>1 DEF CurrentAfter
<1>6. \A q \in DOMAIN g : CurrentAfter(s, v, q) = IF q = p - 1 THEN 1 ELSE 0
  <2>1. s.period[v] = p /\ s.rewards[v] # NoCoins /\ p \in Nat /\ DOMAIN g \subseteq 0 .. p - 1
    BY <1>0, <1>1
  <2> HIDE DEF g
  <2> QED BY ONLY <2>1 DEF CurrentAfter
<1>7. Started(s, v, p) = 0
  <2>1. s \in Stores /\ \A d \in Accounts : s.info[<<d, v>>].stored => s.info[<<d, v>>].prev # p
    BY <1>1, <1>3, <1>4
  <2> QED BY ONLY v \in Validators, <2>1, StartedFacts
<1>8. \A q \in DOMAIN h : h[q].count = Started(t, v, q) + CurrentAfter(t, v, q) /\ h[q].count > 0
  <2> TAKE q \in DOMAIN h
  <2>1. CASE q = p
    <3>1. h[q].count = 1 /\ Started(t, v, q) = 0 /\ CurrentAfter(t, v, q) = 1
      BY <1>2, <1>4, <1>5, <1>7, <2>1
    <3> QED BY ONLY <3>1
  <2>2. CASE q # p
    <3>1. q \in DOMAIN k /\ q \in DOMAIN g /\ h[q] = k[q]
      BY <1>4, <2>2
    <3>2. k[q].count = g[q].count - (IF q = p - 1 THEN 1 ELSE 0)
      BY <1>a, <3>1
    <3>3. q = p - 1 => g[q].count # 1
      <4> HIDE DEF g, h, k
      <4> QED BY ONLY <1>0, <3>1
    <3>4. /\ g[q].count = Started(s, v, q) + CurrentAfter(s, v, q) /\ g[q].count > 0
          /\ g[q].count \in Int /\ CurrentAfter(t, v, q) = 0
      BY <1>1, <1>3, <1>5, <3>1
    <3> HIDE DEF g, h, k
    <3> QED BY ONLY <1>2, <1>6, <3>1, <3>2, <3>3, <3>4
  <2> QED BY <2>1, <2>2
<1>9. \A d \in Accounts : t.info[<<d, v>>].stored => t.info[<<d, v>>].prev \in DOMAIN h
  <2> SUFFICES ASSUME NEW d \in Accounts, s.info[<<d, v>>].stored
               PROVE  s.info[<<d, v>>].prev \in DOMAIN h
    BY <1>b
  <2>1. s.info[<<d, v>>].prev \in DOMAIN g
    BY <1>3
  <2>2. ASSUME s.info[<<d, v>>].prev = p - 1, g[p - 1].count = 1 PROVE FALSE
    <3>1. Started(s, v, p - 1) # 0
      BY <1>1, <2>2, StartedFacts
    <3>2. g[p - 1].count = Started(s, v, p - 1) + CurrentAfter(s, v, p - 1)
          /\ CurrentAfter(s, v, p - 1) = 1
      BY <1>0, <1>3, <1>6
    <3> HIDE DEF g, h, k
    <3> QED BY ONLY <1>2, <2>2, <3>1, <3>2
  <2> HIDE DEF g, h, k
  <2> QED BY ONLY <1>0, <2>1, <2>2
<1>10. Counted(t, v)
  BY <1>8, <1>9 DEF Counted
<1>11. Ended(t, v)
  <2>1. t.period[v] = p + 1 /\ t.rewards[v] # NoCoins /\ p \in Nat /\ DOMAIN h \subseteq 0 .. p
    <3>1. t.period[v] = p + 1 /\ t.rewards[v] # NoCoins
      BY <1>0, <1>b
    <3> HIDE DEF g, h, k
    <3> QED BY ONLY <1>1, <1>4, <3>1
  <2> QED BY ONLY <2>1 DEF Ended, h
<1>12. HistoricalReadable(t, v)
  <2>1. \A q \in DOMAIN g : IsCoins(g[q].ratio) /\ g[q].count <= UpperLimit
    BY DEF Sound, Readable, HistoricalReadable
  <2>2. ASSUME NEW q \in DOMAIN k PROVE IsCoins(h[q].ratio) /\ h[q].count <= UpperLimit
    <3>1. /\ q \in DOMAIN g /\ h[q] = k[q] /\ k[q].ratio = g[q].ratio
          /\ k[q].count = g[q].count - (IF q = p - 1 THEN 1 ELSE 0) /\ g[q].count \in Int
      BY <1>a, <1>1, <1>4
    <3> HIDE DEF g, h, k
    <3> QED BY ONLY <2>1, <3>1 DEF UpperLimit
  <2>3. IsCoins(h[p].ratio) /\ h[p].count <= UpperLimit
    <3>1. h[p].ratio = ratio /\ h[p].count = 1 /\ IsCoins(ratio)
      BY <1>4
    <3> QED BY ONLY <3>1 DEF UpperLimit
  <2> QED BY <1>4, <2>2, <2>3 DEF HistoricalReadable
<1> QED BY <1>10, <1>11, <1>12

\* increment_validator_period.
LEMMA PeriodFacts ==
    ASSUME StakeType, NEW s, Sound(s), NEW v \in Validators, NEW t \in IncrementValidatorPeriod(s, v)
    PROVE  Sound(t) /\ Kept(s, t) /\ t.info = s.info
<1> DEFINE p == s.period[v]
           ratio == PeriodRatio(s, v)
           funded == Funded(s, v)
           current == IF Tokens(v) = 0 THEN NoCoins ELSE ratio
           sum == Plus(s.hist[v][p - 1].ratio, current)
           End(u) == [u EXCEPT !.hist[v] = [q \in DOMAIN @ \cup {p} |->
                                 IF q = p THEN [ratio |-> sum, count |-> 1] ELSE @[q]],
                               !.period[v] = p + 1]
<1>0. ~(s.rewards[v] = NoCoins \/ p - 1 \notin DOMAIN s.hist[v])
  BY DEF IncrementValidatorPeriod
<1>b. t \in UNION {{End(u) : u \in DecrementReferenceCount(x, v, p - 1)} : x \in funded}
  BY <1>0, Zenon DEF IncrementValidatorPeriod
<1>1. /\ s.rewards[v] # NoCoins /\ p - 1 \in DOMAIN s.hist[v]
      /\ \E x \in funded : \E u \in DecrementReferenceCount(x, v, p - 1) : t = End(u)
  <2> HIDE DEF End, funded
  <2> QED BY <1>0, <1>b
<1>a. PICK x \in funded : \E u \in DecrementReferenceCount(x, v, p - 1) :
         t = End(u)
  BY <1>1
<1>2. PICK u \in DecrementReferenceCount(x, v, p - 1) :
         t = [u EXCEPT !.hist[v] = [q \in DOMAIN @ \cup {p} |->
                            IF q = p THEN [ratio |-> sum, count |-> 1] ELSE @[q]],
                       !.period[v] = p + 1]
  BY <1>a
<1>3. s \in Stores /\ p \in Nat /\ s.rewards[v] \in CoinLists /\ s.hist[v] \in Histories
  BY DEF Sound, Stores
<1>4. /\ Sound(x) /\ Kept(s, x) /\ x.info = s.info /\ x.hist = s.hist
      /\ x.period = s.period /\ x.rewards = s.rewards
  <2>1. CASE Tokens(v) = 0
    BY <2>1, RewardsToPoolFacts DEF Funded
  <2>2. CASE Tokens(v) # 0
    BY <2>2 DEF Kept, Funded
  <2> QED BY <2>1, <2>2
<1>5. current \in CoinLists /\ Listable(current)
  <2>1. CASE Tokens(v) = 0
    BY <2>1, NoCoinsFacts DEF Listable
  <2>2. CASE Tokens(v) # 0
    <3>1. Whole(Tokens(v)) \in Nat /\ Whole(Tokens(v)) # 0
      BY <2>2, TokensType, DecTypes
    <3>2. ratio \in CoinLists
      BY <1>3, <3>1, ScaledTypes DEF PeriodRatio
    <3>3. IsCoins(ratio)
      BY <1>1, <2>2 DEF Funded
    <3> QED BY <2>2, <3>2, <3>3, CoinsNotEmpty
  <2> QED BY <2>1, <2>2
<1>6. sum \in CoinLists /\ IsCoins(sum)
  <2>1. s.hist[v][p - 1].ratio \in CoinLists
    BY <1>1, <1>3, HistoryFacts DEF Records
  <2>2. IsCoins(s.hist[v][p - 1].ratio)
    BY <1>1 DEF Sound, Readable, HistoricalReadable
  <2> HIDE DEF current
  <2> QED BY <1>5, <2>1, <2>2, PlusFacts, PlusListable, CoinsNotEmpty
<1> HIDE DEF sum, current, funded, ratio
<1>7. /\ u \in Stores /\ HistoryOnly(x, u, v) /\ x \in Stores
      /\ DOMAIN u.hist[v] =
            DOMAIN x.hist[v] \ (IF x.hist[v][p - 1].count = 1 THEN {p - 1} ELSE {})
      /\ \A q \in DOMAIN u.hist[v] :
            /\ u.hist[v][q].ratio = x.hist[v][q].ratio
            /\ u.hist[v][q].count = x.hist[v][q].count - (IF q = p - 1 THEN 1 ELSE 0)
  <2>1. x \in Stores /\ p - 1 \in Int
    BY <1>3, <1>4 DEF Sound
  <2> HIDE DEF p
  <2> QED BY <1>2, <2>1, DecrementFacts
<1> DEFINE k == u.hist[v]
           h == [q \in DOMAIN k \cup {p} |-> IF q = p THEN [ratio |-> sum, count |-> 1] ELSE k[q]]
           w == [u EXCEPT !.hist[v] = h]
           per == [u.period EXCEPT ![v] = p + 1]
<1>8. h \in Histories
  <2>1. DOMAIN k \in SUBSET Nat /\ k \in [DOMAIN k -> Records]
    BY <1>7, HistoryFacts DEF Stores
  <2>2. [ratio |-> sum, count |-> 1] \in Records
    BY <1>6 DEF Records
  <2>3. h \in [DOMAIN k \cup {p} -> Records] /\ DOMAIN k \cup {p} \in SUBSET Nat
    BY <1>3, <2>1, <2>2
  <2> HIDE DEF h
  <2> QED BY <2>3, HistoryOf
<1>9. t = [w EXCEPT !.period = per]
  <2>1. u.hist \in [Validators -> Histories] /\ u.period \in [Validators -> Nat]
    BY <1>7 DEF Stores
  <2> QED BY <1>2, <1>7, <2>1 DEF Stores
<1>10. h = [q \in DOMAIN u.hist[v] \cup {p} |->
              IF q = p THEN [ratio |-> sum, count |-> 1] ELSE u.hist[v][q]]
  OBVIOUS
<1> HIDE DEF h, k
<1>11. w \in Stores /\ HistoryOnly(u, w, v) /\ w.hist[v] = h
  BY <1>7, <1>8, HistorySet
<1> HIDE DEF w
<1>12. /\ t \in Stores /\ t.hist = w.hist /\ t.period = per /\ per[v] = p + 1
       /\ \A z \in Validators \ {v} : per[z] = u.period[z]
  <2>1. /\ per \in [Validators -> Nat] /\ per[v] = p + 1
        /\ \A z \in Validators \ {v} : per[z] = u.period[z]
    BY <1>3, <1>7 DEF Stores
  <2> HIDE DEF per
  <2>2. t \in Stores /\ t.hist = w.hist /\ t.period = per
    BY <1>9, <1>11, <2>1 DEF Stores
  <2> QED BY <2>1, <2>2
<1> HIDE DEF per
<1>13. /\ t.pool = x.pool /\ t.module = x.module /\ t.collector = x.collector
       /\ t.supply = x.supply /\ t.staked = x.staked /\ t.bal = x.bal
       /\ t.outstanding = x.outstanding /\ t.commission = x.commission
       /\ t.rewards = x.rewards /\ t.info = x.info
  <2>1. /\ t.pool = w.pool /\ t.module = w.module /\ t.collector = w.collector
        /\ t.supply = w.supply /\ t.staked = w.staked /\ t.bal = w.bal
        /\ t.outstanding = w.outstanding /\ t.commission = w.commission
        /\ t.rewards = w.rewards /\ t.info = w.info
    BY <1>9, <1>11 DEF Stores
  <2> QED BY <1>7, <1>11, <2>1 DEF HistoryOnly
<1>14. \A z \in Validators \ {v} : t.hist[z] = x.hist[z] /\ t.period[z] = x.period[z]
  BY <1>7, <1>11, <1>12 DEF HistoryOnly
<1>15. Kept(s, t)
  BY <1>4, <1>13 DEF Kept, Excess, Held
<1>16. Counted(t, v) /\ Ended(t, v) /\ HistoricalReadable(t, v)
  <2>1. /\ x.rewards[v] # NoCoins /\ p = x.period[v] /\ p - 1 \in DOMAIN x.hist[v]
        /\ t.info = x.info /\ t.period[v] = p + 1 /\ t.rewards[v] = x.rewards[v]
    BY <1>1, <1>4, <1>12, <1>13
  <2>2. /\ DOMAIN t.hist[v] = DOMAIN u.hist[v] \cup {p}
        /\ t.hist[v][p] = [ratio |-> sum, count |-> 1]
        /\ \A q \in DOMAIN u.hist[v] \ {p} : t.hist[v][q] = u.hist[v][q]
    BY <1>10, <1>11, <1>12
  <2>3. t \in Stores /\ u \in Stores /\ Sound(x) /\ IsCoins(sum)
    BY <1>4, <1>6, <1>7, <1>12
  <2>4. /\ DOMAIN u.hist[v] =
                DOMAIN x.hist[v] \ (IF x.hist[v][p - 1].count = 1 THEN {p - 1} ELSE {})
        /\ \A q \in DOMAIN u.hist[v] :
              /\ u.hist[v][q].ratio = x.hist[v][q].ratio
              /\ u.hist[v][q].count = x.hist[v][q].count - (IF q = p - 1 THEN 1 ELSE 0)
    BY <1>7
  <2>5. PeriodEnds(x, u, t, v, p, sum)
    <3> HIDE DEF p, sum
    <3> QED BY ONLY <2>1, <2>2, <2>4 DEF PeriodEnds
  <2> QED BY ONLY v \in Validators, <2>3, <2>5, PeriodCounted
<1>17. Sound(t)
  <2>1. /\ Listable(t.collector) /\ Listable(t.pool)
        /\ \A z \in Validators : /\ Listable(t.outstanding[z]) /\ Listable(t.commission[z])
                                 /\ Listable(t.rewards[z])
    BY <1>4, <1>13, SoundLists
  <2>2. \A z \in Validators \ {v} :
                /\ t.hist[z] = x.hist[z] /\ t.period[z] = x.period[z] /\ t.rewards[z] = x.rewards[z]
                /\ \A d \in Accounts : t.info[<<d, z>>] = x.info[<<d, z>>]
    BY <1>13, <1>14
  <2> QED BY <1>4, <1>12, <1>16, <2>1, <2>2, SoundAfter
<1> QED BY <1>4, <1>13, <1>15, <1>17

\* What a delegation is paid is taken from the outstanding rewards; the change
\* goes to the community pool.
LEMMA PayFacts ==
    ASSUME NEW s, Sound(s), NEW d \in Accounts, NEW v \in Validators, NEW c \in CoinLists,
           NEW t \in PayRewards(s, d, v, c)
    PROVE  Sound(t) /\ Kept(s, t) /\ t.info = s.info /\ t.period = s.period
<1> DEFINE final == Truncated(c)
           paid == IF final = NoCoins THEN {s}
                   ELSE IF s.withdraw[d] = NoAddr THEN {}
                   ELSE SendFromModule(s, s.withdraw[d], final)
<1>1. /\ CanMinus(s.outstanding[v], c)
      /\ \E x \in paid : t = [x EXCEPT !.outstanding[v] = Minus(@, c), !.pool = Plus(@, Change(c))]
  BY DEF PayRewards
<1>2. PICK x \in paid : t = [x EXCEPT !.outstanding[v] = Minus(@, c), !.pool = Plus(@, Change(c))]
  BY <1>1
<1>3. /\ final \in CoinLists /\ Change(c) \in CoinLists /\ Listable(Change(c))
      /\ \A e : AmountOf(c, e) = Whole(AmountOf(final, e)) + AmountOf(Change(c), e)
  BY TruncateFacts, SplitListable DEF Whole
<1>4. s \in Stores /\ s.withdraw[d] \in Payees \cup {NoAddr} /\ s.outstanding[v] \in CoinLists
  BY DEF Sound, Stores
<1>5. /\ x \in Stores
      /\ \A e : Excess(x, e) = Excess(s, e) - Whole(AmountOf(final, e)) /\ Held(x, e) = Held(s, e)
      /\ x.pool = s.pool /\ x.collector = s.collector /\ x.outstanding = s.outstanding
      /\ x.commission = s.commission /\ x.rewards = s.rewards /\ x.period = s.period
      /\ x.hist = s.hist /\ x.info = s.info
  <2>1. CASE final = NoCoins
    <3>1. x = s
      BY <2>1
    <3>2. \A e : AmountOf(final, e) = 0
      BY <2>1, NoCoinsFacts
    <3>3. Whole(0) = 0
      BY UnitNat DEF Whole
    <3>4. \A e : Excess(s, e) \in Int
      BY <1>4, StoreAmounts
    <3> HIDE DEF final
    <3> QED BY <1>4, <3>1, <3>2, <3>3, <3>4
  <2>2. CASE final # NoCoins
    <3>1. s.withdraw[d] \in Payees /\ x \in SendFromModule(s, s.withdraw[d], final)
      BY <1>4, <2>2
    <3> HIDE DEF final
    <3> QED BY <1>3, <1>4, <3>1, SendFacts
  <2> QED BY <2>1, <2>2
<1> HIDE DEF final, paid
<1>6. Sound(x)
  BY <1>5, SoundLists, SoundOf DEF SameReferences
<1> DEFINE u == [x EXCEPT !.pool = Plus(@, Change(c))]
           left == Minus(s.outstanding[v], c)
<1>7. /\ left \in CoinLists /\ IsCoins(left)
      /\ \A e : AmountOf(left, e) = AmountOf(s.outstanding[v], e) - AmountOf(c, e)
  BY <1>1, <1>4, CanMinusFacts
<1>8. /\ Sound(u)
      /\ \A e : Excess(u, e) = Excess(x, e) - AmountOf(Change(c), e) /\ Held(u, e) = Held(x, e)
  BY <1>3, <1>6, RestToPool
<1>9. t = [u EXCEPT !.outstanding[v] = left]
  BY <1>2, <1>5 DEF Stores
<1>10. /\ u \in Stores /\ u.outstanding = s.outstanding
       /\ u.commission = s.commission /\ u.rewards = s.rewards /\ u.period = s.period
       /\ u.hist = s.hist /\ u.info = s.info
  BY <1>5, <1>8 DEF Stores, Sound
<1> HIDE DEF u, left
<1>11. /\ t \in Stores
       /\ \A e : Excess(t, e) = Excess(u, e) + AmountOf(u.outstanding[v], e) - AmountOf(left, e)
       /\ \A e : Held(t, e) = Held(u, e)
  BY <1>7, <1>9, <1>10, OutstandingSet
<1>12. /\ t.outstanding = [u.outstanding EXCEPT ![v] = left] /\ t.pool = u.pool
       /\ t.collector = u.collector /\ t.commission = u.commission /\ t.rewards = u.rewards
       /\ t.period = u.period /\ t.hist = u.hist /\ t.info = u.info
  BY <1>9, <1>10 DEF Stores
<1>13. Kept(s, t)
  <2> SUFFICES ASSUME NEW e PROVE Excess(t, e) = Excess(s, e) /\ Held(t, e) = Held(s, e)
    BY DEF Kept
  <2>1. /\ Excess(s, e) \in Int /\ AmountOf(s.outstanding[v], e) \in Nat
    BY <1>4, StoreAmounts
  <2>2. AmountOf(c, e) \in Nat
    BY AmountType
  <2>3. AmountOf(final, e) \in Nat /\ AmountOf(Change(c), e) \in Nat
    BY <1>3, AmountType
  <2>4. Whole(AmountOf(final, e)) \in Int
    BY <2>3, WholeAdd
  <2>5. Excess(u, e) = Excess(s, e) - AmountOf(c, e)
    BY <1>3, <1>5, <1>8, <2>1, <2>3, <2>4
  <2>6. AmountOf(u.outstanding[v], e) - AmountOf(left, e) = AmountOf(c, e)
    BY <1>7, <1>10, <2>1, <2>2
  <2>7. Excess(t, e) = Excess(u, e) + AmountOf(u.outstanding[v], e) - AmountOf(left, e)
    BY <1>11
  <2>8. AmountOf(left, e) \in Int /\ AmountOf(u.outstanding[v], e) \in Int
    BY <1>7, <1>10, <2>1, AmountType
  <2>9. Excess(t, e) = Excess(s, e)
    BY <2>1, <2>2, <2>5, <2>6, <2>7, <2>8
  <2> QED BY <1>5, <1>8, <1>11, <2>9
<1>14. Sound(t)
  <2>1. u.outstanding \in [Validators -> CoinLists] /\ Listable(left)
    BY <1>7, <1>10, CoinsNotEmpty DEF Stores
  <2>2. \A w \in Validators : Listable(t.outstanding[w])
    BY <1>8, <1>12, <2>1, SoundLists
  <2> QED BY <1>8, <1>11, <1>12, <2>2, SoundLists, SoundOf DEF SameReferences
<1> QED BY <1>10, <1>12, <1>13, <1>14

\* A write of the starting information of one delegation.
LEMMA InfoSet ==
    ASSUME NEW s \in Stores, NEW d \in Accounts, NEW v \in Validators, NEW i \in Infos
    PROVE  LET t == [s EXCEPT !.info[<<d, v>>] = i]
           IN  /\ t \in Stores /\ Kept(s, t) /\ t.info[<<d, v>>] = i
               /\ \A a \in Accounts, w \in Validators :
                     <<a, w>> # <<d, v>> => t.info[<<a, w>>] = s.info[<<a, w>>]
               /\ t.pool = s.pool /\ t.collector = s.collector /\ t.outstanding = s.outstanding
               /\ t.commission = s.commission /\ t.rewards = s.rewards /\ t.period = s.period
               /\ t.hist = s.hist
<1> DEFINE t == [s EXCEPT !.info[<<d, v>>] = i]
           g == [s.info EXCEPT ![<<d, v>>] = i]
<1>1. s.info \in [Accounts \X Validators -> Infos]
  BY DEF Stores
<1>2. /\ g \in [Accounts \X Validators -> Infos] /\ t = [s EXCEPT !.info = g] /\ g[<<d, v>>] = i
      /\ \A a \in Accounts, w \in Validators : <<a, w>> # <<d, v>> => g[<<a, w>>] = s.info[<<a, w>>]
  BY <1>1
<1> HIDE DEF g
<1>3. /\ t \in Stores /\ t.info = g /\ t.module = s.module /\ t.bal = s.bal
      /\ t.supply = s.supply /\ t.staked = s.staked
      /\ t.pool = s.pool /\ t.collector = s.collector /\ t.outstanding = s.outstanding
      /\ t.commission = s.commission /\ t.rewards = s.rewards /\ t.period = s.period
      /\ t.hist = s.hist
  BY <1>2 DEF Stores
<1> HIDE DEF t
<1>4. Kept(s, t)
  BY <1>3 DEF Kept, Excess, Held
<1> QED BY <1>2, <1>3, <1>4 DEF t

\* The delegation of d stops naming, or starts to name, a period.
LEMMA StartedChanges ==
    ASSUME NEW s \in Stores, NEW t \in Stores, NEW d \in Accounts, NEW v \in Validators,
           \A a \in Accounts \ {d} : t.info[<<a, v>>] = s.info[<<a, v>>],
           s.info[<<d, v>>].stored, ~t.info[<<d, v>>].stored, NEW q
    PROVE  Started(s, v, q) = Started(t, v, q) + (IF q = s.info[<<d, v>>].prev THEN 1 ELSE 0)
<1> DEFINE S == {a \in Accounts : s.info[<<a, v>>].stored /\ s.info[<<a, v>>].prev = q}
           T == {a \in Accounts : t.info[<<a, v>>].stored /\ t.info[<<a, v>>].prev = q}
<1>1. IsFiniteSet(S) /\ IsFiniteSet(T)
  BY FiniteHolders, FS_Subset
<1>2. Cardinality(S) \in Nat /\ Cardinality(T) \in Nat
  BY <1>1, FS_CardinalityType
<1>3. Started(s, v, q) = Cardinality(S) /\ Started(t, v, q) = Cardinality(T)
  BY DEF Started
<1>4. T = S \ {d}
  OBVIOUS
<1>5. d \in S <=> q = s.info[<<d, v>>].prev
  OBVIOUS
<1> HIDE DEF S, T
<1>6. CASE d \in S
  <2>1. Cardinality(S \ {d}) = Cardinality(S) - 1
    BY <1>1, <1>6, FS_RemoveElement
  <2> QED BY <1>2, <1>3, <1>4, <1>5, <1>6, <2>1
<1>7. CASE d \notin S
  <2>1. T = S /\ q # s.info[<<d, v>>].prev
    BY <1>4, <1>5, <1>7
  <2>2. Started(s, v, q) = Started(t, v, q) /\ Started(t, v, q) \in Nat
    BY <1>2, <1>3, <2>1
  <2> QED BY <2>1, <2>2
<1> QED BY <1>6, <1>7

\* A delegation that is paid gives up its reference.
LEMMA DropFacts ==
    ASSUME NEW x, Sound(x), NEW d \in Accounts, NEW v \in Validators, x.info[<<d, v>>].stored,
           NEW y \in DecrementReferenceCount(x, v, x.info[<<d, v>>].prev)
    PROVE  LET z == [y EXCEPT !.info[<<d, v>>] = NoInfo]
           IN  Sound(z) /\ Kept(x, z) /\ ~z.info[<<d, v>>].stored /\ z.period = x.period
<1> DEFINE p == x.info[<<d, v>>].prev
           z == [y EXCEPT !.info[<<d, v>>] = NoInfo]
           g == x.hist[v]
           h == y.hist[v]
<1>1. x \in Stores /\ p \in Int /\ g \in [DOMAIN g -> Records] /\ \A q \in DOMAIN g : g[q].count \in Int
  <2>1. x \in Stores
    BY DEF Sound
  <2>2. x.info[<<d, v>>] \in Infos /\ g \in Histories
    BY <2>1 DEF Stores
  <2>3. g \in [DOMAIN g -> Records]
    BY <2>2, HistoryFacts
  <2> HIDE DEF g
  <2> QED BY <2>1, <2>2, <2>3 DEF Infos, Records
<1> HIDE DEF p
<1>2. /\ y \in Stores /\ HistoryOnly(x, y, v) /\ p \in DOMAIN g
      /\ DOMAIN h = DOMAIN g \ (IF g[p].count = 1 THEN {p} ELSE {})
      /\ \A q \in DOMAIN h : /\ h[q].ratio = g[q].ratio
                             /\ h[q].count = g[q].count - (IF q = p THEN 1 ELSE 0)
  <2>1. y \in DecrementReferenceCount(x, v, p)
    BY DEF p
  <2> QED BY <1>1, <2>1, DecrementFacts
<1>3. NoInfo \in Infos /\ ~NoInfo.stored
  BY DEF NoInfo, Infos
<1>4. /\ z \in Stores /\ Kept(y, z) /\ z.info[<<d, v>>] = NoInfo
      /\ \A a \in Accounts, w \in Validators :
            <<a, w>> # <<d, v>> => z.info[<<a, w>>] = y.info[<<a, w>>]
      /\ z.pool = y.pool /\ z.collector = y.collector /\ z.outstanding = y.outstanding
      /\ z.commission = y.commission /\ z.rewards = y.rewards /\ z.period = y.period
      /\ z.hist = y.hist
  BY ONLY d \in Accounts, v \in Validators, <1>2, <1>3, InfoSet
<1> HIDE DEF z
<1>5. /\ z.pool = x.pool /\ z.collector = x.collector /\ z.outstanding = x.outstanding
      /\ z.commission = x.commission /\ z.rewards = x.rewards /\ z.period = x.period
      /\ z.hist[v] = h /\ \A w \in Validators \ {v} : z.hist[w] = x.hist[w]
      /\ \A a \in Accounts, w \in Validators :
            <<a, w>> # <<d, v>> => z.info[<<a, w>>] = x.info[<<a, w>>]
  BY <1>2, <1>4 DEF HistoryOnly
<1>6. Kept(x, z)
  BY <1>2, <1>4, HistoryOnlyKept DEF Kept
<1>7. \A q : Started(x, v, q) = Started(z, v, q) + (IF q = p THEN 1 ELSE 0)
  <2>1. \A a \in Accounts \ {d} : z.info[<<a, v>>] = x.info[<<a, v>>]
    BY <1>5
  <2> QED BY <1>1, <1>3, <1>4, <2>1, StartedChanges DEF p
<1>8. \A q : /\ CurrentAfter(z, v, q) = CurrentAfter(x, v, q) /\ CurrentAfter(x, v, q) \in Nat
             /\ Started(z, v, q) \in Nat
  <2>1. \A q : CurrentAfter(z, v, q) = CurrentAfter(x, v, q) /\ CurrentAfter(x, v, q) \in Nat
    BY <1>5 DEF CurrentAfter
  <2>2. \A q : Started(z, v, q) \in Nat
    BY <1>4, StartedFacts
  <2> QED BY <2>1, <2>2
<1>9. /\ \A q \in DOMAIN g : g[q].count = Started(x, v, q) + CurrentAfter(x, v, q) /\ g[q].count > 0
      /\ \A a \in Accounts : x.info[<<a, v>>].stored => x.info[<<a, v>>].prev \in DOMAIN g
  BY DEF Sound, Counted
<1>10. ASSUME NEW q \in DOMAIN h
       PROVE  h[q].count = Started(z, v, q) + CurrentAfter(z, v, q) /\ h[q].count > 0
  <2>1. q \in DOMAIN g /\ (q = p => g[q].count # 1)
    BY <1>2
  <2>2. /\ h[q].count = g[q].count - (IF q = p THEN 1 ELSE 0) /\ g[q].count \in Int
        /\ g[q].count = Started(x, v, q) + CurrentAfter(x, v, q) /\ g[q].count > 0
    BY <1>1, <1>2, <1>9, <2>1
  <2>3. Started(x, v, q) = Started(z, v, q) + (IF q = p THEN 1 ELSE 0)
    BY <1>7
  <2> HIDE DEF g, h
  <2>4. CASE q = p
    BY <1>8, <2>1, <2>2, <2>3, <2>4
  <2>5. CASE q # p
    BY <1>8, <2>1, <2>2, <2>3, <2>5
  <2> QED BY <2>4, <2>5
<1>11. ASSUME NEW a \in Accounts, z.info[<<a, v>>].stored
       PROVE  z.info[<<a, v>>].prev \in DOMAIN h
  <2>1. a # d
    BY <1>3, <1>4, <1>11
  <2>2. z.info[<<a, v>>] = x.info[<<a, v>>]
    BY <1>5, <2>1
  <2> DEFINE r == x.info[<<a, v>>].prev
  <2>3. r \in DOMAIN g /\ z.info[<<a, v>>].prev = r
    BY <1>9, <1>11, <2>2
  <2>4. ASSUME r = p, g[p].count = 1 PROVE FALSE
    <3>1. Started(z, v, p) # 0
      BY <1>4, <1>11, <2>3, <2>4, StartedFacts
    <3>2. Started(x, v, p) = Started(z, v, p) + 1
      BY <1>7
    <3>3. g[p].count = Started(x, v, p) + CurrentAfter(x, v, p)
      BY <1>2, <1>9
    <3> HIDE DEF g
    <3> QED BY <1>8, <2>4, <3>1, <3>2, <3>3
  <2> HIDE DEF r, g, h
  <2> QED BY <1>2, <2>3, <2>4
<1>12. Counted(z, v)
  BY <1>5, <1>10, <1>11 DEF Counted
<1>13. DOMAIN h \subseteq DOMAIN g
  BY <1>2
<1>14. Ended(z, v)
  <2>1. Ended(x, v)
    BY DEF Sound
  <2> QED BY <1>5, <1>13, <2>1 DEF Ended
<1>15. HistoricalReadable(z, v)
  <2>1. \A q \in DOMAIN g : IsCoins(g[q].ratio) /\ g[q].count <= UpperLimit
    BY DEF Sound, Readable, HistoricalReadable
  <2>2. \A q \in DOMAIN h : IsCoins(h[q].ratio) /\ h[q].count <= UpperLimit
    <3> TAKE q \in DOMAIN h
    <3>1. /\ q \in DOMAIN g /\ h[q].ratio = g[q].ratio
          /\ h[q].count = g[q].count - (IF q = p THEN 1 ELSE 0) /\ g[q].count \in Int
      BY <1>1, <1>2, <1>13
    <3> HIDE DEF g, h
    <3> QED BY <2>1, <3>1 DEF UpperLimit
  <2> QED BY <1>5, <2>2 DEF HistoricalReadable
<1>16. Sound(z)
  <2>1. \A w \in Validators \ {v} :
                /\ z.hist[w] = x.hist[w] /\ z.period[w] = x.period[w] /\ z.rewards[w] = x.rewards[w]
                /\ \A a \in Accounts : z.info[<<a, w>>] = x.info[<<a, w>>]
    BY <1>5
  <2>2. /\ Listable(z.collector) /\ Listable(z.pool)
        /\ \A w \in Validators : /\ Listable(z.outstanding[w]) /\ Listable(z.commission[w])
                                 /\ Listable(z.rewards[w])
    BY <1>5, SoundLists
  <2> QED BY <1>4, <1>12, <1>14, <1>15, <2>1, <2>2, SoundAfter
<1> QED BY <1>3, <1>4, <1>5, <1>6, <1>16 DEF z

\* initialize_delegation: the delegation starts at the period that has just ended.
LEMMA InitializeFacts ==
    ASSUME StakeType, NEW x, Sound(x), NEW d \in Accounts, NEW v \in Validators,
           ~x.info[<<d, v>>].stored, NEW z \in InitializeDelegation(x, d, v)
    PROVE  Sound(z) /\ Kept(x, z)
<1> DEFINE p == x.period[v] - 1
           i == [prev |-> p, stake |-> Whole(stake[<<d, v>>]), height |-> height, stored |-> TRUE]
           g == x.hist[v]
<1>1. x \in Stores /\ p \in Int /\ g \in [DOMAIN g -> Records] /\ \A q \in DOMAIN g : g[q].count \in Int
  <2>1. x \in Stores
    BY DEF Sound
  <2>2. x.period[v] \in Nat /\ g \in Histories
    BY <2>1 DEF Stores
  <2>3. g \in [DOMAIN g -> Records]
    BY <2>2, HistoryFacts
  <2> HIDE DEF g
  <2> QED BY <2>1, <2>2, <2>3 DEF Records
<1>2. PICK y \in IncrementReferenceCount(x, v, p) : z = [y EXCEPT !.info[<<d, v>>] = i]
  BY DEF InitializeDelegation
<1>3. i \in Infos /\ i.stored /\ i.prev = p
  <2>1. stake[<<d, v>>] \in Nat /\ height \in Int
    BY DEF StakeType
  <2>2. Whole(stake[<<d, v>>]) \in Nat
    BY <2>1, DecTypes
  <2> HIDE DEF p
  <2> QED BY <1>1, <2>1, <2>2 DEF Infos
<1> HIDE DEF p, i
<1> DEFINE h == y.hist[v]
<1>4. /\ y \in Stores /\ HistoryOnly(x, y, v) /\ p \in DOMAIN g /\ DOMAIN h = DOMAIN g
      /\ \A q \in DOMAIN g : /\ h[q].ratio = g[q].ratio
                             /\ h[q].count = g[q].count + (IF q = p THEN 1 ELSE 0)
      /\ h[p].count <= UpperLimit
  BY <1>1, <1>2, IncrementFacts
<1>5. /\ z \in Stores /\ Kept(y, z) /\ z.info[<<d, v>>] = i
      /\ \A a \in Accounts, w \in Validators :
            <<a, w>> # <<d, v>> => z.info[<<a, w>>] = y.info[<<a, w>>]
      /\ z.pool = y.pool /\ z.collector = y.collector /\ z.outstanding = y.outstanding
      /\ z.commission = y.commission /\ z.rewards = y.rewards /\ z.period = y.period
      /\ z.hist = y.hist
  BY <1>2, <1>3, <1>4, InfoSet
<1>6. /\ z.pool = x.pool /\ z.collector = x.collector /\ z.outstanding = x.outstanding
      /\ z.commission = x.commission /\ z.rewards = x.rewards /\ z.period = x.period
      /\ z.hist[v] = h /\ \A w \in Validators \ {v} : z.hist[w] = x.hist[w]
      /\ \A a \in Accounts, w \in Validators :
            <<a, w>> # <<d, v>> => z.info[<<a, w>>] = x.info[<<a, w>>]
  BY <1>4, <1>5 DEF HistoryOnly
<1>7. Kept(x, z)
  BY <1>4, <1>5, HistoryOnlyKept DEF Kept
<1>8. \A q : Started(z, v, q) = Started(x, v, q) + (IF q = p THEN 1 ELSE 0)
  <2>1. \A a \in Accounts \ {d} : x.info[<<a, v>>] = z.info[<<a, v>>]
    BY <1>6
  <2> QED BY <1>1, <1>3, <1>5, <2>1, StartedChanges
<1>9. \A q : /\ CurrentAfter(z, v, q) = CurrentAfter(x, v, q) /\ CurrentAfter(x, v, q) \in Nat
             /\ Started(x, v, q) \in Nat
  <2>1. \A q : CurrentAfter(z, v, q) = CurrentAfter(x, v, q) /\ CurrentAfter(x, v, q) \in Nat
    BY <1>6 DEF CurrentAfter
  <2>2. \A q : Started(x, v, q) \in Nat
    BY <1>1, StartedFacts
  <2> QED BY <2>1, <2>2
<1>10. /\ \A q \in DOMAIN g : g[q].count = Started(x, v, q) + CurrentAfter(x, v, q) /\ g[q].count > 0
       /\ \A a \in Accounts : x.info[<<a, v>>].stored => x.info[<<a, v>>].prev \in DOMAIN g
  BY DEF Sound, Counted
<1>11. ASSUME NEW q \in DOMAIN g
       PROVE  h[q].count = Started(z, v, q) + CurrentAfter(z, v, q) /\ h[q].count > 0
  <2>1. /\ h[q].count = g[q].count + (IF q = p THEN 1 ELSE 0) /\ g[q].count \in Int
        /\ g[q].count = Started(x, v, q) + CurrentAfter(x, v, q) /\ g[q].count > 0
    BY <1>1, <1>4, <1>10
  <2>2. Started(z, v, q) = Started(x, v, q) + (IF q = p THEN 1 ELSE 0)
    BY <1>8
  <2> HIDE DEF g, h
  <2>3. CASE q = p
    BY <1>9, <2>1, <2>2, <2>3
  <2>4. CASE q # p
    BY <1>9, <2>1, <2>2, <2>4
  <2> QED BY <2>3, <2>4
<1>12. ASSUME NEW a \in Accounts, z.info[<<a, v>>].stored
       PROVE  z.info[<<a, v>>].prev \in DOMAIN g
  <2>1. CASE a = d
    BY <1>3, <1>4, <1>5, <2>1
  <2>2. CASE a # d
    BY <1>6, <1>10, <1>12, <2>2
  <2> QED BY <2>1, <2>2
<1>13. Counted(z, v)
  BY <1>4, <1>6, <1>11, <1>12 DEF Counted
<1>14. Ended(z, v)
  <2>1. Ended(x, v)
    BY DEF Sound
  <2> QED BY <1>4, <1>6, <2>1 DEF Ended
<1>15. HistoricalReadable(z, v)
  <2>1. \A q \in DOMAIN g : IsCoins(g[q].ratio) /\ g[q].count <= UpperLimit
    BY DEF Sound, Readable, HistoricalReadable
  <2>2. \A q \in DOMAIN g : IsCoins(h[q].ratio) /\ h[q].count <= UpperLimit
    <3> TAKE q \in DOMAIN g
    <3>1. /\ h[q].ratio = g[q].ratio /\ h[p].count <= UpperLimit
          /\ h[q].count = g[q].count + (IF q = p THEN 1 ELSE 0) /\ g[q].count \in Int
      BY <1>1, <1>4
    <3> HIDE DEF g, h
    <3>2. CASE q = p
      BY <2>1, <3>1, <3>2
    <3>3. CASE q # p
      BY <2>1, <3>1, <3>3 DEF UpperLimit
    <3> QED BY <3>2, <3>3
  <2> QED BY <1>4, <1>6, <2>2 DEF HistoricalReadable
<1>16. Sound(z)
  <2>1. \A w \in Validators \ {v} :
                /\ z.hist[w] = x.hist[w] /\ z.period[w] = x.period[w] /\ z.rewards[w] = x.rewards[w]
                /\ \A a \in Accounts : z.info[<<a, w>>] = x.info[<<a, w>>]
    BY <1>6
  <2>2. /\ Listable(z.collector) /\ Listable(z.pool)
        /\ \A w \in Validators : /\ Listable(z.outstanding[w]) /\ Listable(z.commission[w])
                                 /\ Listable(z.rewards[w])
    BY <1>6, SoundLists
  <2> QED BY <1>5, <1>13, <1>14, <1>15, <2>1, <2>2, SoundAfter
<1> QED BY <1>7, <1>16

\* Steps that move nothing can follow each other.
LEMMA KeptTrans == ASSUME NEW s, NEW t, NEW u, Kept(s, t), Kept(t, u) PROVE Kept(s, u)
  BY DEF Kept

\* calculate_delegation_rewards yields coins.
LEMMA RewardsType ==
    ASSUME StakeType, NEW s, Sound(s), NEW d \in Accounts, NEW v \in Validators,
           NEW r \in DelegationRewards(s, d, v)
    PROVE  r \in CoinLists
<1> DEFINE end == s.period[v] - 1
           info == s.info[<<d, v>>]
           worth == Whole(stake[<<d, v>>])
           staked == IF info.stake > worth THEN worth ELSE info.stake
           ratio == Minus(s.hist[v][end].ratio, s.hist[v][info.prev].ratio)
<1>1. /\ {info.prev, end} \subseteq DOMAIN s.hist[v]
      /\ CanMinus(s.hist[v][end].ratio, s.hist[v][info.prev].ratio)
      /\ r = MulTruncate(ratio, staked)
  BY DEF DelegationRewards, RewardsUntil
<1>2. s.info[<<d, v>>] \in Infos /\ s.hist[v] \in Histories
  BY DEF Sound, Stores
<1>3. s.hist[v] \in [DOMAIN s.hist[v] -> Records]
  BY <1>2, HistoryFacts
<1>4. s.hist[v][end].ratio \in CoinLists /\ s.hist[v][info.prev].ratio \in CoinLists
  BY <1>1, <1>3 DEF Records
<1>5. ratio \in CoinLists
  BY <1>1, <1>4, CanMinusFacts
<1>6. stake[<<d, v>>] \in Nat
  BY DEF StakeType
<1>7. worth \in Nat
  BY <1>6, DecTypes
<1>8. staked \in Nat
  <2> HIDE DEF worth
  <2> QED BY <1>2, <1>7 DEF Infos
<1> HIDE DEF staked, ratio
<1> QED BY <1>1, <1>5, <1>8, ScaledTypes

\* delegation_withdraw_rewards, with the period it ends.
LEMMA WithdrawFacts ==
    ASSUME StakeType, NEW s, Sound(s), NEW d \in Accounts, NEW v \in Validators,
           s.info[<<d, v>>].stored, NEW t \in WithdrawRewards(s, d, v)
    PROVE  Sound(t) /\ Kept(s, t)
<1>1. PICK w \in IncrementValidatorPeriod(s, v) : t \in WithdrawEnded(w, d, v)
  BY DEF WithdrawRewards
<1>2. Sound(w) /\ Kept(s, w) /\ w.info = s.info
  BY PeriodFacts
<1> DEFINE Paid(r) == PayRewards(w, d, v, Intersect(r, w.outstanding[v]))
           paid == UNION {Paid(r) : r \in DelegationRewards(w, d, v)}
           prev == w.info[<<d, v>>].prev
           dropped == UNION {DecrementReferenceCount(x, v, prev) : x \in paid}
<1>3. t \in UNION {InitializeDelegation([y EXCEPT !.info[<<d, v>>] = NoInfo], d, v) : y \in dropped}
  BY <1>1, Zenon DEF WithdrawEnded
<1>a. PICK y \in dropped : t \in InitializeDelegation([y EXCEPT !.info[<<d, v>>] = NoInfo], d, v)
  <2> HIDE DEF dropped
  <2> QED BY <1>3
<1>b. PICK x \in paid : y \in DecrementReferenceCount(x, v, prev)
  <2> HIDE DEF paid, prev
  <2> QED BY <1>a
<1>c. PICK r \in DelegationRewards(w, d, v) : x \in Paid(r)
  <2> HIDE DEF Paid
  <2> QED BY <1>b
<1> HIDE DEF paid, dropped
<1>6. Intersect(r, w.outstanding[v]) \in CoinLists
  <2>1. r \in CoinLists
    BY <1>2, RewardsType
  <2>2. w.outstanding[v] \in CoinLists
    BY <1>2 DEF Sound, Stores
  <2> QED BY <2>1, <2>2, IntersectType
<1>7. Sound(x) /\ Kept(w, x) /\ x.info = w.info
  BY <1>2, <1>6, <1>c, PayFacts
<1> DEFINE z == [y EXCEPT !.info[<<d, v>>] = NoInfo]
<1>8. y \in DecrementReferenceCount(x, v, x.info[<<d, v>>].prev) /\ x.info[<<d, v>>].stored
  BY <1>2, <1>b, <1>7
<1>9. Sound(z) /\ Kept(x, z) /\ ~z.info[<<d, v>>].stored
  BY <1>7, <1>8, DropFacts
<1>10. t \in InitializeDelegation(z, d, v)
  BY <1>a
<1> HIDE DEF z
<1>11. Sound(t) /\ Kept(z, t)
  BY <1>9, <1>10, InitializeFacts
<1> QED BY <1>2, <1>7, <1>9, <1>11, KeptTrans

\* withdraw_validator_commission.
LEMMA CommissionFacts ==
    ASSUME NEW s, Sound(s), NEW v \in Validators, NEW t \in WithdrawCommission(s, v)
    PROVE  Sound(t) /\ Kept(s, t)
<1> DEFINE whole == Truncated(s.commission[v])
           rest == Change(s.commission[v])
           left == IF rest = NoCoins THEN s.commission[v] ELSE rest
           kept == [s EXCEPT !.commission[v] = left]
           payee == IF s.withdraw[v] = NoAddr THEN v ELSE s.withdraw[v]
           dec == ToDecimal(whole)
           less == Minus(s.outstanding[v], dec)
           taken == [kept EXCEPT !.outstanding[v] = less]
<1>1. /\ s \in Stores /\ s.commission \in [Validators -> CoinLists] /\ v \in Accounts
      /\ s.outstanding[v] \in CoinLists /\ s.withdraw[v] \in Payees \cup {NoAddr}
  BY FiniteHolders DEF Sound, Stores
<1>2. /\ whole \in CoinLists /\ rest \in CoinLists /\ Listable(rest) /\ payee \in Payees
      /\ dec \in CoinLists /\ \A d : AmountOf(dec, d) = Whole(AmountOf(whole, d))
  <2>1. whole \in CoinLists /\ rest \in CoinLists /\ Listable(rest)
    BY <1>1, TruncateFacts, SplitListable
  <2>2. payee \in Payees
    BY <1>1 DEF Payees
  <2> HIDE DEF whole
  <2>3. dec \in CoinLists /\ \A d : AmountOf(dec, d) = Whole(AmountOf(whole, d))
    BY <2>1, ToDecimalFacts DEF Whole
  <2> QED BY <2>1, <2>2, <2>3
<1>3. left \in CoinLists /\ Listable(left)
  <2>1. Listable(s.commission[v]) /\ s.commission[v] \in CoinLists
    BY <1>1, SoundLists
  <2> HIDE DEF rest
  <2> QED BY <1>2, <2>1
<1>4. /\ kept = [s EXCEPT !.commission[v] = IF rest = NoCoins THEN @ ELSE rest]
      /\ taken = [kept EXCEPT !.outstanding[v] = Minus(@, dec)]
  <2>1. kept = [s EXCEPT !.commission[v] = IF rest = NoCoins THEN @ ELSE rest]
    BY <1>1
  <2>2. kept.outstanding = s.outstanding
    BY <1>1 DEF Stores
  <2> QED BY <2>1, <2>2
<1>5. \/ t = kept
      \/ CanMinus(s.outstanding[v], dec) /\ t \in SendFromModule(taken, payee, whole)
  BY <1>4 DEF WithdrawCommission
<1> HIDE DEF whole, rest, dec, left, payee
<1>6. /\ kept \in Stores /\ Sound(kept) /\ Kept(s, kept) /\ kept.outstanding = s.outstanding
  <2> DEFINE com == [s.commission EXCEPT ![v] = left]
  <2>1. /\ com \in [Validators -> CoinLists] /\ kept = [s EXCEPT !.commission = com]
        /\ \A w \in Validators : Listable(com[w])
    BY <1>1, <1>3, SoundLists
  <2> HIDE DEF com
  <2>2. /\ kept \in Stores /\ kept.commission = com /\ kept.pool = s.pool
        /\ kept.module = s.module /\ kept.collector = s.collector /\ kept.bal = s.bal
        /\ kept.supply = s.supply /\ kept.staked = s.staked /\ kept.outstanding = s.outstanding
        /\ kept.rewards = s.rewards /\ kept.info = s.info /\ kept.period = s.period
        /\ kept.hist = s.hist
    BY <1>1, <2>1 DEF Stores
  <2> HIDE DEF kept
  <2>3. Kept(s, kept)
    BY <2>2 DEF Kept, Excess, Held
  <2>4. Sound(kept)
    BY <2>1, <2>2, SoundLists, SoundOf DEF SameReferences
  <2> QED BY <2>2, <2>3, <2>4
<1>7. CASE t = kept
  BY <1>6, <1>7
<1>8. CASE CanMinus(s.outstanding[v], dec) /\ t \in SendFromModule(taken, payee, whole)
  <2>1. /\ less \in CoinLists /\ IsCoins(less)
        /\ \A d : AmountOf(less, d) = AmountOf(s.outstanding[v], d) - AmountOf(dec, d)
    BY <1>1, <1>2, <1>8, CanMinusFacts
  <2> HIDE DEF less, kept
  <2>2. /\ taken \in Stores
        /\ \A d : Excess(taken, d) = Excess(kept, d) + AmountOf(kept.outstanding[v], d) - AmountOf(less, d)
        /\ \A d : Held(taken, d) = Held(kept, d)
    BY <1>6, <2>1, OutstandingSet
  <2>3. /\ taken.outstanding = [kept.outstanding EXCEPT ![v] = less] /\ taken.pool = kept.pool
        /\ taken.collector = kept.collector /\ taken.commission = kept.commission
        /\ taken.rewards = kept.rewards /\ taken.period = kept.period /\ taken.hist = kept.hist
        /\ taken.info = kept.info
    BY <1>6 DEF Stores
  <2> HIDE DEF taken
  <2>4. Sound(taken)
    <3>1. kept.outstanding \in [Validators -> CoinLists] /\ Listable(less)
      BY <1>6, <2>1, CoinsNotEmpty DEF Stores
    <3>2. \A w \in Validators : Listable(taken.outstanding[w])
      BY <1>6, <2>3, <3>1, SoundLists
    <3> QED BY <1>6, <2>2, <2>3, <3>2, SoundLists, SoundOf DEF SameReferences
  <2>5. /\ t \in Stores
        /\ \A d : Excess(t, d) = Excess(taken, d) - Whole(AmountOf(whole, d)) /\ Held(t, d) = Held(taken, d)
        /\ t.pool = taken.pool /\ t.collector = taken.collector /\ t.outstanding = taken.outstanding
        /\ t.commission = taken.commission /\ t.rewards = taken.rewards /\ t.period = taken.period
        /\ t.hist = taken.hist /\ t.info = taken.info
    BY <1>2, <1>8, <2>2, SendFacts
  <2>6. Sound(t)
    BY <2>4, <2>5, SoundLists, SoundOf DEF SameReferences
  <2>7. Kept(kept, t)
    <3> SUFFICES ASSUME NEW d PROVE Excess(t, d) = Excess(kept, d) /\ Held(t, d) = Held(kept, d)
      BY DEF Kept
    <3>1. Excess(kept, d) \in Int /\ AmountOf(kept.outstanding[v], d) \in Nat
      BY <1>6, StoreAmounts
    <3>2. AmountOf(whole, d) \in Nat
      BY <1>2, AmountType
    <3>3. Whole(AmountOf(whole, d)) \in Int /\ AmountOf(dec, d) = Whole(AmountOf(whole, d))
      BY <1>2, <3>2, WholeAdd
    <3>4. AmountOf(less, d) = AmountOf(kept.outstanding[v], d) - AmountOf(dec, d)
      BY <1>6, <2>1
    <3>5. Excess(taken, d) = Excess(kept, d) + AmountOf(kept.outstanding[v], d) - AmountOf(less, d)
      BY <2>2
    <3>6. Excess(t, d) = Excess(taken, d) - Whole(AmountOf(whole, d))
      BY <2>5
    <3>7. Excess(t, d) = Excess(kept, d)
      BY <3>1, <3>3, <3>4, <3>5, <3>6
    <3> QED BY <2>2, <2>5, <3>7
  <2> QED BY <1>6, <2>6, <2>7, KeptTrans
<1> QED BY <1>5, <1>7, <1>8

\* Coins leave an account: for the fees, or for the community pool.
LEMMA TakeFacts ==
    ASSUME NEW s \in Stores, NEW a \in Accounts, NEW c \in CoinLists, IsAllGte(s.bal[a], c)
    PROVE  LET b == [s.bal EXCEPT ![a] = Minus(@, c)]
           IN  /\ b \in [Accounts -> CoinLists]
               /\ \A d : SumCoins(b, Accounts, d) = SumCoins(s.bal, Accounts, d) - AmountOf(c, d)
<1> DEFINE b == [s.bal EXCEPT ![a] = Minus(@, c)]
<1>1. s.bal \in [Accounts -> CoinLists]
  BY DEF Stores
<1>2. /\ Minus(s.bal[a], c) \in CoinLists
      /\ \A d : AmountOf(Minus(s.bal[a], c), d) = AmountOf(s.bal[a], d) - AmountOf(c, d)
  BY <1>1, MinusFacts
<1>3. b = [s.bal EXCEPT ![a] = Minus(s.bal[a], c)] /\ b \in [Accounts -> CoinLists]
  BY <1>1, <1>2
<1>4. ASSUME NEW d PROVE SumCoins(b, Accounts, d) = SumCoins(s.bal, Accounts, d) - AmountOf(c, d)
  <2>1. SumCoins(b, Accounts, d) = SumCoins(s.bal, Accounts, d)
          + (AmountOf(Minus(s.bal[a], c), d) - AmountOf(s.bal[a], d))
    BY <1>1, <1>2, <1>3, FiniteHolders, SumCoinsFacts
  <2>2. SumCoins(s.bal, Accounts, d) \in Nat /\ AmountOf(s.bal[a], d) \in Nat
    BY StoreAmounts
  <2>3. AmountOf(c, d) \in Nat
    BY AmountType
  <2> QED BY <1>2, <2>1, <2>2, <2>3
<1> QED BY <1>3, <1>4

\* Fees go from an account to the collector.
LEMMA PayFeesFacts ==
    ASSUME NEW s, Sound(s), NEW a \in Accounts, NEW c \in Amounts, IsAllGte(s.bal[a], c)
    PROVE  LET t == [s EXCEPT !.bal[a] = Minus(@, c), !.collector = Plus(@, c)]
           IN  Sound(t) /\ Kept(s, t)
<1> DEFINE t == [s EXCEPT !.bal[a] = Minus(@, c), !.collector = Plus(@, c)]
           b == [s.bal EXCEPT ![a] = Minus(@, c)]
           m == Plus(s.collector, c)
<1>1. s \in Stores /\ Listable(s.collector) /\ s.collector \in CoinLists
  BY DEF Sound, Stores
<1>2. c \in CoinLists /\ Listable(c)
  BY DistributionAssumption, CoinListIs, CoinsNotEmpty
<1>3. /\ b \in [Accounts -> CoinLists]
      /\ \A d : SumCoins(b, Accounts, d) = SumCoins(s.bal, Accounts, d) - AmountOf(c, d)
  BY <1>1, <1>2, TakeFacts
<1>4. /\ m \in CoinLists /\ Listable(m)
      /\ \A d : AmountOf(m, d) = AmountOf(s.collector, d) + AmountOf(c, d)
  BY <1>1, <1>2, PlusFacts, PlusListable
<1>5. t = [s EXCEPT !.bal = b, !.collector = m]
  OBVIOUS
<1> HIDE DEF b, m
<1>6. /\ t \in Stores /\ t.bal = b /\ t.collector = m /\ t.pool = s.pool /\ t.module = s.module
      /\ t.supply = s.supply /\ t.staked = s.staked /\ t.outstanding = s.outstanding
      /\ t.commission = s.commission /\ t.rewards = s.rewards /\ t.info = s.info
      /\ t.period = s.period /\ t.hist = s.hist
  BY <1>1, <1>3, <1>4, <1>5 DEF Stores
<1> HIDE DEF t
<1>7. Sound(t)
  BY <1>4, <1>6, SoundLists, SoundOf DEF SameReferences
<1>8. ASSUME NEW d PROVE Excess(t, d) = Excess(s, d) /\ Held(t, d) = Held(s, d)
  <2>1. /\ AmountOf(s.collector, d) \in Nat /\ AmountOf(s.module, d) \in Nat
        /\ AmountOf(s.staked, d) \in Nat /\ AmountOf(s.supply, d) \in Nat
        /\ SumCoins(s.bal, Accounts, d) \in Nat
    BY <1>1, StoreAmounts
  <2>2. AmountOf(c, d) \in Nat
    BY <1>2, AmountType
  <2> QED BY <1>3, <1>4, <1>6, <2>1, <2>2 DEF Excess, Held
<1> QED BY <1>7, <1>8 DEF Kept, t

\* fund_community_pool: the module holds what the pool gains.
LEMMA FundFacts ==
    ASSUME NEW s, Sound(s), NEW a \in Accounts, NEW c \in Amounts, IsAllGte(s.bal[a], c)
    PROVE  LET t == [s EXCEPT !.bal[a] = Minus(@, c), !.module = Plus(@, c),
                              !.pool = Plus(@, ToDecimal(c))]
           IN  Sound(t) /\ Kept(s, t)
<1> DEFINE t == [s EXCEPT !.bal[a] = Minus(@, c), !.module = Plus(@, c),
                          !.pool = Plus(@, ToDecimal(c))]
           b == [s.bal EXCEPT ![a] = Minus(@, c)]
           m == Plus(s.module, c)
           k == Plus(s.pool, ToDecimal(c))
<1>0. s \in Stores /\ Listable(s.pool)
  BY SoundLists
<1>1. s \in Stores /\ Listable(s.pool) /\ s.pool \in CoinLists /\ s.module \in CoinLists
  BY <1>0 DEF Stores
<1>2. c \in CoinLists /\ Listable(c)
  BY DistributionAssumption, CoinListIs, CoinsNotEmpty
<1>3. /\ b \in [Accounts -> CoinLists]
      /\ \A d : SumCoins(b, Accounts, d) = SumCoins(s.bal, Accounts, d) - AmountOf(c, d)
  BY <1>1, <1>2, TakeFacts
<1>4. m \in CoinLists /\ \A d : AmountOf(m, d) = AmountOf(s.module, d) + AmountOf(c, d)
  BY <1>1, <1>2, PlusFacts
<1>5. /\ ToDecimal(c) \in CoinLists /\ Listable(ToDecimal(c))
      /\ \A d : AmountOf(ToDecimal(c), d) = Whole(AmountOf(c, d))
  BY <1>2, ToDecimalFacts, DecimalListable DEF Whole
<1>6. /\ k \in CoinLists /\ Listable(k)
      /\ \A d : AmountOf(k, d) = AmountOf(s.pool, d) + AmountOf(ToDecimal(c), d)
  BY <1>1, <1>5, PlusFacts, PlusListable
<1>7. t = [s EXCEPT !.bal = b, !.module = m, !.pool = k]
  OBVIOUS
<1> HIDE DEF b, m, k
<1>8. /\ t \in Stores /\ t.bal = b /\ t.module = m /\ t.pool = k /\ t.collector = s.collector
      /\ t.supply = s.supply /\ t.staked = s.staked /\ t.outstanding = s.outstanding
      /\ t.commission = s.commission /\ t.rewards = s.rewards /\ t.info = s.info
      /\ t.period = s.period /\ t.hist = s.hist
  BY <1>1, <1>3, <1>4, <1>6, <1>7 DEF Stores
<1> HIDE DEF t
<1>9. Sound(t)
  BY <1>6, <1>8, SoundLists, SoundOf DEF SameReferences
<1>10. ASSUME NEW d PROVE Excess(t, d) = Excess(s, d) /\ Held(t, d) = Held(s, d)
  <2>1. /\ AmountOf(s.collector, d) \in Nat /\ AmountOf(s.module, d) \in Nat
        /\ AmountOf(s.staked, d) \in Nat /\ AmountOf(s.supply, d) \in Nat
        /\ SumCoins(s.bal, Accounts, d) \in Nat /\ AmountOf(s.pool, d) \in Nat
        /\ SumCoins(s.outstanding, Validators, d) \in Nat
    BY <1>1, StoreAmounts
  <2>2. AmountOf(c, d) \in Nat
    BY <1>2, AmountType
  <2>3. /\ Whole(AmountOf(s.module, d)) \in Int /\ Whole(AmountOf(c, d)) \in Int
        /\ Whole(AmountOf(m, d)) = Whole(AmountOf(s.module, d)) + Whole(AmountOf(c, d))
    BY <1>4, <2>1, <2>2, WholeAdd
  <2>4. Held(t, d) = Held(s, d)
    BY <1>3, <1>4, <1>8, <2>1, <2>2 DEF Held
  <2>5. Excess(t, d) = Excess(s, d)
    BY <1>5, <1>6, <1>8, <2>1, <2>3 DEF Excess
  <2> QED BY <2>4, <2>5
<1> QED BY <1>9, <1>10 DEF Kept, t

\* A transfer to the address of the module: it holds more, and owes no more.
LEMMA SendToModuleFacts ==
    ASSUME NEW s, Sound(s), NEW a \in Accounts, NEW c \in Amounts, IsAllGte(s.bal[a], c)
    PROVE  LET t == [s EXCEPT !.bal[a] = Minus(@, c), !.module = Plus(@, c)]
           IN  /\ Sound(t)
               /\ \A d : /\ Excess(t, d) = Excess(s, d) + Whole(AmountOf(c, d))
                         /\ Held(t, d) = Held(s, d)
<1> DEFINE t == [s EXCEPT !.bal[a] = Minus(@, c), !.module = Plus(@, c)]
           b == [s.bal EXCEPT ![a] = Minus(@, c)]
           m == Plus(s.module, c)
<1>1. s \in Stores /\ s.module \in CoinLists
  BY DEF Sound, Stores
<1>2. c \in CoinLists
  BY DistributionAssumption, CoinListIs
<1>3. /\ b \in [Accounts -> CoinLists]
      /\ \A d : SumCoins(b, Accounts, d) = SumCoins(s.bal, Accounts, d) - AmountOf(c, d)
  BY <1>1, <1>2, TakeFacts
<1>4. m \in CoinLists /\ \A d : AmountOf(m, d) = AmountOf(s.module, d) + AmountOf(c, d)
  BY <1>1, <1>2, PlusFacts
<1>5. t = [s EXCEPT !.bal = b, !.module = m]
  OBVIOUS
<1> HIDE DEF b, m
<1>6. /\ t \in Stores /\ t.bal = b /\ t.module = m /\ t.pool = s.pool /\ t.collector = s.collector
      /\ t.supply = s.supply /\ t.staked = s.staked /\ t.outstanding = s.outstanding
      /\ t.commission = s.commission /\ t.rewards = s.rewards /\ t.info = s.info
      /\ t.period = s.period /\ t.hist = s.hist
  BY <1>1, <1>3, <1>4, <1>5 DEF Stores
<1> HIDE DEF t
<1>7. Sound(t)
  BY <1>6, SoundLists, SoundOf DEF SameReferences
<1>8. ASSUME NEW d
      PROVE  Excess(t, d) = Excess(s, d) + Whole(AmountOf(c, d)) /\ Held(t, d) = Held(s, d)
  <2>1. /\ AmountOf(s.collector, d) \in Nat /\ AmountOf(s.module, d) \in Nat
        /\ AmountOf(s.staked, d) \in Nat /\ AmountOf(s.supply, d) \in Nat
        /\ SumCoins(s.bal, Accounts, d) \in Nat /\ AmountOf(s.pool, d) \in Nat
        /\ SumCoins(s.outstanding, Validators, d) \in Nat
    BY <1>1, StoreAmounts
  <2>2. AmountOf(c, d) \in Nat
    BY <1>2, AmountType
  <2>3. /\ Whole(AmountOf(s.module, d)) \in Int /\ Whole(AmountOf(c, d)) \in Int
        /\ Whole(AmountOf(m, d)) = Whole(AmountOf(s.module, d)) + Whole(AmountOf(c, d))
    BY <1>4, <2>1, <2>2, WholeAdd
  <2>4. Held(t, d) = Held(s, d)
    BY <1>3, <1>4, <1>6, <2>1, <2>2 DEF Held
  <2>5. Excess(t, d) = Excess(s, d) + Whole(AmountOf(c, d))
    BY <1>6, <2>1, <2>3 DEF Excess
  <2> QED BY <2>4, <2>5
<1> QED BY <1>7, <1>8 DEF t

\* x/mint: what is minted counts in the supply and is held by the collector.
LEMMA MintFacts ==
    ASSUME NEW s, Sound(s), NEW c \in CoinLists, Listable(c)
    PROVE  LET t == [s EXCEPT !.supply = Plus(@, c), !.collector = Plus(@, c)]
           IN  Sound(t) /\ Kept(s, t)
<1> DEFINE t == [s EXCEPT !.supply = Plus(@, c), !.collector = Plus(@, c)]
           b == Plus(s.supply, c)
           m == Plus(s.collector, c)
<1>1. s \in Stores /\ Listable(s.collector) /\ s.collector \in CoinLists /\ s.supply \in CoinLists
  BY DEF Sound, Stores
<1>3. b \in CoinLists /\ \A d : AmountOf(b, d) = AmountOf(s.supply, d) + AmountOf(c, d)
  BY <1>1, PlusFacts
<1>4. /\ m \in CoinLists /\ Listable(m)
      /\ \A d : AmountOf(m, d) = AmountOf(s.collector, d) + AmountOf(c, d)
  BY <1>1, PlusFacts, PlusListable
<1>5. t = [s EXCEPT !.supply = b, !.collector = m]
  OBVIOUS
<1> HIDE DEF b, m
<1>6. /\ t \in Stores /\ t.bal = s.bal /\ t.collector = m /\ t.pool = s.pool /\ t.module = s.module
      /\ t.supply = b /\ t.staked = s.staked /\ t.outstanding = s.outstanding
      /\ t.commission = s.commission /\ t.rewards = s.rewards /\ t.info = s.info
      /\ t.period = s.period /\ t.hist = s.hist
  BY <1>1, <1>3, <1>4, <1>5 DEF Stores
<1> HIDE DEF t
<1>7. Sound(t)
  BY <1>4, <1>6, SoundLists, SoundOf DEF SameReferences
<1>8. ASSUME NEW d PROVE Excess(t, d) = Excess(s, d) /\ Held(t, d) = Held(s, d)
  <2>1. /\ AmountOf(s.collector, d) \in Nat /\ AmountOf(s.module, d) \in Nat
        /\ AmountOf(s.staked, d) \in Nat /\ AmountOf(s.supply, d) \in Nat
        /\ SumCoins(s.bal, Accounts, d) \in Nat
    BY <1>1, StoreAmounts
  <2>2. AmountOf(c, d) \in Nat
    BY AmountType
  <2> QED BY <1>3, <1>4, <1>6, <2>1, <2>2 DEF Excess, Held
<1> QED BY <1>7, <1>8 DEF Kept, t

\* The minter stays well formed, and what it mints is coins.
LEMMA MintedType ==
    ASSUME NEW m \in Minters, NEW bonded \in Nat, NEW supply \in Nat,
           CanInflate(BondedRatio(bonded, supply))
    PROVE  /\ NextMinter(m, bonded, supply) \in Minters
           /\ MintedCoins(NextMinter(m, bonded, supply)) \in CoinLists
           /\ Listable(MintedCoins(NextMinter(m, bonded, supply)))
<1> DEFINE ratio == BondedRatio(bonded, supply)
           perYear == DecMul(Unit - DecDiv(ratio, GoalBonded), InflationRateChange)
           inflation == NextInflationRate(m.inflation, ratio)
           n == NextMinter(m, bonded, supply)
<1>1. /\ InflationRateChange \in Nat /\ InflationMax \in Nat /\ InflationMin \in Nat
      /\ GoalBonded \in Nat /\ BlocksPerYear \in Nat /\ MintDenom \in Denom
  BY MintAssumption
<1>2. GoalBonded # 0 /\ BlocksPerYear # 0 /\ DecDiv(ratio, GoalBonded) <= Unit
  BY <1>1 DEF CanInflate
<1>3. ratio \in Nat
  BY DecTypes DEF BondedRatio
<1> HIDE DEF ratio
<1>4. DecDiv(ratio, GoalBonded) \in Nat
  BY <1>1, <1>2, <1>3, DecTypes
<1>5. Unit - DecDiv(ratio, GoalBonded) \in Nat
  BY <1>2, <1>4, UnitNat
<1>6. perYear \in Nat
  BY <1>1, <1>5, DecTypes
<1>7. DecDiv(perYear, BlocksPerYear) \in Nat
  <2> HIDE DEF perYear
  <2> QED BY <1>1, <1>2, <1>6, DecTypes
<1>8. inflation \in Nat
  <2>1. m.inflation \in Nat
    BY DEF Minters
  <2> HIDE DEF perYear
  <2>2. inflation = Clamp(m.inflation + DecDiv(perYear, BlocksPerYear), InflationMin, InflationMax)
    BY DEF NextInflationRate, perYear
  <2> QED BY <1>1, <1>7, <2>1, <2>2 DEF Clamp
<1>9. n \in Minters
  <2>1. n = [inflation |-> inflation, provisions |-> DecMul(inflation, supply)]
    BY DEF NextMinter, NextAnnualProvision, ratio
  <2> HIDE DEF inflation, n
  <2>2. DecMul(inflation, supply) \in Nat
    BY <1>8, DecTypes
  <2> QED BY <1>8, <2>1, <2>2 DEF Minters
<1> HIDE DEF n
<1>10. BlockProvision(n.provisions) \in Nat
  <2>1. n.provisions \in Nat
    BY <1>9 DEF Minters
  <2>2. DecDiv(n.provisions, BlocksPerYear) \in Nat
    BY <1>1, <1>2, <2>1, DecTypes
  <2> QED BY <2>2, UnitNat, DivNat DEF BlockProvision
<1>11. MintedCoins(n) \in CoinLists /\ \A d \in DOMAIN MintedCoins(n) : MintedCoins(n)[d] > 0
  <2> DEFINE f == [d \in {MintDenom} |-> BlockProvision(n.provisions)]
  <2>1. {MintDenom} \in SUBSET Denom /\ f \in [{MintDenom} -> Nat]
    BY <1>1, <1>10
  <2>2. MintedCoins(n) = DropZeros(f)
    BY DEF MintedCoins
  <2> HIDE DEF f
  <2> QED BY <2>1, <2>2, DropZerosFacts
<1>12. Listable(MintedCoins(n))
  BY <1>11, ListableIs
<1> QED BY <1>9, <1>11, <1>12 DEF n

(***************************************************************************)
(* The invariant, and what every step does to the balance of the module.   *)
(***************************************************************************)
DistributionInv ==
    /\ Sound(st) /\ StakeType /\ minter \in Minters
    /\ \A d \in Denom : Held(st, d) = 0

\* A transfer to the address of the module adds to what it holds.
Sent(c) ==
    /\ Sound(st')
    /\ \A d \in Denom : /\ Excess(st', d) = Excess(st, d) + Whole(AmountOf(c, d))
                         /\ Held(st', d) = Held(st, d)
SentByAccount == \E a \in Accounts, c \in Amounts : MsgSendToModule(a, c) /\ Sent(c)

\* What every other step has to leave.
Settled == Sound(st') /\ \A d \in Denom : Excess(st', d) = Excess(st, d) /\ Held(st', d) = Held(st, d)

\* A step that moves nothing leaves what a step has to.
LEMMA KeptSettled == ASSUME Sound(st'), Kept(st, st') PROVE Settled
  BY DEF Settled, Kept

\* So does one that leaves the store alone.
LEMMA SameSettled == ASSUME Sound(st), st' = st PROVE Settled
  BY DEF Settled

\* Nothing is held beyond the supply when the sums agree.
LEMMA HeldZero ==
    ASSUME NEW s \in Stores, NEW d
    PROVE  Held(s, d) = 0 <=>
             AmountOf(s.supply, d) = AmountOf(s.collector, d) + AmountOf(s.module, d)
                                     + SumCoins(s.bal, Accounts, d) + AmountOf(s.staked, d)
<1>1. /\ AmountOf(s.collector, d) \in Nat /\ AmountOf(s.module, d) \in Nat
      /\ AmountOf(s.staked, d) \in Nat /\ AmountOf(s.supply, d) \in Nat
      /\ SumCoins(s.bal, Accounts, d) \in Nat
  BY StoreAmounts
<1> QED BY <1>1 DEF Held

\* What init_genesis accepts satisfies the invariant.
LEMMA DistributionInit == InitGenesis => DistributionInv
<1> SUFFICES ASSUME InitGenesis PROVE DistributionInv
  OBVIOUS
<1>1. PICK g \in Genesis : st = g.st /\ stake = g.stake /\ minter = g.minter /\ height = 1
  BY DEF InitGenesis
<1>2. StoreTypeOK(g.st) /\ g.stake \in [Accounts \X Validators -> Nat] /\ HeldIsSupply(g.st)
  BY GenesisAssumption
<1>3. /\ Listable(g.st.collector)
      /\ \A v \in Validators : Counted(g.st, v) /\ Readable(g.st, v) /\ Ended(g.st, v)
  BY ExportAssumption
<1>4. minter \in Minters
  BY <1>1, DistributionAssumption
<1>5. st \in Stores
  BY <1>1, <1>2, StoreIs
<1>6. Sound(st)
  BY <1>1, <1>3, <1>5 DEF Sound
<1>7. \A d \in Denom : Held(st, d) = 0
  <2> TAKE d \in Denom
  <2>1. AmountOf(st.supply, d) = AmountOf(st.collector, d) + AmountOf(st.module, d)
                                + SumCoins(st.bal, Accounts, d) + AmountOf(st.staked, d)
    BY <1>1, <1>2 DEF HeldIsSupply
  <2> QED BY <1>5, <2>1, HeldZero
<1>8. StakeType
  BY <1>1, <1>2 DEF StakeType
<1> QED BY <1>4, <1>6, <1>7, <1>8 DEF DistributionInv

\* withdraw_delegator_reward_and_commission.
LEMMA MessageStep ==
    ASSUME Sound(st), StakeType, NEW d \in Accounts, NEW v \in Validators, NEW commission \in BOOLEAN,
           MsgWithdrawReward(d, v, commission)
    PROVE  Settled
<1>1. st.info[<<d, v>>].stored
  BY DEF MsgWithdrawReward
<1>2. st' \in IF commission THEN UNION {WithdrawCommission(t, v) : t \in WithdrawRewards(st, d, v)}
              ELSE WithdrawRewards(st, d, v)
  BY DEF MsgWithdrawReward, Deliver
<1>3. \A t \in WithdrawRewards(st, d, v) : Sound(t) /\ Kept(st, t)
  BY <1>1, WithdrawFacts
<1>4. CASE commission
  <2>1. PICK t \in WithdrawRewards(st, d, v) : st' \in WithdrawCommission(t, v)
    BY <1>2, <1>4
  <2>2. Sound(t) /\ Kept(st, t)
    BY <1>3
  <2>3. Sound(st') /\ Kept(t, st')
    BY <2>1, <2>2, CommissionFacts
  <2> QED BY <2>2, <2>3, KeptTrans, KeptSettled
<1>5. CASE ~commission
  BY <1>2, <1>3, <1>5, KeptSettled
<1> QED BY <1>4, <1>5

\* Every step of a block keeps the invariant; all but a transfer to the address
\* of the module leave its balance what it was beyond what it owes.
LEMMA DistributionStep ==
    ASSUME DistributionInv, [Next]_vars
    PROVE  DistributionInv' /\ (Settled \/ SentByAccount)
<1>0. Sound(st) /\ StakeType /\ minter \in Minters /\ st \in Stores
  BY DEF DistributionInv, Sound
<1> DEFINE Calm == StakeType' /\ minter' \in Minters
<1>1. ASSUME NEW b \in Bonded, MintBeginBlock(b) PROVE Settled /\ Calm
  <2> DEFINE supply == AmountOf(st.supply, StakingDenom)
             m == NextMinter(minter, b, supply)
  <2>1. supply \in Nat /\ b \in Nat
    BY <1>0, StoreAmounts, DistributionAssumption
  <2>2. /\ CanInflate(BondedRatio(b, supply)) /\ minter' = m
        /\ st' = [st EXCEPT !.supply = Plus(@, MintedCoins(m)), !.collector = Plus(@, MintedCoins(m))]
        /\ UNCHANGED <<stake, height>>
    BY <1>1 DEF MintBeginBlock
  <2>3. m \in Minters /\ MintedCoins(m) \in CoinLists /\ Listable(MintedCoins(m))
    <3> HIDE DEF supply
    <3> QED BY <1>0, <2>1, <2>2, MintedType
  <2> HIDE DEF m
  <2>4. Sound(st') /\ Kept(st, st')
    BY <1>0, <2>2, <2>3, MintFacts
  <2>5. Calm
    BY <1>0, <2>2, <2>3 DEF StakeType
  <2> QED BY <2>4, <2>5, KeptSettled
<1>2. ASSUME NEW votes \in Votes, NEW p \in Validators, BeginBlock(votes, p) PROVE Settled /\ Calm
  <2>1. PICK s \in IF height > 1 THEN AllocateTokens(st, votes) ELSE {st} :
               st' = [s EXCEPT !.proposer = p]
    BY <1>2 DEF BeginBlock
  <2>2. Sound(s) /\ \A d \in Denom : Excess(s, d) = Excess(st, d) /\ Held(s, d) = Held(st, d)
    <3>1. CASE height > 1
      BY <1>0, <2>1, <3>1, AllocateTokensFacts
    <3>2. CASE ~(height > 1)
      BY <1>0, <2>1, <3>2
    <3> QED BY <3>1, <3>2
  <2>3. s \in Stores
    BY <2>2 DEF Sound
  <2> DEFINE t == [s EXCEPT !.proposer = p]
  <2>4. /\ t \in Stores /\ t.bal = s.bal /\ t.collector = s.collector /\ t.pool = s.pool
        /\ t.module = s.module /\ t.supply = s.supply /\ t.staked = s.staked
        /\ t.outstanding = s.outstanding /\ t.commission = s.commission /\ t.rewards = s.rewards
        /\ t.info = s.info /\ t.period = s.period /\ t.hist = s.hist
    BY <2>3 DEF Stores
  <2>5. st' = t
    BY <2>1
  <2> HIDE DEF t
  <2>6. Sound(t)
    BY <2>2, <2>4, SoundLists, SoundOf DEF SameReferences
  <2>7. \A d : Excess(t, d) = Excess(s, d) /\ Held(t, d) = Held(s, d)
    BY <2>4 DEF Excess, Held
  <2>8. Calm
    BY <1>0, <1>2 DEF BeginBlock, StakeType
  <2> QED BY <2>2, <2>5, <2>6, <2>7, <2>8 DEF Settled
<1>3. ASSUME Panic \/ EndBlock \/ UNCHANGED vars PROVE Settled /\ Calm
  <2>1. st' = st /\ stake' = stake /\ minter' = minter /\ height' \in Nat
    BY <1>0, <1>3 DEF Panic, EndBlock, vars, StakeType
  <2> QED BY <1>0, <2>1, SameSettled DEF StakeType
<1>4. ASSUME NEW d \in Accounts, NEW v \in Validators, NEW commission \in BOOLEAN,
             MsgWithdrawReward(d, v, commission)
      PROVE  Settled /\ Calm
  <2>1. UNCHANGED <<stake, minter, height>>
    BY <1>4 DEF MsgWithdrawReward, Deliver
  <2> QED BY <1>0, <1>4, <2>1, MessageStep DEF StakeType
<1>5. ASSUME NEW d \in Accounts, NEW v \in Validators, NEW n \in Stakes, StakeChanges(d, v, n)
      PROVE  Settled /\ Calm
  <2>1. st' = st /\ minter' = minter /\ height' = height /\ stake' = [stake EXCEPT ![<<d, v>>] = n]
    BY <1>5 DEF StakeChanges
  <2>2. n \in Nat
    BY DistributionAssumption
  <2>3. StakeType'
    BY <1>0, <2>1, <2>2 DEF StakeType
  <2> QED BY <1>0, <2>1, <2>3, SameSettled
<1>6. ASSUME NEW d \in Accounts, NEW a \in Payees, MsgSetWithdrawAddr(d, a) PROVE Settled /\ Calm
  <2> DEFINE f == [st.withdraw EXCEPT ![d] = a]
  <2>1. st' = [st EXCEPT !.withdraw = f] /\ UNCHANGED <<stake, minter, height>>
    BY <1>6 DEF MsgSetWithdrawAddr, Deliver
  <2>2. f \in [Accounts -> Payees \cup {NoAddr}]
    BY <1>0 DEF Stores
  <2> DEFINE t == [st EXCEPT !.withdraw = f]
  <2> HIDE DEF f
  <2>3. /\ t \in Stores /\ t.bal = st.bal /\ t.collector = st.collector /\ t.pool = st.pool
        /\ t.module = st.module /\ t.supply = st.supply /\ t.staked = st.staked
        /\ t.outstanding = st.outstanding /\ t.commission = st.commission /\ t.rewards = st.rewards
        /\ t.info = st.info /\ t.period = st.period /\ t.hist = st.hist
    BY <1>0, <2>2 DEF Stores
  <2>4. st' = t
    BY <2>1
  <2> HIDE DEF t
  <2>5. Sound(t)
    BY <1>0, <2>3, SoundLists, SoundOf DEF SameReferences
  <2>6. Kept(st, t)
    BY <2>3 DEF Kept, Excess, Held
  <2> QED BY <1>0, <2>1, <2>4, <2>5, <2>6, KeptSettled DEF StakeType
<1>7. ASSUME NEW d \in Accounts, NEW c \in Amounts, MsgFundCommunityPool(d, c) PROVE Settled /\ Calm
  <2>1. /\ IsAllGte(st.bal[d], c)
        /\ st' = [st EXCEPT !.bal[d] = Minus(@, c), !.module = Plus(@, c),
                            !.pool = Plus(@, ToDecimal(c))]
        /\ UNCHANGED <<stake, minter, height>>
    BY <1>7 DEF MsgFundCommunityPool, Deliver
  <2>2. Sound(st') /\ Kept(st, st')
    BY <1>0, <2>1, FundFacts
  <2> QED BY <1>0, <2>1, <2>2, KeptSettled DEF StakeType
<1>8. ASSUME NEW d \in Accounts, NEW c \in Amounts, PayFees(d, c) PROVE Settled /\ Calm
  <2>1. /\ IsAllGte(st.bal[d], c)
        /\ st' = [st EXCEPT !.bal[d] = Minus(@, c), !.collector = Plus(@, c)]
        /\ UNCHANGED <<stake, minter, height>>
    BY <1>8 DEF PayFees, Deliver
  <2>2. Sound(st') /\ Kept(st, st')
    BY <1>0, <2>1, PayFeesFacts
  <2> QED BY <1>0, <2>1, <2>2, KeptSettled DEF StakeType
<1>s. ASSUME NEW d \in Accounts, NEW c \in Amounts, MsgSendToModule(d, c)
      PROVE  SentByAccount /\ Calm
  <2>1. /\ IsAllGte(st.bal[d], c)
        /\ st' = [st EXCEPT !.bal[d] = Minus(@, c), !.module = Plus(@, c)]
        /\ UNCHANGED <<stake, minter, height>>
    BY <1>s DEF MsgSendToModule, Deliver
  <2>2. Sent(c)
    BY <1>0, <2>1, SendToModuleFacts DEF Sent
  <2> QED BY <1>0, <1>s, <2>1, <2>2 DEF StakeType, SentByAccount
<1>9. (Settled \/ SentByAccount) /\ Calm
  <2> HIDE DEF Calm
  <2>1. CASE Next
    BY <1>1, <1>2, <1>3, <1>4, <1>5, <1>6, <1>7, <1>8, <1>s, <2>1
       DEF Next, MintPanics, BeginBlockPanics, MsgWithdrawPanics
  <2>2. CASE UNCHANGED vars
    BY <1>3, <2>2
  <2> QED BY <2>1, <2>2
<1>10. DistributionInv'
  <2>1. Sound(st') /\ \A d \in Denom : Held(st', d) = Held(st, d)
    BY <1>9 DEF Settled, SentByAccount, Sent
  <2>2. \A d \in Denom : Held(st', d) = 0
    BY <2>1 DEF DistributionInv
  <2> QED BY <1>9, <2>1, <2>2 DEF DistributionInv
<1> QED BY <1>9, <1>10

\* The store of the module is well formed in every reachable state, its counts
\* are those of its references and nothing is held beyond the supply.
THEOREM DistributionInvariant == Spec => []DistributionInv
<1>1. DistributionInv /\ [Next]_vars => DistributionInv'
  BY DistributionStep
<1> QED BY DistributionInit, <1>1, PTL DEF Spec

\* Every coin the supply counts is held by an account, by a module, or staked.
THEOREM SupplyProved == Spec => []SupplyHeld
<1>1. DistributionInv => SupplyHeld
  <2> SUFFICES ASSUME DistributionInv, NEW d \in Denom
               PROVE  AmountOf(st.supply, d) = AmountOf(st.collector, d) + AmountOf(st.module, d)
                                + SumCoins(st.bal, Accounts, d) + AmountOf(st.staked, d)
    BY DEF SupplyHeld, HeldIsSupply
  <2>1. st \in Stores /\ Held(st, d) = 0
    BY DEF DistributionInv, Sound
  <2> QED BY <2>1, HeldZero
<1> QED BY DistributionInvariant, <1>1, PTL

\* The queries tell of the coins there are.
LEMMA AnswerFacts ==
    ASSUME NEW c \in CoinLists, NEW d
    PROVE  SumAnswers(Present(c), d) = AmountOf(c, d)
<1>1. CASE c = NoCoins
  <2>1. Present(c) = {} /\ AmountOf(c, d) = 0
    BY <1>1, NoCoinsFacts DEF Present
  <2> QED BY <2>1, SumEmpty DEF SumAnswers
<1>2. CASE c # NoCoins
  <2> DEFINE f == [x \in {c} |-> AmountOf(x, d)]
  <2>1. Present(c) = {c}
    BY <1>2 DEF Present
  <2>2. IsFiniteSet({c}) /\ \A x \in {c} : f[x] \in Int
    BY AmountType, FS_Singleton
  <2>3. f[c] = AmountOf(c, d)
    OBVIOUS
  <2>4. SumAnswers(Present(c), d) = Total(f, {c})
    BY <2>1 DEF SumAnswers
  <2> HIDE DEF f
  <2>5. Total(f, {c}) = f[c] + Total(f, {c} \ {c})
    BY <2>2, SumRemove
  <2>6. {c} \ {c} = {} /\ Total(f, {}) = 0 /\ f[c] \in Int
    BY <2>2, SumEmpty
  <2>7. Total(f, {c} \ {c}) = 0
    BY <2>6
  <2> QED BY <2>3, <2>4, <2>5, <2>6, <2>7
<1> QED BY <1>1, <1>2

\* The surplus the queries tell is the excess of the store.
LEMMA SurplusIs == ASSUME NEW s \in Stores, NEW d PROVE Surplus(s, d) = Excess(s, d)
<1>1. s.pool \in CoinLists /\ s.outstanding \in [Validators -> CoinLists]
  BY DEF Stores
<1>2. SumAnswers(QueryPool(s), d) = AmountOf(s.pool, d)
  BY <1>1, AnswerFacts DEF QueryPool
<1>3. \A v \in Validators : SumAnswers(QueryOutstanding(s, v), d) = AmountOf(s.outstanding[v], d)
  BY <1>1, AnswerFacts DEF QueryOutstanding
<1>4. [v \in Validators |-> SumAnswers(QueryOutstanding(s, v), d)]
        = [v \in Validators |-> AmountOf(s.outstanding[v], d)]
  BY <1>3
<1> QED BY <1>2, <1>4 DEF Surplus, Excess, SumCoins

\* No allocation, withdrawal or rounding moves the balance of the module away
\* from what it owes, whatever address a withdrawal is for (the bank pays none
\* to a module): only a transfer to its own address does, coin by coin.
THEOREM ConservedProved == Spec => Conserved
<1> DEFINE Same == \A d \in Denom : SurplusGrows(d, 0)
           Raised == \E a \in Accounts, c \in Amounts :
                       MsgSendToModule(a, c) /\ \A d \in Denom : SurplusGrows(d, Whole(AmountOf(c, d)))
<1>1. ASSUME DistributionInv, [Next]_vars PROVE Same \/ Raised
  <2>1. DistributionInv' /\ (Settled \/ SentByAccount)
    BY <1>1, DistributionStep
  <2>2. st \in Stores /\ st' \in Stores
    BY <1>1, <2>1 DEF DistributionInv, Sound
  <2>3. \A d : /\ Surplus(st, d) = Excess(st, d) /\ Surplus(st, d)' = Excess(st', d)
              /\ Excess(st, d) \in Int
    BY <2>2, SurplusIs, StoreAmounts
  <2>4. CASE Settled
    BY <2>3, <2>4 DEF Settled, SurplusGrows
  <2>5. CASE SentByAccount
    <3>1. PICK a \in Accounts, c \in Amounts : MsgSendToModule(a, c) /\ Sent(c)
      BY <2>5 DEF SentByAccount
    <3>2. \A d \in Denom : SurplusGrows(d, Whole(AmountOf(c, d)))
      BY <2>3, <3>1 DEF Sent, SurplusGrows
    <3> QED BY <3>1, <3>2
  <2> QED BY <2>1, <2>4, <2>5
<1>2. DistributionInv /\ [Next]_vars => [Same \/ Raised]_vars
  BY <1>1
<1> QED BY DistributionInvariant, <1>2, PTL DEF Spec, Conserved

\* A query looks for the record of a period that has not ended.
LEMMA NoneSoFar ==
    ASSUME NEW s, Sound(s), NEW d \in Accounts, NEW v \in Validators
    PROVE  RewardsSoFar(s, d, v) \subseteq {NoCoins}
<1>1. s.period[v] \in Nat /\ DOMAIN s.hist[v] \subseteq 0 .. s.period[v] - 1
  BY DEF Sound, Stores, Ended
<1>2. s.period[v] \notin DOMAIN s.hist[v]
  BY <1>1
<1>3. RewardsUntil(s, d, v, s.period[v]) = {}
  BY <1>2 DEF RewardsUntil
<1> QED BY <1>3 DEF RewardsSoFar

\* The counts are exact, every record can be read back, and none exists for a
\* period that has not ended.
THEOREM RefCountsProved == Spec => []RefCounts
<1>1. DistributionInv => RefCounts
  <2> SUFFICES ASSUME DistributionInv, NEW v \in Validators
               PROVE  /\ Counted(st, v) /\ Readable(st, v)
                      /\ \A d \in Accounts :
                            /\ QueryDelegationRewards(st, d, v) \subseteq {NoCoins}
                            /\ QueryDelegatorTotalRewards(st, d).rewards = {}
    BY DEF RefCounts
  <2>1. Sound(st)
    BY DEF DistributionInv
  <2>2. \A d \in Accounts, w \in Validators : RewardsSoFar(st, d, w) \subseteq {NoCoins}
    BY <2>1, NoneSoFar
  <2>3. \A d \in Accounts : QueryDelegationRewards(st, d, v) \subseteq {NoCoins}
    BY <2>2 DEF QueryDelegationRewards
  <2>4. ASSUME NEW d \in Accounts PROVE QueryDelegatorTotalRewards(st, d).rewards = {}
    <3>1. \A w \in Validators : RewardsSoFar(st, d, w) \ {NoCoins} = {}
      BY <2>2
    <3>2. RewardsByValidator(st, d) = {}
      BY <3>1 DEF RewardsByValidator, QueryDelegatorValidators
    <3> QED BY <3>2 DEF QueryDelegatorTotalRewards
  <2> QED BY <2>1, <2>3, <2>4 DEF Sound
<1> QED BY DistributionInvariant, <1>1, PTL
=============================================================================
