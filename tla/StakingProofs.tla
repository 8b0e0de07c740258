--------------------------- MODULE StakingProofs ---------------------------
(***************************************************************************)
(* Proofs about x/staking (modules Staking and StakingQueries) for any     *)
(* accounts, validators, amounts and genesis states: the shares of a       *)
(* validator are its delegations, the pools hold what is claimed, and the  *)
(* indexes and queues have what the records say.                           *)
(***************************************************************************)
EXTENDS StakingQueries, SumProofs, SequenceTheorems

(***************************************************************************)
(* The store as a set of records: what every keeper method is given and    *)
(* gives back.                                                             *)
(***************************************************************************)
Entry == [time : 0..Horizon, balance : Nat, paid : BOOLEAN]

\* The types of its fields, each under a name: most steps need no more of a type.
ValidatorStates == [Validators -> ValidatorRecords]
PowerKeys == SUBSET (Nat \X Validators)
LastPowers == [Validators -> Nat]
QueuedValidators == SUBSET (Nat \X Nat \X Validators)
EntryLists == [DvPairs -> Seq(Entry)]
PairKeys == SUBSET (Validators \X Accounts)
TripletKeys == SUBSET (Validators \X Accounts \X Validators)
QueuedPairs == [Slots -> Seq(DvPairs)]
RedelegationLists == [DvvTriplets -> Seq(Nat)]
QueuedTriplets == [Slots -> SUBSET DvvTriplets]
Balances == [Accounts -> Nat]
Heights == SUBSET Nat

Store ==
    [val : ValidatorStates, index : PowerKeys, last : LastPowers, total : Nat,
     valQueue : QueuedValidators, del : DelegationShares, ubd : EntryLists,
     ubdByVal : PairKeys, redBySrc : TripletKeys, redByDst : TripletKeys,
     ubdQueue : QueuedPairs, red : RedelegationLists, redQueue : QueuedTriplets,
     bal : Balances, bonded : Nat, notBonded : Nat, unbondingTime : UnbondingTimes,
     hist : Heights, uncovered : Nat, paidAgain : BOOLEAN, halted : BOOLEAN]

(***************************************************************************)
(* What holds of a store between two keeper methods, each part for itself. *)
(***************************************************************************)
Delegated(s, v) == Total([d \in Accounts |-> s.del[<<d, v>>]], Accounts)
SharesHeld(s) == \A v \in Validators : s.val[v].shares = Delegated(s, v)
AbsentEmpty(s) ==
    \A v \in Validators : ~Exists(s, v) => s.val[v].shares = 0 /\ s.val[v].tokens = 0

Indexed(s) ==
    s.index = {PowerKey(v, s.val[v]) : v \in {w \in Validators : Exists(s, w) /\ ~s.val[w].jailed}}

QueueKey(v, w) == <<Slot(w.ubTime), w.ubHeight, v>>
ValidatorsQueued(s) ==
    s.valQueue = {QueueKey(v, s.val[v]) :
                    v \in {w \in Validators : Exists(s, w) /\ s.val[w].status = "Unbonding"}}

Waits(s, p, slot) == \E j \in DOMAIN s.ubdQueue[slot] : s.ubdQueue[slot][j] = p
EntriesQueued(s, now) ==
    \A p \in DvPairs : \A i \in DOMAIN s.ubd[p] :
        Slot(s.ubd[p][i].time) > Slot(now) => Waits(s, p, Slot(s.ubd[p][i].time))

LastBonded(s) ==
    /\ \A v \in Validators : (s.last[v] # 0) <=> (s.val[v].status = "Bonded")
    /\ s.total = Total(s.last, Validators)
FewBonded(s) == Cardinality(WithStatus(s, TRUE)) <= MaxValidators
SetCurrent(s) ==
    \A v \in Validators : s.val[v].status = "Bonded" =>
        ~s.val[v].jailed /\ s.last[v] = ConsensusPower(s.val[v])

BondedTokens(s) ==
    [v \in Validators |-> IF s.val[v].status = "Bonded" THEN s.val[v].tokens ELSE 0]
OtherTokens(s) ==
    [v \in Validators |-> IF s.val[v].status = "Bonded" THEN 0 ELSE s.val[v].tokens]
Claims(s) == [p \in DvPairs |-> Unpaid(s.ubd[p])]
\* Within a keeper method the pools have b and n more than is claimed.
PoolsAhead(s, b, n) ==
    /\ s.bonded = Total(BondedTokens(s), Validators) + b
    /\ s.notBonded + s.uncovered
          = (Total(OtherTokens(s), Validators) + Total(Claims(s), DvPairs)) + n

KeysExact(s) ==
    /\ s.ubdByVal = {UbdByValKey(p[1], p[2]) : p \in {q \in DvPairs : s.ubd[q] # <<>>}}
    /\ s.redBySrc = {RedBySrcKey(r) : r \in {q \in DvvTriplets : s.red[q] # <<>>}}
    /\ s.redByDst = {RedByDstKey(r) : r \in {q \in DvvTriplets : s.red[q] # <<>>}}

Window(h) == {i \in Nat : i > 0 /\ i <= h /\ i > h - HistoricalEntries}

(***************************************************************************)
(* The inductive invariant.                                                *)
(***************************************************************************)
Always(s) == s \in Store /\ SharesHeld(s) /\ AbsentEmpty(s) /\ KeysExact(s)
Running(s, now) ==
    /\ Indexed(s) /\ ValidatorsQueued(s) /\ EntriesQueued(s, now)
    /\ LastBonded(s) /\ FewBonded(s)

IInv ==
    /\ Always(st)
    /\ header \in [time : 0..MaxTime, height : Nat]
    /\ st.hist = Window(header.height)
    /\ phase \in {"deliver", "commit"} /\ msgs \in Nat
    /\ ~st.halted => /\ Running(st, header.time) /\ PoolsAhead(st, 0, 0) /\ tm = st.last
                     /\ phase = "commit" => SetCurrent(st)

(***************************************************************************)
(* Arithmetic of the exchange rate and of the slots of the queues.         *)
(***************************************************************************)

\* Division rounds down: of Decimal256, of tokens by the power reduction and of
\* times by the second.
LEMMA DivBounds ==
    ASSUME NEW a \in Nat, NEW b \in Nat \ {0}
    PROVE  a \div b \in Nat /\ b * (a \div b) <= a
  BY Z3

\* A quotient grows with the number that is divided: a later time has no earlier
\* slot.
LEMMA DivMono ==
    ASSUME NEW a \in Nat, NEW c \in Nat, NEW b \in Nat \ {0}, a <= c
    PROVE  a \div b <= c \div b
  BY Z3

\* Released tokens of sh of the shares are no more than all the tokens.
LEMMA DivShare ==
    ASSUME NEW t \in Nat, NEW n \in Nat \ {0}, NEW k \in Nat, k <= n
    PROVE  (k * t) \div n <= t
  BY Z3

\* The latest time that unbonding can be set to last: Max is one of the times and
\* none is longer.
LEMMA LongestTime ==
    ASSUME UnbondingTimes # {}
    PROVE  /\ Max(UnbondingTimes) \in UnbondingTimes /\ Max(UnbondingTimes) \in Nat
           /\ \A t \in UnbondingTimes : t <= Max(UnbondingTimes)
<1> DEFINE S == UnbondingTimes
           G == {T \in SUBSET S : T # {} => \E x \in T : \A y \in T : x >= y}
<1>0. S \subseteq Nat /\ IsFiniteSet(S)
  BY StakingAssumption
<1>1. ASSUME NEW T \in SUBSET S, \A U \in SUBSET T : U # T => U \in G
      PROVE  T \in G
  <2> SUFFICES ASSUME T # {} PROVE \E x \in T : \A y \in T : x >= y
    OBVIOUS
  <2>1. PICK z \in T : TRUE
    OBVIOUS
  <2>2. T \ {z} \in G
    BY <1>1, <2>1
  <2>3. CASE T \ {z} = {}
    BY <1>0, <2>1, <2>3
  <2>4. CASE T \ {z} # {}
    <3>1. PICK x \in T \ {z} : \A y \in T \ {z} : x >= y
      BY <2>2, <2>4
    <3> QED BY <1>0, <2>1, <3>1
  <2> QED BY <2>3, <2>4
<1>2. S \in G
  <2>1. \A T \in SUBSET S : T \in G
    <3> HIDE DEF G, S
    <3> QED BY <1>0, <1>1, SubsetInduction
  <2> QED BY <2>1
<1>3. \E x \in S : \A y \in S : x >= y
  BY <1>2
<1>4. Max(S) \in S /\ \A y \in S : Max(S) >= y
  BY <1>3 DEF Max
<1> QED BY <1>0, <1>4

\* The slots are numbers, in the order of the times.
LEMMA SlotFacts ==
    /\ \A t \in Nat : Slot(t) \in Nat
    /\ \A t, u \in Nat : t <= u => Slot(t) <= Slot(u)
<1>0. Ticks \in Nat \ {0}
  BY StakingAssumption
<1>1. ASSUME NEW t \in Nat PROVE Slot(t) \in Nat
  BY <1>0, DivBounds DEF Slot
<1>2. ASSUME NEW t \in Nat, NEW u \in Nat, t <= u PROVE Slot(t) <= Slot(u)
  <2>1. 2 * t + Ticks \in Nat /\ 2 * u + Ticks \in Nat /\ 2 * Ticks \in Nat \ {0}
    BY <1>0
  <2>2. 2 * t + Ticks <= 2 * u + Ticks
    BY <1>0, <1>2
  <2> QED BY <2>1, <2>2, DivMono DEF Slot
<1> QED BY <1>1, <1>2

\* Every time until which an entry can wait has a slot.
LEMMA SlotInSlots ==
    ASSUME NEW now \in 0..MaxTime, NEW u \in UnbondingTimes
    PROVE  now + u \in 0..Horizon /\ Slot(now + u) \in Slots /\ Slot(now) \in Slots
<1>1. /\ Max(UnbondingTimes) \in Nat /\ u <= Max(UnbondingTimes) /\ u \in Nat
      /\ MaxTime \in Nat
  BY LongestTime, StakingAssumption
<1>2. now + u \in Nat /\ now \in Nat /\ Horizon \in Nat /\ now + u <= Horizon /\ now <= Horizon
  BY <1>1 DEF Horizon
<1>3. /\ Slot(now + u) <= Slot(Horizon) /\ Slot(now) <= Slot(Horizon)
      /\ Slot(now + u) \in Nat /\ Slot(now) \in Nat /\ Slot(Horizon) \in Nat
  BY <1>2, SlotFacts
<1>4. Slots = 0..Slot(Horizon)
  BY DEF Slots, Horizon
<1> QED BY <1>2, <1>3, <1>4

\* The time of every entry has a slot.
LEMMA HorizonSlots ==
    ASSUME NEW u \in UnbondingTimes
    PROVE  \A t \in 0..Horizon : t \in Nat /\ Slot(t) \in Slots
<1>1. Horizon \in Nat
  BY LongestTime, StakingAssumption DEF Horizon
<1>2. ASSUME NEW t \in 0..Horizon PROVE t \in Nat /\ Slot(t) \in Slots
  <2>1. t \in Nat /\ t <= Horizon
    BY <1>1
  <2>2. Slot(t) \in Nat /\ Slot(Horizon) \in Nat /\ Slot(t) <= Slot(Horizon)
    BY <1>1, <2>1, SlotFacts
  <2>3. Slots = 0..Slot(Horizon)
    BY DEF Slots, Horizon
  <2> QED BY <2>1, <2>2, <2>3
<1> QED BY <1>2

(***************************************************************************)
(* What the keeper methods do to the fields of a store.                    *)
(***************************************************************************)

\* The fields of a store.
LEMMA StoreFields ==
    ASSUME NEW s \in Store
    PROVE  /\ s.val \in [Validators -> ValidatorRecords] /\ s.index \subseteq Nat \X Validators
           /\ s.last \in [Validators -> Nat] /\ s.total \in Nat
           /\ s.valQueue \subseteq Nat \X Nat \X Validators
           /\ s.del \in [DvPairs -> Nat] /\ s.ubd \in [DvPairs -> Seq(Entry)]
           /\ s.ubdByVal \subseteq Validators \X Accounts
           /\ s.redBySrc \subseteq Validators \X Accounts \X Validators
           /\ s.redByDst \subseteq Validators \X Accounts \X Validators
           /\ s.ubdQueue \in [Slots -> Seq(DvPairs)] /\ s.red \in [DvvTriplets -> Seq(Nat)]
           /\ s.redQueue \in [Slots -> SUBSET DvvTriplets] /\ s.bal \in [Accounts -> Nat]
           /\ s.bonded \in Nat /\ s.notBonded \in Nat /\ s.unbondingTime \in UnbondingTimes
           /\ s.hist \subseteq Nat /\ s.uncovered \in Nat /\ s.halted \in BOOLEAN
  BY DEF Store, DelegationShares, ValidatorStates, PowerKeys, LastPowers, QueuedValidators, EntryLists,
         PairKeys, TripletKeys, QueuedPairs, RedelegationLists, QueuedTriplets, Balances, Heights

\* The fields of a stored validator.
LEMMA ValidatorFields ==
    ASSUME NEW w \in ValidatorRecords
    PROVE  /\ w.jailed \in BOOLEAN /\ w.status \in Statuses /\ w.tokens \in Nat /\ w.shares \in Nat
           /\ w.ubTime \in Nat /\ w.ubHeight \in Nat /\ w.minSelf \in Nat
           /\ w.rate \in Nat /\ w.maxRate \in Nat /\ w.maxChange \in Nat /\ w.rateTime \in Nat
  BY DEF ValidatorRecords

\* A panic changes nothing but that the node stops.
LEMMA HaltedTyped ==
    ASSUME NEW s \in Store PROVE [s EXCEPT !.halted = TRUE] \in Store
  BY DEF Store

\* There are finitely many accounts, hence validators and pairs of the two.
LEMMA FiniteKeys == IsFiniteSet(Accounts) /\ IsFiniteSet(Validators) /\ IsFiniteSet(DvPairs)
  BY StakingAssumption, FS_Subset, FS_Product DEF DvPairs

\* The entries of an unbonding delegation claim a number of tokens.
LEMMA UnpaidNat ==
    ASSUME NEW e \in Seq(Entry) PROVE Unpaid(e) \in Nat
<1> DEFINE f == [i \in DOMAIN e |-> IF e[i].paid THEN 0 ELSE e[i].balance]
<1>1. IsFiniteSet(DOMAIN e)
  <2>1. Len(e) \in Nat /\ DOMAIN e = 1..Len(e)
    OBVIOUS
  <2>2. IsFiniteSet(1..Len(e))
    BY <2>1, FS_Interval
  <2> QED BY <2>1, <2>2
<1>2. \A i \in DOMAIN e : f[i] \in Nat
  <2>1. \A i \in DOMAIN e : e[i] \in Entry
    OBVIOUS
  <2> QED BY <2>1 DEF Entry
<1>3. Total(f, DOMAIN e) \in Nat
  <2> HIDE DEF f
  <2> QED BY <1>1, <1>2, SumNat
<1> QED BY <1>3 DEF Unpaid

\* What the pools must hold are numbers of tokens.
LEMMA ClaimsTyped ==
    ASSUME NEW s \in Store
    PROVE  /\ Total(BondedTokens(s), Validators) \in Nat
           /\ Total(OtherTokens(s), Validators) \in Nat
           /\ Total(Claims(s), DvPairs) \in Nat
           /\ \A v \in Validators : BondedTokens(s)[v] \in Nat /\ OtherTokens(s)[v] \in Nat
           /\ \A p \in DvPairs : Claims(s)[p] \in Nat
<1>1. \A v \in Validators : s.val[v] \in ValidatorRecords /\ s.val[v].tokens \in Nat
  BY StoreFields, ValidatorFields
<1>2. \A p \in DvPairs : Claims(s)[p] \in Nat
  BY StoreFields, UnpaidNat DEF Claims
<1>3. \A v \in Validators : BondedTokens(s)[v] \in Nat /\ OtherTokens(s)[v] \in Nat
  BY <1>1 DEF BondedTokens, OtherTokens
<1> QED BY <1>2, <1>3, FiniteKeys, SumNat

(***************************************************************************)
(* What delegating and unbonding leave alone, and what keeps it correct.   *)
(***************************************************************************)
Framed(t, s) ==
    /\ t.last = s.last /\ t.total = s.total /\ t.valQueue = s.valQueue
    /\ t.ubd = s.ubd /\ t.ubdByVal = s.ubdByVal /\ t.ubdQueue = s.ubdQueue
    /\ t.red = s.red /\ t.redBySrc = s.redBySrc /\ t.redByDst = s.redByDst
    /\ t.redQueue = s.redQueue /\ t.unbondingTime = s.unbondingTime
    /\ t.hist = s.hist /\ t.uncovered = s.uncovered

\* A stored validator that is written again with other tokens or shares.
SameBond(w, x) == w.status = x.status /\ w.ubTime = x.ubTime /\ w.ubHeight = x.ubHeight

\* A method that writes one validator and leaves status and times of it alone
\* leaves the queues and the last set correct.
LEMMA WriteValidator ==
    ASSUME NEW s \in Store, NEW t \in Store, NEW v \in Validators, NEW w \in ValidatorRecords,
           t.val = [s.val EXCEPT ![v] = w], Framed(t, s), SameBond(w, s.val[v])
    PROVE  /\ ValidatorsQueued(s) => ValidatorsQueued(t)
           /\ LastBonded(s) => LastBonded(t)
           /\ FewBonded(s) => FewBonded(t)
           /\ Exists(s, v) /\ AbsentEmpty(s) => AbsentEmpty(t)
           /\ \A now : EntriesQueued(s, now) => EntriesQueued(t, now)
           /\ KeysExact(s) => KeysExact(t)
           /\ \A u \in Validators : SameBond(t.val[u], s.val[u])
<1>0. s.val \in [Validators -> ValidatorRecords] /\ t.val \in [Validators -> ValidatorRecords]
  BY StoreFields
<1>1. \A u \in Validators : u # v => t.val[u] = s.val[u]
  BY <1>0
<1>2. t.val[v] = w
  BY <1>0
<1>3. \A u \in Validators : SameBond(t.val[u], s.val[u])
  BY <1>1, <1>2 DEF SameBond
<1>4. ASSUME ValidatorsQueued(s) PROVE ValidatorsQueued(t)
  <2>1. \A u \in Validators : QueueKey(u, t.val[u]) = QueueKey(u, s.val[u])
    BY <1>3 DEF QueueKey, SameBond
  <2> QED BY <1>3, <1>4, <2>1 DEF ValidatorsQueued, Exists, SameBond, Framed
<1>5. LastBonded(s) => LastBonded(t)
  BY <1>3 DEF LastBonded, Framed, SameBond
<1>6. WithStatus(t, TRUE) = WithStatus(s, TRUE)
  BY <1>3 DEF WithStatus, Exists, SameBond
<1>7. FewBonded(s) => FewBonded(t)
  BY <1>6 DEF FewBonded
<1>8. Exists(s, v) /\ AbsentEmpty(s) => AbsentEmpty(t)
  BY <1>1, <1>2, <1>3 DEF AbsentEmpty, Exists, SameBond
<1>9. \A now : EntriesQueued(s, now) => EntriesQueued(t, now)
  BY DEF EntriesQueued, Framed, Waits
<1>10. KeysExact(s) => KeysExact(t)
  BY DEF KeysExact, Framed
<1> QED BY <1>3, <1>4, <1>5, <1>7, <1>8, <1>9, <1>10

\* delete_validator_by_power_index of what is stored and
\* set_validator_by_power_index of what is written keep the power index exact.
LEMMA WriteIndex ==
    ASSUME NEW s \in Store, NEW t \in Store, NEW v \in Validators, NEW w \in ValidatorRecords,
           t.val = [s.val EXCEPT ![v] = w], w.status # "Absent", Indexed(s),
           t.index = (s.index \ {PowerKey(v, s.val[v])})
                        \cup (IF w.jailed THEN {} ELSE {PowerKey(v, w)})
    PROVE  Indexed(t)
<1>0. s.val \in [Validators -> ValidatorRecords]
  BY StoreFields
<1>1. /\ \A u \in Validators : u # v => t.val[u] = s.val[u]
      /\ t.val[v] = w
  BY <1>0
<1> DEFINE I(x) == {u \in Validators : Exists(x, u) /\ ~x.val[u].jailed}
<1>2. \A u \in Validators : u # v => (u \in I(t) <=> u \in I(s))
  BY <1>1 DEF Exists
<1>3. v \in I(t) <=> ~w.jailed
  BY <1>1 DEF Exists
<1>4. \A u \in Validators : \A x, y : PowerKey(u, x) = PowerKey(v, y) => u = v
  BY DEF PowerKey
<1>5. ASSUME NEW k \in t.index PROVE \E u \in I(t) : k = PowerKey(u, t.val[u])
  <2>1. CASE k \in s.index \ {PowerKey(v, s.val[v])}
    <3>1. PICK u \in I(s) : k = PowerKey(u, s.val[u])
      BY <2>1 DEF Indexed
    <3>2. u # v
      BY <2>1, <3>1
    <3> QED BY <1>1, <1>2, <3>1, <3>2
  <2>2. CASE ~w.jailed /\ k = PowerKey(v, w)
    BY <1>1, <1>3, <2>2
  <2> QED BY <1>5, <2>1, <2>2
<1>6. ASSUME NEW u \in I(t) PROVE PowerKey(u, t.val[u]) \in t.index
  <2>1. CASE u = v
    BY <1>1, <1>3, <1>6, <2>1
  <2>2. CASE u # v
    <3>1. PowerKey(u, s.val[u]) \in s.index
      BY <1>2, <2>2 DEF Indexed
    <3> QED BY <1>1, <1>4, <2>2, <3>1
  <2> QED BY <2>1, <2>2
<1>7. t.index = {PowerKey(u, t.val[u]) : u \in I(t)}
  BY <1>5, <1>6
<1> QED BY <1>7 DEF Indexed

\* Of two functions that differ at one validator, the sums differ as much.
LEMMA TokensUpdate ==
    ASSUME NEW f, NEW e, NEW v \in Validators,
           \A u \in Validators : f[u] \in Int /\ e[u] \in Int,
           \A u \in Validators \ {v} : f[u] = e[u]
    PROVE  Total(e, Validators) = Total(f, Validators) + (e[v] - f[v])
  BY FiniteKeys, SumUpdate

\* The tokens that are bonded, and those that are not, change by what the one
\* validator that is written changes.
LEMMA TokenSumsUpdate ==
    ASSUME NEW s \in Store, NEW t \in Store, NEW v \in Validators,
           \A u \in Validators \ {v} : t.val[u] = s.val[u]
    PROVE  /\ Total(BondedTokens(t), Validators)
                = Total(BondedTokens(s), Validators) + (BondedTokens(t)[v] - BondedTokens(s)[v])
           /\ Total(OtherTokens(t), Validators)
                = Total(OtherTokens(s), Validators) + (OtherTokens(t)[v] - OtherTokens(s)[v])
<1>1. \A u \in Validators : BondedTokens(s)[u] \in Int /\ BondedTokens(t)[u] \in Int
  BY ClaimsTyped
<1>2. \A u \in Validators : OtherTokens(s)[u] \in Int /\ OtherTokens(t)[u] \in Int
  BY ClaimsTyped
<1>3. \A u \in Validators \ {v} : /\ BondedTokens(s)[u] = BondedTokens(t)[u]
                                 /\ OtherTokens(s)[u] = OtherTokens(t)[u]
  BY DEF BondedTokens, OtherTokens
<1>4. Total(BondedTokens(t), Validators)
        = Total(BondedTokens(s), Validators) + (BondedTokens(t)[v] - BondedTokens(s)[v])
  BY <1>1, <1>3, TokensUpdate
<1>5. Total(OtherTokens(t), Validators)
        = Total(OtherTokens(s), Validators) + (OtherTokens(t)[v] - OtherTokens(s)[v])
  BY <1>2, <1>3, TokensUpdate
<1> QED BY <1>4, <1>5

LEMMA Regroup ==
    ASSUME NEW a \in Int, NEW o \in Int, NEW p \in Int, NEW k \in Int, NEW n \in Int,
           NEW y \in Int, a + o = (p + k) + n
    PROVE  (a + y) + o = (p + k) + (n + y)
  OBVIOUS

\* What one validator has gained or lost is what its pool is ahead by.
LEMMA WritePools ==
    ASSUME NEW s \in Store, NEW t \in Store, NEW v \in Validators, NEW w \in ValidatorRecords,
           t.val = [s.val EXCEPT ![v] = w], w.status = s.val[v].status,
           t.ubd = s.ubd, t.uncovered = s.uncovered,
           NEW b \in Int, NEW n \in Int, PoolsAhead(s, b, n),
           NEW x \in Int, NEW y \in Int,
           t.bonded = s.bonded + x, t.notBonded = s.notBonded + y
    PROVE  IF w.status = "Bonded"
           THEN PoolsAhead(t, (b + x) - (w.tokens - s.val[v].tokens), n + y)
           ELSE PoolsAhead(t, b + x, (n + y) - (w.tokens - s.val[v].tokens))
<1>0. s.val \in [Validators -> ValidatorRecords]
  BY StoreFields
<1>1. /\ \A u \in Validators : u # v => t.val[u] = s.val[u]
      /\ t.val[v] = w
  BY <1>0
<1>2. w.tokens \in Nat /\ s.val[v].tokens \in Nat
  BY <1>0, ValidatorFields
<1>3. Claims(t) = Claims(s)
  BY DEF Claims
<1> DEFINE B == BondedTokens(s)
           C == BondedTokens(t)
           O == OtherTokens(s)
           P == OtherTokens(t)
<1>6. /\ Total(C, Validators) = Total(B, Validators) + (C[v] - B[v])
      /\ Total(P, Validators) = Total(O, Validators) + (P[v] - O[v])
  <2>1. \A u \in Validators \ {v} : t.val[u] = s.val[u]
    BY <1>1
  <2> QED BY <2>1, TokenSumsUpdate
<1>8. /\ Total(B, Validators) \in Int /\ Total(O, Validators) \in Int
      /\ Total(Claims(s), DvPairs) \in Int
  BY ClaimsTyped
<1>9. s.bonded \in Int /\ s.notBonded \in Int /\ s.uncovered \in Int
  BY StoreFields
<1>10. CASE w.status = "Bonded"
  <2>1. C[v] = w.tokens /\ B[v] = s.val[v].tokens /\ O[v] = 0 /\ P[v] = 0
    BY <1>1, <1>10 DEF BondedTokens, OtherTokens
  <2>2. s.bonded = Total(B, Validators) + b
    BY DEF PoolsAhead
  <2>3. s.notBonded + s.uncovered = (Total(O, Validators) + Total(Claims(s), DvPairs)) + n
    BY DEF PoolsAhead
  <2> HIDE DEF B, C, O, P
  <2>4. s.bonded + x = Total(C, Validators) + ((b + x) - (w.tokens - s.val[v].tokens))
    BY <1>2, <1>6, <1>8, <1>9, <2>1, <2>2
  <2>5. Total(P, Validators) = Total(O, Validators)
    BY <1>6, <1>8, <2>1
  <2>6. (s.notBonded + y) + s.uncovered
           = (Total(P, Validators) + Total(Claims(s), DvPairs)) + (n + y)
    <3> DEFINE a == s.notBonded
               o == s.uncovered
               p == Total(P, Validators)
               k == Total(Claims(s), DvPairs)
    <3>1. a \in Int /\ o \in Int /\ p \in Int /\ k \in Int
      BY <1>8, <1>9, <2>5
    <3>2. a + o = (p + k) + n
      BY <2>3, <2>5
    <3> HIDE DEF a, o, p, k
    <3>3. (a + y) + o = (p + k) + (n + y)
      BY <3>1, <3>2, Regroup
    <3> QED BY <3>3 DEF a, o, p, k
  <2> QED BY <1>3, <1>10, <2>4, <2>6 DEF PoolsAhead, C, P
<1>11. CASE w.status # "Bonded"
  <2>1. P[v] = w.tokens /\ O[v] = s.val[v].tokens /\ B[v] = 0 /\ C[v] = 0
    BY <1>1, <1>11 DEF BondedTokens, OtherTokens
  <2>2. s.bonded = Total(B, Validators) + b
    BY DEF PoolsAhead
  <2>3. s.notBonded + s.uncovered = (Total(O, Validators) + Total(Claims(s), DvPairs)) + n
    BY DEF PoolsAhead
  <2> HIDE DEF B, C, O, P
  <2>4. Total(C, Validators) = Total(B, Validators)
    BY <1>6, <1>8, <2>1
  <2>5. s.bonded + x = Total(C, Validators) + (b + x)
    BY <1>8, <1>9, <2>2, <2>4
  <2>6. (s.notBonded + y) + s.uncovered
           = (Total(P, Validators) + Total(Claims(s), DvPairs))
               + ((n + y) - (w.tokens - s.val[v].tokens))
    BY <1>2, <1>6, <1>8, <1>9, <2>1, <2>3
  <2> QED BY <1>3, <1>11, <2>5, <2>6 DEF PoolsAhead, C, P
<1> QED BY <1>10, <1>11

\* The shares that a delegation gains or loses are gained or lost by the
\* validator.
LEMMA WriteShares ==
    ASSUME NEW s \in Store, NEW t \in Store, NEW d \in Accounts, NEW v \in Validators,
           NEW w \in ValidatorRecords, NEW x \in Int, SharesHeld(s),
           t.val = [s.val EXCEPT ![v] = w], w.shares = s.val[v].shares + x,
           t.del = [s.del EXCEPT ![<<d, v>>] = @ + x]
    PROVE  SharesHeld(t)
<1>0. /\ s.val \in [Validators -> ValidatorRecords]
      /\ s.del \in [DvPairs -> Nat] /\ t.del \in [DvPairs -> Nat]
  BY StoreFields
<1>1. ASSUME NEW u \in Validators PROVE t.val[u].shares = Delegated(t, u)
  <2> DEFINE f == [a \in Accounts |-> s.del[<<a, u>>]]
             e == [a \in Accounts |-> t.del[<<a, u>>]]
  <2>1. \A a \in Accounts : f[a] \in Int /\ e[a] \in Int
    BY <1>0 DEF DvPairs
  <2>2. s.val[u].shares = Total(f, Accounts)
    BY DEF SharesHeld, Delegated
  <2>3. Delegated(t, u) = Total(e, Accounts)
    BY DEF Delegated
  <2>4. CASE u = v
    <3>1. \A a \in Accounts \ {d} : f[a] = e[a]
      BY <1>0, <2>4 DEF DvPairs
    <3>2. e[d] = f[d] + x
      BY <1>0, <2>4 DEF DvPairs
    <3>3. Total(e, Accounts) = Total(f, Accounts) + (e[d] - f[d])
      <4> HIDE DEF e, f
      <4> QED BY <2>1, <3>1, FiniteKeys, SumUpdate
    <3>4. t.val[u].shares = s.val[u].shares + x
      BY <1>0, <2>4
    <3>5. Total(f, Accounts) \in Int /\ e[d] - f[d] = x
      <4>1. f[d] \in Int
        BY <2>1
      <4> HIDE DEF e, f
      <4> QED BY <2>1, <3>2, <4>1, FiniteKeys, SumInt
    <3> HIDE DEF e, f
    <3> QED BY <2>2, <2>3, <3>3, <3>4, <3>5
  <2>5. CASE u # v
    <3>1. f = e
      BY <1>0, <2>5 DEF DvPairs
    <3>2. t.val[u] = s.val[u]
      BY <1>0, <2>5
    <3> QED BY <2>2, <2>3, <3>1, <3>2
  <2> QED BY <2>4, <2>5
<1> QED BY <1>1 DEF SharesHeld

(***************************************************************************)
(* Delegating.                                                             *)
(***************************************************************************)

\* add_tokens_from_del gives a validator again, unless its exchange rate is
\* invalid.
LEMMA AddTokensTyped ==
    ASSUME NEW w \in ValidatorRecords, NEW amt \in Nat, ~InvalidExRate(w)
    PROVE  /\ IssuedShares(w, amt) \in Nat /\ AddTokensFromDel(w, amt) \in ValidatorRecords
           /\ AddTokensFromDel(w, amt).tokens = w.tokens + amt
           /\ AddTokensFromDel(w, amt).shares = w.shares + IssuedShares(w, amt)
           /\ AddTokensFromDel(w, amt).jailed = w.jailed
           /\ SameBond(AddTokensFromDel(w, amt), w)
<1>1. w.shares \in Nat /\ w.tokens \in Nat
  BY ValidatorFields
<1>2. IssuedShares(w, amt) \in Nat
  <2>1. CASE w.shares = 0
    <3>1. Dec \in Nat
      BY StakingAssumption
    <3> QED BY <2>1, <3>1 DEF IssuedShares
  <2>2. CASE w.shares # 0
    <3>1. w.tokens \in Nat \ {0} /\ w.shares * amt \in Nat
      BY <1>1, <2>2 DEF InvalidExRate
    <3> QED BY <2>2, <3>1, DivBounds DEF IssuedShares, SharesFromTokens
  <2> QED BY <2>1, <2>2
<1>3. w.tokens + amt \in Nat /\ w.shares + IssuedShares(w, amt) \in Nat
  BY <1>1, <1>2
<1>4. AddTokensFromDel(w, amt) \in ValidatorRecords
  BY <1>3 DEF AddTokensFromDel, ValidatorRecords
<1>5. /\ AddTokensFromDel(w, amt).tokens = w.tokens + amt
      /\ AddTokensFromDel(w, amt).shares = w.shares + IssuedShares(w, amt)
      /\ AddTokensFromDel(w, amt).jailed = w.jailed
      /\ SameBond(AddTokensFromDel(w, amt), w)
  BY DEF AddTokensFromDel, ValidatorRecords, SameBond
<1> QED BY <1>2, <1>4, <1>5

\* The power of a validator is a number.
LEMMA PowerNat ==
    ASSUME NEW w \in ValidatorRecords PROVE ConsensusPower(w) \in Nat
  BY ValidatorFields, StakingAssumption, DivBounds DEF ConsensusPower

\* The fields of a store after a validator was written and indexed again.
LEMMA ReindexFields ==
    ASSUME NEW s \in Store, NEW v \in Validators, NEW w \in ValidatorRecords
    PROVE  LET t == Reindex(s, v, w)
           IN  /\ t \in Store /\ Framed(t, s)
               /\ t.val = [s.val EXCEPT ![v] = w]
               /\ t.index = (s.index \ {PowerKey(v, s.val[v])})
                               \cup (IF w.jailed THEN {} ELSE {PowerKey(v, w)})
               /\ t.del = s.del /\ t.bal = s.bal /\ t.halted = s.halted
               /\ t.bonded = s.bonded /\ t.notBonded = s.notBonded
<1>1. [s.val EXCEPT ![v] = w] \in [Validators -> ValidatorRecords]
  BY StoreFields
<1>2. (s.index \ {PowerKey(v, s.val[v])}) \cup (IF w.jailed THEN {} ELSE {PowerKey(v, w)})
         \in SUBSET (Nat \X Validators)
  BY StoreFields, PowerNat DEF PowerKey
<1>3. Reindex(s, v, w) \in Store
  <2>1. /\ [s.val EXCEPT ![v] = w] \in ValidatorStates
        /\ (s.index \ {PowerKey(v, s.val[v])}) \cup (IF w.jailed THEN {} ELSE {PowerKey(v, w)}) \in PowerKeys
    BY <1>1, <1>2 DEF ValidatorStates, PowerKeys
  <2> QED BY <2>1 DEF Store, Reindex
<1> QED BY <1>3 DEF Store, Reindex, Framed

\* The fields of a store after delegate has written the delegation.
LEMMA AddDelegationFields ==
    ASSUME NEW s \in Store, NEW d \in Accounts, NEW v \in Validators, NEW amt \in Nat,
           ~InvalidExRate(s.val[v]), NEW t, t = AddDelegation(s, d, v, amt),
           NEW w, w = AddTokensFromDel(s.val[v], amt), NEW x, x = IssuedShares(s.val[v], amt)
    PROVE  /\ t \in Store /\ Framed(t, s)
           /\ t.val = [s.val EXCEPT ![v] = w] /\ w \in ValidatorRecords
           /\ t.index = (s.index \ {PowerKey(v, s.val[v])})
                           \cup (IF w.jailed THEN {} ELSE {PowerKey(v, w)})
           /\ t.del = [s.del EXCEPT ![<<d, v>>] = @ + x]
           /\ t.bal = s.bal /\ t.halted = s.halted
           /\ t.bonded = s.bonded /\ t.notBonded = s.notBonded
<1> DEFINE r == Reindex(s, v, w)
<1>1. s.val[v] \in ValidatorRecords
  BY StoreFields
<1>2. w \in ValidatorRecords /\ x \in Nat
  BY <1>1, AddTokensTyped
<1>3. /\ r \in Store /\ Framed(r, s)
      /\ r.val = [s.val EXCEPT ![v] = w]
      /\ r.index = (s.index \ {PowerKey(v, s.val[v])})
                      \cup (IF w.jailed THEN {} ELSE {PowerKey(v, w)})
      /\ r.del = s.del /\ r.bal = s.bal /\ r.halted = s.halted
      /\ r.bonded = s.bonded /\ r.notBonded = s.notBonded
  BY <1>2, ReindexFields
<1> HIDE DEF r
<1>8. t = [r EXCEPT !.del[<<d, v>>] = @ + x]
  BY DEF AddDelegation, r
<1>4. [r.del EXCEPT ![<<d, v>>] = @ + x] \in [DvPairs -> Nat]
  <2>1. r.del \in [DvPairs -> Nat] /\ <<d, v>> \in DvPairs
    BY <1>3, StoreFields DEF DvPairs
  <2> QED BY <1>2, <2>1
<1>5. t \in Store
  BY <1>3, <1>4, <1>8 DEF Store, DelegationShares
<1>6. Framed(t, r) /\ t.val = r.val /\ t.index = r.index /\ t.bal = r.bal /\ t.halted = r.halted
      /\ t.bonded = r.bonded /\ t.notBonded = r.notBonded
      /\ t.del = [r.del EXCEPT ![<<d, v>>] = @ + x]
  BY <1>3, <1>8 DEF Store, Framed
<1>7. Framed(t, s)
  BY <1>3, <1>6 DEF Framed
<1> QED BY <1>2, <1>3, <1>5, <1>6, <1>7

\* What delegating keeps, and what the pool of the validator then is short of.
LEMMA AddDelegationKeeps ==
    ASSUME NEW s, Always(s), NEW d \in Accounts, NEW v \in Validators, NEW amt \in Nat,
           Exists(s, v), ~InvalidExRate(s.val[v])
    PROVE  LET t == AddDelegation(s, d, v, amt)
           IN  /\ Always(t) /\ \A now : Running(s, now) => Running(t, now)
               /\ \A b, n \in Int : PoolsAhead(s, b, n) =>
                     IF s.val[v].status = "Bonded" THEN PoolsAhead(t, b - amt, n)
                     ELSE PoolsAhead(t, b, n - amt)
<1>0. s \in Store /\ s.val[v] \in ValidatorRecords
  BY StoreFields DEF Always
<1> DEFINE t == AddDelegation(s, d, v, amt)
           w == AddTokensFromDel(s.val[v], amt)
           x == IssuedShares(s.val[v], amt)
<1>d. /\ t = AddDelegation(s, d, v, amt) /\ w = AddTokensFromDel(s.val[v], amt)
      /\ x = IssuedShares(s.val[v], amt)
  OBVIOUS
<1> HIDE DEF t, w, x
<1>1. /\ t \in Store /\ Framed(t, s)
      /\ t.val = [s.val EXCEPT ![v] = w] /\ w \in ValidatorRecords
      /\ t.index = (s.index \ {PowerKey(v, s.val[v])})
                      \cup (IF w.jailed THEN {} ELSE {PowerKey(v, w)})
      /\ t.del = [s.del EXCEPT ![<<d, v>>] = @ + x]
      /\ t.bonded = s.bonded /\ t.notBonded = s.notBonded
  BY <1>0, <1>d, AddDelegationFields
<1>2. /\ x \in Int /\ w.tokens = s.val[v].tokens + amt /\ w.shares = s.val[v].shares + x
      /\ SameBond(w, s.val[v])
  BY <1>0, <1>d, AddTokensTyped
<1>3. w.status # "Absent" /\ w.status = s.val[v].status
  BY <1>2 DEF Exists, SameBond
<1>4. SharesHeld(t)
  BY <1>0, <1>1, <1>2, WriteShares DEF Always
<1>5. /\ ValidatorsQueued(s) => ValidatorsQueued(t)
      /\ LastBonded(s) => LastBonded(t)
      /\ FewBonded(s) => FewBonded(t)
      /\ AbsentEmpty(s) => AbsentEmpty(t)
      /\ \A now : EntriesQueued(s, now) => EntriesQueued(t, now)
      /\ KeysExact(s) => KeysExact(t)
  BY <1>0, <1>1, <1>2, WriteValidator
<1>6. Indexed(s) => Indexed(t)
  BY <1>0, <1>1, <1>3, WriteIndex
<1>7. Always(t)
  BY <1>1, <1>4, <1>5 DEF Always
<1>8. \A now : Running(s, now) => Running(t, now)
  BY <1>5, <1>6 DEF Running
<1>9. ASSUME NEW b \in Int, NEW n \in Int, PoolsAhead(s, b, n)
      PROVE  IF s.val[v].status = "Bonded" THEN PoolsAhead(t, b - amt, n)
             ELSE PoolsAhead(t, b, n - amt)
  <2>1. s.val[v].tokens \in Nat /\ w.tokens - s.val[v].tokens = amt
    BY <1>0, <1>2, ValidatorFields
  <2>2. t.bonded = s.bonded + 0 /\ t.notBonded = s.notBonded + 0
    BY <1>0, <1>1, StoreFields
  <2>3. t.ubd = s.ubd /\ t.uncovered = s.uncovered
    BY <1>1 DEF Framed
  <2>4. IF w.status = "Bonded"
        THEN PoolsAhead(t, (b + 0) - (w.tokens - s.val[v].tokens), n + 0)
        ELSE PoolsAhead(t, b + 0, (n + 0) - (w.tokens - s.val[v].tokens))
    <3>1. 0 \in Int
      OBVIOUS
    <3> QED BY <1>0, <1>1, <1>3, <1>9, <2>2, <2>3, <3>1, WritePools
  <2>5. b + 0 = b /\ n + 0 = n
    OBVIOUS
  <2> QED BY <1>3, <2>1, <2>4, <2>5
<1> QED BY <1>7, <1>8, <1>9 DEF t

\* A store of which only the pools, an account or the flag differ.
OnlyCoins(t, s) ==
    t \in Store /\ Framed(t, s) /\ t.val = s.val /\ t.index = s.index /\ t.del = s.del

\* Moving coins changes nothing that the records, indexes and queues say.
LEMMA CoinsKeep ==
    ASSUME NEW s, Always(s), NEW t, OnlyCoins(t, s)
    PROVE  /\ Always(t) /\ \A now : Running(s, now) => Running(t, now)
           /\ BondedTokens(t) = BondedTokens(s) /\ OtherTokens(t) = OtherTokens(s)
           /\ Claims(t) = Claims(s) /\ t.uncovered = s.uncovered
<1>1. SharesHeld(t)
  BY DEF Always, SharesHeld, Delegated, OnlyCoins
<1>2. AbsentEmpty(t)
  BY DEF Always, AbsentEmpty, OnlyCoins, Exists
<1>3. KeysExact(t)
  BY DEF Always, KeysExact, OnlyCoins, Framed
<1>4. ASSUME NEW now, Running(s, now) PROVE Running(t, now)
  <2>1. Indexed(t)
    BY <1>4 DEF Running, Indexed, OnlyCoins, Exists
  <2>2. ValidatorsQueued(t)
    BY <1>4 DEF Running, ValidatorsQueued, OnlyCoins, Framed, Exists
  <2>3. EntriesQueued(t, now)
    BY <1>4 DEF Running, EntriesQueued, OnlyCoins, Framed, Waits
  <2>4. LastBonded(t)
    BY <1>4 DEF Running, LastBonded, OnlyCoins, Framed
  <2>5. FewBonded(t)
    BY <1>4 DEF Running, FewBonded, OnlyCoins, WithStatus, Exists
  <2> QED BY <2>1, <2>2, <2>3, <2>4, <2>5 DEF Running
<1>5. /\ BondedTokens(t) = BondedTokens(s) /\ OtherTokens(t) = OtherTokens(s)
      /\ Claims(t) = Claims(s) /\ t.uncovered = s.uncovered
  BY DEF BondedTokens, OtherTokens, Claims, OnlyCoins, Framed
<1> QED BY <1>1, <1>2, <1>3, <1>4, <1>5 DEF Always, OnlyCoins

\* Coins that come into the pools are what these are ahead by.
LEMMA CoinsAhead ==
    ASSUME NEW s, Always(s), NEW t, OnlyCoins(t, s), NEW x \in Int, NEW y \in Int,
           t.bonded = s.bonded + x, t.notBonded = s.notBonded + y,
           NEW b \in Int, NEW n \in Int, PoolsAhead(s, b, n)
    PROVE  PoolsAhead(t, b + x, n + y)
<1> DEFINE B == Total(BondedTokens(s), Validators)
           O == Total(OtherTokens(s), Validators)
           C == Total(Claims(s), DvPairs)
<1>1. B \in Int /\ O \in Int /\ C \in Int
  BY ClaimsTyped DEF Always
<1>2. s.bonded \in Int /\ s.notBonded \in Int /\ s.uncovered \in Int
  BY StoreFields DEF Always
<1>3. s.bonded = B + b /\ s.notBonded + s.uncovered = (O + C) + n
  BY DEF PoolsAhead
<1> HIDE DEF B, O, C
<1>4. s.bonded + x = B + (b + x) /\ (s.notBonded + y) + s.uncovered = (O + C) + (n + y)
  BY <1>1, <1>2, <1>3
<1> QED BY <1>4, CoinsKeep DEF PoolsAhead, B, O, C

\* delegate_coins_from_account_to_module pays into the pool of the validator.
LEMMA FromAccountKeeps ==
    ASSUME NEW s, Always(s), NEW d \in Accounts, NEW v \in Validators, NEW amt \in Nat,
           s.bal[d] >= amt
    PROVE  LET t == FromAccount(s, d, v, amt)
           IN  /\ OnlyCoins(t, s) /\ t.halted = s.halted
               /\ \A b, n \in Int : PoolsAhead(s, b, n) =>
                     IF s.val[v].status = "Bonded" THEN PoolsAhead(t, b + amt, n)
                     ELSE PoolsAhead(t, b, n + amt)
<1>0. s \in Store /\ s.bal \in [Accounts -> Nat] /\ s.bonded \in Nat /\ s.notBonded \in Nat
  BY StoreFields DEF Always
<1>1. [s.bal EXCEPT ![d] = @ - amt] \in [Accounts -> Nat]
  BY <1>0
<1>2. s.bonded + amt \in Nat /\ s.notBonded + amt \in Nat
  BY <1>0
<1> DEFINE t == FromAccount(s, d, v, amt)
<1>3. CASE s.val[v].status = "Bonded"
  <2> DEFINE u == [s EXCEPT !.bal[d] = @ - amt, !.bonded = @ + amt]
  <2>1. t = u
    BY <1>3 DEF FromAccount
  <2>2. u \in Store
    <3>1. [s.bal EXCEPT ![d] = @ - amt] \in Balances
      BY <1>1 DEF Balances
    <3> QED BY <1>0, <1>2, <3>1 DEF Store
  <2>3. OnlyCoins(u, s) /\ u.halted = s.halted
    BY <1>0, <2>2 DEF Store, OnlyCoins, Framed
  <2>4. u.bonded = s.bonded + amt /\ u.notBonded = s.notBonded
    BY <1>0 DEF Store
  <2>5. s.notBonded = s.notBonded + 0
    BY <1>0
  <2> HIDE DEF u
  <2>6. ASSUME NEW b \in Int, NEW n \in Int, PoolsAhead(s, b, n) PROVE PoolsAhead(u, b + amt, n)
    <3>1. 0 \in Int /\ amt \in Int /\ n + 0 = n
      OBVIOUS
    <3>2. PoolsAhead(u, b + amt, n + 0)
      BY <2>3, <2>4, <2>5, <2>6, <3>1, CoinsAhead
    <3> QED BY <3>1, <3>2
  <2> QED BY <1>3, <2>1, <2>3, <2>6
<1>4. CASE s.val[v].status # "Bonded"
  <2> DEFINE u == [s EXCEPT !.bal[d] = @ - amt, !.notBonded = @ + amt]
  <2>1. t = u
    BY <1>4 DEF FromAccount
  <2>2. u \in Store
    <3>1. [s.bal EXCEPT ![d] = @ - amt] \in Balances
      BY <1>1 DEF Balances
    <3> QED BY <1>0, <1>2, <3>1 DEF Store
  <2>3. OnlyCoins(u, s) /\ u.halted = s.halted
    BY <1>0, <2>2 DEF Store, OnlyCoins, Framed
  <2>4. u.notBonded = s.notBonded + amt /\ u.bonded = s.bonded
    BY <1>0 DEF Store
  <2>5. s.bonded = s.bonded + 0
    BY <1>0
  <2> HIDE DEF u
  <2>6. ASSUME NEW b \in Int, NEW n \in Int, PoolsAhead(s, b, n) PROVE PoolsAhead(u, b, n + amt)
    <3>1. 0 \in Int /\ amt \in Int /\ b + 0 = b
      OBVIOUS
    <3>2. PoolsAhead(u, b + 0, n + amt)
      BY <2>3, <2>4, <2>5, <2>6, <3>1, CoinsAhead
    <3> QED BY <3>1, <3>2
  <2> QED BY <1>4, <2>1, <2>3, <2>6
<1> QED BY <1>3, <1>4

\* A transfer between the pools moves the amount or stops the node.
LEMMA PoolToPool ==
    ASSUME NEW s, Always(s), NEW amt \in Nat, NEW t,
           \/ t = BondedTokensToNotBonded(s, amt) \/ t = NotBondedTokensToBonded(s, amt)
    PROVE  /\ OnlyCoins(t, s) /\ (s.halted => t.halted)
           /\ \A b, n \in Int : ~t.halted /\ PoolsAhead(s, b, n) =>
                 /\ t = BondedTokensToNotBonded(s, amt) => PoolsAhead(t, b - amt, n + amt)
                 /\ t = NotBondedTokensToBonded(s, amt) => PoolsAhead(t, b + amt, n - amt)
<1>0. s \in Store /\ s.bonded \in Nat /\ s.notBonded \in Nat
  BY StoreFields DEF Always
<1> SUFFICES /\ OnlyCoins(t, s) /\ (s.halted => t.halted)
             /\ ~t.halted =>
                  /\ t = BondedTokensToNotBonded(s, amt) =>
                       t.bonded = s.bonded + (-amt) /\ t.notBonded = s.notBonded + amt
                  /\ t = NotBondedTokensToBonded(s, amt) =>
                       t.bonded = s.bonded + amt /\ t.notBonded = s.notBonded + (-amt)
  <2>1. amt \in Int /\ -amt \in Int
    OBVIOUS
  <2>2. ASSUME OnlyCoins(t, s), NEW b \in Int, NEW n \in Int, PoolsAhead(s, b, n),
               t.bonded = s.bonded + (-amt), t.notBonded = s.notBonded + amt
        PROVE  PoolsAhead(t, b - amt, n + amt)
    <3>1. b - amt = b + (-amt)
      BY <2>1
    <3>2. PoolsAhead(t, b + (-amt), n + amt)
      BY <2>1, <2>2, CoinsAhead
    <3> QED BY <3>1, <3>2
  <2>3. ASSUME OnlyCoins(t, s), NEW b \in Int, NEW n \in Int, PoolsAhead(s, b, n),
               t.bonded = s.bonded + amt, t.notBonded = s.notBonded + (-amt)
        PROVE  PoolsAhead(t, b + amt, n - amt)
    <3>1. n - amt = n + (-amt)
      BY <2>1
    <3>2. PoolsAhead(t, b + amt, n + (-amt))
      BY <2>1, <2>3, CoinsAhead
    <3> QED BY <3>1, <3>2
  <2> QED BY <2>2, <2>3
<1> DEFINE stopped == [s EXCEPT !.halted = TRUE]
<1>1. OnlyCoins(stopped, s) /\ stopped.halted
  <2>1. stopped \in Store
    BY <1>0, HaltedTyped
  <2> QED BY <1>0, <2>1 DEF Store, OnlyCoins, Framed
<1>2. ASSUME s.bonded >= amt
      PROVE  LET u == [s EXCEPT !.bonded = @ - amt, !.notBonded = @ + amt]
             IN  /\ OnlyCoins(u, s) /\ u.halted = s.halted
                 /\ u.bonded = s.bonded - amt /\ u.notBonded = s.notBonded + amt
  <2> DEFINE u == [s EXCEPT !.bonded = @ - amt, !.notBonded = @ + amt]
  <2>1. s.bonded - amt \in Nat /\ s.notBonded + amt \in Nat
    BY <1>0, <1>2
  <2>2. u \in Store
    BY <1>0, <2>1 DEF Store
  <2>3. OnlyCoins(u, s) /\ u.halted = s.halted
    BY <1>0, <2>2 DEF Store, OnlyCoins, Framed
  <2>4. u.bonded = s.bonded - amt /\ u.notBonded = s.notBonded + amt
    BY <1>0 DEF Store
  <2> QED BY <2>3, <2>4
<1>3. ASSUME s.notBonded >= amt
      PROVE  LET u == [s EXCEPT !.notBonded = @ - amt, !.bonded = @ + amt]
             IN  /\ OnlyCoins(u, s) /\ u.halted = s.halted
                 /\ u.bonded = s.bonded + amt /\ u.notBonded = s.notBonded - amt
  <2> DEFINE u == [s EXCEPT !.notBonded = @ - amt, !.bonded = @ + amt]
  <2>1. s.notBonded - amt \in Nat /\ s.bonded + amt \in Nat
    BY <1>0, <1>3
  <2>2. u \in Store
    BY <1>0, <2>1 DEF Store
  <2>3. OnlyCoins(u, s) /\ u.halted = s.halted
    BY <1>0, <2>2 DEF Store, OnlyCoins, Framed
  <2>4. u.bonded = s.bonded + amt /\ u.notBonded = s.notBonded - amt
    BY <1>0 DEF Store
  <2> QED BY <2>3, <2>4
<1>4. s.bonded - amt = s.bonded + (-amt) /\ s.notBonded - amt = s.notBonded + (-amt)
  BY <1>0
<1>5. CASE t = stopped
  BY <1>1, <1>5
<1>6. CASE t # stopped
  <2>1. CASE t = BondedTokensToNotBonded(s, amt) /\ t # NotBondedTokensToBonded(s, amt)
    BY <1>2, <1>4, <1>6, <2>1 DEF BondedTokensToNotBonded
  <2>2. CASE t # BondedTokensToNotBonded(s, amt) /\ t = NotBondedTokensToBonded(s, amt)
    BY <1>3, <1>4, <1>6, <2>2 DEF NotBondedTokensToBonded
  <2>3. CASE t = BondedTokensToNotBonded(s, amt) /\ t = NotBondedTokensToBonded(s, amt)
    <3>1. /\ OnlyCoins(t, s) /\ t.halted = s.halted
          /\ t.bonded = s.bonded - amt /\ t.notBonded = s.notBonded + amt
      BY <1>2, <1>6, <2>3 DEF BondedTokensToNotBonded
    <3>2. /\ t.bonded = s.bonded + amt /\ t.notBonded = s.notBonded - amt
      BY <1>3, <1>6, <2>3 DEF NotBondedTokensToBonded
    <3> QED BY <1>4, <3>1, <3>2
  <2> QED BY <2>1, <2>2, <2>3
<1> QED BY <1>5, <1>6

\* What a message may do to a store: it stays as it should be, and a node that
\* runs on has the pools in balance.
MessageKeeps(t, s, now) ==
    /\ Always(t) /\ t.hist = s.hist /\ t.last = s.last /\ (s.halted => t.halted)
    /\ ~t.halted /\ Running(s, now) => Running(t, now)
    /\ ~t.halted /\ PoolsAhead(s, 0, 0) => PoolsAhead(t, 0, 0)

\* delegate of coins of an account.
LEMMA DelegateKeeps ==
    ASSUME NEW s, Always(s), NEW d \in Accounts, NEW v \in Validators, NEW amt \in Nat,
           Exists(s, v), ~InvalidExRate(s.val[v]), s.bal[d] >= amt,
           NEW t, t = Delegate(s, d, v, amt), NEW now
    PROVE  /\ MessageKeeps(t, s, now) /\ t.halted = s.halted
           /\ \A u \in Validators : u # v => t.val[u] = s.val[u]
           /\ \A a \in Accounts : a # d => t.bal[a] = s.bal[a]
           /\ SameBond(t.val[v], s.val[v])
<1> DEFINE p == FromAccount(s, d, v, amt)
<1>0. s \in Store /\ s.bal \in [Accounts -> Nat] /\ s.val \in [Validators -> ValidatorRecords]
  BY StoreFields DEF Always
<1>1. /\ OnlyCoins(p, s) /\ p.halted = s.halted
      /\ \A b, n \in Int : PoolsAhead(s, b, n) =>
            IF s.val[v].status = "Bonded" THEN PoolsAhead(p, b + amt, n)
            ELSE PoolsAhead(p, b, n + amt)
  BY FromAccountKeeps
<1>2. \A a \in Accounts : a # d => p.bal[a] = s.bal[a]
  BY <1>0 DEF FromAccount, Store
<1>3. t = AddDelegation(p, d, v, amt)
  BY DEF Delegate
<1> HIDE DEF p
<1>4. /\ p \in Store /\ p.val = s.val /\ Framed(p, s)
  BY <1>1 DEF OnlyCoins
<1>5. Always(p) /\ \A time : Running(s, time) => Running(p, time)
  BY <1>1, CoinsKeep
<1>6. Exists(p, v) /\ ~InvalidExRate(p.val[v])
  BY <1>4 DEF Exists
<1>7. /\ Always(t) /\ \A time : Running(p, time) => Running(t, time)
      /\ \A b, n \in Int : PoolsAhead(p, b, n) =>
            IF p.val[v].status = "Bonded" THEN PoolsAhead(t, b - amt, n)
            ELSE PoolsAhead(t, b, n - amt)
  BY <1>3, <1>5, <1>6, AddDelegationKeeps
<1>8. /\ Framed(t, p) /\ t.halted = p.halted /\ t.bal = p.bal
      /\ t.val = [p.val EXCEPT ![v] = AddTokensFromDel(p.val[v], amt)]
  <2> DEFINE w == AddTokensFromDel(p.val[v], amt)
             x == IssuedShares(p.val[v], amt)
  <2>1. w = AddTokensFromDel(p.val[v], amt) /\ x = IssuedShares(p.val[v], amt)
    OBVIOUS
  <2> HIDE DEF w, x
  <2>2. p \in Store /\ ~InvalidExRate(p.val[v])
    BY <1>4, <1>6
  <2>3. /\ t \in Store /\ Framed(t, p)
        /\ t.val = [p.val EXCEPT ![v] = w] /\ w \in ValidatorRecords
        /\ t.index = (p.index \ {PowerKey(v, p.val[v])})
                        \cup (IF w.jailed THEN {} ELSE {PowerKey(v, w)})
        /\ t.del = [p.del EXCEPT ![<<d, v>>] = @ + x]
        /\ t.bal = p.bal /\ t.halted = p.halted
    BY <1>3, <2>1, <2>2, AddDelegationFields
  <2> QED BY <2>1, <2>3
<1>9. t.hist = s.hist /\ t.last = s.last
  BY <1>4, <1>8 DEF Framed
<1>10. ASSUME PoolsAhead(s, 0, 0) PROVE PoolsAhead(t, 0, 0)
  <2>1. 0 \in Int /\ amt \in Int /\ 0 + amt \in Int /\ (0 + amt) - amt = 0
    OBVIOUS
  <2>2. CASE s.val[v].status = "Bonded"
    <3>1. PoolsAhead(p, 0 + amt, 0)
      BY <1>1, <1>10, <2>1, <2>2
    <3>2. PoolsAhead(t, (0 + amt) - amt, 0)
      BY <1>4, <1>7, <2>1, <2>2, <3>1
    <3> QED BY <2>1, <3>2
  <2>3. CASE s.val[v].status # "Bonded"
    <3>1. PoolsAhead(p, 0, 0 + amt)
      BY <1>1, <1>10, <2>1, <2>3
    <3>2. PoolsAhead(t, 0, (0 + amt) - amt)
      BY <1>4, <1>7, <2>1, <2>3, <3>1
    <3> QED BY <2>1, <3>2
  <2> QED BY <2>2, <2>3
<1>11. SameBond(t.val[v], s.val[v])
  BY <1>0, <1>4, <1>6, <1>8, AddTokensTyped
<1>12. MessageKeeps(t, s, now)
  BY <1>1, <1>5, <1>7, <1>8, <1>9, <1>10 DEF MessageKeeps
<1> QED BY <1>0, <1>1, <1>2, <1>4, <1>8, <1>11, <1>12

(***************************************************************************)
(* Unbonding.                                                              *)
(***************************************************************************)

\* remove_del_shares takes no more tokens than there are and gives a validator
\* again.
LEMMA RemoveSharesTyped ==
    ASSUME NEW w \in ValidatorRecords, NEW sh \in Nat, sh <= w.shares
    PROVE  /\ ReleasedTokens(w, sh) \in Nat /\ ReleasedTokens(w, sh) <= w.tokens
           /\ RemoveDelShares(w, sh) \in ValidatorRecords
           /\ RemoveDelShares(w, sh).tokens = w.tokens - ReleasedTokens(w, sh)
           /\ RemoveDelShares(w, sh).shares = w.shares - sh
           /\ RemoveDelShares(w, sh).jailed = w.jailed
           /\ SameBond(RemoveDelShares(w, sh), w)
<1>1. w.shares \in Nat /\ w.tokens \in Nat
  BY ValidatorFields
<1>2. ReleasedTokens(w, sh) \in Nat /\ ReleasedTokens(w, sh) <= w.tokens
  <2>1. CASE w.shares = sh
    BY <1>1, <2>1 DEF ReleasedTokens
  <2>2. CASE w.shares # sh
    <3>1. w.shares \in Nat \ {0} /\ sh * w.tokens \in Nat
      BY <1>1, <2>2
    <3>2. (sh * w.tokens) \div w.shares \in Nat
      BY <3>1, DivBounds
    <3>3. (sh * w.tokens) \div w.shares <= w.tokens
      BY <1>1, <3>1, DivShare
    <3> QED BY <2>2, <3>2, <3>3 DEF ReleasedTokens, TokensFromShares
  <2> QED BY <2>1, <2>2
<1>3. w.tokens - ReleasedTokens(w, sh) \in Nat /\ w.shares - sh \in Nat
  BY <1>1, <1>2
<1>4. RemoveDelShares(w, sh) \in ValidatorRecords
  BY <1>3 DEF RemoveDelShares, ValidatorRecords
<1>5. /\ RemoveDelShares(w, sh).tokens = w.tokens - ReleasedTokens(w, sh)
      /\ RemoveDelShares(w, sh).shares = w.shares - sh
      /\ RemoveDelShares(w, sh).jailed = w.jailed
      /\ SameBond(RemoveDelShares(w, sh), w)
  BY DEF RemoveDelShares, ValidatorRecords, SameBond
<1> QED BY <1>2, <1>4, <1>5

\* The validator as unbond writes it.
UnbondWrites(t, s, d, v, sh, w) ==
    /\ t \in Store /\ Framed(t, s) /\ w \in ValidatorRecords
    /\ t.val = [s.val EXCEPT ![v] = w]
    /\ t.index = (s.index \ {PowerKey(v, s.val[v])})
                    \cup (IF w.jailed THEN {} ELSE {PowerKey(v, w)})
    /\ t.del = [s.del EXCEPT ![<<d, v>>] = @ + (-sh)]
    /\ t.bal = s.bal /\ t.halted = s.halted /\ t.bonded = s.bonded /\ t.notBonded = s.notBonded
    /\ w.tokens = s.val[v].tokens - ReleasedTokens(s.val[v], sh)
    /\ w.shares = s.val[v].shares + (-sh)
    /\ SameBond(w, s.val[v])

\* unbond writes the validator with less shares and tokens, jailed or not, and
\* the delegation; the key that is in the index is deleted, whether the
\* validator is jailed before or not.
LEMMA UnbondFields ==
    ASSUME NEW s \in Store, NEW d \in Accounts, NEW v \in Validators, NEW sh \in Nat,
           sh <= s.del[<<d, v>>], sh <= s.val[v].shares, NEW t, t = Unbond(s, d, v, sh)
    PROVE  \E w : UnbondWrites(t, s, d, v, sh, w)
<1> DEFINE jailed == IF UnbondJails(s, d, v, sh) THEN JailValidator(s, v) ELSE s
           k == PowerKey(v, s.val[v])
           x == jailed.val[v]
           less == [jailed EXCEPT !.del[<<d, v>>] = @ - sh]
           w == RemoveDelShares(x, sh)
           r == Reindex(less, v, w)
<1>0. /\ s.val \in [Validators -> ValidatorRecords] /\ s.index \subseteq Nat \X Validators
      /\ s.del \in [DvPairs -> Nat] /\ <<d, v>> \in DvPairs /\ s.val[v] \in ValidatorRecords
  BY StoreFields DEF DvPairs
<1>1. t = Reindex(less, v, RemoveDelShares(less.val[v], sh))
  BY DEF Unbond, RemoveValidator
<1>2. /\ jailed \in Store /\ Framed(jailed, s) /\ jailed.del = s.del
      /\ jailed.bal = s.bal /\ jailed.halted = s.halted
      /\ jailed.bonded = s.bonded /\ jailed.notBonded = s.notBonded
      /\ x \in ValidatorRecords /\ jailed.val = [s.val EXCEPT ![v] = x]
      /\ x.tokens = s.val[v].tokens /\ x.shares = s.val[v].shares /\ SameBond(x, s.val[v])
      /\ jailed.index \ {k} = s.index \ {k}
  <2>1. CASE UnbondJails(s, d, v, sh)
    <3> DEFINE y == [s.val[v] EXCEPT !.jailed = TRUE]
               j == [s EXCEPT !.val[v].jailed = TRUE, !.index = @ \ {k}]
    <3>1. jailed = j
      BY <2>1 DEF JailValidator
    <3>2. /\ y \in ValidatorRecords /\ y.tokens = s.val[v].tokens /\ y.shares = s.val[v].shares
          /\ SameBond(y, s.val[v])
      BY <1>0 DEF ValidatorRecords, SameBond
    <3>3. [s.val EXCEPT ![v] = y] \in [Validators -> ValidatorRecords]
      BY <1>0, <3>2
    <3>4. [s.val EXCEPT ![v].jailed = TRUE] = [s.val EXCEPT ![v] = y]
      BY <1>0
    <3>5. s.index \ {k} \in SUBSET (Nat \X Validators)
      BY <1>0
    <3>6. j \in Store
      <4>1. j = [s EXCEPT !.val = [s.val EXCEPT ![v] = y], !.index = s.index \ {k}]
        BY <3>4 DEF Store
      <4> HIDE DEF j, y, k
      <4>2. [s.val EXCEPT ![v] = y] \in ValidatorStates /\ s.index \ {k} \in PowerKeys
        BY <3>3, <3>5 DEF ValidatorStates, PowerKeys
      <4> QED BY <4>1, <4>2 DEF Store
    <3>7. /\ Framed(j, s) /\ j.del = s.del /\ j.bal = s.bal /\ j.halted = s.halted
          /\ j.bonded = s.bonded /\ j.notBonded = s.notBonded
      BY DEF Store, Framed
    <3>8. j.val = [s.val EXCEPT ![v] = y]
      BY <3>4 DEF Store
    <3>9. j.index = s.index \ {k}
      BY DEF Store
    <3>10. j.val[v] = y
      BY <1>0, <3>8
    <3> HIDE DEF j, y, k
    <3>11. j.index \ {k} = s.index \ {k}
      BY <3>9
    <3> QED BY <3>1, <3>2, <3>6, <3>7, <3>8, <3>10, <3>11
  <2>2. CASE ~UnbondJails(s, d, v, sh)
    <3>1. jailed = s
      BY <2>2
    <3>2. Framed(s, s) /\ SameBond(s.val[v], s.val[v])
      BY DEF Framed, SameBond
    <3>3. s.val = [s.val EXCEPT ![v] = s.val[v]]
      BY <1>0
    <3> HIDE DEF jailed, k
    <3> QED BY <1>0, <3>1, <3>2, <3>3 DEF jailed
  <2> QED BY <2>1, <2>2
<1> HIDE DEF jailed, k
<1>3. [jailed.del EXCEPT ![<<d, v>>] = @ - sh] \in [DvPairs -> Nat]
  BY <1>0, <1>2
<1>4. less \in Store
  BY <1>2, <1>3 DEF Store, DelegationShares
<1>5. /\ Framed(less, jailed) /\ less.bal = jailed.bal /\ less.halted = jailed.halted
      /\ less.bonded = jailed.bonded /\ less.notBonded = jailed.notBonded
      /\ less.val = jailed.val /\ less.index = jailed.index
      /\ less.del = [jailed.del EXCEPT ![<<d, v>>] = @ - sh]
  BY <1>2 DEF Store, Framed
<1> HIDE DEF less
<1>6. /\ w \in ValidatorRecords /\ w.tokens = x.tokens - ReleasedTokens(x, sh)
      /\ w.shares = x.shares - sh /\ w.jailed = x.jailed /\ SameBond(w, x)
  BY <1>2, RemoveSharesTyped
<1>7. ReleasedTokens(x, sh) = ReleasedTokens(s.val[v], sh)
  BY <1>2 DEF ReleasedTokens, TokensFromShares
<1> HIDE DEF w, x
<1>8. t = r
  BY <1>1, <1>5 DEF w, x
<1>9. /\ r \in Store /\ Framed(r, less)
      /\ r.val = [less.val EXCEPT ![v] = w]
      /\ r.index = (less.index \ {PowerKey(v, less.val[v])})
                      \cup (IF w.jailed THEN {} ELSE {PowerKey(v, w)})
      /\ r.del = less.del /\ r.bal = less.bal /\ r.halted = less.halted
      /\ r.bonded = less.bonded /\ r.notBonded = less.notBonded
  BY <1>4, <1>6, ReindexFields
<1> HIDE DEF r
<1>10. PowerKey(v, less.val[v]) = k
  <2>1. less.val[v] = x
    BY <1>5 DEF x
  <2> QED BY <1>2, <2>1 DEF PowerKey, ConsensusPower, k
<1>11. r.index = (s.index \ {k}) \cup (IF w.jailed THEN {} ELSE {PowerKey(v, w)})
  BY <1>2, <1>5, <1>9, <1>10
<1>12. r.val = [s.val EXCEPT ![v] = w]
  BY <1>0, <1>2, <1>5, <1>9
<1>13. r.del = [s.del EXCEPT ![<<d, v>>] = @ + (-sh)]
  <2>1. s.del[<<d, v>>] - sh = s.del[<<d, v>>] + (-sh)
    BY <1>0
  <2> QED BY <1>0, <1>2, <1>5, <1>9, <2>1
<1>14. Framed(r, s)
  BY <1>2, <1>5, <1>9 DEF Framed
<1>15. SameBond(w, s.val[v])
  BY <1>2, <1>6 DEF SameBond
<1>16. w.shares = s.val[v].shares + (-sh) /\ w.tokens = s.val[v].tokens - ReleasedTokens(s.val[v], sh)
  <2>1. s.val[v].shares \in Nat
    BY <1>0, ValidatorFields
  <2> QED BY <1>2, <1>6, <1>7, <2>1
<1>17. UnbondWrites(t, s, d, v, sh, w)
  BY <1>2, <1>5, <1>6, <1>8, <1>9, <1>11, <1>12, <1>13, <1>14, <1>15, <1>16 DEF UnbondWrites, k
<1> QED BY <1>17

\* A delegation has no more shares than its validator.
LEMMA DelegationWithin ==
    ASSUME NEW s, Always(s), NEW d \in Accounts, NEW v \in Validators
    PROVE  s.del[<<d, v>>] \in Nat /\ s.del[<<d, v>>] <= s.val[v].shares
<1> DEFINE f == [a \in Accounts |-> s.del[<<a, v>>]]
<1>1. s.del \in [DvPairs -> Nat]
  BY StoreFields DEF Always
<1>2. \A a \in Accounts : f[a] \in Nat /\ f[a] = s.del[<<a, v>>]
  BY <1>1 DEF DvPairs
<1>3. s.val[v].shares = Total(f, Accounts)
  BY DEF Always, SharesHeld, Delegated
<1>4. f[d] <= Total(f, Accounts)
  <2> HIDE DEF f
  <2> QED BY <1>2, FiniteKeys, SumAtLeast
<1> QED BY <1>2, <1>3, <1>4

\* What unbonding keeps, and what the pool of the validator then has too much.
LEMMA UnbondKeeps ==
    ASSUME NEW s, Always(s), NEW d \in Accounts, NEW v \in Validators, NEW sh \in Nat,
           Exists(s, v), sh <= s.del[<<d, v>>], NEW t, t = Unbond(s, d, v, sh),
           NEW amt, amt = ReleasedTokens(s.val[v], sh)
    PROVE  /\ Always(t) /\ Framed(t, s) /\ t.halted = s.halted /\ amt \in Nat
           /\ \A u \in Validators : u # v => t.val[u] = s.val[u]
           /\ SameBond(t.val[v], s.val[v])
           /\ \A now : Running(s, now) => Running(t, now)
           /\ \A b, n \in Int : PoolsAhead(s, b, n) =>
                 IF s.val[v].status = "Bonded" THEN PoolsAhead(t, b + amt, n)
                 ELSE PoolsAhead(t, b, n + amt)
<1>0. s \in Store /\ s.val[v] \in ValidatorRecords /\ s.val \in [Validators -> ValidatorRecords]
  BY StoreFields DEF Always
<1>1. sh <= s.val[v].shares
  <2>1. /\ s.del[<<d, v>>] \in Nat /\ s.val[v].shares \in Nat
        /\ s.del[<<d, v>>] <= s.val[v].shares
    BY <1>0, DelegationWithin, ValidatorFields
  <2> QED BY <2>1
<1>2. PICK w : UnbondWrites(t, s, d, v, sh, w)
  BY <1>0, <1>1, UnbondFields
<1>3. amt \in Nat /\ s.val[v].tokens \in Nat
  BY <1>0, <1>1, RemoveSharesTyped, ValidatorFields
<1>4. /\ t \in Store /\ Framed(t, s) /\ w \in ValidatorRecords
      /\ t.val = [s.val EXCEPT ![v] = w]
      /\ t.index = (s.index \ {PowerKey(v, s.val[v])})
                      \cup (IF w.jailed THEN {} ELSE {PowerKey(v, w)})
      /\ t.del = [s.del EXCEPT ![<<d, v>>] = @ + (-sh)]
      /\ t.halted = s.halted /\ t.bonded = s.bonded /\ t.notBonded = s.notBonded
      /\ w.tokens = s.val[v].tokens - amt
      /\ w.shares = s.val[v].shares + (-sh)
      /\ SameBond(w, s.val[v])
  BY <1>2 DEF UnbondWrites
<1>5. w.status # "Absent" /\ w.status = s.val[v].status
  BY <1>4 DEF Exists, SameBond
<1>6. SharesHeld(t)
  <2>1. -sh \in Int
    OBVIOUS
  <2> QED BY <1>0, <1>4, <2>1, WriteShares DEF Always
<1>7. /\ ValidatorsQueued(s) => ValidatorsQueued(t)
      /\ LastBonded(s) => LastBonded(t)
      /\ FewBonded(s) => FewBonded(t)
      /\ AbsentEmpty(s) => AbsentEmpty(t)
      /\ \A now : EntriesQueued(s, now) => EntriesQueued(t, now)
      /\ KeysExact(s) => KeysExact(t)
  BY <1>0, <1>4, WriteValidator
<1>8. Indexed(s) => Indexed(t)
  BY <1>0, <1>4, <1>5, WriteIndex
<1>9. Always(t)
  BY <1>4, <1>6, <1>7 DEF Always
<1>10. \A now : Running(s, now) => Running(t, now)
  BY <1>7, <1>8 DEF Running
<1>11. ASSUME NEW b \in Int, NEW n \in Int, PoolsAhead(s, b, n)
       PROVE  IF s.val[v].status = "Bonded" THEN PoolsAhead(t, b + amt, n)
              ELSE PoolsAhead(t, b, n + amt)
  <2>1. t.bonded = s.bonded + 0 /\ t.notBonded = s.notBonded + 0
    BY <1>0, <1>4, StoreFields
  <2>2. t.ubd = s.ubd /\ t.uncovered = s.uncovered
    BY <1>4 DEF Framed
  <2>3. IF w.status = "Bonded"
        THEN PoolsAhead(t, (b + 0) - (w.tokens - s.val[v].tokens), n + 0)
        ELSE PoolsAhead(t, b + 0, (n + 0) - (w.tokens - s.val[v].tokens))
    <3>1. 0 \in Int
      OBVIOUS
    <3> QED BY <1>0, <1>4, <1>5, <1>11, <2>1, <2>2, <3>1, WritePools
  <2>4. /\ b + 0 = b /\ n + 0 = n
        /\ (b + 0) - (w.tokens - s.val[v].tokens) = b + amt
        /\ (n + 0) - (w.tokens - s.val[v].tokens) = n + amt
    BY <1>3, <1>4
  <2> QED BY <1>5, <2>3, <2>4
<1>12. /\ \A u \in Validators : u # v => t.val[u] = s.val[u]
       /\ SameBond(t.val[v], s.val[v])
  BY <1>0, <1>4
<1> QED BY <1>3, <1>4, <1>9, <1>10, <1>11, <1>12

\* validate_unbond_amount gives shares that the delegation has.
LEMMA UnbondSharesWithin ==
    ASSUME NEW s, Always(s), NEW d \in Accounts, NEW v \in Validators, NEW amt \in Nat,
           ValidUnbond(s, d, v, amt)
    PROVE  /\ UnbondShares(s, d, v, amt) \in Nat
           /\ UnbondShares(s, d, v, amt) <= s.del[<<d, v>>]
           /\ Exists(s, v)
<1>1. s.val[v] \in ValidatorRecords
  BY StoreFields DEF Always
<1>2. s.val[v].shares \in Nat /\ s.val[v].tokens \in Nat \ {0}
  BY <1>1, ValidatorFields DEF ValidUnbond
<1>3. s.val[v].shares * amt \in Nat
  BY <1>2
<1>4. SharesFromTokens(s.val[v], amt) \in Nat
  BY <1>2, <1>3, DivBounds DEF SharesFromTokens
<1>5. s.del[<<d, v>>] \in Nat
  BY DelegationWithin
<1> QED BY <1>4, <1>5 DEF UnbondShares, ValidUnbond

(***************************************************************************)
(* Entries of unbonding delegations and their queue.                       *)
(***************************************************************************)

\* An entry that is added is claimed.
LEMMA UnpaidAppend ==
    ASSUME NEW es \in Seq(Entry), NEW e \in Entry, ~e.paid
    PROVE  Unpaid(Append(es, e)) = Unpaid(es) + e.balance
<1> DEFINE n == Len(es)
           fs == Append(es, e)
           f == [i \in DOMAIN es |-> IF es[i].paid THEN 0 ELSE es[i].balance]
           h == [i \in DOMAIN fs |-> IF fs[i].paid THEN 0 ELSE fs[i].balance]
<1>1. n \in Nat /\ DOMAIN es = 1..n /\ DOMAIN fs = 1..(n + 1) /\ fs[n + 1] = e
      /\ \A i \in 1..n : fs[i] = es[i]
  OBVIOUS
<1>2. \A i \in 1..n : es[i] \in Entry
  OBVIOUS
<1>3. e.balance \in Nat /\ \A i \in 1..n : es[i].balance \in Nat
  BY <1>2 DEF Entry
<1>4. \A i \in 1..n : f[i] \in Nat /\ h[i] = f[i]
  <2>1. \A i \in 1..n : i \in DOMAIN es /\ i \in DOMAIN fs /\ fs[i] = es[i]
    BY <1>1
  <2> HIDE DEF fs, n
  <2> QED BY <1>3, <2>1
<1>5. h[n + 1] = e.balance
  <2>1. n + 1 \in DOMAIN fs /\ fs[n + 1] = e
    BY <1>1
  <2> HIDE DEF fs, n
  <2> QED BY <2>1
<1> HIDE DEF n, f, h
<1>6. IsFiniteSet(1..n) /\ IsFiniteSet(1..(n + 1))
  BY <1>1, FS_Interval
<1>7. (1..(n + 1)) \ {n + 1} = 1..n /\ n + 1 \in 1..(n + 1)
  BY <1>1
<1>8. \A i \in 1..(n + 1) : h[i] \in Int
  <2>1. \A i \in 1..(n + 1) : i = n + 1 \/ i \in 1..n
    BY <1>1
  <2> QED BY <1>3, <1>4, <1>5, <2>1
<1>9. Total(h, 1..(n + 1)) = h[n + 1] + Total(h, (1..(n + 1)) \ {n + 1})
  <2>1. ASSUME NEW S, S = 1..(n + 1), NEW a, a = n + 1
        PROVE  Total(h, S) = h[a] + Total(h, S \ {a})
    <3>1. IsFiniteSet(S) /\ a \in S /\ \A x \in S : h[x] \in Int
      BY <1>6, <1>7, <1>8, <2>1
    <3> QED BY <3>1, SumRemove
  <2> QED BY <2>1
<1>10. Total(h, 1..n) = Total(f, 1..n) /\ Total(f, 1..n) \in Nat
  <2>1. ASSUME NEW S, S = 1..n PROVE Total(h, S) = Total(f, S) /\ Total(f, S) \in Nat
    <3>1. IsFiniteSet(S) /\ \A x \in S : h[x] \in Int /\ h[x] = f[x] /\ f[x] \in Nat
      BY <1>4, <1>6, <2>1
    <3>2. Total(h, S) = Total(f, S)
      BY <3>1, SumSame
    <3>3. Total(f, S) \in Nat
      BY <3>1, SumNat
    <3> QED BY <3>2, <3>3
  <2> QED BY <2>1
<1>11. Total(h, 1..(n + 1)) = Total(f, 1..n) + e.balance
  <2>1. Total(h, 1..(n + 1)) = h[n + 1] + Total(h, 1..n)
    BY <1>7, <1>9
  <2>2. Total(h, 1..(n + 1)) = e.balance + Total(f, 1..n)
    BY <1>5, <1>10, <2>1
  <2>3. ASSUME NEW a \in Nat, NEW b \in Nat PROVE a + b = b + a
    OBVIOUS
  <2> QED BY <1>3, <1>10, <2>2, <2>3
<1> QED BY <1>1, <1>11 DEF Unpaid, f, h

\* A store of which only one unbonding delegation and the queue differ.
OnlyEntries(t, s) ==
    /\ t \in Store /\ t.val = s.val /\ t.index = s.index /\ t.del = s.del
    /\ t.last = s.last /\ t.total = s.total /\ t.valQueue = s.valQueue
    /\ t.red = s.red /\ t.redBySrc = s.redBySrc /\ t.redByDst = s.redByDst
    /\ t.unbondingTime = s.unbondingTime /\ t.hist = s.hist

\* What does not speak of unbonding delegations stays as it is.
LEMMA EntriesKeep ==
    ASSUME NEW s, NEW t, OnlyEntries(t, s)
    PROVE  /\ SharesHeld(s) => SharesHeld(t)
           /\ AbsentEmpty(s) => AbsentEmpty(t)
           /\ Indexed(s) => Indexed(t)
           /\ ValidatorsQueued(s) => ValidatorsQueued(t)
           /\ LastBonded(s) => LastBonded(t)
           /\ FewBonded(s) => FewBonded(t)
           /\ BondedTokens(t) = BondedTokens(s) /\ OtherTokens(t) = OtherTokens(s)
<1>1. SharesHeld(s) => SharesHeld(t)
  BY DEF SharesHeld, Delegated, OnlyEntries
<1>2. AbsentEmpty(s) => AbsentEmpty(t)
  BY DEF AbsentEmpty, OnlyEntries, Exists
<1>3. Indexed(s) => Indexed(t)
  BY DEF Indexed, OnlyEntries, Exists
<1>4. ValidatorsQueued(s) => ValidatorsQueued(t)
  BY DEF ValidatorsQueued, OnlyEntries, Exists
<1>5. LastBonded(s) => LastBonded(t)
  BY DEF LastBonded, OnlyEntries
<1>6. FewBonded(s) => FewBonded(t)
  BY DEF FewBonded, OnlyEntries, WithStatus, Exists
<1>7. BondedTokens(t) = BondedTokens(s) /\ OtherTokens(t) = OtherTokens(s)
  BY DEF BondedTokens, OtherTokens, OnlyEntries
<1> QED BY <1>1, <1>2, <1>3, <1>4, <1>5, <1>6, <1>7

\* The claims change by what those of one unbonding delegation change.
LEMMA ClaimsUpdate ==
    ASSUME NEW s \in Store, NEW t \in Store, NEW p \in DvPairs,
           \A q \in DvPairs \ {p} : t.ubd[q] = s.ubd[q]
    PROVE  Total(Claims(t), DvPairs)
             = Total(Claims(s), DvPairs) + (Unpaid(t.ubd[p]) - Unpaid(s.ubd[p]))
<1>1. \A q \in DvPairs : Claims(s)[q] \in Int /\ Claims(t)[q] \in Int
  BY ClaimsTyped
<1>2. \A q \in DvPairs \ {p} : Claims(s)[q] = Claims(t)[q]
  BY DEF Claims
<1>3. Total(Claims(t), DvPairs) = Total(Claims(s), DvPairs) + (Claims(t)[p] - Claims(s)[p])
  BY <1>1, <1>2, FiniteKeys, SumUpdate
<1>4. Claims(t)[p] = Unpaid(t.ubd[p]) /\ Claims(s)[p] = Unpaid(s.ubd[p])
  BY DEF Claims
<1> QED BY <1>3, <1>4

\* set_unbonding_delegation_entry and insert_ubd_queue: the entry waits in the
\* queue, and is in the index of its validator.
LEMMA EnqueueKeeps ==
    ASSUME NEW s, Always(s), NEW d \in Accounts, NEW v \in Validators, NEW amt \in Nat,
           NEW time \in 0..Horizon, NEW now, NEW e, e = UnbondingEntry(time, amt),
           NEW t, t = InsertUbdQueue(SetUbd(s, d, v, Append(s.ubd[<<d, v>>], e)), d, v, time)
    PROVE  /\ Always(t) /\ t.hist = s.hist /\ t.last = s.last /\ t.halted = s.halted
           /\ t.val = s.val
           /\ Running(s, now) => Running(t, now)
           /\ \A b, n \in Int : PoolsAhead(s, b, n) => PoolsAhead(t, b, n - amt)
<1> DEFINE p == <<d, v>>
           es == Append(s.ubd[p], e)
           q == Append(s.ubdQueue[Slot(time)], p)
           k == UbdByValKey(d, v)
<1>0. /\ s \in Store /\ p \in DvPairs /\ s.ubd \in [DvPairs -> Seq(Entry)]
      /\ s.ubdQueue \in [Slots -> Seq(DvPairs)] /\ s.ubdByVal \subseteq Validators \X Accounts
      /\ s.unbondingTime \in UnbondingTimes
  BY StoreFields DEF Always, DvPairs
<1>1. time \in 0..Horizon /\ Slot(time) \in Slots
  BY <1>0, HorizonSlots
<1>2. e \in Entry /\ ~e.paid /\ e.balance = amt /\ e.time = time
  BY <1>1 DEF UnbondingEntry, Entry
<1>3. es \in Seq(Entry) /\ es # <<>> /\ s.ubd[p] \in Seq(Entry)
  <2>1. s.ubd[p] \in Seq(Entry)
    BY <1>0
  <2>2. es \in Seq(Entry) /\ Len(es) = Len(s.ubd[p]) + 1 /\ Len(s.ubd[p]) \in Nat
    BY <1>2, <2>1
  <2>3. Len(es) # 0
    BY ONLY <2>2
  <2>4. es # <<>>
    BY <2>3
  <2> QED BY <2>1, <2>2, <2>4
<1>4. q \in Seq(DvPairs) /\ s.ubdQueue[Slot(time)] \in Seq(DvPairs)
  BY <1>0, <1>1
<1>5. k \in Validators \X Accounts
  BY DEF UbdByValKey
<1>6. Unpaid(es) = Unpaid(s.ubd[p]) + amt
  BY <1>0, <1>2, <1>3, UnpaidAppend
<1>7. t = [s EXCEPT !.ubd = [s.ubd EXCEPT ![p] = es], !.ubdByVal = s.ubdByVal \cup {k},
                    !.ubdQueue = [s.ubdQueue EXCEPT ![Slot(time)] = q]]
  BY <1>0 DEF InsertUbdQueue, SetUbd, Store
<1> HIDE DEF es, q, k
<1>8. /\ [s.ubd EXCEPT ![p] = es] \in [DvPairs -> Seq(Entry)]
      /\ [s.ubdQueue EXCEPT ![Slot(time)] = q] \in [Slots -> Seq(DvPairs)]
      /\ s.ubdByVal \cup {k} \in SUBSET (Validators \X Accounts)
  BY <1>0, <1>3, <1>4, <1>5
<1>9. t \in Store
  <2>1. /\ [s.ubd EXCEPT ![p] = es] \in EntryLists
        /\ [s.ubdQueue EXCEPT ![Slot(time)] = q] \in QueuedPairs
        /\ s.ubdByVal \cup {k} \in PairKeys
    BY <1>8 DEF EntryLists, QueuedPairs, PairKeys
  <2> QED BY <1>0, <1>7, <2>1 DEF Store
<1>10. /\ OnlyEntries(t, s) /\ t.halted = s.halted /\ t.uncovered = s.uncovered
       /\ t.bonded = s.bonded /\ t.notBonded = s.notBonded
  BY <1>0, <1>7, <1>9 DEF Store, OnlyEntries
<1>11. /\ t.ubd = [s.ubd EXCEPT ![p] = es] /\ t.ubdByVal = s.ubdByVal \cup {k}
       /\ t.ubdQueue = [s.ubdQueue EXCEPT ![Slot(time)] = q]
  BY <1>0, <1>7 DEF Store
<1>12. t.ubd[p] = es /\ \A r \in DvPairs \ {p} : t.ubd[r] = s.ubd[r]
  BY <1>0, <1>11
<1>13. KeysExact(t)
  <2>1. /\ s.ubdByVal = {UbdByValKey(r[1], r[2]) : r \in {x \in DvPairs : s.ubd[x] # <<>>}}
        /\ s.redBySrc = {RedBySrcKey(r) : r \in {x \in DvvTriplets : s.red[x] # <<>>}}
        /\ s.redByDst = {RedByDstKey(r) : r \in {x \in DvvTriplets : s.red[x] # <<>>}}
    BY DEF Always, KeysExact
  <2>2. \A x \in DvPairs : t.ubd[x] # <<>> <=> (x = p \/ s.ubd[x] # <<>>)
    BY <1>3, <1>12
  <2>3. k = UbdByValKey(p[1], p[2])
    BY DEF k
  <2>4. t.ubdByVal = {UbdByValKey(r[1], r[2]) : r \in {x \in DvPairs : t.ubd[x] # <<>>}}
    <3>1. ASSUME NEW y \in t.ubdByVal
          PROVE  \E x \in DvPairs : t.ubd[x] # <<>> /\ y = UbdByValKey(x[1], x[2])
      <4>1. CASE y = k
        BY <1>0, <2>2, <2>3, <4>1
      <4>2. CASE y \in s.ubdByVal
        <5>1. PICK x \in DvPairs : s.ubd[x] # <<>> /\ y = UbdByValKey(x[1], x[2])
          BY <2>1, <4>2
        <5> QED BY <2>2, <5>1
      <4> QED BY <1>11, <4>1, <4>2
    <3>2. ASSUME NEW x \in DvPairs, t.ubd[x] # <<>>
          PROVE  UbdByValKey(x[1], x[2]) \in t.ubdByVal
      <4>1. CASE x = p
        BY <1>11, <2>3, <4>1
      <4>2. CASE s.ubd[x] # <<>>
        BY <1>11, <2>1, <4>2
      <4> QED BY <2>2, <3>2, <4>1, <4>2
    <3> QED BY <3>1, <3>2
  <2>5. t.red = s.red /\ t.redBySrc = s.redBySrc /\ t.redByDst = s.redByDst
    BY <1>10 DEF OnlyEntries
  <2> QED BY ONLY <2>1, <2>4, <2>5 DEF KeysExact
<1>14. Always(t)
  BY <1>9, <1>10, <1>13, EntriesKeep DEF Always
<1>15. ASSUME Running(s, now) PROVE EntriesQueued(t, now)
  <2> SUFFICES ASSUME NEW r \in DvPairs, NEW i \in DOMAIN t.ubd[r],
                      Slot(t.ubd[r][i].time) > Slot(now)
               PROVE  Waits(t, r, Slot(t.ubd[r][i].time))
    BY DEF EntriesQueued
  <2>1. ASSUME NEW slot \in Slots, Waits(s, r, slot) PROVE Waits(t, r, slot)
    <3>1. PICK j \in DOMAIN s.ubdQueue[slot] : s.ubdQueue[slot][j] = r
      BY <2>1 DEF Waits
    <3>2. CASE slot = Slot(time)
      <4>1. t.ubdQueue[slot] = q
        BY <1>0, <1>1, <1>11, <3>2
      <4>2. j \in DOMAIN q /\ q[j] = r
        BY <1>4, <3>1, <3>2 DEF q
      <4> QED BY <4>1, <4>2 DEF Waits
    <3>3. CASE slot # Slot(time)
      <4>1. t.ubdQueue[slot] = s.ubdQueue[slot]
        BY <1>0, <1>1, <1>11, <3>3
      <4> QED BY <3>1, <4>1 DEF Waits
    <3> QED BY <3>2, <3>3
  <2>2. ASSUME i \in DOMAIN s.ubd[r], t.ubd[r][i] = s.ubd[r][i]
        PROVE  Waits(t, r, Slot(t.ubd[r][i].time))
    <3>1. Waits(s, r, Slot(s.ubd[r][i].time))
      BY <1>15, <2>2 DEF Running, EntriesQueued
    <3>2. s.ubd[r] \in Seq(Entry) /\ s.ubd[r][i] \in Entry
      BY <1>0, <2>2
    <3>3. s.ubd[r][i].time \in 0..Horizon
      BY <3>2 DEF Entry
    <3>4. Slot(s.ubd[r][i].time) \in Slots
      BY <1>0, <3>3, HorizonSlots
    <3> QED BY <2>1, <2>2, <3>1, <3>4
  <2>3. CASE r # p
    <3>1. t.ubd[r] = s.ubd[r]
      BY <1>12, <2>3
    <3> QED BY <2>2, <3>1
  <2>4. CASE r = p /\ i # Len(s.ubd[p]) + 1
    <3>1. i \in DOMAIN es
      BY <1>12, <2>4
    <3>2. i \in DOMAIN s.ubd[p] /\ es[i] = s.ubd[p][i]
      BY <1>3, <2>4, <3>1 DEF es
    <3> QED BY <1>12, <2>2, <2>4, <3>2
  <2>5. CASE r = p /\ i = Len(s.ubd[p]) + 1
    <3>1. es[i] = e
      BY <1>3, <2>5 DEF es
    <3>2. t.ubd[r][i].time = time
      BY <1>2, <1>12, <2>5, <3>1
    <3>3. t.ubdQueue[Slot(time)] = q
      BY <1>0, <1>1, <1>11
    <3>4. Len(s.ubdQueue[Slot(time)]) + 1 \in DOMAIN q /\ q[Len(s.ubdQueue[Slot(time)]) + 1] = p
      BY <1>4 DEF q
    <3> QED BY <2>5, <3>2, <3>3, <3>4 DEF Waits
  <2> QED BY <2>3, <2>4, <2>5
<1>16. Running(s, now) => Running(t, now)
  BY <1>10, <1>15, EntriesKeep DEF Running
<1>17. ASSUME NEW b \in Int, NEW n \in Int, PoolsAhead(s, b, n) PROVE PoolsAhead(t, b, n - amt)
  <2> DEFINE O == Total(OtherTokens(s), Validators)
             C == Total(Claims(s), DvPairs)
             D == Total(Claims(t), DvPairs)
             m == s.notBonded + s.uncovered
             u == Unpaid(s.ubd[p])
  <2>1. O \in Int /\ C \in Int /\ m \in Int /\ u \in Int
    BY <1>0, <1>3, ClaimsTyped, UnpaidNat, StoreFields
  <2>2. D = C + (Unpaid(t.ubd[p]) - u)
    BY <1>0, <1>9, <1>12, ClaimsUpdate
  <2>3. Unpaid(t.ubd[p]) = u + amt
    BY <1>6, <1>12
  <2>4. m = (O + C) + n
    BY <1>17 DEF PoolsAhead
  <2> HIDE DEF O, C, D, m, u
  <2>5. m = (O + D) + (n - amt)
    BY <2>1, <2>2, <2>3, <2>4
  <2> QED BY <1>10, <1>17, <2>5, EntriesKeep DEF PoolsAhead, O, D, m
<1> QED BY <1>10, <1>14, <1>16, <1>17 DEF OnlyEntries

\* undelegate: the tokens go to the pool of tokens that are not bonded, where
\* the entry claims them.
LEMMA UndelegateKeeps ==
    ASSUME NEW s, Always(s), NEW d \in Accounts, NEW v \in Validators, NEW sh \in Nat,
           Exists(s, v), sh <= s.del[<<d, v>>], NEW now \in 0..MaxTime,
           NEW t, t = Undelegate(s, d, v, sh, now)
    PROVE  MessageKeeps(t, s, now)
<1> DEFINE amt == ReleasedTokens(s.val[v], sh)
           u == Unbond(s, d, v, sh)
           moved == BondedTokensToNotBonded(u, amt)
           p == IF s.val[v].status = "Bonded" THEN moved ELSE u
           time == now + s.unbondingTime
           e == UnbondingEntry(time, amt)
<1>d. u = Unbond(s, d, v, sh) /\ amt = ReleasedTokens(s.val[v], sh)
  OBVIOUS
<1>1. t = InsertUbdQueue(SetUbd(p, d, v, Append(s.ubd[<<d, v>>], e)), d, v, time)
  BY DEF Undelegate
<1> HIDE DEF u, amt
<1>2. /\ Always(u) /\ Framed(u, s) /\ u.halted = s.halted /\ amt \in Nat
      /\ Running(s, now) => Running(u, now)
      /\ \A b, n \in Int : PoolsAhead(s, b, n) =>
            IF s.val[v].status = "Bonded" THEN PoolsAhead(u, b + amt, n)
            ELSE PoolsAhead(u, b, n + amt)
  BY <1>d, UnbondKeeps
<1>3. moved = BondedTokensToNotBonded(u, amt)
  OBVIOUS
<1> HIDE DEF moved
<1>4. /\ OnlyCoins(moved, u) /\ (u.halted => moved.halted)
      /\ \A b, n \in Int : ~moved.halted /\ PoolsAhead(u, b, n) =>
            PoolsAhead(moved, b - amt, n + amt)
  BY <1>2, <1>3, PoolToPool
<1>5. Always(moved) /\ (Running(u, now) => Running(moved, now))
  BY <1>2, <1>4, CoinsKeep
<1>6. /\ Always(p) /\ Framed(p, s) /\ (s.halted => p.halted)
      /\ Running(s, now) => Running(p, now)
  BY <1>2, <1>4, <1>5 DEF OnlyCoins, Framed
<1>7. ASSUME ~p.halted, PoolsAhead(s, 0, 0) PROVE PoolsAhead(p, 0, amt)
  <2>1. 0 \in Int /\ 0 + amt \in Int /\ 0 + amt = amt /\ amt - amt = 0 /\ amt \in Int
    BY <1>2
  <2>2. CASE s.val[v].status = "Bonded"
    <3>1. PoolsAhead(u, amt, 0)
      BY <1>2, <1>7, <2>1, <2>2
    <3>2. PoolsAhead(moved, amt - amt, 0 + amt)
      BY <1>4, <1>7, <2>1, <2>2, <3>1
    <3> QED BY <2>1, <2>2, <3>2
  <2>3. CASE s.val[v].status # "Bonded"
    <3>1. PoolsAhead(u, 0, amt)
      BY <1>2, <1>7, <2>1, <2>3
    <3> QED BY <2>3, <3>1
  <2> QED BY <2>2, <2>3
<1> HIDE DEF p
<1>8. p.ubd = s.ubd /\ time \in 0..Horizon /\ e = UnbondingEntry(time, amt)
  <2>1. s.unbondingTime \in UnbondingTimes
    BY StoreFields DEF Always
  <2>2. time \in 0..Horizon
    BY <2>1, SlotInSlots
  <2> QED BY <1>6, <2>2 DEF Framed
<1> HIDE DEF e, time
<1>9. t = InsertUbdQueue(SetUbd(p, d, v, Append(p.ubd[<<d, v>>], e)), d, v, time)
  BY <1>1, <1>8
<1>10. /\ Always(t) /\ t.hist = p.hist /\ t.last = p.last /\ t.halted = p.halted
       /\ Running(p, now) => Running(t, now)
       /\ \A b, n \in Int : PoolsAhead(p, b, n) => PoolsAhead(t, b, n - amt)
  <2>1. Always(p) /\ amt \in Nat
    BY <1>2, <1>6
  <2> QED BY ONLY <1>8, <1>9, <2>1, d \in Accounts, v \in Validators, EnqueueKeeps
<1>11. t.hist = s.hist /\ t.last = s.last
  BY <1>6, <1>10 DEF Framed
<1>12. ASSUME ~t.halted, PoolsAhead(s, 0, 0) PROVE PoolsAhead(t, 0, 0)
  <2>1. 0 \in Int /\ amt \in Int /\ amt - amt = 0
    BY <1>2
  <2>2. PoolsAhead(t, 0, amt - amt)
    BY <1>7, <1>10, <1>12, <2>1
  <2> QED BY <2>1, <2>2
<1> QED BY <1>6, <1>10, <1>11, <1>12 DEF MessageKeeps

\* delegate of tokens that come from another validator: their pool is adjusted
\* and the new delegation claims them.
LEMMA RedelegateKeeps ==
    ASSUME NEW s, Always(s), NEW d \in Accounts, NEW v \in Validators, NEW amt \in Nat,
           Exists(s, v), ~InvalidExRate(s.val[v]), NEW src \in Statuses,
           NEW t, t = Redelegate(s, src, d, v, amt), NEW now \in 0..MaxTime
    PROVE  /\ Always(t) /\ Framed(t, s) /\ (s.halted => t.halted)
           /\ \A u \in Validators : SameBond(t.val[u], s.val[u])
           /\ Running(s, now) => Running(t, now)
           /\ ~t.halted /\ src = "Bonded" /\ PoolsAhead(s, amt, 0) => PoolsAhead(t, 0, 0)
           /\ ~t.halted /\ src # "Bonded" /\ PoolsAhead(s, 0, amt) => PoolsAhead(t, 0, 0)
<1> DEFINE p == BetweenPools(s, src, v, amt)
           w == AddTokensFromDel(p.val[v], amt)
           x == IssuedShares(p.val[v], amt)
<1>1. t = AddDelegation(p, d, v, amt)
  BY DEF Redelegate
<1>2. \/ p = s /\ ((src = "Bonded") <=> (s.val[v].status = "Bonded"))
      \/ /\ p = NotBondedTokensToBonded(s, amt)
         /\ src # "Bonded" /\ s.val[v].status = "Bonded"
      \/ /\ p = BondedTokensToNotBonded(s, amt)
         /\ src = "Bonded" /\ s.val[v].status # "Bonded"
  BY DEF BetweenPools
<1>3. w = AddTokensFromDel(p.val[v], amt) /\ x = IssuedShares(p.val[v], amt)
  OBVIOUS
<1> HIDE DEF p, w, x
<1>4. OnlyCoins(p, s) /\ (s.halted => p.halted)
  <2>1. CASE p = s
    BY <2>1 DEF OnlyCoins, Always, Framed
  <2>2. CASE p # s
    BY <1>2, <2>2, PoolToPool
  <2> QED BY <2>1, <2>2
<1>5. Always(p) /\ (Running(s, now) => Running(p, now))
  BY <1>4, CoinsKeep
<1>6. p \in Store /\ p.val = s.val /\ Framed(p, s) /\ Exists(p, v) /\ ~InvalidExRate(p.val[v])
  BY <1>4 DEF OnlyCoins, Exists
<1>7. /\ Always(t) /\ (Running(p, now) => Running(t, now))
      /\ \A b, n \in Int : PoolsAhead(p, b, n) =>
            IF p.val[v].status = "Bonded" THEN PoolsAhead(t, b - amt, n)
            ELSE PoolsAhead(t, b, n - amt)
  BY <1>1, <1>5, <1>6, AddDelegationKeeps
<1>8. /\ t \in Store /\ Framed(t, p)
      /\ t.val = [p.val EXCEPT ![v] = w] /\ w \in ValidatorRecords
      /\ t.index = (p.index \ {PowerKey(v, p.val[v])})
                      \cup (IF w.jailed THEN {} ELSE {PowerKey(v, w)})
      /\ t.del = [p.del EXCEPT ![<<d, v>>] = @ + x]
      /\ t.bal = p.bal /\ t.halted = p.halted
  <2>1. p \in Store /\ ~InvalidExRate(p.val[v])
    BY <1>6
  <2> QED BY <1>1, <1>3, <2>1, AddDelegationFields
<1>9. Framed(t, s)
  BY <1>6, <1>8 DEF Framed
<1>10. \A u \in Validators : SameBond(t.val[u], s.val[u])
  <2>1. s.val \in [Validators -> ValidatorRecords] /\ s.val[v] \in ValidatorRecords
    BY StoreFields DEF Always
  <2>2. SameBond(w, s.val[v])
    BY <1>3, <1>6, <2>1, AddTokensTyped
  <2> QED BY <1>6, <1>8, <2>1, <2>2 DEF SameBond
<1>11. 0 \in Int /\ amt \in Int /\ 0 + amt = amt /\ amt - amt = 0
  OBVIOUS
<1>12. ASSUME ~t.halted, src = "Bonded", PoolsAhead(s, amt, 0) PROVE PoolsAhead(t, 0, 0)
  <2>1. CASE s.val[v].status = "Bonded"
    <3>1. PoolsAhead(p, amt, 0)
      BY <1>2, <1>12, <2>1
    <3>2. PoolsAhead(t, amt - amt, 0)
      BY <1>6, <1>7, <1>11, <2>1, <3>1
    <3> QED BY <1>11, <3>2
  <2>2. CASE s.val[v].status # "Bonded"
    <3>1. p = BondedTokensToNotBonded(s, amt) /\ ~p.halted
      BY <1>2, <1>8, <1>12, <2>2
    <3>2. PoolsAhead(p, amt - amt, 0 + amt)
      BY <1>11, <1>12, <3>1, PoolToPool
    <3>3. PoolsAhead(t, 0, amt - amt)
      BY <1>6, <1>7, <1>11, <2>2, <3>2
    <3> QED BY <1>11, <3>3
  <2> QED BY <2>1, <2>2
<1>13. ASSUME ~t.halted, src # "Bonded", PoolsAhead(s, 0, amt) PROVE PoolsAhead(t, 0, 0)
  <2>1. CASE s.val[v].status # "Bonded"
    <3>1. PoolsAhead(p, 0, amt)
      BY <1>2, <1>13, <2>1
    <3>2. PoolsAhead(t, 0, amt - amt)
      BY <1>6, <1>7, <1>11, <2>1, <3>1
    <3> QED BY <1>11, <3>2
  <2>2. CASE s.val[v].status = "Bonded"
    <3>1. p = NotBondedTokensToBonded(s, amt) /\ ~p.halted
      BY <1>2, <1>8, <1>13, <2>2
    <3>2. PoolsAhead(p, 0 + amt, amt - amt)
      BY <1>11, <1>13, <3>1, PoolToPool
    <3>3. PoolsAhead(t, amt - amt, 0)
      BY <1>6, <1>7, <1>11, <2>2, <3>2
    <3> QED BY <1>11, <3>3
  <2> QED BY <2>1, <2>2
<1> QED BY <1>4, <1>5, <1>7, <1>8, <1>9, <1>10, <1>12, <1>13

(***************************************************************************)
(* Redelegations.                                                          *)
(***************************************************************************)
OnlyRedelegations(t, s) ==
    /\ t \in Store /\ t.val = s.val /\ t.index = s.index /\ t.del = s.del
    /\ t.last = s.last /\ t.total = s.total /\ t.valQueue = s.valQueue
    /\ t.ubd = s.ubd /\ t.ubdByVal = s.ubdByVal /\ t.ubdQueue = s.ubdQueue
    /\ t.bal = s.bal /\ t.bonded = s.bonded /\ t.notBonded = s.notBonded
    /\ t.unbondingTime = s.unbondingTime /\ t.hist = s.hist
    /\ t.uncovered = s.uncovered /\ t.halted = s.halted

\* What does not speak of redelegations stays as it is.
LEMMA RedelegationsKeep ==
    ASSUME NEW s, Always(s), NEW t, OnlyRedelegations(t, s), KeysExact(t), NEW now
    PROVE  MessageKeeps(t, s, now)
<1>1. SharesHeld(t)
  BY DEF Always, SharesHeld, Delegated, OnlyRedelegations
<1>2. AbsentEmpty(t)
  BY DEF Always, AbsentEmpty, OnlyRedelegations, Exists
<1>3. ASSUME Running(s, now) PROVE Running(t, now)
  <2>1. Indexed(t)
    BY <1>3 DEF Running, Indexed, OnlyRedelegations, Exists
  <2>2. ValidatorsQueued(t)
    BY <1>3 DEF Running, ValidatorsQueued, OnlyRedelegations, Exists
  <2>3. EntriesQueued(t, now)
    BY <1>3 DEF Running, EntriesQueued, OnlyRedelegations, Waits
  <2>4. LastBonded(t)
    BY <1>3 DEF Running, LastBonded, OnlyRedelegations
  <2>5. FewBonded(t)
    BY <1>3 DEF Running, FewBonded, OnlyRedelegations, WithStatus, Exists
  <2> QED BY <2>1, <2>2, <2>3, <2>4, <2>5 DEF Running
<1>4. /\ BondedTokens(t) = BondedTokens(s) /\ OtherTokens(t) = OtherTokens(s)
      /\ Claims(t) = Claims(s)
  BY DEF BondedTokens, OtherTokens, Claims, OnlyRedelegations
<1>5. PoolsAhead(s, 0, 0) => PoolsAhead(t, 0, 0)
  BY <1>4 DEF PoolsAhead, OnlyRedelegations
<1> QED BY <1>1, <1>2, <1>3, <1>5 DEF MessageKeeps, Always, OnlyRedelegations

\* The keys under which a redelegation is found tell it from all others.
LEMMA RedelegationKeys ==
    ASSUME NEW q \in DvvTriplets, NEW r \in DvvTriplets
    PROVE  /\ RedBySrcKey(q) = RedBySrcKey(r) => q = r
           /\ RedByDstKey(q) = RedByDstKey(r) => q = r
           /\ RedBySrcKey(q) \in Validators \X Accounts \X Validators
           /\ RedByDstKey(q) \in Validators \X Accounts \X Validators
  BY DEF RedBySrcKey, RedByDstKey, DvvTriplets

\* A store with other redelegations.
WithRedelegations(s, red, src, dst, queue) ==
    [s EXCEPT !.red = red, !.redBySrc = src, !.redByDst = dst, !.redQueue = queue]

LEMMA RedelegationsPut ==
    ASSUME NEW s \in Store, NEW red \in RedelegationLists, NEW src \in TripletKeys,
           NEW dst \in TripletKeys, NEW queue \in QueuedTriplets,
           NEW t, t = WithRedelegations(s, red, src, dst, queue)
    PROVE  /\ OnlyRedelegations(t, s) /\ t.red = red /\ t.redBySrc = src /\ t.redByDst = dst
           /\ t.redQueue = queue
<1>1. t \in Store
  BY DEF Store, WithRedelegations
<1>2. /\ t.red = red /\ t.redBySrc = src /\ t.redByDst = dst /\ t.redQueue = queue
      /\ t.val = s.val /\ t.index = s.index /\ t.del = s.del
      /\ t.last = s.last /\ t.total = s.total /\ t.valQueue = s.valQueue
      /\ t.ubd = s.ubd /\ t.ubdByVal = s.ubdByVal /\ t.ubdQueue = s.ubdQueue
      /\ t.bal = s.bal /\ t.bonded = s.bonded /\ t.notBonded = s.notBonded
      /\ t.unbondingTime = s.unbondingTime /\ t.hist = s.hist
      /\ t.uncovered = s.uncovered /\ t.halted = s.halted
  BY DEF Store, WithRedelegations
<1> QED BY <1>1, <1>2 DEF OnlyRedelegations

\* set_redelegation_entry and the queue: both indexes have the redelegation.
LEMMA SetRedelegationKeeps ==
    ASSUME NEW s, Always(s), NEW r \in DvvTriplets, NEW time \in Nat,
           NEW t, t = [SetRedelegation(s, r, s.red[r] \o <<time>>)
                          EXCEPT !.redQueue[Slot(time)] = @ \cup {r}],
           NEW now
    PROVE  MessageKeeps(t, s, now) /\ OnlyRedelegations(t, s)
<1> DEFINE es == s.red[r] \o <<time>>
           Q == [s.redQueue EXCEPT ![Slot(time)] = @ \cup {r}]
<1>0. /\ s \in Store /\ s.red \in [DvvTriplets -> Seq(Nat)]
      /\ s.redQueue \in [Slots -> SUBSET DvvTriplets]
      /\ s.redBySrc \subseteq Validators \X Accounts \X Validators
      /\ s.redByDst \subseteq Validators \X Accounts \X Validators
  BY StoreFields DEF Always
<1>1. es \in Seq(Nat) /\ es # <<>>
  <2>1. s.red[r] \in Seq(Nat) /\ <<time>> \in Seq(Nat)
    BY <1>0
  <2>2. es \in Seq(Nat) /\ Len(es) = Len(s.red[r]) + 1
    BY <2>1
  <2>3. Len(s.red[r]) \in Nat
    BY <2>1
  <2>4. Len(es) # 0
    BY <2>2, <2>3
  <2> QED BY <2>2, <2>4
<1>2. Q \in [Slots -> SUBSET DvvTriplets]
  BY <1>0
<1> DEFINE red == [s.red EXCEPT ![r] = es]
           src == s.redBySrc \cup {RedBySrcKey(r)}
           dst == s.redByDst \cup {RedByDstKey(r)}
<1>3. t = WithRedelegations(s, red, src, dst, Q)
  <2> DEFINE u == SetRedelegation(s, r, es)
  <2>1. u.redQueue = s.redQueue
    BY <1>0 DEF SetRedelegation, Store
  <2>2. t = [u EXCEPT !.redQueue = [u.redQueue EXCEPT ![Slot(time)] = @ \cup {r}]]
    OBVIOUS
  <2>3. t = [u EXCEPT !.redQueue = Q]
    BY <2>1, <2>2
  <2>4. u = [s EXCEPT !.red = red, !.redBySrc = src, !.redByDst = dst]
    BY DEF SetRedelegation
  <2> HIDE DEF red, src, dst, Q, es, u
  <2> QED BY <2>3, <2>4 DEF WithRedelegations
<1> HIDE DEF es, Q
<1>4. /\ red \in [DvvTriplets -> Seq(Nat)]
      /\ src \in SUBSET (Validators \X Accounts \X Validators)
      /\ dst \in SUBSET (Validators \X Accounts \X Validators)
  BY <1>0, <1>1, RedelegationKeys
<1>5. red \in RedelegationLists /\ Q \in QueuedTriplets /\ src \in TripletKeys /\ dst \in TripletKeys
  BY <1>2, <1>4 DEF RedelegationLists, QueuedTriplets, TripletKeys
<1>6. OnlyRedelegations(t, s) /\ t.red = red /\ t.redBySrc = src /\ t.redByDst = dst
  <2> HIDE DEF red, src, dst
  <2>1. s \in Store
    BY <1>0
  <2> QED BY ONLY <1>3, <1>5, <2>1, RedelegationsPut
<1>7. /\ t.red = [s.red EXCEPT ![r] = es] /\ t.redBySrc = s.redBySrc \cup {RedBySrcKey(r)}
      /\ t.redByDst = s.redByDst \cup {RedByDstKey(r)}
  BY <1>6
<1> HIDE DEF red, src, dst
<1>8. \A x \in DvvTriplets : t.red[x] # <<>> <=> (x = r \/ s.red[x] # <<>>)
  BY <1>0, <1>1, <1>7
<1>9. /\ s.ubdByVal = {UbdByValKey(x[1], x[2]) : x \in {q \in DvPairs : s.ubd[q] # <<>>}}
      /\ s.redBySrc = {RedBySrcKey(x) : x \in {q \in DvvTriplets : s.red[q] # <<>>}}
      /\ s.redByDst = {RedByDstKey(x) : x \in {q \in DvvTriplets : s.red[q] # <<>>}}
  BY DEF Always, KeysExact
<1>10. t.redBySrc = {RedBySrcKey(x) : x \in {q \in DvvTriplets : t.red[q] # <<>>}}
  BY <1>7, <1>8, <1>9
<1>11. t.redByDst = {RedByDstKey(x) : x \in {q \in DvvTriplets : t.red[q] # <<>>}}
  BY <1>7, <1>8, <1>9
<1>12. KeysExact(t)
  BY <1>6, <1>9, <1>10, <1>11 DEF KeysExact, OnlyRedelegations
<1> QED BY <1>6, <1>12, RedelegationsKeep

\* begin_redelegation.
LEMMA BeginRedelegationKeeps ==
    ASSUME NEW s, Always(s), NEW d \in Accounts, NEW src \in Validators, NEW dst \in Validators,
           src # dst, NEW sh \in Nat, sh <= s.del[<<d, src>>], Exists(s, src),
           Exists(s, dst), ~InvalidExRate(s.val[dst]), NEW now \in 0..MaxTime,
           NEW t, t = BeginRedelegation(s, d, src, dst, sh, now)
    PROVE  MessageKeeps(t, s, now)
<1> DEFINE amt == ReleasedTokens(s.val[src], sh)
           u == Unbond(s, d, src, sh)
           status == s.val[src].status
           moved == Redelegate(u, status, d, dst, amt)
           info == BeginInfo(moved, src, now)
           r == <<d, src, dst>>
<1>1. t = IF info = <<>> THEN moved
          ELSE [SetRedelegation(moved, r, moved.red[r] \o info)
                   EXCEPT !.redQueue[Slot(info[1])] = @ \cup {r}]
  BY DEF BeginRedelegation
<1>2. u = Unbond(s, d, src, sh) /\ amt = ReleasedTokens(s.val[src], sh)
  OBVIOUS
<1>3. moved = Redelegate(u, status, d, dst, amt)
  OBVIOUS
<1>4. r \in DvvTriplets
  BY DEF DvvTriplets
<1> HIDE DEF u, amt
<1>5. /\ Always(u) /\ Framed(u, s) /\ u.halted = s.halted /\ amt \in Nat
      /\ \A x \in Validators : x # src => u.val[x] = s.val[x]
      /\ Running(s, now) => Running(u, now)
      /\ \A b, n \in Int : PoolsAhead(s, b, n) =>
            IF s.val[src].status = "Bonded" THEN PoolsAhead(u, b + amt, n)
            ELSE PoolsAhead(u, b, n + amt)
  BY <1>2, UnbondKeeps
<1>6. Exists(u, dst) /\ ~InvalidExRate(u.val[dst])
  BY <1>5 DEF Exists
<1> HIDE DEF moved
<1>7. /\ Always(moved) /\ Framed(moved, u) /\ (u.halted => moved.halted)
      /\ \A x \in Validators : SameBond(moved.val[x], u.val[x])
      /\ Running(u, now) => Running(moved, now)
      /\ ~moved.halted /\ status = "Bonded" /\ PoolsAhead(u, amt, 0) => PoolsAhead(moved, 0, 0)
      /\ ~moved.halted /\ status # "Bonded" /\ PoolsAhead(u, 0, amt) => PoolsAhead(moved, 0, 0)
  <2>1. Always(u) /\ amt \in Nat
    BY <1>5
  <2>2. status \in Statuses
    BY StoreFields, ValidatorFields DEF Always
  <2> HIDE DEF status
  <2> QED BY <1>3, <1>6, <2>1, <2>2, RedelegateKeeps
<1>8. ASSUME ~moved.halted, PoolsAhead(s, 0, 0) PROVE PoolsAhead(moved, 0, 0)
  <2>1. 0 \in Int /\ 0 + amt = amt
    BY <1>5
  <2>2. IF status = "Bonded" THEN PoolsAhead(u, amt, 0) ELSE PoolsAhead(u, 0, amt)
    BY <1>5, <1>8, <2>1
  <2> QED BY <1>7, <1>8, <2>2
<1>9. MessageKeeps(moved, s, now)
  BY <1>5, <1>7, <1>8 DEF MessageKeeps, Framed
<1>10. CASE info = <<>>
  BY <1>1, <1>9, <1>10
<1>11. CASE info # <<>>
  <2>1. \E time \in Nat : info = <<time>>
    <3>1. /\ moved \in Store /\ moved.val[src] \in ValidatorRecords
          /\ moved.unbondingTime \in UnbondingTimes
      BY <1>7, StoreFields DEF Always
    <3>2. moved.unbondingTime \in Nat /\ now \in Nat /\ moved.val[src].ubTime \in Nat
      <4>1. UnbondingTimes \subseteq Nat /\ now \in Nat
        BY StakingAssumption
      <4>2. moved.val[src].ubTime \in Nat
        BY <3>1, ValidatorFields
      <4> QED BY <3>1, <4>1, <4>2
    <3>3. now + moved.unbondingTime \in Nat
      BY <3>2
    <3>4. \/ info = <<now + moved.unbondingTime>>
          \/ info = <<moved.val[src].ubTime>>
          \/ info = <<>>
      BY DEF BeginInfo
    <3> QED BY <1>11, <3>2, <3>3, <3>4
  <2>2. PICK time \in Nat : info = <<time>>
    BY <2>1
  <2> HIDE DEF info
  <2>3. t = [SetRedelegation(moved, r, moved.red[r] \o <<time>>)
                EXCEPT !.redQueue[Slot(time)] = @ \cup {r}]
    BY <1>1, <1>11, <2>2
  <2> HIDE DEF r
  <2>4. MessageKeeps(t, moved, now) /\ OnlyRedelegations(t, moved)
    BY <1>4, <1>7, <2>3, SetRedelegationKeeps
  <2> QED BY <1>9, <2>4 DEF MessageKeeps, OnlyRedelegations
<1> QED BY <1>10, <1>11

(***************************************************************************)
(* Creating and editing validators, parameters, historical infos.          *)
(***************************************************************************)

\* A store of which at most parameters, commissions, minimal self-delegations,
\* historical infos or the flag differ.
SameClaims(t, s) ==
    /\ t \in Store /\ t.index = s.index /\ t.del = s.del
    /\ t.last = s.last /\ t.total = s.total /\ t.valQueue = s.valQueue
    /\ t.ubd = s.ubd /\ t.ubdByVal = s.ubdByVal /\ t.ubdQueue = s.ubdQueue
    /\ t.red = s.red /\ t.redBySrc = s.redBySrc /\ t.redByDst = s.redByDst
    /\ t.bonded = s.bonded /\ t.notBonded = s.notBonded /\ t.uncovered = s.uncovered
    /\ \A u \in Validators :
          /\ t.val[u].jailed = s.val[u].jailed /\ SameBond(t.val[u], s.val[u])
          /\ t.val[u].tokens = s.val[u].tokens /\ t.val[u].shares = s.val[u].shares

\* What the claims and indexes go by stays as it is.
LEMMA SameClaimsKeep ==
    ASSUME NEW s, Always(s), NEW t, SameClaims(t, s)
    PROVE  /\ Always(t) /\ \A now : Running(s, now) => Running(t, now)
           /\ PoolsAhead(s, 0, 0) => PoolsAhead(t, 0, 0)
           /\ SetCurrent(s) => SetCurrent(t)
<1>0. \A u \in Validators :
          /\ t.val[u].jailed = s.val[u].jailed /\ t.val[u].status = s.val[u].status
          /\ t.val[u].tokens = s.val[u].tokens /\ t.val[u].shares = s.val[u].shares
          /\ Exists(t, u) <=> Exists(s, u)
          /\ PowerKey(u, t.val[u]) = PowerKey(u, s.val[u])
          /\ QueueKey(u, t.val[u]) = QueueKey(u, s.val[u])
          /\ ConsensusPower(t.val[u]) = ConsensusPower(s.val[u])
  BY DEF SameClaims, SameBond, Exists, PowerKey, QueueKey, ConsensusPower
<1>1. SharesHeld(t)
  BY <1>0 DEF Always, SharesHeld, Delegated, SameClaims
<1>2. AbsentEmpty(t)
  BY <1>0 DEF Always, AbsentEmpty
<1>3. KeysExact(t)
  BY DEF Always, KeysExact, SameClaims
<1>4. ASSUME NEW now, Running(s, now) PROVE Running(t, now)
  <2>1. Indexed(t)
    <3>1. {u \in Validators : Exists(t, u) /\ ~t.val[u].jailed}
            = {u \in Validators : Exists(s, u) /\ ~s.val[u].jailed}
      BY <1>0
    <3> QED BY <1>0, <1>4, <3>1 DEF Running, Indexed, SameClaims
  <2>2. ValidatorsQueued(t)
    <3>1. {u \in Validators : Exists(t, u) /\ t.val[u].status = "Unbonding"}
            = {u \in Validators : Exists(s, u) /\ s.val[u].status = "Unbonding"}
      BY <1>0
    <3> QED BY <1>0, <1>4, <3>1 DEF Running, ValidatorsQueued, SameClaims
  <2>3. EntriesQueued(t, now)
    BY <1>4 DEF Running, EntriesQueued, SameClaims, Waits
  <2>4. LastBonded(t)
    BY <1>0, <1>4 DEF Running, LastBonded, SameClaims
  <2>5. WithStatus(t, TRUE) = WithStatus(s, TRUE)
    BY <1>0 DEF WithStatus
  <2>6. FewBonded(t)
    BY <1>4, <2>5 DEF Running, FewBonded
  <2> QED BY <2>1, <2>2, <2>3, <2>4, <2>6 DEF Running
<1>5. BondedTokens(t) = BondedTokens(s) /\ OtherTokens(t) = OtherTokens(s)
  BY <1>0 DEF BondedTokens, OtherTokens
<1>6. Claims(t) = Claims(s)
  BY DEF Claims, SameClaims
<1>7. PoolsAhead(s, 0, 0) => PoolsAhead(t, 0, 0)
  BY <1>5, <1>6 DEF PoolsAhead, SameClaims
<1>8. SetCurrent(s) => SetCurrent(t)
  BY <1>0 DEF SetCurrent, SameClaims
<1> QED BY <1>1, <1>2, <1>3, <1>4, <1>7, <1>8 DEF Always, SameClaims

\* An edit changes the commission and the minimal self-delegation.
LEMMA EditedTyped ==
    ASSUME NEW w \in ValidatorRecords, NEW m \in EditValidatorMsgs, NEW now \in Nat,
           NEW x, x = Edited(w, m, now)
    PROVE  /\ x \in ValidatorRecords /\ x.jailed = w.jailed /\ SameBond(x, w)
           /\ x.tokens = w.tokens /\ x.shares = w.shares
<1>1. m.rate \in AtMostOne(Rates) /\ m.minSelf \in AtMostOne(MinSelf)
  BY DEF EditValidatorMsgs
<1>2. ASSUME NEW S \in SUBSET Nat, NEW T \in AtMostOne(S), T # {} PROVE TheOne(T) \in Nat
  <2>1. PICK y \in S : T = {y}
    BY <1>2 DEF AtMostOne
  <2>2. TheOne(T) \in T
    BY <2>1 DEF TheOne
  <2> QED BY <2>1, <2>2
<1>3. /\ m.rate # {} => TheOne(m.rate) \in Nat
      /\ m.minSelf # {} => TheOne(m.minSelf) \in Nat
  <2>1. Rates \in SUBSET Nat /\ MinSelf \in SUBSET Nat
    BY StakingAssumption
  <2> QED BY <1>1, <1>2, <2>1
<1> DEFINE y == IF m.rate = {} THEN w ELSE WithRate(w, TheOne(m.rate), now)
<1>4. /\ y \in ValidatorRecords /\ y.jailed = w.jailed /\ SameBond(y, w)
      /\ y.tokens = w.tokens /\ y.shares = w.shares
  <2>1. CASE m.rate = {}
    BY <2>1 DEF SameBond
  <2>2. CASE m.rate # {}
    BY <1>3, <2>2 DEF WithRate, ValidatorRecords, SameBond
  <2> QED BY <2>1, <2>2
<1>5. x = IF m.minSelf = {} THEN y ELSE [y EXCEPT !.minSelf = TheOne(m.minSelf)]
  BY DEF Edited
<1> HIDE DEF y
<1>6. CASE m.minSelf = {}
  BY <1>4, <1>5, <1>6
<1>7. CASE m.minSelf # {}
  BY <1>3, <1>4, <1>5, <1>7 DEF ValidatorRecords, SameBond
<1> QED BY <1>6, <1>7

\* edit_validator.
LEMMA EditKeeps ==
    ASSUME NEW s, Always(s), NEW m \in EditValidatorMsgs, NEW now \in Nat,
           NEW v, v = m.validator,
           NEW t, t = [s EXCEPT !.val[v] = Edited(s.val[v], m, now)]
    PROVE  SameClaims(t, s) /\ t.hist = s.hist /\ t.halted = s.halted
<1>0. s \in Store /\ s.val \in [Validators -> ValidatorRecords] /\ v \in Validators
  BY StoreFields DEF Always, EditValidatorMsgs
<1> DEFINE x == Edited(s.val[v], m, now)
<1>1. /\ x \in ValidatorRecords /\ x.jailed = s.val[v].jailed /\ SameBond(x, s.val[v])
      /\ x.tokens = s.val[v].tokens /\ x.shares = s.val[v].shares
  BY <1>0, EditedTyped
<1> HIDE DEF x
<1>2. t = [s EXCEPT !.val = [s.val EXCEPT ![v] = x]]
  BY <1>0 DEF x, Store
<1>3. [s.val EXCEPT ![v] = x] \in [Validators -> ValidatorRecords]
  BY <1>0, <1>1
<1>4. t \in Store
  <2>1. [s.val EXCEPT ![v] = x] \in ValidatorStates
    BY <1>3 DEF ValidatorStates
  <2> QED BY <1>0, <1>2, <2>1 DEF Store
<1>5. /\ t.index = s.index /\ t.del = s.del
      /\ t.last = s.last /\ t.total = s.total /\ t.valQueue = s.valQueue
      /\ t.ubd = s.ubd /\ t.ubdByVal = s.ubdByVal /\ t.ubdQueue = s.ubdQueue
      /\ t.red = s.red /\ t.redBySrc = s.redBySrc /\ t.redByDst = s.redByDst
      /\ t.bonded = s.bonded /\ t.notBonded = s.notBonded /\ t.uncovered = s.uncovered
      /\ t.hist = s.hist /\ t.halted = s.halted
  BY <1>0, <1>2 DEF Store
<1>6. t.val = [s.val EXCEPT ![v] = x]
  BY <1>0, <1>2 DEF Store
<1>7. \A u \in Validators :
         /\ t.val[u].jailed = s.val[u].jailed /\ SameBond(t.val[u], s.val[u])
         /\ t.val[u].tokens = s.val[u].tokens /\ t.val[u].shares = s.val[u].shares
  BY <1>0, <1>1, <1>6 DEF SameBond
<1> QED BY <1>4, <1>5, <1>7 DEF SameClaims

WithParameter(s, u, h, b) == [s EXCEPT !.unbondingTime = u, !.hist = h, !.halted = b]

\* A changed parameter, another window of historical infos, or the flag alone.
LEMMA ParameterKeeps ==
    ASSUME NEW s, Always(s), NEW u \in UnbondingTimes, NEW h \in SUBSET Nat, NEW b \in BOOLEAN,
           NEW t, t = WithParameter(s, u, h, b)
    PROVE  SameClaims(t, s) /\ t.hist = h /\ t.halted = b
<1>1. s \in Store
  BY DEF Always
<1>2. t \in Store
  <2>1. h \in Heights
    BY h \in SUBSET Nat DEF Heights
  <2> QED BY <1>1, <2>1 DEF Store, WithParameter
<1>3. t.val = s.val /\ t.hist = h /\ t.halted = b
  BY <1>1 DEF Store, WithParameter
<1>4. \A x \in Validators : SameBond(s.val[x], s.val[x])
  BY DEF SameBond
<1>5. /\ t.index = s.index /\ t.del = s.del
      /\ t.last = s.last /\ t.total = s.total /\ t.valQueue = s.valQueue
      /\ t.ubd = s.ubd /\ t.ubdByVal = s.ubdByVal /\ t.ubdQueue = s.ubdQueue
      /\ t.red = s.red /\ t.redBySrc = s.redBySrc /\ t.redByDst = s.redByDst
      /\ t.bonded = s.bonded /\ t.notBonded = s.notBonded /\ t.uncovered = s.uncovered
  BY <1>1 DEF Store, WithParameter
<1> QED BY <1>2, <1>3, <1>4, <1>5 DEF SameClaims

Registered(s, v, w) == [s EXCEPT !.val[v] = w, !.index = @ \cup {PowerKey(v, w)}]

\* set_validator and set_new_validator_by_power_index of a validator that is new.
LEMMA RegisterKeeps ==
    ASSUME NEW s, Always(s), NEW v \in Validators, ~Exists(s, v),
           NEW w \in ValidatorRecords, w.status = "Unbonded", w.tokens = 0, w.shares = 0,
           ~w.jailed, NEW t, t = Registered(s, v, w), NEW now
    PROVE  /\ MessageKeeps(t, s, now) /\ t.halted = s.halted /\ t.bal = s.bal
           /\ t.val = [s.val EXCEPT ![v] = w]
<1>0. /\ s \in Store /\ s.val \in [Validators -> ValidatorRecords]
      /\ s.index \subseteq Nat \X Validators
  BY StoreFields DEF Always
<1>1. t = [s EXCEPT !.val = [s.val EXCEPT ![v] = w], !.index = s.index \cup {PowerKey(v, w)}]
  BY <1>0 DEF Store, Registered
<1>2. /\ [s.val EXCEPT ![v] = w] \in [Validators -> ValidatorRecords]
      /\ s.index \cup {PowerKey(v, w)} \in SUBSET (Nat \X Validators)
  BY <1>0, PowerNat DEF PowerKey
<1>3. t \in Store
  <2>1. /\ [s.val EXCEPT ![v] = w] \in ValidatorStates
        /\ s.index \cup {PowerKey(v, w)} \in PowerKeys
    BY <1>2 DEF ValidatorStates, PowerKeys
  <2> QED BY <1>0, <1>1, <2>1 DEF Store
<1>4. /\ Framed(t, s) /\ t.del = s.del /\ t.bal = s.bal /\ t.halted = s.halted
      /\ t.bonded = s.bonded /\ t.notBonded = s.notBonded
  BY <1>0, <1>1 DEF Store, Framed
<1>5. t.val = [s.val EXCEPT ![v] = w] /\ t.index = s.index \cup {PowerKey(v, w)}
  BY <1>0, <1>1 DEF Store
<1>6. /\ \A u \in Validators : u # v => t.val[u] = s.val[u]
      /\ t.val[v] = w
  BY <1>0, <1>5
<1>7. s.val[v].status = "Absent" /\ s.val[v].shares = 0 /\ s.val[v].tokens = 0
  BY DEF Always, AbsentEmpty, Exists
<1>8. SharesHeld(t)
  <2>1. \A u \in Validators : t.val[u].shares = s.val[u].shares
    BY <1>6, <1>7
  <2> QED BY <1>4, <2>1 DEF Always, SharesHeld, Delegated
<1>9. AbsentEmpty(t)
  BY <1>6 DEF Always, AbsentEmpty, Exists
<1>10. KeysExact(t)
  BY <1>4 DEF Always, KeysExact, Framed
<1>11. ASSUME Running(s, now) PROVE Running(t, now)
  <2>1. Indexed(t)
    <3>1. PowerKey(v, s.val[v]) \notin s.index
      <4> SUFFICES ASSUME PowerKey(v, s.val[v]) \in s.index PROVE FALSE
        OBVIOUS
      <4>1. PICK u \in Validators : Exists(s, u) /\ PowerKey(v, s.val[v]) = PowerKey(u, s.val[u])
        BY <1>11 DEF Running, Indexed
      <4>2. u = v
        BY <4>1 DEF PowerKey
      <4> QED BY <4>1, <4>2
    <3>2. t.index = (s.index \ {PowerKey(v, s.val[v])})
                       \cup (IF w.jailed THEN {} ELSE {PowerKey(v, w)})
      BY <1>5, <3>1
    <3>3. w.status # "Absent" /\ Indexed(s)
      BY <1>11 DEF Running
    <3> QED BY <1>0, <1>3, <1>5, <3>2, <3>3, WriteIndex
  <2>2. ValidatorsQueued(t)
    <3>1. {u \in Validators : Exists(t, u) /\ t.val[u].status = "Unbonding"}
            = {u \in Validators : Exists(s, u) /\ s.val[u].status = "Unbonding"}
      BY <1>6, <1>7 DEF Exists
    <3>2. \A u \in Validators : s.val[u].status = "Unbonding" =>
             QueueKey(u, t.val[u]) = QueueKey(u, s.val[u])
      BY <1>6, <1>7
    <3> QED BY <1>4, <1>11, <3>1, <3>2 DEF Running, ValidatorsQueued, Framed
  <2>3. EntriesQueued(t, now)
    <3>1. EntriesQueued(s, now) /\ t.ubd = s.ubd /\ t.ubdQueue = s.ubdQueue
      BY <1>4, <1>11 DEF Running, Framed
    <3> QED BY <3>1 DEF EntriesQueued, Waits
  <2>4. LastBonded(t)
    BY <1>4, <1>6, <1>7, <1>11 DEF Running, LastBonded, Framed
  <2>5. WithStatus(t, TRUE) = WithStatus(s, TRUE)
    BY <1>6, <1>7 DEF WithStatus, Exists
  <2>6. FewBonded(t)
    BY <1>11, <2>5 DEF Running, FewBonded
  <2> QED BY <2>1, <2>2, <2>3, <2>4, <2>6 DEF Running
<1>12. BondedTokens(t) = BondedTokens(s) /\ OtherTokens(t) = OtherTokens(s)
  BY <1>6, <1>7 DEF BondedTokens, OtherTokens
<1>13. Claims(t) = Claims(s)
  BY <1>4 DEF Claims, Framed
<1>14. PoolsAhead(s, 0, 0) => PoolsAhead(t, 0, 0)
  BY <1>4, <1>12, <1>13 DEF PoolsAhead, Framed
<1>15. Always(t)
  BY <1>3, <1>8, <1>9, <1>10 DEF Always
<1> QED BY <1>4, <1>5, <1>11, <1>14, <1>15 DEF MessageKeeps, Framed

\* create_validator: the record, its key and the delegation of the operator.
LEMMA CreatedKeeps ==
    ASSUME NEW s, Always(s), NEW m \in CreateValidatorMsgs, CanCreate(s, m), NEW now \in Nat,
           NEW t, t = Created(s, m, now), NEW at
    PROVE  /\ MessageKeeps(t, s, at) /\ t.halted = s.halted
           /\ \A u \in Validators : t.val[u].status = "Bonded" <=> s.val[u].status = "Bonded"
<1> DEFINE v == m.validator
           w == NewValidator(m.minSelf, m.commission, now)
           r == Registered(s, v, w)
<1>0. /\ m.validator \in Validators /\ m.amount \in Amounts /\ m.minSelf \in MinSelf
      /\ m.commission \in Commissions
  BY DEF CreateValidatorMsgs
<1>1. /\ m.amount \in Nat /\ m.minSelf \in Nat /\ m.commission.rate \in Nat
      /\ m.commission.maxRate \in Nat /\ m.commission.maxChange \in Nat
      /\ v \in Accounts /\ v \in Validators
  BY <1>0, StakingAssumption
<1>2. /\ w \in ValidatorRecords /\ w.status = "Unbonded" /\ w.tokens = 0 /\ w.shares = 0
      /\ ~w.jailed
  BY <1>1 DEF NewValidator, NoValidator, ValidatorRecords, Statuses
<1>3. t = Delegate(r, v, v, m.amount)
  BY DEF Created, Registered
<1>4. r = Registered(s, v, w)
  OBVIOUS
<1>5. ~Exists(s, v) /\ s.bal[v] >= m.amount
  BY DEF CanCreate
<1>6. s.val \in [Validators -> ValidatorRecords]
  BY StoreFields DEF Always
<1>7. s.val[v].status = "Absent"
  BY <1>5 DEF Exists
<1> HIDE DEF r, w, v
<1>8. /\ MessageKeeps(r, s, at) /\ r.halted = s.halted /\ r.bal = s.bal
      /\ r.val = [s.val EXCEPT ![v] = w]
  BY <1>1, <1>2, <1>4, <1>5, RegisterKeeps
<1>9. r.val[v] = w
  BY <1>1, <1>6, <1>8
<1>10. /\ Always(r) /\ Exists(r, v) /\ ~InvalidExRate(r.val[v]) /\ r.bal[v] >= m.amount
  BY <1>2, <1>5, <1>8, <1>9 DEF MessageKeeps, Exists, InvalidExRate
<1>11. /\ MessageKeeps(t, r, at) /\ t.halted = r.halted
       /\ \A u \in Validators : u # v => t.val[u] = r.val[u]
       /\ SameBond(t.val[v], r.val[v])
  BY <1>1, <1>3, <1>10, DelegateKeeps
<1>12. MessageKeeps(t, s, at)
  BY <1>8, <1>11 DEF MessageKeeps
<1>13. \A u \in Validators : t.val[u].status = "Bonded" <=> s.val[u].status = "Bonded"
  <2> SUFFICES ASSUME NEW u \in Validators
               PROVE  t.val[u].status = "Bonded" <=> s.val[u].status = "Bonded"
    OBVIOUS
  <2>1. CASE u = v
    BY <1>2, <1>7, <1>9, <1>11, <2>1 DEF SameBond
  <2>2. CASE u # v
    BY <1>6, <1>8, <1>11, <2>2
  <2> QED BY <2>1, <2>2
<1> QED BY <1>8, <1>11, <1>12, <1>13

(***************************************************************************)
(* The set updates.                                                        *)
(***************************************************************************)

\* The last of finitely many keys of the power index, as the iterator has them.
LEMMA LowestKey ==
    ASSUME NEW I, IsFiniteSet(I), I \subseteq Nat \X Nat
    PROVE  \A T \in SUBSET I : T # {} => \E k \in T : \A j \in T : j = k \/ Above(j, k)
<1> DEFINE G == {T \in SUBSET I : T # {} => \E k \in T : \A j \in T : j = k \/ Above(j, k)}
<1>1. ASSUME NEW T \in SUBSET I, \A U \in SUBSET T : U # T => U \in G
      PROVE  T \in G
  <2> SUFFICES ASSUME T # {} PROVE \E k \in T : \A j \in T : j = k \/ Above(j, k)
    OBVIOUS
  <2>1. PICK z \in T : TRUE
    OBVIOUS
  <2>2. T \ {z} \in G
    BY <1>1, <2>1
  <2>3. CASE T \ {z} = {}
    BY <2>1, <2>3
  <2>4. CASE T \ {z} # {}
    <3>1. PICK k \in T \ {z} : \A j \in T \ {z} : j = k \/ Above(j, k)
      BY <2>2, <2>4
    <3>2. \A j \in T : j \in Nat \X Nat /\ j[1] \in Nat /\ j[2] \in Nat /\ j = <<j[1], j[2]>>
      OBVIOUS
    <3>3. CASE Above(z, k)
      BY <3>1, <3>3
    <3>4. CASE ~Above(z, k)
      <4>1. k \in T /\ z \in T
        BY <3>1
      <4>2. k[1] \in Nat /\ k[2] \in Nat /\ z[1] \in Nat /\ z[2] \in Nat
        BY <3>2, <4>1
      <4>3. k # z /\ k = <<k[1], k[2]>> /\ z = <<z[1], z[2]>>
        BY <3>1, <3>2
      <4>4. k[1] # z[1] \/ k[2] # z[2]
        BY <4>3
      <4>5. Above(k, z)
        BY <3>4, <4>2, <4>4 DEF Above
      <4>6. ASSUME NEW j \in T, j # z PROVE Above(j, z)
        <5>1. CASE j = k
          BY <4>5, <5>1
        <5>2. CASE Above(j, k)
          <6>1. j[1] \in Nat /\ j[2] \in Nat
            BY <3>2
          <6> QED BY <4>2, <4>5, <5>2, <6>1 DEF Above
        <5> QED BY <3>1, <4>6, <5>1, <5>2
      <4> QED BY <4>6
    <3> QED BY <3>3, <3>4
  <2> QED BY <2>3, <2>4
<1>2. \A T \in SUBSET I : T \in G
  <2> HIDE DEF G
  <2> QED BY <1>1, SubsetInduction
<1> QED BY <1>2

\* The loop over the power index takes at most max_validators keys.
LEMMA FirstKeys ==
    ASSUME NEW I, IsFiniteSet(I), I \subseteq Nat \X Nat, NEW n \in Nat,
           NEW C, C = {k \in I : Cardinality({j \in I : Above(j, k)}) < n}
    PROVE  IsFiniteSet(C) /\ Cardinality(C) <= n
<1>1. C \in SUBSET I
  OBVIOUS
<1>2. IsFiniteSet(C) /\ Cardinality(C) \in Nat
  BY <1>1, FS_Subset, FS_CardinalityType
<1>3. CASE C = {}
  <2>1. Cardinality(C) = 0
    BY <1>2, <1>3, FS_EmptySet
  <2> QED BY <1>2, <2>1
<1>4. CASE C # {}
  <2>1. PICK k \in C : \A j \in C : j = k \/ Above(j, k)
    BY <1>1, <1>4, LowestKey
  <2> DEFINE A == {j \in I : Above(j, k)}
  <2>2. IsFiniteSet(A) /\ A \in SUBSET I
    <3>1. A \in SUBSET I
      OBVIOUS
    <3> QED BY <3>1, FS_Subset
  <2>3. Cardinality(A) < n
    BY <2>1
  <2>4. C \ {k} \in SUBSET A
    BY <1>1, <2>1
  <2> HIDE DEF A
  <2>5. Cardinality(C \ {k}) <= Cardinality(A)
    BY <2>2, <2>4, FS_Subset
  <2>6. Cardinality(C \ {k}) = Cardinality(C) - 1
    BY <1>2, <2>1, FS_RemoveElement
  <2>7. Cardinality(A) \in Nat
    BY <2>2, FS_CardinalityType
  <2> QED BY <1>2, <2>3, <2>5, <2>6, <2>7
<1> QED BY <1>3, <1>4

\* The validators that are elected exist, have power, are not jailed, and are no
\* more than the maximum.
LEMMA ElectedFacts ==
    ASSUME NEW s, Always(s), Indexed(s)
    PROVE  /\ Elected(s) \subseteq Validators
           /\ \A v \in Elected(s) : /\ Exists(s, v) /\ ~s.val[v].jailed
                                    /\ ConsensusPower(s.val[v]) > 0
           /\ Cardinality(Elected(s)) <= MaxValidators
<1> DEFINE V == {w \in Validators : Exists(s, w) /\ ~s.val[w].jailed}
           E == {j \in Reached(s) : ConsensusPower(s.val[j[2]]) > 0}
           key == [v \in V |-> PowerKey(v, s.val[v])]
           op == [k \in s.index |-> k[2]]
<1>0. s.index \subseteq Nat \X Validators /\ Validators \subseteq Nat /\ MaxValidators \in Nat
  BY StoreFields, StakingAssumption DEF Always
<1>1. s.index = {PowerKey(v, s.val[v]) : v \in V}
  BY DEF Indexed
<1>2. \A k \in s.index : k[2] \in V
  BY <1>1 DEF PowerKey
<1>3. IsFiniteSet(s.index)
  <2>1. IsFiniteSet(V)
    BY FiniteKeys, FS_Subset
  <2>2. s.index = {key[v] : v \in V}
    BY <1>1
  <2> HIDE DEF V, key
  <2> QED BY <2>1, <2>2, ImageFinite
<1>4. E \subseteq Candidates(s) /\ Candidates(s) \subseteq s.index
  BY DEF Reached, Candidates
<1>5. IsFiniteSet(Candidates(s)) /\ Cardinality(Candidates(s)) <= MaxValidators
  <2>1. s.index \subseteq Nat \X Nat
    BY <1>0
  <2> HIDE DEF V, E, key, op
  <2> QED BY <1>0, <1>3, <2>1, FirstKeys DEF Candidates
<1>6. Elected(s) = {k[2] : k \in E}
  BY DEF Elected
<1>7. /\ Elected(s) \subseteq V
      /\ \A v \in Elected(s) : ConsensusPower(s.val[v]) > 0
  BY <1>2, <1>4, <1>6
<1>8. Cardinality(Elected(s)) <= MaxValidators
  <2>1. IsFiniteSet(E) /\ Cardinality(E) <= Cardinality(Candidates(s))
    BY <1>4, <1>5, FS_Subset
  <2>2. Elected(s) = {op[k] : k \in E}
    BY <1>4, <1>6
  <2> HIDE DEF E, op
  <2>3. IsFiniteSet(Elected(s)) /\ Cardinality(Elected(s)) <= Cardinality(E)
    BY <2>1, <2>2, ImageFinite
  <2>4. /\ Cardinality(Elected(s)) \in Nat /\ Cardinality(E) \in Nat
        /\ Cardinality(Candidates(s)) \in Nat
    BY <1>5, <2>1, <2>3, FS_CardinalityType
  <2> QED BY <1>0, <1>5, <2>1, <2>3, <2>4
<1> QED BY <1>7, <1>8

\* What the loops over the index and the last set write, before the pools are
\* adjusted.
Newly(s) == {v \in Elected(s) : s.val[v].status # "Bonded"}
Gone(s) == {v \in Validators : s.last[v] # 0} \ Elected(s)
SetValidators(s, now, h) ==
    [v \in Validators |-> CASE v \in Newly(s) -> BondValidator(s.val[v])
                            [] v \in Gone(s)  -> BeginUnbonding(s.val[v], now + s.unbondingTime, h)
                            [] OTHER          -> s.val[v]]
SetIndex(s) ==
    (s.index \ {PowerKey(v, s.val[v]) : v \in (Newly(s) \cup Gone(s))})
        \cup {PowerKey(v, s.val[v]) : v \in {w \in (Newly(s) \cup Gone(s)) : ~s.val[w].jailed}}
SetQueue(s, now, h) == QueueAfter(s, Newly(s), Gone(s), now + s.unbondingTime, h)
SetLast(s) == LastAfter(s, Elected(s), Gone(s))
SetTotal(s) ==
    IF \E v \in Validators : Updated(s.last, s, Elected(s))[v] # s.last[v]
    THEN Total([v \in Validators |-> ConsensusPower(s.val[v])], Elected(s)) ELSE s.total
SetWritten(s, now, h) ==
    [s EXCEPT !.val = SetValidators(s, now, h), !.index = SetIndex(s),
              !.valQueue = SetQueue(s, now, h), !.last = SetLast(s), !.total = SetTotal(s)]

\* The two cases of apply_and_return_validator_set_updates.
LEMMA SetUpdatesCases ==
    ASSUME NEW s, NEW now, NEW h
    PROVE  ApplySetUpdates(s, now, h)
             = IF SetUpdatesFail(s) THEN [s EXCEPT !.halted = TRUE]
               ELSE NetTransfer(SetWritten(s, now, h), TokensOf(s, Newly(s)), TokensOf(s, Gone(s)))
  BY DEF ApplySetUpdates, SetWritten, SetValidators, SetIndex, SetQueue, SetLast, SetTotal,
         Newly, Gone

\* Who is bonded, who begins to unbond, and what is written of each.
LEMMA SetMembers ==
    ASSUME NEW s, Always(s), Indexed(s), LastBonded(s), ~SetUpdatesFail(s),
           NEW now \in 0..MaxTime, NEW h \in Nat, NEW x, x = SetValidators(s, now, h)
    PROVE  /\ Newly(s) \subseteq Elected(s) /\ Gone(s) \subseteq Validators
           /\ \A v \in Elected(s) : v \notin Gone(s)
           /\ \A v \in Validators : v \in Gone(s) <=>
                 (s.val[v].status = "Bonded" /\ v \notin Elected(s))
           /\ x \in [Validators -> ValidatorRecords]
           /\ \A v \in Validators :
                 /\ x[v].tokens = s.val[v].tokens /\ x[v].shares = s.val[v].shares
                 /\ x[v].jailed = s.val[v].jailed
                 /\ x[v].status = "Bonded" <=> v \in Elected(s)
                 /\ x[v].status = "Absent" <=> s.val[v].status = "Absent"
                 /\ v \in Gone(s) => /\ x[v].status = "Unbonding" /\ x[v].ubHeight = h
                                     /\ x[v].ubTime = now + s.unbondingTime
                 /\ v \notin Gone(s) /\ v \notin Newly(s) => x[v] = s.val[v]
<1>0. s.val \in [Validators -> ValidatorRecords] /\ s.unbondingTime \in UnbondingTimes
  BY StoreFields DEF Always
<1>1. now + s.unbondingTime \in Nat
  <2>1. now \in Nat /\ UnbondingTimes \subseteq Nat
    BY StakingAssumption
  <2>2. s.unbondingTime \in Nat
    BY <1>0, <2>1
  <2> QED BY <2>1, <2>2
<1>2. /\ Elected(s) \subseteq Validators
      /\ \A v \in Elected(s) : Exists(s, v)
  BY ElectedFacts
<1>3. /\ Newly(s) \subseteq Elected(s) /\ Gone(s) \subseteq Validators
      /\ \A v \in Elected(s) : v \notin Gone(s)
  BY DEF Newly, Gone
<1>4. \A v \in Validators : v \in Gone(s) <=> (s.val[v].status = "Bonded" /\ v \notin Elected(s))
  BY DEF Gone, LastBonded
<1>5. \A v \in Validators : v \in Newly(s) <=> (s.val[v].status # "Bonded" /\ v \in Elected(s))
  BY DEF Newly
<1>6. ASSUME NEW w \in ValidatorRecords
      PROVE  LET y == BondValidator(w)
             IN  /\ y \in ValidatorRecords /\ y.tokens = w.tokens /\ y.shares = w.shares
                 /\ y.jailed = w.jailed /\ y.status = "Bonded"
  BY DEF ValidatorRecords, BondValidator, Statuses
<1>7. ASSUME NEW w \in ValidatorRecords, NEW t \in Nat
      PROVE  LET y == BeginUnbonding(w, t, h)
             IN  /\ y \in ValidatorRecords /\ y.tokens = w.tokens /\ y.shares = w.shares
                 /\ y.jailed = w.jailed /\ y.status = "Unbonding" /\ y.ubTime = t /\ y.ubHeight = h
  BY DEF ValidatorRecords, BeginUnbonding, Statuses
<1>8. ASSUME NEW v \in Validators
      PROVE  /\ x[v] \in ValidatorRecords
             /\ x[v].tokens = s.val[v].tokens /\ x[v].shares = s.val[v].shares
             /\ x[v].jailed = s.val[v].jailed
             /\ x[v].status = "Bonded" <=> v \in Elected(s)
             /\ x[v].status = "Absent" <=> s.val[v].status = "Absent"
             /\ v \in Gone(s) => /\ x[v].status = "Unbonding" /\ x[v].ubHeight = h
                                 /\ x[v].ubTime = now + s.unbondingTime
             /\ v \notin Gone(s) /\ v \notin Newly(s) => x[v] = s.val[v]
  <2>0. s.val[v] \in ValidatorRecords
    BY <1>0
  <2>1. CASE v \in Newly(s)
    <3>1. x[v] = BondValidator(s.val[v])
      BY <1>3, <2>1 DEF SetValidators
    <3>2. v \in Elected(s) /\ v \notin Gone(s) /\ s.val[v].status # "Absent"
      BY <1>2, <1>3, <2>1 DEF Exists
    <3> QED BY <1>6, <2>0, <2>1, <3>1, <3>2
  <2>2. CASE v \in Gone(s)
    <3>1. x[v] = BeginUnbonding(s.val[v], now + s.unbondingTime, h)
      BY <1>3, <2>2 DEF SetValidators
    <3>2. v \notin Elected(s) /\ v \notin Newly(s) /\ s.val[v].status = "Bonded"
      BY <1>3, <1>4, <2>2
    <3> DEFINE time == now + s.unbondingTime
               y == BeginUnbonding(s.val[v], time, h)
    <3>3. /\ y \in ValidatorRecords /\ y.tokens = s.val[v].tokens /\ y.shares = s.val[v].shares
          /\ y.jailed = s.val[v].jailed /\ y.status = "Unbonding" /\ y.ubTime = time
          /\ y.ubHeight = h
      <4>1. time \in Nat
        BY <1>1
      <4> HIDE DEF time
      <4> QED BY <1>7, <2>0, <4>1
    <3>4. x[v] = y
      BY <3>1
    <3> HIDE DEF y
    <3> QED BY <2>2, <3>2, <3>3, <3>4
  <2>3. CASE v \notin Newly(s) /\ v \notin Gone(s)
    <3>1. x[v] = s.val[v]
      BY <2>3 DEF SetValidators
    <3>2. s.val[v].status = "Bonded" <=> v \in Elected(s)
      BY <1>4, <1>5, <2>3
    <3> QED BY <2>0, <2>3, <3>1, <3>2
  <2> QED BY <2>1, <2>2, <2>3
<1>9. x \in [Validators -> ValidatorRecords]
  <2>1. x = [v \in Validators |-> x[v]]
    BY DEF SetValidators
  <2> QED BY <1>8, <2>1
<1> QED BY <1>3, <1>4, <1>8, <1>9

\* Every validator that is bonded or begins to unbond is found in the index as it
\* was: its power has not changed.
LEMMA SetIndexSame ==
    ASSUME NEW s, Always(s), Indexed(s), LastBonded(s), ~SetUpdatesFail(s)
    PROVE  SetIndex(s) = s.index
<1> DEFINE M == Newly(s) \cup Gone(s)
           V == {w \in Validators : Exists(s, w) /\ ~s.val[w].jailed}
<1>1. s.index = {PowerKey(v, s.val[v]) : v \in V}
  BY DEF Indexed
<1>2. M \subseteq Validators /\ \A v \in M : Exists(s, v)
  <2>1. /\ Elected(s) \subseteq Validators
        /\ \A v \in Elected(s) : Exists(s, v)
    BY ElectedFacts
  <2>2. \A v \in Gone(s) : v \in Validators /\ s.val[v].status = "Bonded"
    BY DEF Gone, LastBonded
  <2> QED BY <2>1, <2>2 DEF Newly, Exists
<1>3. \A u, v \in Validators : PowerKey(u, s.val[u]) = PowerKey(v, s.val[v]) => u = v
  BY DEF PowerKey
<1>4. SetIndex(s) = (s.index \ {PowerKey(v, s.val[v]) : v \in M})
                      \cup {PowerKey(v, s.val[v]) : v \in {w \in M : ~s.val[w].jailed}}
  BY DEF SetIndex
<1> HIDE DEF M
<1>5. ASSUME NEW k \in SetIndex(s) PROVE k \in s.index
  <2>1. CASE k \in s.index
    BY <2>1
  <2>2. CASE k \in {PowerKey(v, s.val[v]) : v \in {w \in M : ~s.val[w].jailed}}
    <3>1. PICK v \in M : ~s.val[v].jailed /\ k = PowerKey(v, s.val[v])
      BY <2>2
    <3>2. v \in V
      BY <1>2, <3>1
    <3> QED BY <1>1, <3>1, <3>2
  <2> QED BY <1>4, <1>5, <2>1, <2>2
<1>6. ASSUME NEW k \in s.index PROVE k \in SetIndex(s)
  <2>1. PICK v \in V : k = PowerKey(v, s.val[v])
    BY <1>1
  <2>2. CASE v \in M
    BY <1>4, <2>1, <2>2
  <2>3. CASE v \notin M
    BY <1>2, <1>3, <1>4, <2>1, <2>3
  <2> QED BY <2>2, <2>3
<1> QED BY <1>5, <1>6

\* The queue of validators after those bonded have left it and those that begin
\* to unbond were inserted.
LEMMA SetQueueExact ==
    ASSUME NEW s, Always(s), Indexed(s), LastBonded(s), ValidatorsQueued(s), ~SetUpdatesFail(s),
           NEW now \in 0..MaxTime, NEW h \in Nat, NEW x, x = SetValidators(s, now, h)
    PROVE  /\ SetQueue(s, now, h)
                = {QueueKey(v, x[v]) : v \in {w \in Validators : x[w].status = "Unbonding"}}
           /\ SetQueue(s, now, h) \subseteq Nat \X Nat \X Validators
<1> DEFINE N == Newly(s)
           G == Gone(s)
           t == now + s.unbondingTime
           U == {w \in Validators : s.val[w].status = "Unbonding"}
           W == {w \in Validators : x[w].status = "Unbonding"}
<1>1. /\ N \subseteq Elected(s) /\ G \subseteq Validators /\ Elected(s) \subseteq Validators
      /\ \A v \in Elected(s) : v \notin G
      /\ \A v \in Validators : v \in G <=> (s.val[v].status = "Bonded" /\ v \notin Elected(s))
      /\ x \in [Validators -> ValidatorRecords]
      /\ \A v \in Validators :
            /\ x[v].status = "Bonded" <=> v \in Elected(s)
            /\ v \in G => /\ x[v].status = "Unbonding" /\ x[v].ubHeight = h
                          /\ x[v].ubTime = t
            /\ v \notin G /\ v \notin N => x[v] = s.val[v]
  BY SetMembers, ElectedFacts
<1>2. s.valQueue = {QueueKey(v, s.val[v]) : v \in U}
  BY DEF ValidatorsQueued, Exists
<1>3. SetQueue(s, now, h) = (s.valQueue \ {QueueKey(v, s.val[v]) : v \in N})
                               \cup {<<Slot(t), h, v>> : v \in G}
  BY DEF SetQueue, QueueAfter, QueueKey
<1>4. \A u, v, w, z : QueueKey(u, w) = QueueKey(v, z) => u = v
  BY DEF QueueKey
<1>5. \A v \in G : <<Slot(t), h, v>> = QueueKey(v, x[v]) /\ v \in W
  <2>1. \A v \in G : v \in Validators
    BY <1>1
  <2> QED BY <1>1, <2>1 DEF QueueKey
<1> HIDE DEF N, G, t
<1>6. ASSUME NEW k \in SetQueue(s, now, h) PROVE \E v \in W : k = QueueKey(v, x[v])
  <2>1. CASE k \in {<<Slot(t), h, v>> : v \in G}
    BY <1>5, <2>1
  <2>2. CASE k \in s.valQueue /\ k \notin {QueueKey(v, s.val[v]) : v \in N}
    <3>1. PICK v \in U : k = QueueKey(v, s.val[v])
      BY <1>2, <2>2
    <3>2. v \notin N /\ v \notin G
      BY <1>1, <2>2, <3>1
    <3>3. x[v] = s.val[v]
      BY <1>1, <3>1, <3>2
    <3> QED BY <3>1, <3>3
  <2> QED BY <1>3, <1>6, <2>1, <2>2
<1>7. ASSUME NEW v \in W PROVE QueueKey(v, x[v]) \in SetQueue(s, now, h)
  <2>1. CASE v \in G
    BY <1>3, <1>5, <2>1
  <2>2. CASE v \notin G
    <3>1. v \notin N
      BY <1>1
    <3>2. x[v] = s.val[v] /\ v \in U
      BY <1>1, <2>2, <3>1
    <3>3. QueueKey(v, s.val[v]) \in s.valQueue
      BY <1>2, <3>2
    <3>4. QueueKey(v, s.val[v]) \notin {QueueKey(u, s.val[u]) : u \in N}
      BY <1>4, <3>1
    <3> QED BY <1>3, <3>2, <3>3, <3>4
  <2> QED BY <2>1, <2>2
<1>8. SetQueue(s, now, h) = {QueueKey(v, x[v]) : v \in W}
  BY <1>6, <1>7
<1>9. \A v \in W : QueueKey(v, x[v]) \in Nat \X Nat \X Validators
  <2> SUFFICES ASSUME NEW v \in W PROVE QueueKey(v, x[v]) \in Nat \X Nat \X Validators
    OBVIOUS
  <2>1. x[v] \in ValidatorRecords
    BY <1>1
  <2>2. x[v].ubTime \in Nat /\ x[v].ubHeight \in Nat /\ Slot(x[v].ubTime) \in Nat
    BY <2>1, ValidatorFields, SlotFacts
  <2> QED BY <2>2 DEF QueueKey
<1> QED BY <1>8, <1>9

\* The last validator powers and their total, which Tendermint is given.
LEMMA SetLastExact ==
    ASSUME NEW s, Always(s), Indexed(s), LastBonded(s), NEW l, l = SetLast(s)
    PROVE  /\ l \in [Validators -> Nat]
           /\ \A v \in Validators : l[v] = IF v \in Elected(s) THEN ConsensusPower(s.val[v]) ELSE 0
           /\ l = Updated(s.last, s, Elected(s))
           /\ SetTotal(s) = Total(l, Validators)
<1> DEFINE power == [v \in Validators |-> ConsensusPower(s.val[v])]
           E == Elected(s)
<1>0. s.val \in [Validators -> ValidatorRecords] /\ s.last \in [Validators -> Nat]
  BY StoreFields DEF Always
<1>1. E \subseteq Validators
  BY ElectedFacts
<1>2. \A v \in Validators : power[v] \in Nat
  BY <1>0, PowerNat
<1>3. \A v \in Validators : v \in Gone(s) <=> (s.last[v] # 0 /\ v \notin E)
  BY DEF Gone
<1>4. ASSUME NEW v \in Validators PROVE l[v] = IF v \in E THEN power[v] ELSE 0
  <2>1. CASE v \in E
    BY <1>3, <2>1 DEF SetLast, LastAfter
  <2>2. CASE v \notin E /\ s.last[v] # 0
    BY <1>3, <2>2 DEF SetLast, LastAfter
  <2>3. CASE v \notin E /\ s.last[v] = 0
    BY <1>3, <2>3 DEF SetLast, LastAfter
  <2> QED BY <2>1, <2>2, <2>3
<1>5. l = [v \in Validators |-> l[v]]
  BY DEF SetLast, LastAfter
<1>6. l \in [Validators -> Nat]
  BY <1>2, <1>4, <1>5
<1>7. ASSUME NEW v \in Validators PROVE Updated(s.last, s, E)[v] = l[v]
  <2>1. CASE v \in E
    BY <1>4, <2>1 DEF Updated
  <2>2. CASE v \notin E
    BY <1>4, <2>2 DEF Updated
  <2> QED BY <2>1, <2>2
<1>8. Updated(s.last, s, E) = [v \in Validators |-> Updated(s.last, s, E)[v]]
  BY DEF Updated
<1>9. l = Updated(s.last, s, E)
  BY <1>5, <1>7, <1>8
<1>10. SetTotal(s) = Total(l, Validators)
  <2>1. CASE \E v \in Validators : Updated(s.last, s, E)[v] # s.last[v]
    <3>1. SetTotal(s) = Total(power, E)
      BY <2>1 DEF SetTotal
    <3>2. \A v \in Validators : power[v] \in Int
      BY <1>2
    <3> HIDE DEF power, E
    <3>3. Total(power, E) = Total(l, Validators)
      BY <1>1, <1>4, <3>2, FiniteKeys, SumChosen
    <3> QED BY <3>1, <3>3
  <2>2. CASE ~ \E v \in Validators : Updated(s.last, s, E)[v] # s.last[v]
    <3>1. l = s.last
      BY <1>0, <1>5, <1>7, <2>2
    <3>2. SetTotal(s) = s.total
      BY <2>2 DEF SetTotal
    <3> QED BY <3>1, <3>2 DEF LastBonded
  <2> QED BY <2>1, <2>2
<1> QED BY <1>4, <1>6, <1>9, <1>10

\* The tokens of the validators that are bonded now, less those of the ones that
\* are bonded no more, are what the bonded pool is short of.
LEMMA SetTokens ==
    ASSUME NEW s \in Store, NEW t \in Store, NEW N \in SUBSET Validators,
           NEW G \in SUBSET Validators, N \cap G = {},
           \A v \in Validators :
              /\ t.val[v].tokens = s.val[v].tokens
              /\ v \in N => t.val[v].status = "Bonded" /\ s.val[v].status # "Bonded"
              /\ v \in G => t.val[v].status # "Bonded" /\ s.val[v].status = "Bonded"
              /\ v \notin N /\ v \notin G => t.val[v].status = s.val[v].status
    PROVE  /\ Total(BondedTokens(t), Validators) + TokensOf(s, G)
                = Total(BondedTokens(s), Validators) + TokensOf(s, N)
           /\ Total(OtherTokens(t), Validators) + TokensOf(s, N)
                = Total(OtherTokens(s), Validators) + TokensOf(s, G)
           /\ TokensOf(s, N) \in Nat /\ TokensOf(s, G) \in Nat
<1> DEFINE tokens == [v \in Validators |-> s.val[v].tokens]
           in == [v \in Validators |-> IF v \in N THEN tokens[v] ELSE 0]
           out == [v \in Validators |-> IF v \in G THEN tokens[v] ELSE 0]
           B == BondedTokens(s)
           C == BondedTokens(t)
           O == OtherTokens(s)
           P == OtherTokens(t)
           bsum == [v \in Validators |-> B[v] + in[v]]
           osum == [v \in Validators |-> O[v] + out[v]]
<1>0. IsFiniteSet(Validators)
  BY FiniteKeys
<1>1. \A v \in Validators : tokens[v] \in Nat
  <2>1. \A v \in Validators : s.val[v] \in ValidatorRecords
    BY StoreFields
  <2> QED BY <2>1, ValidatorFields
<1>2. \A v \in Validators : in[v] \in Nat /\ out[v] \in Nat
  BY <1>1
<1>3. \A v \in Validators : B[v] \in Nat /\ C[v] \in Nat /\ O[v] \in Nat /\ P[v] \in Nat
  BY ClaimsTyped
<1>4. \A v \in Validators : bsum[v] = C[v] + out[v] /\ osum[v] = P[v] + in[v]
  <2> SUFFICES ASSUME NEW v \in Validators PROVE B[v] + in[v] = C[v] + out[v] /\ O[v] + out[v] = P[v] + in[v]
    OBVIOUS
  <2>1. /\ B[v] = IF s.val[v].status = "Bonded" THEN tokens[v] ELSE 0
        /\ C[v] = IF t.val[v].status = "Bonded" THEN tokens[v] ELSE 0
        /\ O[v] = IF s.val[v].status = "Bonded" THEN 0 ELSE tokens[v]
        /\ P[v] = IF t.val[v].status = "Bonded" THEN 0 ELSE tokens[v]
        /\ in[v] = IF v \in N THEN tokens[v] ELSE 0
        /\ out[v] = IF v \in G THEN tokens[v] ELSE 0
    BY DEF BondedTokens, OtherTokens
  <2>2. tokens[v] \in Nat
    BY <1>1
  <2> HIDE DEF B, C, O, P, in, out, tokens
  <2>3. CASE v \in N
    <3>1. v \notin G
      BY <2>3
    <3>2. B[v] = 0 /\ in[v] = tokens[v] /\ C[v] = tokens[v] /\ out[v] = 0 /\ O[v] = tokens[v] /\ P[v] = 0
      BY <2>1, <2>3, <3>1
    <3> QED BY <2>2, <3>2
  <2>4. CASE v \in G
    <3>1. v \notin N
      BY <2>4
    <3>2. B[v] = tokens[v] /\ in[v] = 0 /\ C[v] = 0 /\ out[v] = tokens[v] /\ O[v] = 0 /\ P[v] = tokens[v]
      BY <2>1, <2>4, <3>1
    <3> QED BY <2>2, <3>2
  <2>5. CASE v \notin N /\ v \notin G
    BY <2>1, <2>2, <2>5
  <2> QED BY <2>3, <2>4, <2>5
<1>5. \A v \in Validators : bsum[v] = B[v] + in[v] /\ osum[v] = O[v] + out[v]
  OBVIOUS
<1>6. TokensOf(s, N) = Total(tokens, N) /\ TokensOf(s, G) = Total(tokens, G)
  BY DEF TokensOf
<1>7. \A v \in Validators : /\ in[v] = IF v \in N THEN tokens[v] ELSE 0
                            /\ out[v] = IF v \in G THEN tokens[v] ELSE 0
  OBVIOUS
<1> HIDE DEF tokens, in, out, B, C, O, P, bsum, osum
<1>8. Total(tokens, N) = Total(in, Validators) /\ Total(tokens, G) = Total(out, Validators)
  <2>1. \A v \in Validators : tokens[v] \in Int
    BY <1>1
  <2>2. Total(tokens, N) = Total(in, Validators)
    BY <1>0, <1>7, <2>1, SumChosen
  <2>3. Total(tokens, G) = Total(out, Validators)
    BY <1>0, <1>7, <2>1, SumChosen
  <2> QED BY <2>2, <2>3
<1>9. /\ Total(bsum, Validators) = Total(B, Validators) + Total(in, Validators)
      /\ Total(bsum, Validators) = Total(C, Validators) + Total(out, Validators)
  <2>1. \A v \in Validators : B[v] \in Int /\ in[v] \in Int /\ bsum[v] = B[v] + in[v]
    BY <1>2, <1>3, <1>5
  <2>2. \A v \in Validators : C[v] \in Int /\ out[v] \in Int /\ bsum[v] = C[v] + out[v]
    BY <1>2, <1>3, <1>4
  <2>3. Total(bsum, Validators) = Total(B, Validators) + Total(in, Validators)
    BY <1>0, <2>1, SumAdd
  <2>4. Total(bsum, Validators) = Total(C, Validators) + Total(out, Validators)
    BY <1>0, <2>2, SumAdd
  <2> QED BY <2>3, <2>4
<1>10. /\ Total(osum, Validators) = Total(O, Validators) + Total(out, Validators)
       /\ Total(osum, Validators) = Total(P, Validators) + Total(in, Validators)
  <2>1. \A v \in Validators : O[v] \in Int /\ out[v] \in Int /\ osum[v] = O[v] + out[v]
    BY <1>2, <1>3, <1>5
  <2>2. \A v \in Validators : P[v] \in Int /\ in[v] \in Int /\ osum[v] = P[v] + in[v]
    BY <1>2, <1>3, <1>4
  <2>3. Total(osum, Validators) = Total(O, Validators) + Total(out, Validators)
    BY <1>0, <2>1, SumAdd
  <2>4. Total(osum, Validators) = Total(P, Validators) + Total(in, Validators)
    BY <1>0, <2>2, SumAdd
  <2> QED BY <2>3, <2>4
<1>11. Total(in, Validators) \in Nat /\ Total(out, Validators) \in Nat
  BY <1>0, <1>2, SumNat
<1> QED BY <1>6, <1>8, <1>9, <1>10, <1>11 DEF B, C, O, P

\* What the set updates write is consistent but for the pools.
LEMMA SetWrittenKeeps ==
    ASSUME NEW s, Always(s), NEW now \in 0..MaxTime, NEW h \in Nat, Running(s, now),
           ~SetUpdatesFail(s), NEW t, t = SetWritten(s, now, h)
    PROVE  /\ Always(t) /\ Running(t, now) /\ SetCurrent(t)
           /\ t.hist = s.hist /\ t.halted = s.halted /\ t.last = Updated(s.last, s, Elected(s))
           /\ t.bonded = s.bonded /\ t.notBonded = s.notBonded /\ t.ubd = s.ubd
           /\ t.uncovered = s.uncovered
           /\ Total(BondedTokens(t), Validators) + TokensOf(s, Gone(s))
                = Total(BondedTokens(s), Validators) + TokensOf(s, Newly(s))
           /\ Total(OtherTokens(t), Validators) + TokensOf(s, Newly(s))
                = Total(OtherTokens(s), Validators) + TokensOf(s, Gone(s))
           /\ TokensOf(s, Newly(s)) \in Nat /\ TokensOf(s, Gone(s)) \in Nat
<1> DEFINE x == SetValidators(s, now, h)
           q == SetQueue(s, now, h)
           l == SetLast(s)
           E == Elected(s)
<1>0. s \in Store /\ Indexed(s) /\ LastBonded(s) /\ ValidatorsQueued(s) /\ MaxValidators \in Nat
  BY StakingAssumption DEF Always, Running
<1>d. x = SetValidators(s, now, h) /\ l = SetLast(s)
  OBVIOUS
<1>e. q = SetQueue(s, now, h)
  OBVIOUS
<1> HIDE DEF x, l, q
<1>1. /\ Newly(s) \subseteq E /\ Gone(s) \subseteq Validators
      /\ \A v \in E : v \notin Gone(s)
      /\ \A v \in Validators : v \in Gone(s) <=> (s.val[v].status = "Bonded" /\ v \notin E)
      /\ x \in [Validators -> ValidatorRecords]
      /\ \A v \in Validators :
            /\ x[v].tokens = s.val[v].tokens /\ x[v].shares = s.val[v].shares
            /\ x[v].jailed = s.val[v].jailed
            /\ x[v].status = "Bonded" <=> v \in E
            /\ x[v].status = "Absent" <=> s.val[v].status = "Absent"
            /\ v \in Gone(s) => /\ x[v].status = "Unbonding" /\ x[v].ubHeight = h
                                /\ x[v].ubTime = now + s.unbondingTime
            /\ v \notin Gone(s) /\ v \notin Newly(s) => x[v] = s.val[v]
  BY <1>0, <1>d, SetMembers
<1>2. /\ E \subseteq Validators
      /\ \A v \in E : Exists(s, v) /\ ~s.val[v].jailed /\ ConsensusPower(s.val[v]) > 0
      /\ Cardinality(E) <= MaxValidators
  BY <1>0, ElectedFacts
<1>3. SetIndex(s) = s.index
  BY <1>0, SetIndexSame
<1>4. /\ q = {QueueKey(v, x[v]) : v \in {w \in Validators : x[w].status = "Unbonding"}}
      /\ q \subseteq Nat \X Nat \X Validators
  BY <1>0, <1>d, <1>e, SetQueueExact
<1>5. /\ l \in [Validators -> Nat]
      /\ \A v \in Validators : l[v] = IF v \in E THEN ConsensusPower(s.val[v]) ELSE 0
      /\ l = Updated(s.last, s, E)
      /\ SetTotal(s) = Total(l, Validators)
  BY <1>0, <1>d, SetLastExact
<1>6. Total(l, Validators) \in Nat
  BY <1>5, FiniteKeys, SumNat
<1> DEFINE T == Total(l, Validators)
           i == s.index
<1>7. t = [s EXCEPT !.val = x, !.index = i, !.valQueue = q, !.last = l, !.total = T]
  BY <1>3, <1>5, <1>d, <1>e DEF SetWritten
<1>8. i \in SUBSET (Nat \X Validators)
  BY <1>0, StoreFields
<1> HIDE DEF T, i
<1>9. t \in Store
  <2>1. T \in Nat
    BY <1>6 DEF T
  <2>2. q \in QueuedValidators /\ i \in PowerKeys
    BY <1>4, <1>8 DEF QueuedValidators, PowerKeys
  <2>3. x \in ValidatorStates /\ l \in LastPowers
    BY <1>1, <1>5 DEF ValidatorStates, LastPowers
  <2>4. s \in Store
    BY <1>0
  <2> QED BY ONLY <1>7, <2>1, <2>2, <2>3, <2>4 DEF Store
<1>10. t.val = x /\ t.index = i /\ t.valQueue = q /\ t.last = l /\ t.total = T
  BY <1>0, <1>7 DEF Store
<1>11. /\ t.del = s.del /\ t.ubd = s.ubd /\ t.ubdByVal = s.ubdByVal /\ t.ubdQueue = s.ubdQueue
       /\ t.red = s.red /\ t.redBySrc = s.redBySrc /\ t.redByDst = s.redByDst
       /\ t.bonded = s.bonded /\ t.notBonded = s.notBonded
       /\ t.hist = s.hist /\ t.uncovered = s.uncovered /\ t.halted = s.halted
  BY <1>0, <1>7 DEF Store
<1>12. \A v \in Validators :
          /\ Exists(t, v) <=> Exists(s, v)
          /\ t.val[v].jailed = s.val[v].jailed
          /\ PowerKey(v, t.val[v]) = PowerKey(v, s.val[v])
          /\ ConsensusPower(t.val[v]) = ConsensusPower(s.val[v])
  BY <1>1, <1>10 DEF Exists, PowerKey, ConsensusPower
<1>13. Always(t)
  <2>1. SharesHeld(t)
    BY <1>1, <1>10, <1>11 DEF Always, SharesHeld, Delegated
  <2>2. AbsentEmpty(t)
    BY <1>1, <1>10 DEF Always, AbsentEmpty, Exists
  <2>3. KeysExact(t)
    BY <1>11 DEF Always, KeysExact
  <2> QED BY <1>9, <2>1, <2>2, <2>3 DEF Always
<1>14. Running(t, now)
  <2>1. Indexed(t)
    <3>1. {v \in Validators : Exists(t, v) /\ ~t.val[v].jailed}
            = {v \in Validators : Exists(s, v) /\ ~s.val[v].jailed}
      BY <1>12
    <3>2. t.index = s.index
      BY <1>10 DEF i
    <3> QED BY <1>0, <1>12, <3>1, <3>2 DEF Indexed
  <2>2. ValidatorsQueued(t)
    <3>1. {v \in Validators : Exists(t, v) /\ t.val[v].status = "Unbonding"}
            = {v \in Validators : x[v].status = "Unbonding"}
      BY <1>10 DEF Exists
    <3> QED BY <1>4, <1>10, <3>1 DEF ValidatorsQueued
  <2>3. EntriesQueued(t, now)
    BY <1>11 DEF Running, EntriesQueued, Waits
  <2>4. LastBonded(t)
    BY <1>1, <1>2, <1>5, <1>10 DEF LastBonded, T
  <2>5. WithStatus(t, TRUE) = E
    <3>1. \A v \in Validators : v \in WithStatus(t, TRUE) <=> x[v].status = "Bonded"
      BY <1>10 DEF WithStatus, Exists
    <3>2. WithStatus(t, TRUE) \subseteq Validators
      BY DEF WithStatus
    <3> QED BY <1>1, <1>2, <3>1, <3>2
  <2>6. FewBonded(t)
    BY <1>2, <2>5 DEF FewBonded
  <2> QED BY <2>1, <2>2, <2>3, <2>4, <2>6 DEF Running
<1>15. SetCurrent(t)
  BY <1>1, <1>2, <1>5, <1>10, <1>12 DEF SetCurrent
<1>16. /\ Total(BondedTokens(t), Validators) + TokensOf(s, Gone(s))
             = Total(BondedTokens(s), Validators) + TokensOf(s, Newly(s))
       /\ Total(OtherTokens(t), Validators) + TokensOf(s, Newly(s))
             = Total(OtherTokens(s), Validators) + TokensOf(s, Gone(s))
       /\ TokensOf(s, Newly(s)) \in Nat /\ TokensOf(s, Gone(s)) \in Nat
  <2> DEFINE N == Newly(s)
             G == Gone(s)
  <2>1. N \in SUBSET Validators /\ G \in SUBSET Validators /\ N \cap G = {}
    BY <1>1, <1>2
  <2>2. \A v \in N : s.val[v].status # "Bonded" /\ v \in E
    BY DEF Newly
  <2>3. \A v \in Validators : v \in E /\ v \notin N => s.val[v].status = "Bonded"
    BY DEF Newly
  <2>4. \A v \in Validators :
           /\ t.val[v].tokens = s.val[v].tokens
           /\ v \in N => t.val[v].status = "Bonded" /\ s.val[v].status # "Bonded"
           /\ v \in G => t.val[v].status # "Bonded" /\ s.val[v].status = "Bonded"
           /\ v \notin N /\ v \notin G => t.val[v].status = s.val[v].status
    BY <1>1, <1>10, <2>2
  <2> HIDE DEF N, G
  <2>5. /\ Total(BondedTokens(t), Validators) + TokensOf(s, G)
             = Total(BondedTokens(s), Validators) + TokensOf(s, N)
        /\ Total(OtherTokens(t), Validators) + TokensOf(s, N)
             = Total(OtherTokens(s), Validators) + TokensOf(s, G)
        /\ TokensOf(s, N) \in Nat /\ TokensOf(s, G) \in Nat
    BY <1>0, <1>9, <2>1, <2>4, SetTokens
  <2> QED BY <2>5 DEF N, G
<1> QED BY <1>5, <1>10, <1>11, <1>13, <1>14, <1>15, <1>16

\* A panic leaves the store as it is.
LEMMA HaltKeeps ==
    ASSUME NEW s, Always(s), NEW t, t = [s EXCEPT !.halted = TRUE]
    PROVE  Always(t) /\ t.hist = s.hist /\ t.last = s.last /\ t.halted
<1>1. s \in Store /\ t \in Store
  BY HaltedTyped DEF Always
<1>2. t.val = s.val /\ t.hist = s.hist /\ t.halted
  BY <1>1 DEF Store
<1>3. \A x \in Validators : SameBond(s.val[x], s.val[x])
  BY DEF SameBond
<1>4. /\ t.index = s.index /\ t.del = s.del
      /\ t.last = s.last /\ t.total = s.total /\ t.valQueue = s.valQueue
      /\ t.ubd = s.ubd /\ t.ubdByVal = s.ubdByVal /\ t.ubdQueue = s.ubdQueue
      /\ t.red = s.red /\ t.redBySrc = s.redBySrc /\ t.redByDst = s.redByDst
      /\ t.bonded = s.bonded /\ t.notBonded = s.notBonded /\ t.uncovered = s.uncovered
  BY <1>1 DEF Store
<1>5. SameClaims(t, s)
  BY <1>1, <1>2, <1>3, <1>4 DEF SameClaims
<1> QED BY <1>2, <1>4, <1>5, SameClaimsKeep

\* What the end of a block may do to a store in one of its steps.
StepKeeps(t, s, now) ==
    /\ Always(t) /\ t.hist = s.hist /\ (s.halted => t.halted)
    /\ ~t.halted => /\ Running(s, now) => Running(t, now)
                    /\ PoolsAhead(s, 0, 0) => PoolsAhead(t, 0, 0)

\* apply_and_return_validator_set_updates.
LEMMA SetUpdatesKeep ==
    ASSUME NEW s, Always(s), NEW now \in 0..MaxTime, NEW h \in Nat, Running(s, now),
           NEW t, t = ApplySetUpdates(s, now, h)
    PROVE  /\ StepKeeps(t, s, now)
           /\ ~t.halted => SetCurrent(t) /\ t.last = Updated(s.last, s, Elected(s))
<1>1. CASE SetUpdatesFail(s)
  <2>1. t = [s EXCEPT !.halted = TRUE]
    BY <1>1, SetUpdatesCases
  <2>2. Always(t) /\ t.hist = s.hist /\ t.halted
    BY <2>1, HaltKeeps
  <2> QED BY <2>2 DEF StepKeeps
<1>2. CASE ~SetUpdatesFail(s)
  <2> DEFINE y == SetWritten(s, now, h)
             in == TokensOf(s, Newly(s))
             out == TokensOf(s, Gone(s))
  <2>1. t = NetTransfer(y, in, out) /\ y = SetWritten(s, now, h)
    BY <1>2, SetUpdatesCases
  <2> HIDE DEF y
  <2>2. /\ Always(y) /\ Running(y, now) /\ SetCurrent(y)
        /\ y.hist = s.hist /\ y.halted = s.halted /\ y.last = Updated(s.last, s, Elected(s))
        /\ y.bonded = s.bonded /\ y.notBonded = s.notBonded /\ y.ubd = s.ubd
        /\ y.uncovered = s.uncovered
        /\ Total(BondedTokens(y), Validators) + out = Total(BondedTokens(s), Validators) + in
        /\ Total(OtherTokens(y), Validators) + in = Total(OtherTokens(s), Validators) + out
        /\ in \in Nat /\ out \in Nat
    BY <1>2, <2>1, SetWrittenKeeps
  <2> HIDE DEF in, out
  <2>3. ASSUME PoolsAhead(s, 0, 0) PROVE PoolsAhead(y, out - in, in - out)
    <3> DEFINE B == Total(BondedTokens(s), Validators)
               C == Total(BondedTokens(y), Validators)
               O == Total(OtherTokens(s), Validators)
               P == Total(OtherTokens(y), Validators)
               D == Total(Claims(s), DvPairs)
               m == s.notBonded + s.uncovered
    <3>1. B \in Nat /\ C \in Nat /\ O \in Nat /\ P \in Nat /\ D \in Nat
      BY <2>2, ClaimsTyped DEF Always
    <3>2. s.bonded = B + 0 /\ m = (O + D) + 0
      BY <2>3 DEF PoolsAhead
    <3>3. Total(Claims(y), DvPairs) = D
      BY <2>2 DEF Claims
    <3>4. C + out = B + in /\ P + in = O + out
      BY <2>2
    <3>7. y.bonded = s.bonded /\ y.notBonded + y.uncovered = m
      BY <2>2
    <3> HIDE DEF B, C, O, P, D, m
    <3>5. s.bonded = C + (out - in)
      BY <2>2, <3>1, <3>2, <3>4
    <3>6. m = (P + D) + (in - out)
      BY <2>2, <3>1, <3>2, <3>4
    <3> QED BY <3>3, <3>5, <3>6, <3>7 DEF PoolsAhead, C, P
  <2>4. /\ OnlyCoins(t, y) /\ (y.halted => t.halted)
        /\ PoolsAhead(s, 0, 0) /\ ~t.halted => PoolsAhead(t, 0, 0)
    <3>1. CASE in > out
      <4> DEFINE a == in - out
      <4>1. t = NotBondedTokensToBonded(y, a)
        BY <2>1, <2>2, <3>1 DEF NetTransfer
      <4>2. a \in Nat /\ out - in \in Int /\ a \in Int /\ (out - in) + a = 0 /\ a - a = 0
        BY <2>2, <3>1
      <4>3. PoolsAhead(s, 0, 0) => PoolsAhead(y, out - in, a)
        BY <2>3
      <4> HIDE DEF a
      <4>4. /\ OnlyCoins(t, y) /\ (y.halted => t.halted)
            /\ \A b, n \in Int : ~t.halted /\ PoolsAhead(y, b, n) => PoolsAhead(t, b + a, n - a)
        BY <2>2, <4>1, <4>2, PoolToPool
      <4>5. ~t.halted /\ PoolsAhead(y, out - in, a) => PoolsAhead(t, (out - in) + a, a - a)
        BY <4>2, <4>4
      <4> QED BY <4>2, <4>3, <4>4, <4>5
    <3>2. CASE in < out
      <4> DEFINE a == out - in
      <4>1. t = BondedTokensToNotBonded(y, a)
        BY <2>1, <2>2, <3>2 DEF NetTransfer
      <4>2. a \in Nat /\ in - out \in Int /\ a \in Int /\ (in - out) + a = 0 /\ a - a = 0
        BY <2>2, <3>2
      <4>3. PoolsAhead(s, 0, 0) => PoolsAhead(y, a, in - out)
        BY <2>3
      <4> HIDE DEF a
      <4>4. /\ OnlyCoins(t, y) /\ (y.halted => t.halted)
            /\ \A b, n \in Int : ~t.halted /\ PoolsAhead(y, b, n) => PoolsAhead(t, b - a, n + a)
        BY <2>2, <4>1, <4>2, PoolToPool
      <4>5. ~t.halted /\ PoolsAhead(y, a, in - out) => PoolsAhead(t, a - a, (in - out) + a)
        BY <4>2, <4>4
      <4> QED BY <4>2, <4>3, <4>4, <4>5
    <3>3. CASE in = out
      <4>1. t = y
        BY <2>1, <2>2, <3>3 DEF NetTransfer
      <4>2. out - in = 0 /\ in - out = 0
        BY <2>2, <3>3
      <4>3. OnlyCoins(y, y)
        BY <2>2 DEF OnlyCoins, Framed, Always
      <4> QED BY <2>3, <4>1, <4>2, <4>3
    <3> QED BY <2>2, <3>1, <3>2, <3>3
  <2>5. Always(t) /\ Running(t, now)
    BY <2>2, <2>4, CoinsKeep
  <2>6. SetCurrent(t) /\ t.last = y.last /\ t.hist = y.hist
    BY <2>2, <2>4 DEF SetCurrent, OnlyCoins, Framed
  <2> QED BY <2>2, <2>4, <2>5, <2>6 DEF StepKeeps
<1> QED BY <1>1, <1>2

(***************************************************************************)
(* What matures at the end of a block.                                     *)
(***************************************************************************)

\* After the set updates the validator set stays what it is.
LaterKeeps(t, s, now) ==
    StepKeeps(t, s, now) /\ t.last = s.last /\ (SetCurrent(s) => SetCurrent(t))

\* unbond_all_mature_validators: who leaves the queue is unbonding no more.
LEMMA UnbondAllKeeps ==
    ASSUME NEW s, Always(s), NEW now, NEW h, NEW t, t = UnbondAllMature(s, now, h)
    PROVE  LaterKeeps(t, s, now)
<1> DEFINE M == MatureValidators(s, now, h)
           D == {k[3] : k \in M}
           x == [v \in Validators |-> IF v \in D THEN [s.val[v] EXCEPT !.status = "Unbonded"]
                                      ELSE s.val[v]]
           q == s.valQueue \ M
<1>0. /\ s \in Store /\ s.val \in [Validators -> ValidatorRecords]
      /\ s.valQueue \subseteq Nat \X Nat \X Validators
  BY StoreFields DEF Always
<1>1. M \subseteq s.valQueue
  BY DEF MatureValidators
<1>2. D \subseteq Validators
  BY <1>0, <1>1
<1>3. CASE \E v \in D : s.val[v].status # "Unbonding"
  <2>1. t = [s EXCEPT !.halted = TRUE]
    BY <1>3 DEF UnbondAllMature
  <2>2. Always(t) /\ t.hist = s.hist /\ t.last = s.last /\ t.halted
    BY <2>1, HaltKeeps
  <2>3. t.val = s.val
    BY <1>0, <2>1 DEF Store
  <2> QED BY <2>2, <2>3 DEF LaterKeeps, StepKeeps, SetCurrent
<1>4. CASE ~ \E v \in D : s.val[v].status # "Unbonding"
  <2>1. t = [s EXCEPT !.val = x, !.valQueue = q]
    BY <1>0, <1>4 DEF UnbondAllMature, Store
  <2>2. ASSUME NEW v \in Validators
        PROVE  /\ x[v] \in ValidatorRecords /\ x[v].jailed = s.val[v].jailed
               /\ x[v].tokens = s.val[v].tokens /\ x[v].shares = s.val[v].shares
               /\ v \in D => x[v].status = "Unbonded" /\ s.val[v].status = "Unbonding"
               /\ v \notin D => x[v] = s.val[v]
    <3>1. s.val[v] \in ValidatorRecords
      BY <1>0
    <3>2. CASE v \in D
      <4> DEFINE w == [s.val[v] EXCEPT !.status = "Unbonded"]
      <4>1. x[v] = w
        BY <3>2
      <4>2. /\ w \in ValidatorRecords /\ w.jailed = s.val[v].jailed
            /\ w.tokens = s.val[v].tokens /\ w.shares = s.val[v].shares /\ w.status = "Unbonded"
        BY <3>1 DEF ValidatorRecords, Statuses
      <4> HIDE DEF w, x, D
      <4> QED BY <1>4, <3>2, <4>1, <4>2
    <3>3. CASE v \notin D
      <4>1. x[v] = s.val[v]
        BY <3>3
      <4> HIDE DEF x, D
      <4> QED BY <3>1, <3>3, <4>1
    <3> QED BY <3>2, <3>3
  <2>3. x \in [Validators -> ValidatorRecords] /\ q \in SUBSET (Nat \X Nat \X Validators)
    <3>1. x = [v \in Validators |-> x[v]]
      OBVIOUS
    <3>2. q \in SUBSET (Nat \X Nat \X Validators)
      BY <1>0
    <3> HIDE DEF x, q
    <3> QED BY <2>2, <3>1, <3>2
  <2>4. q = s.valQueue \ M
    OBVIOUS
  <2>5. ASSUME NEW k \in M PROVE k[3] \in D
    BY <2>5
  <2>6. ASSUME NEW v \in D PROVE \E k \in M : k[3] = v
    BY <2>6
  <2> HIDE DEF x, q, D, M
  <2>7. t \in Store
    <3>1. x \in ValidatorStates /\ q \in QueuedValidators
      BY <2>3 DEF ValidatorStates, QueuedValidators
    <3> QED BY <1>0, <2>1, <3>1 DEF Store
  <2>8. t.val = x /\ t.valQueue = q
    BY <1>0, <2>1 DEF Store
  <2>9. /\ t.index = s.index /\ t.del = s.del /\ t.ubd = s.ubd /\ t.ubdByVal = s.ubdByVal
        /\ t.ubdQueue = s.ubdQueue /\ t.red = s.red /\ t.redBySrc = s.redBySrc
        /\ t.redByDst = s.redByDst /\ t.bonded = s.bonded /\ t.notBonded = s.notBonded
        /\ t.hist = s.hist /\ t.uncovered = s.uncovered /\ t.halted = s.halted
        /\ t.last = s.last /\ t.total = s.total
    BY <1>0, <2>1 DEF Store
  <2>10. \A v \in Validators :
            /\ Exists(t, v) <=> Exists(s, v)
            /\ t.val[v].jailed = s.val[v].jailed
            /\ t.val[v].status = "Bonded" <=> s.val[v].status = "Bonded"
            /\ t.val[v].tokens = s.val[v].tokens
            /\ t.val[v].shares = s.val[v].shares
            /\ PowerKey(v, t.val[v]) = PowerKey(v, s.val[v])
            /\ ConsensusPower(t.val[v]) = ConsensusPower(s.val[v])
    BY <2>2, <2>8 DEF Exists, PowerKey, ConsensusPower
  <2>11. Always(t)
    <3>1. SharesHeld(t)
      BY <2>9, <2>10 DEF Always, SharesHeld, Delegated
    <3>2. AbsentEmpty(t)
      BY <2>10 DEF Always, AbsentEmpty
    <3>3. KeysExact(t)
      BY <2>9 DEF Always, KeysExact
    <3> QED BY <2>7, <3>1, <3>2, <3>3 DEF Always
  <2>12. ASSUME Running(s, now) PROVE Running(t, now)
    <3>1. Indexed(t)
      <4>1. {v \in Validators : Exists(t, v) /\ ~t.val[v].jailed}
              = {v \in Validators : Exists(s, v) /\ ~s.val[v].jailed}
        BY <2>10
      <4> QED BY <2>9, <2>10, <2>12, <4>1 DEF Indexed, Running
    <3>2. ValidatorsQueued(t)
      <4> DEFINE U == {v \in Validators : s.val[v].status = "Unbonding"}
                 W == {v \in Validators : x[v].status = "Unbonding"}
      <4>1. s.valQueue = {QueueKey(v, s.val[v]) : v \in U}
        BY <2>12 DEF Running, ValidatorsQueued, Exists
      <4>2. {v \in Validators : Exists(t, v) /\ t.val[v].status = "Unbonding"} = W
        BY <2>8 DEF Exists
      <4>3. \A v, w : QueueKey(v, w)[3] = v
        BY DEF QueueKey
      <4>4. \A v \in Validators : v \in W <=> v \in U /\ v \notin D
        BY <2>2
      <4>5. ASSUME NEW k \in q PROVE \E v \in W : k = QueueKey(v, x[v])
        <5>1. PICK v \in U : k = QueueKey(v, s.val[v])
          BY <2>4, <4>1
        <5>2. v \notin D
          <6> SUFFICES ASSUME v \in D PROVE FALSE
            OBVIOUS
          <6>1. PICK j \in M : j[3] = v
            BY <2>6
          <6>2. PICK u \in U : j = QueueKey(u, s.val[u])
            BY <1>1, <4>1
          <6>3. u = v
            BY <4>3, <6>1, <6>2
          <6> QED BY <2>4, <5>1, <6>2, <6>3
        <5>3. x[v] = s.val[v] /\ v \in W
          BY <2>2, <4>4, <5>2
        <5> QED BY <5>1, <5>3
      <4>6. ASSUME NEW v \in W PROVE QueueKey(v, x[v]) \in q
        <5>1. v \in U /\ v \notin D /\ x[v] = s.val[v]
          BY <2>2, <4>4
        <5>2. QueueKey(v, s.val[v]) \in s.valQueue
          BY <4>1, <5>1
        <5>3. QueueKey(v, s.val[v]) \notin M
          BY <2>5, <4>3, <5>1
        <5> QED BY <2>4, <5>1, <5>2, <5>3
      <4>7. q = {QueueKey(v, x[v]) : v \in W}
        BY <4>5, <4>6
      <4> QED BY <2>8, <4>2, <4>7 DEF ValidatorsQueued
    <3>3. EntriesQueued(t, now)
      BY <2>9, <2>12 DEF Running, EntriesQueued, Waits
    <3>4. LastBonded(t)
      BY <2>9, <2>10, <2>12 DEF Running, LastBonded
    <3>5. WithStatus(t, TRUE) = WithStatus(s, TRUE)
      BY <2>10 DEF WithStatus
    <3>6. FewBonded(t)
      BY <2>12, <3>5 DEF Running, FewBonded
    <3> QED BY <3>1, <3>2, <3>3, <3>4, <3>6 DEF Running
  <2>13. BondedTokens(t) = BondedTokens(s) /\ OtherTokens(t) = OtherTokens(s)
    BY <2>10 DEF BondedTokens, OtherTokens
  <2>14. Claims(t) = Claims(s)
    BY <2>9 DEF Claims
  <2>15. PoolsAhead(s, 0, 0) => PoolsAhead(t, 0, 0)
    BY <2>9, <2>13, <2>14 DEF PoolsAhead
  <2>16. SetCurrent(s) => SetCurrent(t)
    BY <2>9, <2>10 DEF SetCurrent
  <2> QED BY <2>9, <2>11, <2>12, <2>15, <2>16 DEF LaterKeeps, StepKeeps
<1> QED BY <1>3, <1>4

\* An entry that is paid is claimed no more.
LEMMA UnpaidPay ==
    ASSUME NEW es \in Seq(Entry), NEW i \in DOMAIN es, NEW fs \in Seq(Entry),
           DOMAIN fs = DOMAIN es, \A j \in DOMAIN es : j # i => fs[j] = es[j], fs[i].paid
    PROVE  Unpaid(fs) = Unpaid(es) - (IF es[i].paid THEN 0 ELSE es[i].balance)
<1> DEFINE f == [j \in DOMAIN es |-> IF es[j].paid THEN 0 ELSE es[j].balance]
           g == [j \in DOMAIN fs |-> IF fs[j].paid THEN 0 ELSE fs[j].balance]
           S == DOMAIN es
<1>1. IsFiniteSet(S)
  <2>1. Len(es) \in Nat /\ S = 1..Len(es)
    OBVIOUS
  <2>2. IsFiniteSet(1..Len(es))
    BY <2>1, FS_Interval
  <2> QED BY <2>1, <2>2
<1>2. \A j \in S : es[j] \in Entry /\ fs[j] \in Entry
  OBVIOUS
<1>3. \A j \in S : es[j].balance \in Nat /\ fs[j].balance \in Nat
  BY <1>2 DEF Entry
<1>4. \A j \in S : f[j] \in Int /\ g[j] \in Int
  BY <1>3
<1>5. \A j \in S \ {i} : f[j] = g[j]
  OBVIOUS
<1>6. g[i] = 0 /\ f[i] = IF es[i].paid THEN 0 ELSE es[i].balance
  OBVIOUS
<1>7. Unpaid(es) = Total(f, S) /\ Unpaid(fs) = Total(g, S) /\ i \in S
  BY DEF Unpaid
<1> HIDE DEF f, g, S
<1>8. Total(g, S) = Total(f, S) + (g[i] - f[i])
  BY <1>1, <1>4, <1>5, <1>7, SumUpdate
<1>9. Total(f, S) \in Int /\ f[i] \in Int
  BY <1>1, <1>4, <1>7, SumInt
<1>10. Total(g, S) = Total(f, S) - f[i]
  BY <1>6, <1>8, <1>9
<1> QED BY <1>6, <1>7, <1>10

LEMMA ListFinite ==
    ASSUME NEW n \in Nat PROVE IsFiniteSet(1..n)
<1>1. 1 \in Int /\ n \in Int
  OBVIOUS
<1> QED BY <1>1, FS_Interval

\* Entries that are all paid, or empty, claim nothing.
LEMMA UnpaidNone ==
    ASSUME NEW es \in Seq(Entry), \A j \in DOMAIN es : es[j].paid \/ es[j].balance = 0
    PROVE  Unpaid(es) = 0
<1> DEFINE f == [j \in DOMAIN es |-> IF es[j].paid THEN 0 ELSE es[j].balance]
           S == DOMAIN es
<1>1. IsFiniteSet(S)
  <2>1. Len(es) \in Nat /\ S = 1..Len(es)
    OBVIOUS
  <2>2. IsFiniteSet(1..Len(es))
    BY <2>1, ListFinite
  <2> QED BY <2>1, <2>2
<1>2. \A j \in S : f[j] = 0
  OBVIOUS
<1>3. Unpaid(es) = Total(f, S)
  BY DEF Unpaid
<1> HIDE DEF f, S
<1> QED BY <1>1, <1>2, <1>3, SumZero

\* A store t in which some entries of an unbonding delegation p of s were paid:
\* no time and no amount has changed, and what was paid is accounted for.
Settled(t, s, p) ==
    /\ OnlyEntries(t, s) /\ t.ubdQueue = s.ubdQueue /\ t.ubdByVal = s.ubdByVal
    /\ t.halted = s.halted
    /\ \A q \in DvPairs : q # p => t.ubd[q] = s.ubd[q]
    /\ DOMAIN t.ubd[p] = DOMAIN s.ubd[p]
    /\ \A j \in DOMAIN s.ubd[p] : /\ t.ubd[p][j].time = s.ubd[p][j].time
                                  /\ t.ubd[p][j].balance = s.ubd[p][j].balance
                                  /\ s.ubd[p][j].paid => t.ubd[p][j].paid
    /\ PoolsAhead(s, 0, 0) => PoolsAhead(t, 0, 0)

Pay(s, d, v, i) ==
    LET e == s.ubd[<<d, v>>][i]
    IN  [s EXCEPT !.notBonded = @ - e.balance,
                  !.bal[d] = @ + e.balance,
                  !.ubd[<<d, v>>][i].paid = TRUE,
                  !.uncovered = IF e.paid THEN @ + e.balance ELSE @,
                  !.paidAgain = @ \/ e.paid]

\* One payment of complete_unbonding.
LEMMA PaySettles ==
    ASSUME NEW s \in Store, NEW d \in Accounts, NEW v \in Validators, NEW p, p = <<d, v>>,
           NEW i \in DOMAIN s.ubd[p], s.ubd[p][i].balance <= s.notBonded,
           NEW t, t = Pay(s, d, v, i)
    PROVE  Settled(t, s, p) /\ t.ubd[p][i].paid
<1> DEFINE es == s.ubd[p]
           e == es[i]
           f == [e EXCEPT !.paid = TRUE]
           fs == [es EXCEPT ![i] = f]
           nb == s.notBonded - e.balance
           bal == [s.bal EXCEPT ![d] = @ + e.balance]
           ubd == [s.ubd EXCEPT ![p] = fs]
           over == IF e.paid THEN s.uncovered + e.balance ELSE s.uncovered
           again == s.paidAgain \/ e.paid
<1>0. /\ p \in DvPairs /\ s.ubd \in [DvPairs -> Seq(Entry)] /\ s.bal \in [Accounts -> Nat]
      /\ s.notBonded \in Nat /\ s.uncovered \in Nat /\ s.bonded \in Nat
  BY StoreFields DEF DvPairs
<1>1. es \in Seq(Entry) /\ e \in Entry
  BY <1>0
<1>2. e.balance \in Nat /\ e.paid \in BOOLEAN /\ e.balance <= s.notBonded
  BY <1>1 DEF Entry
<1>3. f \in Entry /\ f.paid /\ f.time = e.time /\ f.balance = e.balance
  BY <1>1 DEF Entry
<1>4. /\ fs \in Seq(Entry) /\ DOMAIN fs = DOMAIN es /\ fs[i] = f
      /\ \A j \in DOMAIN es : j # i => fs[j] = es[j]
  <2> HIDE DEF f, es
  <2>1. i \in DOMAIN es
    BY DEF es
  <2> QED BY <1>1, <1>3, <2>1
<1>5. nb \in Nat /\ bal \in [Accounts -> Nat] /\ over \in Nat
  BY <1>0, <1>2
<1>6. ubd \in [DvPairs -> Seq(Entry)] /\ ubd[p] = fs /\ \A q \in DvPairs : q # p => ubd[q] = s.ubd[q]
  <2> HIDE DEF fs
  <2> QED BY <1>0, <1>4
<1>7. t = [s EXCEPT !.notBonded = nb, !.bal = bal, !.ubd = ubd, !.uncovered = over,
                    !.paidAgain = again]
  BY <1>0 DEF Pay, Store
<1>8. \A j \in DOMAIN es : /\ fs[j].time = es[j].time /\ fs[j].balance = es[j].balance
                           /\ es[j].paid => fs[j].paid
  <2> HIDE DEF es, f, fs
  <2> QED BY <1>3, <1>4
<1>9. Unpaid(fs) = Unpaid(es) - (IF e.paid THEN 0 ELSE e.balance) /\ Unpaid(es) \in Nat
  <2>1. fs[i].paid /\ i \in DOMAIN es
    BY <1>3, <1>4
  <2> HIDE DEF fs, es, f
  <2> QED BY <1>1, <1>4, <2>1, UnpaidPay, UnpaidNat
<1>10. over = IF e.paid THEN s.uncovered + e.balance ELSE s.uncovered
  OBVIOUS
<1>11. nb = s.notBonded - e.balance
  OBVIOUS
<1>a. again \in BOOLEAN
  OBVIOUS
<1> HIDE DEF nb, bal, ubd, over, again
<1>12. t \in Store
  <2>1. bal \in Balances /\ ubd \in EntryLists
    BY <1>5, <1>6 DEF Balances, EntryLists
  <2> QED BY ONLY s \in Store, <1>5, <1>7, <1>a, <2>1 DEF Store
<1>13. OnlyEntries(t, s) /\ t.ubdQueue = s.ubdQueue /\ t.ubdByVal = s.ubdByVal
       /\ t.halted = s.halted
  BY <1>7, <1>12 DEF Store, OnlyEntries
<1>14. t.ubd = ubd /\ t.notBonded = nb /\ t.uncovered = over /\ t.bonded = s.bonded
  BY <1>7 DEF Store
<1>15. PoolsAhead(s, 0, 0) => PoolsAhead(t, 0, 0)
  <2> SUFFICES ASSUME PoolsAhead(s, 0, 0) PROVE PoolsAhead(t, 0, 0)
    OBVIOUS
  <2> DEFINE O == Total(OtherTokens(s), Validators)
             C == Total(Claims(s), DvPairs)
             D == Total(Claims(t), DvPairs)
             u == Unpaid(es)
             B == Total(BondedTokens(s), Validators)
  <2>1. O \in Nat /\ C \in Nat /\ B \in Nat /\ u \in Nat
    BY <1>9, ClaimsTyped
  <2>2. D = C + (Unpaid(t.ubd[p]) - Unpaid(s.ubd[p]))
    <3>1. \A q \in DvPairs \ {p} : t.ubd[q] = s.ubd[q]
      BY <1>6, <1>14
    <3> HIDE DEF es, fs, e, f
    <3> QED BY <1>0, <1>12, <3>1, ClaimsUpdate
  <2>3. Unpaid(t.ubd[p]) = u - (IF e.paid THEN 0 ELSE e.balance) /\ Unpaid(s.ubd[p]) = u
    BY <1>6, <1>9, <1>14
  <2>4. s.notBonded + s.uncovered = (O + C) + 0 /\ s.bonded = B + 0
    BY DEF PoolsAhead
  <2>5. OtherTokens(t) = OtherTokens(s) /\ BondedTokens(t) = BondedTokens(s)
    BY <1>13, EntriesKeep
  <2>9. t.bonded = Total(BondedTokens(t), Validators) + 0
    BY <1>14, <2>4, <2>5
  <2> HIDE DEF O, C, D, u, B, e, es, fs, f
  <2>6. nb + over = (O + D) + 0
    <3>1. CASE e.paid
      <4>1. Unpaid(t.ubd[p]) = u - 0 /\ over = s.uncovered + e.balance
        BY <1>10, <2>3, <3>1
      <4>2. D = C
        BY <2>1, <2>2, <2>3, <4>1
      <4> QED BY <1>0, <1>2, <1>11, <2>1, <2>4, <4>1, <4>2
    <3>2. CASE ~e.paid
      <4>1. Unpaid(t.ubd[p]) = u - e.balance /\ over = s.uncovered
        BY <1>10, <2>3, <3>2
      <4>2. D = C - e.balance
        BY <1>2, <2>1, <2>2, <2>3, <4>1
      <4>3. nb + over = (s.notBonded + s.uncovered) - e.balance
        BY <1>0, <1>2, <1>11, <4>1
      <4>4. (O + D) + 0 = ((O + C) + 0) - e.balance
        BY <1>2, <2>1, <4>2
      <4> QED BY <2>4, <4>3, <4>4
    <3> QED BY <3>1, <3>2
  <2> QED BY <1>14, <2>5, <2>6, <2>9 DEF PoolsAhead, O, D
<1>16. /\ \A q \in DvPairs : q # p => t.ubd[q] = s.ubd[q]
       /\ DOMAIN t.ubd[p] = DOMAIN s.ubd[p]
       /\ \A j \in DOMAIN s.ubd[p] : /\ t.ubd[p][j].time = s.ubd[p][j].time
                                     /\ t.ubd[p][j].balance = s.ubd[p][j].balance
                                     /\ s.ubd[p][j].paid => t.ubd[p][j].paid
       /\ t.ubd[p][i].paid
  <2>1. t.ubd[p] = fs /\ \A q \in DvPairs : q # p => t.ubd[q] = s.ubd[q]
    BY <1>6, <1>14
  <2>2. fs[i].paid
    BY <1>3, <1>4
  <2> HIDE DEF fs
  <2> QED BY <1>4, <1>8, <2>1, <2>2
<1> QED BY <1>13, <1>15, <1>16 DEF Settled

\* Nothing has been paid yet.
LEMMA SettledSame ==
    ASSUME NEW s \in Store, NEW p PROVE Settled(s, s, p)
  BY DEF Settled, OnlyEntries

\* One payment after others.
LEMMA SettledMore ==
    ASSUME NEW s, NEW t, NEW u, NEW p, Settled(t, s, p), Settled(u, t, p)
    PROVE  Settled(u, s, p)
<1>1. OnlyEntries(u, s)
  BY DEF Settled, OnlyEntries
<1>2. /\ \A q \in DvPairs : q # p => u.ubd[q] = s.ubd[q]
      /\ DOMAIN u.ubd[p] = DOMAIN s.ubd[p]
  BY DEF Settled
<1>3. \A j \in DOMAIN s.ubd[p] : /\ u.ubd[p][j].time = s.ubd[p][j].time
                                 /\ u.ubd[p][j].balance = s.ubd[p][j].balance
                                 /\ s.ubd[p][j].paid => u.ubd[p][j].paid
  <2>1. DOMAIN t.ubd[p] = DOMAIN s.ubd[p]
    BY DEF Settled
  <2> QED BY <2>1 DEF Settled
<1>4. /\ u.ubdQueue = s.ubdQueue /\ u.ubdByVal = s.ubdByVal /\ u.halted = s.halted
      /\ PoolsAhead(s, 0, 0) => PoolsAhead(u, 0, 0)
  BY DEF Settled
<1> QED BY <1>1, <1>2, <1>3, <1>4 DEF Settled

\* Paying entries keeps the indexes and the queue: the entries are still there.
LEMMA SettledKeeps ==
    ASSUME NEW s, Always(s), NEW t, NEW p \in DvPairs, Settled(t, s, p), NEW now
    PROVE  LaterKeeps(t, s, now)
<1>0. /\ OnlyEntries(t, s) /\ t \in Store /\ s \in Store
      /\ s.ubd \in [DvPairs -> Seq(Entry)] /\ t.ubd \in [DvPairs -> Seq(Entry)]
  BY StoreFields DEF Settled, OnlyEntries, Always
<1>1. ASSUME NEW q \in DvPairs
      PROVE  /\ DOMAIN t.ubd[q] = DOMAIN s.ubd[q]
             /\ t.ubd[q] # <<>> <=> s.ubd[q] # <<>>
             /\ \A i \in DOMAIN s.ubd[q] : t.ubd[q][i].time = s.ubd[q][i].time
  <2>1. DOMAIN t.ubd[q] = DOMAIN s.ubd[q]
    BY DEF Settled
  <2>2. \A i \in DOMAIN s.ubd[q] : t.ubd[q][i].time = s.ubd[q][i].time
    BY DEF Settled
  <2>3. ASSUME NEW es \in Seq(Entry) PROVE es = <<>> <=> DOMAIN es = {}
    OBVIOUS
  <2>4. t.ubd[q] \in Seq(Entry) /\ s.ubd[q] \in Seq(Entry)
    BY <1>0
  <2> QED BY <2>1, <2>2, <2>3, <2>4
<1>2. KeysExact(t)
  <2>1. {q \in DvPairs : t.ubd[q] # <<>>} = {q \in DvPairs : s.ubd[q] # <<>>}
    BY <1>1
  <2> QED BY <1>0, <2>1 DEF Always, KeysExact, Settled, OnlyEntries
<1>3. Always(t)
  BY <1>0, <1>2, EntriesKeep DEF Always
<1>4. EntriesQueued(s, now) => EntriesQueued(t, now)
  BY <1>1 DEF EntriesQueued, Waits, Settled
<1>5. Running(s, now) => Running(t, now)
  BY <1>0, <1>4, EntriesKeep DEF Running
<1>6. SetCurrent(s) => SetCurrent(t)
  BY <1>0 DEF SetCurrent, OnlyEntries
<1> QED BY <1>0, <1>3, <1>5, <1>6 DEF LaterKeeps, StepKeeps, OnlyEntries, Settled

\* remove_unbonding_delegation, when its entries claim nothing.
LEMMA RemoveUbdKeeps ==
    ASSUME NEW s, Always(s), NEW d \in Accounts, NEW v \in Validators,
           Unpaid(s.ubd[<<d, v>>]) = 0, NEW t, t = RemoveUbd(s, d, v), NEW now
    PROVE  LaterKeeps(t, s, now) /\ t.halted = s.halted
<1> DEFINE p == <<d, v>>
           k == UbdByValKey(d, v)
<1>0. /\ s \in Store /\ p \in DvPairs /\ s.ubd \in [DvPairs -> Seq(Entry)]
      /\ s.ubdByVal \subseteq Validators \X Accounts
  BY StoreFields DEF Always, DvPairs
<1>1. t = [s EXCEPT !.ubd = [s.ubd EXCEPT ![p] = <<>>], !.ubdByVal = s.ubdByVal \ {k}]
  BY <1>0 DEF RemoveUbd, Store
<1>2. /\ [s.ubd EXCEPT ![p] = <<>>] \in [DvPairs -> Seq(Entry)]
      /\ s.ubdByVal \ {k} \in SUBSET (Validators \X Accounts)
  BY <1>0
<1>3. \A q \in DvPairs : UbdByValKey(q[1], q[2]) = k => q = p
  BY DEF UbdByValKey, DvPairs
<1> HIDE DEF k
<1>4. t \in Store
  <2>1. /\ [s.ubd EXCEPT ![p] = <<>>] \in EntryLists
        /\ s.ubdByVal \ {k} \in PairKeys
    BY <1>2 DEF EntryLists, PairKeys
  <2> QED BY <1>0, <1>1, <2>1 DEF Store
<1>5. /\ OnlyEntries(t, s) /\ t.ubdQueue = s.ubdQueue /\ t.halted = s.halted
      /\ t.bonded = s.bonded /\ t.notBonded = s.notBonded /\ t.uncovered = s.uncovered
  BY <1>0, <1>1, <1>4 DEF Store, OnlyEntries
<1>6. t.ubd = [s.ubd EXCEPT ![p] = <<>>] /\ t.ubdByVal = s.ubdByVal \ {k}
  BY <1>0, <1>1 DEF Store
<1>7. t.ubd[p] = <<>> /\ \A q \in DvPairs \ {p} : t.ubd[q] = s.ubd[q]
  BY <1>0, <1>6
<1>8. KeysExact(t)
  <2>1. /\ s.ubdByVal = {UbdByValKey(q[1], q[2]) : q \in {x \in DvPairs : s.ubd[x] # <<>>}}
        /\ s.redBySrc = {RedBySrcKey(r) : r \in {x \in DvvTriplets : s.red[x] # <<>>}}
        /\ s.redByDst = {RedByDstKey(r) : r \in {x \in DvvTriplets : s.red[x] # <<>>}}
    BY DEF Always, KeysExact
  <2>2. \A q \in DvPairs : t.ubd[q] # <<>> <=> (q # p /\ s.ubd[q] # <<>>)
    BY <1>7
  <2>3. k = UbdByValKey(p[1], p[2])
    BY DEF k
  <2>4. t.ubdByVal = {UbdByValKey(q[1], q[2]) : q \in {x \in DvPairs : t.ubd[x] # <<>>}}
    <3>1. ASSUME NEW y \in t.ubdByVal
          PROVE  \E q \in DvPairs : t.ubd[q] # <<>> /\ y = UbdByValKey(q[1], q[2])
      <4>1. y \in s.ubdByVal /\ y # k
        BY <1>6
      <4>2. PICK q \in DvPairs : s.ubd[q] # <<>> /\ y = UbdByValKey(q[1], q[2])
        BY <2>1, <4>1
      <4> QED BY <2>2, <2>3, <4>1, <4>2
    <3>2. ASSUME NEW q \in DvPairs, t.ubd[q] # <<>>
          PROVE  UbdByValKey(q[1], q[2]) \in t.ubdByVal
      <4>1. q # p /\ s.ubd[q] # <<>>
        BY <2>2, <3>2
      <4> QED BY <1>3, <1>6, <2>1, <4>1
    <3> QED BY <3>1, <3>2
  <2> QED BY <1>5, <2>1, <2>4 DEF KeysExact, OnlyEntries
<1>9. Always(t)
  BY <1>4, <1>5, <1>8, EntriesKeep DEF Always
<1>10. EntriesQueued(s, now) => EntriesQueued(t, now)
  <2> SUFFICES ASSUME EntriesQueued(s, now), NEW q \in DvPairs, NEW i \in DOMAIN t.ubd[q],
                      Slot(t.ubd[q][i].time) > Slot(now)
               PROVE  Waits(t, q, Slot(t.ubd[q][i].time))
    BY DEF EntriesQueued
  <2>1. q # p
    BY <1>7
  <2>2. t.ubd[q] = s.ubd[q]
    BY <1>7, <2>1
  <2> QED BY <1>5, <2>2 DEF EntriesQueued, Waits
<1>11. Running(s, now) => Running(t, now)
  BY <1>5, <1>10, EntriesKeep DEF Running
<1>12. Total(Claims(t), DvPairs) = Total(Claims(s), DvPairs)
  <2>1. Total(Claims(t), DvPairs)
          = Total(Claims(s), DvPairs) + (Unpaid(t.ubd[p]) - Unpaid(s.ubd[p]))
    BY <1>0, <1>4, <1>7, ClaimsUpdate
  <2>2. Unpaid(t.ubd[p]) = 0
    <3>1. <<>> \in Seq(Entry) /\ DOMAIN <<>> = {}
      OBVIOUS
    <3>2. Unpaid(<<>>) = 0
      BY <3>1, UnpaidNone
    <3> QED BY <1>7, <3>2
  <2>3. Total(Claims(s), DvPairs) \in Nat
    BY <1>0, ClaimsTyped
  <2> QED BY <2>1, <2>2, <2>3
<1>13. PoolsAhead(s, 0, 0) => PoolsAhead(t, 0, 0)
  BY <1>5, <1>12, EntriesKeep DEF PoolsAhead
<1>14. SetCurrent(s) => SetCurrent(t)
  BY <1>5 DEF SetCurrent, OnlyEntries
<1> QED BY <1>5, <1>9, <1>11, <1>13, <1>14 DEF LaterKeeps, StepKeeps, OnlyEntries

\* The accumulator of the loop over the entries of an unbonding delegation.
Payments(s, p) == {a \in [s : Store, err : BOOLEAN] : Settled(a.s, s, p)}

\* One step of the loop: what is mature was paid, or is nothing, or the pool is
\* too small and the loop has ended.
LEMMA PayEntryKeeps ==
    ASSUME NEW s \in Store, NEW d \in Accounts, NEW v \in Validators, NEW p, p = <<d, v>>,
           NEW now \in Nat, NEW a \in Payments(s, p), NEW i \in DOMAIN s.ubd[p],
           NEW b, b = PayEntry(a, d, v, i, now)
    PROVE  /\ b \in Payments(s, p) /\ Settled(b.s, a.s, p)
           /\ ~b.err => /\ ~a.err
                        /\ s.ubd[p][i].time <= now =>
                              b.s.ubd[p][i].paid \/ b.s.ubd[p][i].balance = 0
<1> DEFINE x == a.s
           e == x.ubd[p][i]
           y == Pay(x, d, v, i)
<1>0. /\ a \in [s : Store, err : BOOLEAN] /\ x \in Store /\ a.err \in BOOLEAN /\ Settled(x, s, p)
      /\ p \in DvPairs
  BY DEF Payments, DvPairs
<1>1. DOMAIN x.ubd[p] = DOMAIN s.ubd[p] /\ e.time = s.ubd[p][i].time
  BY <1>0 DEF Settled
<1>2. x.ubd \in [DvPairs -> Seq(Entry)] /\ x.notBonded \in Nat
  BY <1>0, StoreFields
<1>3. e \in Entry
  <2>1. x.ubd[p] \in Seq(Entry) /\ i \in DOMAIN x.ubd[p]
    BY <1>0, <1>1, <1>2
  <2> QED BY <2>1
<1>4. e.time \in Nat /\ e.balance \in Nat /\ Horizon \in Nat
  <2>1. x.unbondingTime \in UnbondingTimes
    BY <1>0, StoreFields
  <2>2. e.time \in 0..Horizon /\ e.balance \in Nat
    BY <1>3 DEF Entry
  <2>3. Horizon \in Nat
    BY <2>1, LongestTime, StakingAssumption DEF Horizon
  <2> QED BY <2>2, <2>3
<1>5. Settled(x, x, p)
  BY <1>0, SettledSame
<1>6. b = IF a.err \/ e.time > now \/ e.balance = 0 THEN a
          ELSE IF x.notBonded < e.balance THEN [a EXCEPT !.err = TRUE]
          ELSE [a EXCEPT !.s = y]
  BY DEF PayEntry, Pay
<1> HIDE DEF y, e
<1>7. CASE a.err \/ e.time > now \/ e.balance = 0
  <2>1. b = a
    BY <1>6, <1>7
  <2> QED BY <1>0, <1>1, <1>4, <1>5, <1>7, <2>1 DEF e
<1>8. CASE ~(a.err \/ e.time > now \/ e.balance = 0) /\ x.notBonded < e.balance
  <2>1. b = [a EXCEPT !.err = TRUE]
    BY <1>6, <1>8
  <2>2. b \in [s : Store, err : BOOLEAN] /\ b.s = x /\ b.err
    BY <1>0, <2>1
  <2> QED BY <1>0, <1>5, <2>2 DEF Payments
<1>9. CASE ~(a.err \/ e.time > now \/ e.balance = 0) /\ ~(x.notBonded < e.balance)
  <2>1. b = [a EXCEPT !.s = y]
    BY <1>6, <1>9
  <2>2. Settled(y, x, p) /\ y.ubd[p][i].paid
    <3>1. e.balance <= x.notBonded
      BY <1>2, <1>4, <1>9
    <3>2. y = Pay(x, d, v, i)
      BY DEF y
    <3> QED BY <1>0, <1>1, <3>1, <3>2, PaySettles DEF e
  <2>3. y \in Store
    BY <2>2 DEF Settled, OnlyEntries
  <2>4. b \in [s : Store, err : BOOLEAN] /\ b.s = y /\ b.err = a.err
    BY <1>0, <2>1, <2>3
  <2>5. Settled(y, s, p)
    BY <1>0, <2>2, SettledMore
  <2> QED BY <1>9, <2>2, <2>4, <2>5 DEF Payments
<1> QED BY <1>7, <1>8, <1>9

\* complete_unbonding: it pays what is mature, and the delegation goes only when
\* nothing of it is claimed any more.
LEMMA CompleteUnbondingKeeps ==
    ASSUME NEW s, Always(s), NEW d \in Accounts, NEW v \in Validators, NEW now \in Nat,
           NEW t, t = CompleteUnbonding(s, d, v, now)
    PROVE  LaterKeeps(t, s, now)
<1> DEFINE p == <<d, v>>
           n == Len(s.ubd[p])
           base == [s |-> s, err |-> FALSE]
           V == Payments(s, p)
           step == [z \in (1..n) \X V |-> PayEntry(z[2], d, v, z[1], now)]
           acc == CHOOSE g : g = [i \in 0..n |-> IF i = 0 THEN base
                                                 ELSE PayEntry(g[i - 1], d, v, i, now)]
<1>1. t = IF ~acc[n].err /\ Completed(s, d, v, now) THEN RemoveUbd(acc[n].s, d, v) ELSE acc[n].s
  BY DEF CompleteUnbonding
<1>2. /\ s \in Store /\ p \in DvPairs /\ s.ubd[p] \in Seq(Entry) /\ n \in Nat
      /\ DOMAIN s.ubd[p] = 1..n
  <2>1. s \in Store /\ p \in DvPairs /\ s.ubd \in [DvPairs -> Seq(Entry)]
    BY StoreFields DEF Always, DvPairs
  <2>2. s.ubd[p] \in Seq(Entry)
    BY <2>1
  <2> QED BY <2>1, <2>2
<1>3. base \in V
  BY <1>2, SettledSame DEF Payments
<1>4. ASSUME NEW i \in 1..n, NEW a \in V
      PROVE  LET b == PayEntry(a, d, v, i, now)
             IN  /\ b \in V /\ Settled(b.s, a.s, p)
                 /\ ~b.err => /\ ~a.err
                              /\ s.ubd[p][i].time <= now =>
                                    b.s.ubd[p][i].paid \/ b.s.ubd[p][i].balance = 0
  <2> DEFINE b == PayEntry(a, d, v, i, now)
  <2>1. b = PayEntry(a, d, v, i, now) /\ p = <<d, v>>
    OBVIOUS
  <2>2. i \in DOMAIN s.ubd[p]
    BY <1>2
  <2>4. s \in Store /\ a \in Payments(s, p) /\ V = Payments(s, p)
    BY <1>2
  <2> HIDE DEF b, p, n, V
  <2>3. /\ b \in V /\ Settled(b.s, a.s, p)
        /\ ~b.err => /\ ~a.err
                     /\ s.ubd[p][i].time <= now =>
                           b.s.ubd[p][i].paid \/ b.s.ubd[p][i].balance = 0
    BY ONLY now \in Nat, d \in Accounts, v \in Validators, <2>1, <2>2, <2>4, PayEntryKeeps
  <2> QED BY <2>3 DEF b
<1>5. \E g : g = [i \in 0..n |-> IF i = 0 THEN base ELSE PayEntry(g[i - 1], d, v, i, now)]
  <2>1. \A i \in 1..n, a \in V : step[<<i, a>>] = PayEntry(a, d, v, i, now)
    OBVIOUS
  <2>2. step \in [(1..n) \X V -> V]
    <3>1. \A z \in (1..n) \X V : PayEntry(z[2], d, v, z[1], now) \in V
      BY <1>4
    <3> HIDE DEF V, n
    <3> QED BY <3>1
  <2> HIDE DEF step, V, base, n, p
  <2>3. PICK f : IsLoop(f, n, V, base, step)
    <3>1. n \in Nat /\ base \in V
      BY <1>2, <1>3
    <3> QED BY <2>2, <3>1, LoopExists
  <2>4. /\ f \in [0..n -> V] /\ f[0] = base
        /\ \A i \in 1..n : f[i] = step[<<i, f[i - 1]>>]
    BY <2>3 DEF IsLoop
  <2>5. ASSUME NEW i \in 0..n
        PROVE  f[i] = IF i = 0 THEN base ELSE PayEntry(f[i - 1], d, v, i, now)
    <3>1. CASE i = 0
      BY <2>4, <3>1
    <3>2. CASE i # 0
      <4>1. i \in 1..n /\ i - 1 \in 0..n
        BY <1>2, <3>2
      <4>2. f[i - 1] \in V
        BY <2>4, <4>1
      <4> QED BY <2>1, <2>4, <3>2, <4>1, <4>2
    <3> QED BY <3>1, <3>2
  <2>6. f = [i \in 0..n |-> IF i = 0 THEN base ELSE PayEntry(f[i - 1], d, v, i, now)]
    BY <2>4, <2>5
  <2> QED BY <2>6
<1>6. acc = [i \in 0..n |-> IF i = 0 THEN base ELSE PayEntry(acc[i - 1], d, v, i, now)]
  BY <1>5
<1>7. base.s = s /\ ~base.err
  OBVIOUS
<1> HIDE DEF acc, base, V, n, p, step
<1> DEFINE G == {i \in 0..n : /\ acc[i] \in V
                              /\ ~acc[i].err => \A j \in 1..i : s.ubd[p][j].time <= now =>
                                    acc[i].s.ubd[p][j].paid \/ acc[i].s.ubd[p][j].balance = 0}
<1>8. 0 \in G
  <2>1. 0 \in 0..n /\ acc[0] = base
    BY <1>2, <1>6
  <2> QED BY <1>3, <2>1
<1>9. ASSUME NEW i \in 1..n, i - 1 \in G PROVE i \in G
  <2> DEFINE a == acc[i - 1]
             b == acc[i]
  <2>1. i \in 0..n /\ i # 0
    BY <1>2
  <2>2. b = PayEntry(a, d, v, i, now)
    BY <1>6, <2>1
  <2>3. a \in V /\ (~a.err => \A j \in 1..(i - 1) : s.ubd[p][j].time <= now =>
                                  a.s.ubd[p][j].paid \/ a.s.ubd[p][j].balance = 0)
    BY <1>9
  <2> HIDE DEF a, b, G
  <2>4. /\ b \in V /\ Settled(b.s, a.s, p)
        /\ ~b.err => /\ ~a.err
                     /\ s.ubd[p][i].time <= now =>
                           b.s.ubd[p][i].paid \/ b.s.ubd[p][i].balance = 0
    BY <1>4, <2>2, <2>3
  <2>5. DOMAIN a.s.ubd[p] = 1..n
    BY <1>2, <2>3 DEF V, Payments, Settled
  <2>6. ASSUME ~b.err, NEW j \in 1..i, s.ubd[p][j].time <= now
        PROVE  b.s.ubd[p][j].paid \/ b.s.ubd[p][j].balance = 0
    <3>1. CASE j = i
      BY <2>4, <2>6, <3>1
    <3>2. CASE j # i
      <4>1. j \in 1..(i - 1) /\ j \in 1..n
        BY <1>2, <3>2
      <4>2. a.s.ubd[p][j].paid \/ a.s.ubd[p][j].balance = 0
        BY <2>3, <2>4, <2>6, <4>1
      <4>3. /\ b.s.ubd[p][j].balance = a.s.ubd[p][j].balance
            /\ a.s.ubd[p][j].paid => b.s.ubd[p][j].paid
        BY <2>4, <2>5, <4>1 DEF Settled
      <4> QED BY <4>2, <4>3
    <3> QED BY <3>1, <3>2
  <2> QED BY <2>1, <2>4, <2>6 DEF G, b
<1>10. n \in G
  <2>1. \A i \in 0..n : i \in G
    <3> HIDE DEF G
    <3> QED BY <1>2, <1>8, <1>9, LoopInduction
  <2>2. n \in 0..n
    BY <1>2
  <2> QED BY <2>1, <2>2
<1> DEFINE z == acc[n]
<1>11. /\ Settled(z.s, s, p)
       /\ ~z.err => \A j \in 1..n : s.ubd[p][j].time <= now =>
                       z.s.ubd[p][j].paid \/ z.s.ubd[p][j].balance = 0
  BY <1>10 DEF V, Payments
<1>12. LaterKeeps(z.s, s, now)
  BY <1>2, <1>11, SettledKeeps
<1> HIDE DEF z, G
<1>13. CASE ~z.err /\ Completed(s, d, v, now)
  <2>1. t = RemoveUbd(z.s, d, v)
    BY <1>1, <1>13 DEF z
  <2>2. \A j \in 1..n : s.ubd[p][j].time <= now
    BY <1>2, <1>13 DEF Completed, p
  <2>3. Always(z.s) /\ DOMAIN z.s.ubd[p] = 1..n
    BY <1>2, <1>11, <1>12 DEF LaterKeeps, StepKeeps, Settled
  <2>4. z.s.ubd[p] \in Seq(Entry)
    BY <1>2, <2>3, StoreFields DEF Always
  <2>5. Unpaid(z.s.ubd[p]) = 0
    BY <1>11, <1>13, <2>2, <2>3, <2>4, UnpaidNone
  <2>6. LaterKeeps(t, z.s, now)
    BY <2>1, <2>3, <2>5, RemoveUbdKeeps DEF p
  <2> QED BY <1>12, <2>6 DEF LaterKeeps, StepKeeps
<1>14. CASE ~(~z.err /\ Completed(s, d, v, now))
  <2>1. t = z.s
    BY <1>1, <1>14 DEF z
  <2> QED BY <1>12, <2>1
<1> QED BY <1>13, <1>14

(***************************************************************************)
(* Completing what is mature.                                              *)
(***************************************************************************)

\* The concatenation of the slots of a queue has what the slots have.
LEMMA FlattenTyped ==
    ASSUME NEW A, NEW ss \in Seq(Seq(A)), ss # <<>>
    PROVE  FlattenSeq(ss) \in Seq(A)
<1> DEFINE n == Len(ss)
           V == Seq(A)
           step == [z \in (1..n) \X V |-> z[2] \o ss[z[1]]]
           fl == CHOOSE g : g = [i \in 1..n |-> IF i = 1 THEN ss[i] ELSE g[i - 1] \o ss[i]]
<1>1. n \in Nat /\ n # 0 /\ \A i \in 1..n : ss[i] \in V
  OBVIOUS
<1>2. FlattenSeq(ss) = fl[n]
  BY <1>1 DEF FlattenSeq
<1>3. <<>> \in V /\ \A x \in V : <<>> \o x = x
  OBVIOUS
<1>4. \A x \in V : \A i \in 1..n : x \o ss[i] \in V
  BY <1>1
<1>5. step \in [(1..n) \X V -> V]
  <2> HIDE DEF V, n
  <2> QED BY <1>4
<1>6. \A i \in 1..n, x \in V : step[<<i, x>>] = x \o ss[i]
  OBVIOUS
<1> HIDE DEF step, V, n
<1>7. \E g : g = [i \in 1..n |-> IF i = 1 THEN ss[i] ELSE g[i - 1] \o ss[i]]
  <2>1. PICK f : IsLoop(f, n, V, <<>>, step)
    BY <1>1, <1>3, <1>5, LoopExists
  <2>2. /\ f \in [0..n -> V] /\ f[0] = <<>>
        /\ \A i \in 1..n : f[i] = step[<<i, f[i - 1]>>]
    BY <2>1 DEF IsLoop
  <2> DEFINE h == [i \in 1..n |-> f[i]]
  <2>3. ASSUME NEW i \in 1..n PROVE h[i] = IF i = 1 THEN ss[i] ELSE h[i - 1] \o ss[i]
    <3>1. i \in 0..n /\ i - 1 \in 0..n
      BY <1>1
    <3>2. f[i - 1] \in V
      BY <2>2, <3>1
    <3>3. f[i] = f[i - 1] \o ss[i]
      BY <1>6, <2>2, <3>2
    <3>4. CASE i = 1
      <4>1. f[i - 1] = <<>>
        BY <2>2, <3>4
      <4> QED BY <1>1, <1>3, <3>3, <3>4, <4>1
    <3>5. CASE i # 1
      <4>1. i - 1 \in 1..n
        BY <1>1, <3>5
      <4> QED BY <3>3, <3>5, <4>1
    <3> QED BY <3>4, <3>5
  <2>4. h = [i \in 1..n |-> IF i = 1 THEN ss[i] ELSE h[i - 1] \o ss[i]]
    BY <2>3
  <2> QED BY <2>4
<1>8. fl = [i \in 1..n |-> IF i = 1 THEN ss[i] ELSE fl[i - 1] \o ss[i]]
  BY <1>7
<1> HIDE DEF fl
<1> DEFINE G == {i \in 0..n : i = 0 \/ fl[i] \in V}
<1>9. 0 \in G
  BY <1>1
<1>10. ASSUME NEW i \in 1..n, i - 1 \in G PROVE i \in G
  <2>1. fl[i] = IF i = 1 THEN ss[i] ELSE fl[i - 1] \o ss[i]
    BY <1>8
  <2>2. CASE i = 1
    BY <1>1, <2>1, <2>2
  <2>3. CASE i # 1
    <3>1. i - 1 # 0
      BY <1>1, <2>3
    <3>2. fl[i - 1] \in V
      BY <1>10, <3>1
    <3>3. fl[i] \in V
      BY <1>4, <2>1, <2>3, <3>2
    <3>4. i \in 0..n
      BY <1>1
    <3> QED BY <3>3, <3>4
  <2> QED BY <2>2, <2>3
<1>11. \A i \in 0..n : i \in G
  <2> HIDE DEF G
  <2> QED BY <1>1, <1>9, <1>10, LoopInduction
<1>12. fl[n] \in V
  BY <1>1, <1>11
<1> QED BY <1>2, <1>12 DEF V

\* dequeue_all_mature_ubd_queue: pairs of a delegator and a validator.
LEMMA MatureTyped ==
    ASSUME NEW s \in Store, NEW now \in 0..MaxTime
    PROVE  MatureUnbonds(s, now) \in Seq(DvPairs)
<1> DEFINE k == Slot(now)
           ss == [i \in 1..(k + 1) |-> s.ubdQueue[i - 1]]
<1>1. s.ubdQueue \in [Slots -> Seq(DvPairs)] /\ s.unbondingTime \in UnbondingTimes
  BY StoreFields
<1>2. MaxTime \in Nat /\ now \in Nat
  <2>1. MaxTime \in Nat
    BY StakingAssumption
  <2> QED BY <2>1
<1>3. k \in Nat /\ k \in Slots
  BY <1>1, <1>2, SlotFacts, SlotInSlots
<1>4. Horizon \in Nat /\ Slots = 0..Slot(Horizon) /\ Slot(Horizon) \in Nat
  <2>1. Horizon \in Nat
    BY <1>1, LongestTime, StakingAssumption DEF Horizon
  <2>2. Slots = 0..Slot(Horizon)
    BY DEF Horizon, Slots
  <2> QED BY <2>1, <2>2, SlotFacts
<1> HIDE DEF k
<1>5. \A i \in 1..(k + 1) : i - 1 \in Slots
  BY <1>3, <1>4
<1>6. ss \in Seq(Seq(DvPairs))
  BY <1>1, <1>3, <1>5
<1>7. ss # <<>>
  <2>1. DOMAIN ss = 1..(k + 1)
    OBVIOUS
  <2>2. 1 \in 1..(k + 1)
    BY <1>3
  <2>3. DOMAIN <<>> = {}
    OBVIOUS
  <2> HIDE DEF ss
  <2> QED BY <2>1, <2>2, <2>3
<1>8. MatureUnbonds(s, now) = FlattenSeq(ss)
  BY DEF MatureUnbonds, k
<1> HIDE DEF ss
<1> QED BY <1>6, <1>7, <1>8, FlattenTyped

\* What is dequeued was not queued for later: every entry of a later slot still
\* waits.
LEMMA DequeueKeeps ==
    ASSUME NEW s, Always(s), NEW now \in Nat, NEW t, t = DequeuedUnbonds(s, now)
    PROVE  LaterKeeps(t, s, now)
<1> DEFINE q == [i \in Slots |-> IF i <= Slot(now) THEN <<>> ELSE s.ubdQueue[i]]
<1>0. s \in Store /\ s.ubdQueue \in [Slots -> Seq(DvPairs)] /\ s.ubd \in [DvPairs -> Seq(Entry)]
      /\ s.unbondingTime \in UnbondingTimes
  BY StoreFields DEF Always
<1>1. t = [s EXCEPT !.ubdQueue = q]
  BY DEF DequeuedUnbonds
<1>2. q \in [Slots -> Seq(DvPairs)]
  BY <1>0
<1>3. \A i \in Slots : ~(i <= Slot(now)) => q[i] = s.ubdQueue[i]
  OBVIOUS
<1> HIDE DEF q
<1>4. t \in Store
  <2>1. q \in QueuedPairs
    BY <1>2 DEF QueuedPairs
  <2> QED BY <1>0, <1>1, <2>1 DEF Store
<1>5. /\ OnlyEntries(t, s) /\ t.ubd = s.ubd /\ t.halted = s.halted /\ t.ubdByVal = s.ubdByVal
      /\ t.bonded = s.bonded /\ t.notBonded = s.notBonded /\ t.uncovered = s.uncovered
      /\ t.ubdQueue = q
  BY <1>0, <1>1, <1>4 DEF Store, OnlyEntries
<1>6. KeysExact(t)
  BY <1>5 DEF Always, KeysExact, OnlyEntries
<1>7. Always(t)
  BY <1>4, <1>5, <1>6, EntriesKeep DEF Always
<1>8. EntriesQueued(s, now) => EntriesQueued(t, now)
  <2> SUFFICES ASSUME EntriesQueued(s, now), NEW p \in DvPairs, NEW i \in DOMAIN t.ubd[p],
                      Slot(t.ubd[p][i].time) > Slot(now)
               PROVE  Waits(t, p, Slot(t.ubd[p][i].time))
    BY DEF EntriesQueued
  <2> DEFINE k == Slot(t.ubd[p][i].time)
  <2>1. Waits(s, p, k)
    BY <1>5 DEF EntriesQueued
  <2>2. s.ubd[p] \in Seq(Entry) /\ i \in DOMAIN s.ubd[p]
    BY <1>0, <1>5
  <2>3. s.ubd[p][i] \in Entry
    BY <2>2
  <2>4. t.ubd[p][i].time \in 0..Horizon
    BY <1>5, <2>3 DEF Entry
  <2>5. k \in Slots /\ k \in Nat /\ Slot(now) \in Nat
    BY <1>0, <2>4, HorizonSlots, SlotFacts
  <2>6. ~(k <= Slot(now))
    BY <2>5
  <2> HIDE DEF k
  <2>7. t.ubdQueue[k] = s.ubdQueue[k]
    BY <1>3, <1>5, <2>5, <2>6
  <2>8. Waits(t, p, k)
    BY <2>1, <2>7 DEF Waits
  <2> QED BY <2>8 DEF k
<1>9. Running(s, now) => Running(t, now)
  BY <1>5, <1>8, EntriesKeep DEF Running
<1>10. PoolsAhead(s, 0, 0) => PoolsAhead(t, 0, 0)
  BY <1>5, EntriesKeep DEF PoolsAhead, Claims
<1>11. SetCurrent(s) => SetCurrent(t)
  BY <1>5 DEF SetCurrent, OnlyEntries
<1> QED BY <1>5, <1>7, <1>9, <1>10, <1>11 DEF LaterKeeps, StepKeeps, OnlyEntries

\* What two steps of a block keep, both of them keep.
LEMMA LaterMore ==
    ASSUME NEW s, NEW t, NEW u, NEW now, LaterKeeps(t, s, now), LaterKeeps(u, t, now)
    PROVE  LaterKeeps(u, s, now)
  BY DEF LaterKeeps, StepKeeps

\* The loop of the end blocker over the unbonding delegations that it dequeued.
LEMMA CompleteUnbondsKeeps ==
    ASSUME NEW s, Always(s), NEW now \in 0..MaxTime, NEW t, t = CompleteUnbonds(s, now)
    PROVE  LaterKeeps(t, s, now)
<1> DEFINE mature == MatureUnbonds(s, now)
           n == Len(mature)
           base == DequeuedUnbonds(s, now)
           V == {u \in Store : LaterKeeps(u, s, now)}
           step == [z \in (1..n) \X V |->
                       CompleteUnbonding(z[2], mature[z[1]][1], mature[z[1]][2], now)]
           acc == CHOOSE g : g = [i \in 0..n |-> IF i = 0 THEN base
                      ELSE CompleteUnbonding(g[i - 1], mature[i][1], mature[i][2], now)]
<1>1. t = acc[n]
  BY DEF CompleteUnbonds
<1>2. now \in Nat
  <2>1. MaxTime \in Nat
    BY StakingAssumption
  <2> QED BY <2>1
<1>3. mature \in Seq(DvPairs)
  <2>1. s \in Store
    BY DEF Always
  <2> HIDE DEF mature
  <2> QED BY <2>1, MatureTyped DEF mature
<1> HIDE DEF mature
<1>4. n \in Nat /\ \A i \in 1..n : mature[i] \in DvPairs
  BY <1>3
<1>5. \A i \in 1..n : mature[i][1] \in Accounts /\ mature[i][2] \in Validators
  BY <1>4 DEF DvPairs
<1>6. \A u : LaterKeeps(u, s, now) => u \in Store /\ Always(u)
  BY DEF LaterKeeps, StepKeeps, Always
<1>7. base \in V
  <2>1. base = DequeuedUnbonds(s, now)
    OBVIOUS
  <2> HIDE DEF base
  <2>2. LaterKeeps(base, s, now)
    BY <1>2, <2>1, DequeueKeeps
  <2> QED BY <1>6, <2>2
<1>8. ASSUME NEW i \in 1..n, NEW u \in V
      PROVE  CompleteUnbonding(u, mature[i][1], mature[i][2], now) \in V
  <2> DEFINE d == mature[i][1]
             v == mature[i][2]
             w == CompleteUnbonding(u, d, v, now)
  <2>1. d \in Accounts /\ v \in Validators /\ Always(u) /\ LaterKeeps(u, s, now)
    BY <1>5, <1>6
  <2>2. w = CompleteUnbonding(u, d, v, now)
    OBVIOUS
  <2> HIDE DEF d, v, w
  <2>3. LaterKeeps(w, u, now)
    BY <1>2, <2>1, <2>2, CompleteUnbondingKeeps
  <2>4. LaterKeeps(w, s, now)
    BY <2>1, <2>3, LaterMore
  <2>5. w \in V
    BY <1>6, <2>4
  <2> QED BY <2>5 DEF w, d, v
<1> HIDE DEF V, base, n
<1>9. \E g : g = [i \in 0..n |-> IF i = 0 THEN base
                     ELSE CompleteUnbonding(g[i - 1], mature[i][1], mature[i][2], now)]
  <2>1. \A i \in 1..n, u \in V :
            step[<<i, u>>] = CompleteUnbonding(u, mature[i][1], mature[i][2], now)
    OBVIOUS
  <2>2. step \in [(1..n) \X V -> V]
    BY <1>8
  <2> HIDE DEF step
  <2>3. PICK f : IsLoop(f, n, V, base, step)
    BY <1>4, <1>7, <2>2, LoopExists
  <2>4. /\ f \in [0..n -> V] /\ f[0] = base
        /\ \A i \in 1..n : f[i] = step[<<i, f[i - 1]>>]
    BY <2>3 DEF IsLoop
  <2>5. ASSUME NEW i \in 0..n
        PROVE  f[i] = IF i = 0 THEN base
                      ELSE CompleteUnbonding(f[i - 1], mature[i][1], mature[i][2], now)
    <3>1. CASE i = 0
      BY <2>4, <3>1
    <3>2. CASE i # 0
      <4>1. i \in 1..n /\ i - 1 \in 0..n
        BY <1>4, <3>2
      <4>2. f[i - 1] \in V
        BY <2>4, <4>1
      <4> QED BY <2>1, <2>4, <3>2, <4>1, <4>2
    <3> QED BY <3>1, <3>2
  <2>6. f = [i \in 0..n |-> IF i = 0 THEN base
                 ELSE CompleteUnbonding(f[i - 1], mature[i][1], mature[i][2], now)]
    BY <2>4, <2>5
  <2> QED BY <2>6
<1>10. acc = [i \in 0..n |-> IF i = 0 THEN base
                  ELSE CompleteUnbonding(acc[i - 1], mature[i][1], mature[i][2], now)]
  BY <1>9
<1> HIDE DEF acc, step
<1> DEFINE G == {i \in 0..n : acc[i] \in V}
<1>11. 0 \in G
  <2>1. 0 \in 0..n /\ acc[0] = base
    BY <1>4, <1>10
  <2> QED BY <1>7, <2>1
<1>12. ASSUME NEW i \in 1..n, i - 1 \in G PROVE i \in G
  <2>1. i \in 0..n /\ i # 0
    BY <1>4
  <2>2. acc[i] = CompleteUnbonding(acc[i - 1], mature[i][1], mature[i][2], now)
    BY <1>10, <2>1
  <2>3. acc[i] \in V
    BY <1>8, <1>12, <2>2
  <2> QED BY <2>1, <2>3
<1>13. \A i \in 0..n : i \in G
  <2> HIDE DEF G
  <2> QED BY <1>4, <1>11, <1>12, LoopInduction
<1>14. acc[n] \in V
  BY <1>4, <1>13
<1> QED BY <1>1, <1>14 DEF V

\* The redelegations that are done go with their keys in both indexes.
LEMMA CompleteRedelegationsKeeps ==
    ASSUME NEW s, Always(s), NEW now, NEW t, t = CompleteRedelegations(s, now)
    PROVE  LaterKeeps(t, s, now)
<1> DEFINE mature == UNION {s.redQueue[i] : i \in {j \in Slots : j <= Slot(now)}}
           done == {r \in mature : \A i \in DOMAIN s.red[r] : MatureRedelegation(s.red[r][i], now)}
           red == [r \in DvvTriplets |-> IF r \in done THEN <<>> ELSE s.red[r]]
           src == s.redBySrc \ {RedBySrcKey(r) : r \in done}
           dst == s.redByDst \ {RedByDstKey(r) : r \in done}
           queue == [i \in Slots |-> IF i <= Slot(now) THEN {} ELSE s.redQueue[i]]
<1>0. /\ s \in Store /\ s.red \in [DvvTriplets -> Seq(Nat)]
      /\ s.redQueue \in [Slots -> SUBSET DvvTriplets]
      /\ s.redBySrc \subseteq Validators \X Accounts \X Validators
      /\ s.redByDst \subseteq Validators \X Accounts \X Validators
  BY StoreFields DEF Always
<1>1. t = WithRedelegations(s, red, src, dst, queue)
  BY <1>0 DEF CompleteRedelegations, RemoveRedelegations, WithRedelegations
<1>2. queue \in [Slots -> SUBSET DvvTriplets] /\ done \subseteq DvvTriplets
  BY <1>0
<1> HIDE DEF mature, done, queue
<1>3. /\ red \in [DvvTriplets -> Seq(Nat)]
      /\ \A r \in DvvTriplets : red[r] # <<>> <=> (r \notin done /\ s.red[r] # <<>>)
  BY <1>0
<1>4. /\ src \in SUBSET (Validators \X Accounts \X Validators)
      /\ dst \in SUBSET (Validators \X Accounts \X Validators)
  BY <1>0
<1>5. /\ s.redBySrc = {RedBySrcKey(r) : r \in {q \in DvvTriplets : s.red[q] # <<>>}}
      /\ s.redByDst = {RedByDstKey(r) : r \in {q \in DvvTriplets : s.red[q] # <<>>}}
      /\ s.ubdByVal = {UbdByValKey(p[1], p[2]) : p \in {q \in DvPairs : s.ubd[q] # <<>>}}
  BY DEF Always, KeysExact
<1> HIDE DEF red
<1>6. src = {RedBySrcKey(r) : r \in {q \in DvvTriplets : red[q] # <<>>}}
  <2>1. ASSUME NEW k \in src
        PROVE  \E r \in DvvTriplets : red[r] # <<>> /\ k = RedBySrcKey(r)
    BY <1>3, <1>5
  <2>2. ASSUME NEW r \in DvvTriplets, red[r] # <<>> PROVE RedBySrcKey(r) \in src
    <3>1. r \notin done /\ s.red[r] # <<>>
      BY <1>3, <2>2
    <3>2. \A q \in done : RedBySrcKey(q) # RedBySrcKey(r)
      BY <1>2, <3>1, RedelegationKeys
    <3> QED BY <1>5, <3>1, <3>2
  <2> QED BY <2>1, <2>2
<1>7. dst = {RedByDstKey(r) : r \in {q \in DvvTriplets : red[q] # <<>>}}
  <2>1. ASSUME NEW k \in dst
        PROVE  \E r \in DvvTriplets : red[r] # <<>> /\ k = RedByDstKey(r)
    BY <1>3, <1>5
  <2>2. ASSUME NEW r \in DvvTriplets, red[r] # <<>> PROVE RedByDstKey(r) \in dst
    <3>1. r \notin done /\ s.red[r] # <<>>
      BY <1>3, <2>2
    <3>2. \A q \in done : RedByDstKey(q) # RedByDstKey(r)
      BY <1>2, <3>1, RedelegationKeys
    <3> QED BY <1>5, <3>1, <3>2
  <2> QED BY <2>1, <2>2
<1> HIDE DEF src, dst
<1>8. red \in RedelegationLists /\ queue \in QueuedTriplets /\ src \in TripletKeys /\ dst \in TripletKeys
  BY <1>2, <1>3, <1>4 DEF RedelegationLists, QueuedTriplets, TripletKeys
<1>9. /\ OnlyRedelegations(t, s) /\ t.red = red /\ t.redBySrc = src /\ t.redByDst = dst
  BY <1>0, <1>1, <1>8, RedelegationsPut
<1>10. KeysExact(t)
  BY <1>5, <1>6, <1>7, <1>9 DEF KeysExact, OnlyRedelegations
<1>11. MessageKeeps(t, s, now)
  BY <1>9, <1>10, RedelegationsKeep
<1>12. SetCurrent(s) => SetCurrent(t)
  BY <1>9 DEF SetCurrent, OnlyRedelegations
<1> QED BY <1>11, <1>12 DEF MessageKeeps, LaterKeeps, StepKeeps

\* The end of a block: the new validator set, then what is mature.
LEMMA BlockKeeps ==
    ASSUME NEW s, Always(s), NEW now \in 0..MaxTime, NEW h \in Nat, Running(s, now),
           NEW t, t = BlockValidatorUpdates(s, now, h)
    PROVE  /\ StepKeeps(t, s, now)
           /\ ~t.halted => SetCurrent(t) /\ t.last = Updated(s.last, s, Elected(s))
<1> DEFINE a == ApplySetUpdates(s, now, h)
           b == UnbondAllMature(a, now, h)
           c == CompleteUnbonds(b, now)
<1>1. /\ a = ApplySetUpdates(s, now, h) /\ b = UnbondAllMature(a, now, h)
      /\ c = CompleteUnbonds(b, now) /\ t = CompleteRedelegations(c, now)
  BY DEF BlockValidatorUpdates
<1> HIDE DEF a, b, c
<1>2. /\ StepKeeps(a, s, now)
      /\ ~a.halted => SetCurrent(a) /\ a.last = Updated(s.last, s, Elected(s))
  BY <1>1, SetUpdatesKeep
<1>3. Always(a)
  BY <1>2 DEF StepKeeps
<1>4. LaterKeeps(b, a, now)
  BY <1>1, <1>3, UnbondAllKeeps
<1>5. Always(b)
  BY <1>4 DEF LaterKeeps, StepKeeps
<1>6. LaterKeeps(c, b, now)
  BY <1>1, <1>5, CompleteUnbondsKeeps
<1>7. Always(c)
  BY <1>6 DEF LaterKeeps, StepKeeps
<1>8. LaterKeeps(t, c, now)
  BY <1>1, <1>7, CompleteRedelegationsKeeps
<1>9. LaterKeeps(t, a, now)
  BY <1>4, <1>6, <1>8, LaterMore
<1> QED BY <1>2, <1>9 DEF LaterKeeps, StepKeeps

(***************************************************************************)
(* The beginning of a block.                                               *)
(***************************************************************************)

\* What is pruned is the one info that leaves the window, if it is there.
LEMMA WindowMoves ==
    ASSUME NEW s, NEW h \in Nat, s.hist = Window(h)
    PROVE  /\ HistoricalEntries = 0 => s.hist \ Pruned(s, h + 1) = Window(h + 1)
           /\ HistoricalEntries # 0 => (s.hist \ Pruned(s, h + 1)) \cup {h + 1} = Window(h + 1)
<1> DEFINE e == HistoricalEntries
           W == Window(h)
           P == {i \in W : i <= (h + 1) - e}
<1>0. e \in Nat
  BY StakingAssumption
<1>1. \A i : i \in W <=> (i \in Nat /\ i > 0 /\ i <= h /\ i > h - e)
  BY DEF Window
<1>2. \A i : i \in Window(h + 1) <=> (i \in Nat /\ i > 0 /\ i <= h + 1 /\ i > (h + 1) - e)
  BY DEF Window
<1>3. Pruned(s, h + 1) = P
  <2>1. \A i \in W : i <= (h + 1) - e => i = (h + 1) - e
    BY <1>0, <1>1
  <2>2. ASSUME NEW i \in W, i <= (h + 1) - e, NEW j \in i..((h + 1) - e) PROVE j \in W
    <3>1. i = (h + 1) - e /\ i \in Int
      BY <1>1, <2>1, <2>2
    <3>2. j = i
      BY <1>0, <3>1
    <3> QED BY <3>2
  <2> QED BY <2>2 DEF Pruned
<1> HIDE DEF e, W
<1>4. \A i : i \in W \ P <=> (i \in Nat /\ i > 0 /\ i <= h /\ i > (h + 1) - e)
  BY <1>0, <1>1
<1>5. CASE e = 0
  <2>1. W \ P = Window(h + 1)
    BY <1>2, <1>4, <1>5
  <2> QED BY <1>3, <1>5, <2>1 DEF e, W
<1>6. CASE e # 0
  <2>1. (W \ P) \cup {h + 1} = Window(h + 1)
    <3>1. \A i : i \in (W \ P) \cup {h + 1} <=> (i \in Nat /\ i > 0 /\ i <= h + 1 /\ i > (h + 1) - e)
      BY <1>0, <1>4, <1>6
    <3> QED BY <1>2, <3>1
  <2> QED BY <1>3, <1>6, <2>1 DEF e, W
<1> QED BY <1>5, <1>6

\* track_historical_info: the infos of the last heights are kept, and the last
\* validator set is never too large for the one that is stored.
LEMMA TrackKeeps ==
    ASSUME NEW s, Always(s), ~s.halted, NEW now, Running(s, now),
           NEW h \in Nat, s.hist = Window(h), NEW t, t = TrackHistoricalInfo(s, h + 1)
    PROVE  SameClaims(t, s) /\ t.hist = Window(h + 1) /\ ~t.halted
<1> DEFINE L == {v \in Validators : s.last[v] # 0}
           w == Window(h + 1)
<1>0. s \in Store /\ s.unbondingTime \in UnbondingTimes /\ s.halted = FALSE
  BY StoreFields DEF Always
<1>1. L = WithStatus(s, TRUE)
  BY DEF Running, LastBonded, WithStatus, Exists
<1>2. Cardinality(L) <= MaxValidators
  BY <1>1 DEF Running, FewBonded
<1>3. Cardinality(L) \in Nat /\ MaxValidators \in Nat
  <2>1. IsFiniteSet(L)
    BY FiniteKeys, FS_Subset
  <2> QED BY <2>1, FS_CardinalityType, StakingAssumption
<1>4. (Cardinality(L) > MaxValidators) = FALSE
  BY <1>2, <1>3
<1>5. w \in SUBSET Nat
  BY DEF Window
<1>6. t = [s EXCEPT !.unbondingTime = s.unbondingTime, !.hist = w, !.halted = FALSE]
  <2> HIDE DEF w
  <2>1. CASE HistoricalEntries = 0
    <3>1. t = [s EXCEPT !.hist = w]
      BY <2>1, WindowMoves DEF TrackHistoricalInfo, w
    <3> QED BY <1>0, <3>1 DEF Store
  <2>2. CASE HistoricalEntries # 0
    <3>1. t = [s EXCEPT !.hist = (s.hist \ Pruned(s, h + 1)) \cup {h + 1},
                        !.halted = Cardinality(L) > MaxValidators]
      BY <1>0, <2>2 DEF TrackHistoricalInfo, Store
    <3>2. t = [s EXCEPT !.hist = w, !.halted = FALSE]
      BY <1>4, <2>2, <3>1, WindowMoves DEF w
    <3> QED BY <1>0, <3>2 DEF Store
  <2> QED BY <2>1, <2>2
<1> HIDE DEF w
<1> DEFINE u == s.unbondingTime
           b == FALSE
<1>7. t = WithParameter(s, u, w, b) /\ u \in UnbondingTimes /\ b \in BOOLEAN
  BY <1>0, <1>6 DEF WithParameter
<1> HIDE DEF u, b
<1>8. SameClaims(t, s) /\ t.hist = w /\ t.halted = b
  BY <1>5, <1>7, ParameterKeeps
<1> QED BY <1>8 DEF w, b

\* Time passes: what waits for a later slot than the new one waited before.
LEMMA RunningLater ==
    ASSUME NEW s, s \in Store, NEW now \in Nat, NEW later \in Nat, now <= later, Running(s, now)
    PROVE  Running(s, later)
<1>0. /\ s.ubd \in [DvPairs -> Seq(Entry)] /\ s.unbondingTime \in UnbondingTimes
      /\ Slot(now) \in Nat /\ Slot(later) \in Nat /\ Slot(now) <= Slot(later)
  BY StoreFields, SlotFacts
<1>1. ASSUME NEW p \in DvPairs, NEW i \in DOMAIN s.ubd[p],
             Slot(s.ubd[p][i].time) > Slot(later)
      PROVE  Waits(s, p, Slot(s.ubd[p][i].time))
  <2>1. s.ubd[p] \in Seq(Entry)
    BY <1>0
  <2>2. s.ubd[p][i] \in Entry
    BY <2>1
  <2>3. s.ubd[p][i].time \in 0..Horizon
    BY <2>2 DEF Entry
  <2>4. Slot(s.ubd[p][i].time) \in Nat
    BY <1>0, <2>3, HorizonSlots, SlotFacts
  <2>5. Slot(s.ubd[p][i].time) > Slot(now)
    BY <1>0, <1>1, <2>4
  <2> QED BY <2>5 DEF Running, EntriesQueued
<1> QED BY <1>1 DEF Running, EntriesQueued

(***************************************************************************)
(* The genesis.                                                            *)
(***************************************************************************)

\* The tokens of the bonded validators, and of the others, as sums over all:
\* an operator without a validator has none.
LEMMA PoolTokens ==
    ASSUME NEW s, s.val \in [Validators -> ValidatorRecords], AbsentEmpty(s)
    PROVE  /\ TokensOf(s, WithStatus(s, TRUE)) = Total(BondedTokens(s), Validators)
           /\ TokensOf(s, WithStatus(s, FALSE)) = Total(OtherTokens(s), Validators)
<1> DEFINE f == [v \in Validators |-> s.val[v].tokens]
           B == WithStatus(s, TRUE)
           O == WithStatus(s, FALSE)
           b == BondedTokens(s)
           o == OtherTokens(s)
<1>0. \A v \in Validators : s.val[v].tokens \in Nat
  BY ValidatorFields
<1>1. IsFiniteSet(Validators) /\ B \in SUBSET Validators /\ O \in SUBSET Validators
  BY FiniteKeys DEF WithStatus
<1>2. \A v \in Validators : f[v] \in Int
  BY <1>0
<1>3. \A v \in Validators : b[v] = IF v \in B THEN f[v] ELSE 0
  BY DEF BondedTokens, WithStatus, Exists
<1>4. \A v \in Validators : o[v] = IF v \in O THEN f[v] ELSE 0
  <2>1. ASSUME NEW v \in Validators PROVE o[v] = IF v \in O THEN f[v] ELSE 0
    <3>1. CASE ~Exists(s, v)
      <4>1. s.val[v].tokens = 0 /\ v \notin O
        BY <3>1 DEF AbsentEmpty, WithStatus
      <4> QED BY <4>1 DEF OtherTokens
    <3>2. CASE Exists(s, v)
      BY <3>2 DEF OtherTokens, WithStatus
    <3> QED BY <3>1, <3>2
  <2> QED BY <2>1
<1>5. TokensOf(s, B) = Total(f, B) /\ TokensOf(s, O) = Total(f, O)
  BY DEF TokensOf
<1> HIDE DEF f, B, O, b, o
<1>6. Total(f, B) = Total(b, Validators)
  BY <1>1, <1>2, <1>3, SumChosen
<1>7. Total(f, O) = Total(o, Validators)
  BY <1>1, <1>2, <1>4, SumChosen
<1> QED BY <1>5, <1>6, <1>7 DEF B, O, b, o

\* A store that a genesis state puts in place.
LEMMA GenesisTyped ==
    ASSUME NEW g \in Genesis, NEW s, s = GenesisBase(g)
    PROVE  /\ s \in Store /\ s.val = g.val /\ s.del = g.del /\ s.last = GenesisLast(g)
           /\ s.total = Total(s.last, Validators)
           /\ s.ubd = [p \in DvPairs |-> <<>>] /\ s.red = [p \in DvvTriplets |-> <<>>]
           /\ s.ubdByVal = {} /\ s.redBySrc = {} /\ s.redByDst = {}
           /\ s.bonded = TokensOf(g, WithStatus(g, TRUE))
           /\ s.notBonded = TokensOf(g, WithStatus(g, FALSE))
           /\ s.hist = {} /\ s.uncovered = 0 /\ ~s.halted
           /\ Indexed(s) /\ ValidatorsQueued(s)
<1> DEFINE ix == {PowerKey(v, g.val[v]) : v \in {w \in Validators : Exists(g, w) /\ ~g.val[w].jailed}}
           vq == {QueueKey(v, g.val[v]) :
                     v \in {w \in Validators : Exists(g, w) /\ g.val[w].status = "Unbonding"}}
           la == GenesisLast(g)
           to == g.total
           ud == [p \in DvPairs |-> <<>>]
           uq == [i \in Slots |-> <<>>]
           rd == [p \in DvvTriplets |-> <<>>]
           rq == [i \in Slots |-> {}]
           bo == TokensOf(g, WithStatus(g, TRUE))
           nb == TokensOf(g, WithStatus(g, FALSE))
<1>1. /\ g.val \in [Validators -> ValidatorRecords] /\ g.del \in DelegationShares
      /\ g.unbondingTime \in UnbondingTimes
  BY GenesisAssumption
<1>2. g.bal \in [Accounts -> Nat] /\ g.last \in [Validators -> Nat] /\ to = Total(la, Validators)
  BY GenesisConsistency
<1>3. la \in [Validators -> Nat]
  BY <1>2 DEF GenesisLast
<1>4. to \in Nat
  BY <1>2, <1>3, FiniteKeys, SumNat
<1>5. ix \in SUBSET (Nat \X Validators)
  BY <1>1, PowerNat DEF PowerKey
<1>6. vq \in SUBSET (Nat \X Nat \X Validators)
  <2>1. \A v \in Validators : g.val[v].ubTime \in Nat /\ g.val[v].ubHeight \in Nat
    BY <1>1, ValidatorFields
  <2> QED BY <2>1, SlotFacts DEF QueueKey
<1>7. /\ ud \in [DvPairs -> Seq(Entry)] /\ uq \in [Slots -> Seq(DvPairs)]
      /\ rd \in [DvvTriplets -> Seq(Nat)] /\ rq \in [Slots -> SUBSET DvvTriplets]
  OBVIOUS
<1>8. bo \in Nat /\ nb \in Nat
  <2> DEFINE f == [v \in Validators |-> g.val[v].tokens]
  <2>1. \A v \in Validators : f[v] \in Nat
    BY <1>1, ValidatorFields
  <2>2. \A b \in BOOLEAN : IsFiniteSet(WithStatus(g, b)) /\ WithStatus(g, b) \subseteq Validators
    BY FiniteKeys, FS_Subset DEF WithStatus
  <2>3. \A b \in BOOLEAN : TokensOf(g, WithStatus(g, b)) = Total(f, WithStatus(g, b))
    BY DEF TokensOf
  <2> HIDE DEF f
  <2>4. \A b \in BOOLEAN : Total(f, WithStatus(g, b)) \in Nat
    <3> SUFFICES ASSUME NEW b \in BOOLEAN PROVE Total(f, WithStatus(g, b)) \in Nat
      OBVIOUS
    <3> DEFINE S == WithStatus(g, b)
    <3>1. IsFiniteSet(S) /\ \A v \in S : f[v] \in Nat
      BY <2>1, <2>2
    <3> HIDE DEF S
    <3>2. Total(f, S) \in Nat
      BY <3>1, SumNat
    <3> QED BY <3>2 DEF S
  <2> QED BY <2>3, <2>4
<1>9. s = [val |-> g.val, index |-> ix, last |-> la, total |-> to, valQueue |-> vq,
           del |-> g.del, ubd |-> ud, ubdByVal |-> {}, redBySrc |-> {}, redByDst |-> {},
           ubdQueue |-> uq, red |-> rd, redQueue |-> rq, bal |-> g.bal,
           bonded |-> bo, notBonded |-> nb, unbondingTime |-> g.unbondingTime,
           hist |-> {}, uncovered |-> 0, paidAgain |-> FALSE, halted |-> FALSE]
  BY DEF GenesisBase, QueueKey
<1>10. ix = {PowerKey(v, g.val[v]) : v \in {w \in Validators : Exists(g, w) /\ ~g.val[w].jailed}}
  OBVIOUS
<1>11. vq = {QueueKey(v, g.val[v]) :
                v \in {w \in Validators : Exists(g, w) /\ g.val[w].status = "Unbonding"}}
  OBVIOUS
<1> HIDE DEF ix, vq, la, to, ud, uq, rd, rq, bo, nb
<1>12. s \in Store
  <2>1. /\ g.val \in ValidatorStates /\ g.bal \in Balances /\ la \in LastPowers
        /\ ix \in PowerKeys /\ vq \in QueuedValidators
    BY <1>1, <1>2, <1>3, <1>5, <1>6
       DEF ValidatorStates, Balances, LastPowers, PowerKeys, QueuedValidators
  <2>2. /\ ud \in EntryLists /\ uq \in QueuedPairs /\ rd \in RedelegationLists
        /\ rq \in QueuedTriplets /\ {} \in PairKeys /\ {} \in TripletKeys /\ {} \in Heights
    BY <1>7 DEF EntryLists, QueuedPairs, RedelegationLists, QueuedTriplets, PairKeys, TripletKeys, Heights
  <2> QED BY <1>1, <1>4, <1>8, <1>9, <2>1, <2>2 DEF Store
<1>13. /\ s.val = g.val /\ s.del = g.del /\ s.last = la /\ s.total = to /\ s.ubd = ud
       /\ s.red = rd /\ s.ubdByVal = {} /\ s.redBySrc = {} /\ s.redByDst = {}
       /\ s.bonded = bo /\ s.notBonded = nb /\ s.hist = {} /\ s.uncovered = 0 /\ s.halted = FALSE
       /\ s.index = ix /\ s.valQueue = vq
  BY <1>9
<1>14. Indexed(s)
  BY <1>10, <1>13 DEF Indexed, Exists
<1>15. ValidatorsQueued(s)
  BY <1>11, <1>13 DEF ValidatorsQueued, Exists
<1> QED BY <1>2, <1>12, <1>13, <1>14, <1>15 DEF la, to, ud, rd, bo, nb

\* What holds of a store when the node starts, before the first block.
Started(s) ==
    /\ Always(s) /\ s.hist = {}
    /\ ~s.halted => Running(s, 0) /\ PoolsAhead(s, 0, 0)

\* A genesis state that is consistent puts a consistent store in place; one that
\* was exported has the validator set of the bonded validators.
LEMMA GenesisBaseKeeps ==
    ASSUME NEW g \in Genesis, NEW s, s = GenesisBase(g)
    PROVE  Started(s) /\ ~s.halted /\ (g.exported => SetCurrent(s))
<1>1. /\ s \in Store /\ s.val = g.val /\ s.del = g.del /\ s.last = GenesisLast(g)
      /\ s.total = Total(s.last, Validators)
      /\ s.ubd = [p \in DvPairs |-> <<>>] /\ s.red = [p \in DvvTriplets |-> <<>>]
      /\ s.ubdByVal = {} /\ s.redBySrc = {} /\ s.redByDst = {}
      /\ s.bonded = TokensOf(g, WithStatus(g, TRUE))
      /\ s.notBonded = TokensOf(g, WithStatus(g, FALSE))
      /\ s.hist = {} /\ s.uncovered = 0 /\ ~s.halted
      /\ Indexed(s) /\ ValidatorsQueued(s)
  BY GenesisTyped
<1>2. /\ Cardinality(WithStatus(g, TRUE)) <= MaxValidators
      /\ \A v \in Validators :
            /\ ~Exists(g, v) => g.val[v] = NoValidator
            /\ g.val[v].shares = Total([d \in Accounts |-> g.del[<<d, v>>]], Accounts)
            /\ (GenesisLast(g)[v] # 0) <=> (v \in WithStatus(g, TRUE))
            /\ v \in WithStatus(g, TRUE) => GenesisLast(g)[v] = ConsensusPower(g.val[v])
  BY GenesisConsistency
<1>3. WithStatus(s, TRUE) = WithStatus(g, TRUE) /\ WithStatus(s, FALSE) = WithStatus(g, FALSE)
  BY <1>1 DEF WithStatus, Exists
<1>4. \A v \in Validators : v \in WithStatus(s, TRUE) <=> s.val[v].status = "Bonded"
  BY DEF WithStatus, Exists
<1>5. SharesHeld(s)
  BY <1>1, <1>2 DEF SharesHeld, Delegated
<1>6. AbsentEmpty(s)
  <2>1. NoValidator.shares = 0 /\ NoValidator.tokens = 0
    BY DEF NoValidator
  <2>2. \A v \in Validators : Exists(s, v) <=> Exists(g, v)
    BY <1>1 DEF Exists
  <2> QED BY <1>1, <1>2, <2>1, <2>2 DEF AbsentEmpty
<1>7. KeysExact(s)
  <2>1. {q \in DvPairs : s.ubd[q] # <<>>} = {} /\ {q \in DvvTriplets : s.red[q] # <<>>} = {}
    BY <1>1
  <2> QED BY <1>1, <2>1 DEF KeysExact
<1>8. EntriesQueued(s, 0)
  <2>1. \A p \in DvPairs : DOMAIN s.ubd[p] = {}
    BY <1>1
  <2> QED BY <2>1 DEF EntriesQueued
<1>9. LastBonded(s) /\ FewBonded(s)
  BY <1>1, <1>2, <1>3, <1>4 DEF LastBonded, FewBonded
<1>10. PoolsAhead(s, 0, 0)
  <2> DEFINE b == Total(BondedTokens(s), Validators)
             o == Total(OtherTokens(s), Validators)
             c == Total(Claims(s), DvPairs)
  <2>1. b \in Nat /\ o \in Nat
    BY <1>1, ClaimsTyped
  <2>2. TokensOf(g, WithStatus(g, TRUE)) = TokensOf(s, WithStatus(s, TRUE))
        /\ TokensOf(g, WithStatus(g, FALSE)) = TokensOf(s, WithStatus(s, FALSE))
    BY <1>1, <1>3 DEF TokensOf
  <2>3. s.bonded = b /\ s.notBonded = o
    BY <1>1, <1>6, <2>2, PoolTokens, StoreFields
  <2>4. c = 0
    <3>1. <<>> \in Seq(Entry) /\ DOMAIN <<>> = {}
      OBVIOUS
    <3>2. Unpaid(<<>>) = 0
      BY <3>1, UnpaidNone
    <3>3. \A p \in DvPairs : Claims(s)[p] = 0
      BY <1>1, <3>2 DEF Claims
    <3> QED BY <3>3, FiniteKeys, SumZero
  <2> HIDE DEF b, o, c
  <2>5. s.uncovered = 0
    BY <1>1
  <2>6. s.bonded = b + 0 /\ s.notBonded + s.uncovered = (o + c) + 0
    BY <2>1, <2>3, <2>4, <2>5
  <2> QED BY <2>6 DEF b, o, c, PoolsAhead
<1>11. ASSUME g.exported PROVE SetCurrent(s)
  <2>1. \A v \in Validators : g.val[v].status # "Absent" => ValidValidator(g.val[v])
    BY GenesisAssumption
  <2>2. ASSUME NEW v \in Validators, s.val[v].status = "Bonded"
        PROVE  ~s.val[v].jailed /\ s.last[v] = ConsensusPower(s.val[v])
    <3>1. v \in WithStatus(g, TRUE) /\ g.val[v].status # "Absent"
      BY <1>1, <2>2 DEF WithStatus, Exists
    <3>2. ~s.val[v].jailed
      BY <1>1, <2>1, <2>2, <3>1 DEF ValidValidator
    <3> QED BY <1>1, <1>2, <3>1, <3>2
  <2> QED BY <2>2 DEF SetCurrent
<1> QED BY <1>1, <1>5, <1>6, <1>7, <1>8, <1>9, <1>10, <1>11 DEF Started, Always, Running

\* The entries of a genesis file, of an unbonding delegation and of a redelegation.
GenesisUbds == [pair : DvPairs, time : 0..Horizon, balance : Nat]
GenesisReds == [triplet : DvvTriplets, time : 0..Horizon]

\* An entry of an unbonding delegation of the genesis file: it is stored and
\* queued, and what it claims is counted as not covered.
LEMMA GenesisUbdKeeps ==
    ASSUME NEW s, Started(s), ~s.halted, NEW e \in GenesisUbds, NEW t, t = GenesisUbd(s, e)
    PROVE  Started(t) /\ ~t.halted /\ (SetCurrent(s) => SetCurrent(t))
<1> DEFINE d == e.pair[1]
           v == e.pair[2]
           amt == e.balance
           time == e.time
           x == UnbondingEntry(time, amt)
           u == InsertUbdQueue(SetUbd(s, d, v, Append(s.ubd[<<d, v>>], x)), d, v, time)
           un == u.uncovered + amt
<1>1. /\ d \in Accounts /\ v \in Validators /\ amt \in Nat /\ time \in 0..Horizon
      /\ x = UnbondingEntry(time, amt)
      /\ u = InsertUbdQueue(SetUbd(s, d, v, Append(s.ubd[<<d, v>>], x)), d, v, time)
  BY DEF GenesisUbds, DvPairs
<1>2. t = [u EXCEPT !.uncovered = un]
  BY DEF GenesisUbd
<1>3. Always(s) /\ s.hist = {} /\ Running(s, 0) /\ PoolsAhead(s, 0, 0)
  BY DEF Started
<1> HIDE DEF d, v, amt, time, x, u
<1>4. /\ Always(u) /\ u.hist = s.hist /\ u.last = s.last /\ u.halted = s.halted
      /\ u.val = s.val
      /\ Running(s, 0) => Running(u, 0)
      /\ \A b, n \in Int : PoolsAhead(s, b, n) => PoolsAhead(u, b, n - amt)
  BY ONLY <1>1, <1>3, EnqueueKeeps
<1>5. u \in Store /\ u.uncovered \in Nat /\ un = u.uncovered + amt /\ un \in Nat
  BY <1>1, <1>4, StoreFields DEF Always
<1> HIDE DEF un
<1>6. t \in Store
  BY ONLY <1>2, <1>5 DEF Store
<1>7. /\ OnlyEntries(t, u) /\ t.halted = u.halted /\ t.uncovered = un
      /\ t.bonded = u.bonded /\ t.notBonded = u.notBonded
      /\ t.ubd = u.ubd /\ t.ubdByVal = u.ubdByVal /\ t.ubdQueue = u.ubdQueue
  BY ONLY <1>2, <1>5, <1>6 DEF Store, OnlyEntries
<1>8. /\ t.red = u.red /\ t.redBySrc = u.redBySrc /\ t.redByDst = u.redByDst
      /\ t.hist = u.hist /\ t.val = u.val /\ t.last = u.last
  BY <1>7 DEF OnlyEntries
<1>9. KeysExact(t)
  BY <1>4, <1>7, <1>8 DEF Always, KeysExact
<1>10. Always(t)
  BY <1>4, <1>6, <1>7, <1>9, EntriesKeep DEF Always
<1>11. Running(t, 0)
  <2>1. EntriesQueued(t, 0)
    BY <1>3, <1>4, <1>7 DEF Running, EntriesQueued, Waits
  <2> QED BY <1>3, <1>4, <1>7, <2>1, EntriesKeep DEF Running
<1>12. PoolsAhead(t, 0, 0)
  <2> DEFINE B == Total(BondedTokens(u), Validators)
             O == Total(OtherTokens(u), Validators)
             C == Total(Claims(u), DvPairs)
  <2>1. O \in Int /\ C \in Int /\ u.notBonded \in Int /\ u.uncovered \in Int /\ amt \in Int
    BY <1>1, <1>5, ClaimsTyped, StoreFields
  <2>2. PoolsAhead(u, 0, 0 - amt)
    BY <1>3, <1>4
  <2>3. u.bonded = B + 0 /\ u.notBonded + u.uncovered = (O + C) + (0 - amt)
    BY <2>2 DEF PoolsAhead
  <2>4. Claims(t) = Claims(u) /\ BondedTokens(t) = BondedTokens(u) /\ OtherTokens(t) = OtherTokens(u)
    BY <1>7, EntriesKeep DEF Claims
  <2> HIDE DEF B, O, C
  <2>5. u.notBonded + un = (O + C) + 0
    BY <1>5, <2>1, <2>3
  <2>6. t.bonded = B + 0 /\ t.notBonded + t.uncovered = (O + C) + 0
    BY <1>7, <2>3, <2>5
  <2> QED BY <2>4, <2>6 DEF PoolsAhead, B, O, C
<1>13. SetCurrent(s) => SetCurrent(t)
  BY <1>4, <1>8 DEF SetCurrent
<1> QED BY <1>3, <1>4, <1>7, <1>8, <1>10, <1>11, <1>12, <1>13 DEF Started

\* An entry of a redelegation of the genesis file.
LEMMA GenesisRedKeeps ==
    ASSUME NEW s, Started(s), ~s.halted, NEW e \in GenesisReds, NEW t, t = GenesisRed(s, e)
    PROVE  Started(t) /\ ~t.halted /\ (SetCurrent(s) => SetCurrent(t))
<1> DEFINE r == e.triplet
           time == e.time
<1>1. Always(s) /\ s.hist = {} /\ Running(s, 0) /\ PoolsAhead(s, 0, 0)
  BY DEF Started
<1>2. r \in DvvTriplets /\ time \in Nat
  <2>1. s.unbondingTime \in UnbondingTimes
    BY <1>1, StoreFields DEF Always
  <2>2. r \in DvvTriplets /\ time \in 0..Horizon
    BY DEF GenesisReds
  <2> QED BY <2>1, <2>2, HorizonSlots
<1>3. t = [SetRedelegation(s, r, s.red[r] \o <<time>>) EXCEPT !.redQueue[Slot(time)] = @ \cup {r}]
  BY DEF GenesisRed
<1> HIDE DEF r, time
<1>4. MessageKeeps(t, s, 0) /\ OnlyRedelegations(t, s)
  BY <1>1, <1>2, <1>3, SetRedelegationKeeps
<1>5. SetCurrent(s) => SetCurrent(t)
  BY <1>4 DEF SetCurrent, OnlyRedelegations
<1> QED BY <1>1, <1>4, <1>5 DEF Started, MessageKeeps, OnlyRedelegations

\* The loop over the unbonding delegations of a genesis file.
LEMMA WithUbdsKeeps ==
    ASSUME NEW s, Started(s), ~s.halted, NEW entries \in Seq(GenesisUbds),
           NEW t, t = WithUbds(s, entries)
    PROVE  Started(t) /\ ~t.halted /\ (SetCurrent(s) => SetCurrent(t))
<1> DEFINE n == Len(entries)
           V == {u \in Store : Started(u) /\ ~u.halted /\ (SetCurrent(s) => SetCurrent(u))}
           step == [z \in (1..n) \X V |-> GenesisUbd(z[2], entries[z[1]])]
           acc == CHOOSE g : g = [i \in 0..n |-> IF i = 0 THEN s
                                                 ELSE GenesisUbd(g[i - 1], entries[i])]
<1>1. t = acc[n]
  BY DEF WithUbds
<1>2. n \in Nat /\ \A i \in 1..n : entries[i] \in GenesisUbds
  OBVIOUS
<1>3. \A u : Started(u) /\ ~u.halted /\ (SetCurrent(s) => SetCurrent(u)) => u \in V
  BY DEF Started, Always
<1>4. ASSUME NEW i \in 1..n, NEW u \in V PROVE GenesisUbd(u, entries[i]) \in V
  <2> DEFINE e == entries[i]
             w == GenesisUbd(u, e)
  <2>1. /\ e \in GenesisUbds /\ Started(u) /\ ~u.halted /\ w = GenesisUbd(u, e)
        /\ SetCurrent(s) => SetCurrent(u)
    BY <1>2
  <2> HIDE DEF e, w
  <2>2. Started(w) /\ ~w.halted /\ (SetCurrent(u) => SetCurrent(w))
    BY <2>1, GenesisUbdKeeps
  <2>3. w \in V
    BY <1>3, <2>1, <2>2
  <2> QED BY <2>3 DEF w, e
<1>5. s \in V
  BY <1>3
<1>a. \A u \in V : Started(u) /\ ~u.halted /\ (SetCurrent(s) => SetCurrent(u))
  OBVIOUS
<1> HIDE DEF V, n
<1>6. \E g : g = [i \in 0..n |-> IF i = 0 THEN s ELSE GenesisUbd(g[i - 1], entries[i])]
  <2>1. \A i \in 1..n, u \in V : step[<<i, u>>] = GenesisUbd(u, entries[i])
    OBVIOUS
  <2>2. step \in [(1..n) \X V -> V]
    BY <1>4
  <2> HIDE DEF step
  <2>3. PICK f : IsLoop(f, n, V, s, step)
    BY <1>2, <1>5, <2>2, LoopExists
  <2>4. /\ f \in [0..n -> V] /\ f[0] = s
        /\ \A i \in 1..n : f[i] = step[<<i, f[i - 1]>>]
    BY <2>3 DEF IsLoop
  <2>5. ASSUME NEW i \in 0..n
        PROVE  f[i] = IF i = 0 THEN s ELSE GenesisUbd(f[i - 1], entries[i])
    <3>1. CASE i = 0
      BY <2>4, <3>1
    <3>2. CASE i # 0
      <4>1. i \in 1..n /\ i - 1 \in 0..n
        BY <1>2, <3>2
      <4>2. f[i - 1] \in V
        BY <2>4, <4>1
      <4> QED BY <2>1, <2>4, <3>2, <4>1, <4>2
    <3> QED BY <3>1, <3>2
  <2>6. f = [i \in 0..n |-> IF i = 0 THEN s ELSE GenesisUbd(f[i - 1], entries[i])]
    BY <2>4, <2>5
  <2> QED BY <2>6
<1>7. acc = [i \in 0..n |-> IF i = 0 THEN s ELSE GenesisUbd(acc[i - 1], entries[i])]
  BY <1>6
<1> HIDE DEF acc, step
<1> DEFINE G == {i \in 0..n : acc[i] \in V}
<1>8. 0 \in G
  <2>1. 0 \in 0..n /\ acc[0] = s
    BY <1>2, <1>7
  <2> QED BY <1>5, <2>1
<1>9. ASSUME NEW i \in 1..n, i - 1 \in G PROVE i \in G
  <2>1. i \in 0..n /\ i # 0
    BY <1>2
  <2>2. acc[i] = GenesisUbd(acc[i - 1], entries[i])
    BY <1>7, <2>1
  <2>3. acc[i] \in V
    BY <1>4, <1>9, <2>2
  <2> QED BY <2>1, <2>3
<1>10. \A i \in 0..n : i \in G
  <2> HIDE DEF G
  <2> QED BY <1>2, <1>8, <1>9, LoopInduction
<1>11. t \in V
  BY <1>1, <1>2, <1>10
<1> QED BY <1>a, <1>11

\* The loop over the redelegations of a genesis file.
LEMMA WithRedsKeeps ==
    ASSUME NEW s, Started(s), ~s.halted, NEW entries \in Seq(GenesisReds),
           NEW t, t = WithReds(s, entries)
    PROVE  Started(t) /\ ~t.halted /\ (SetCurrent(s) => SetCurrent(t))
<1> DEFINE n == Len(entries)
           V == {u \in Store : Started(u) /\ ~u.halted /\ (SetCurrent(s) => SetCurrent(u))}
           step == [z \in (1..n) \X V |-> GenesisRed(z[2], entries[z[1]])]
           acc == CHOOSE g : g = [i \in 0..n |-> IF i = 0 THEN s
                                                 ELSE GenesisRed(g[i - 1], entries[i])]
<1>1. t = acc[n]
  BY DEF WithReds
<1>2. n \in Nat /\ \A i \in 1..n : entries[i] \in GenesisReds
  OBVIOUS
<1>3. \A u : Started(u) /\ ~u.halted /\ (SetCurrent(s) => SetCurrent(u)) => u \in V
  BY DEF Started, Always
<1>4. ASSUME NEW i \in 1..n, NEW u \in V PROVE GenesisRed(u, entries[i]) \in V
  <2> DEFINE e == entries[i]
             w == GenesisRed(u, e)
  <2>1. /\ e \in GenesisReds /\ Started(u) /\ ~u.halted /\ w = GenesisRed(u, e)
        /\ SetCurrent(s) => SetCurrent(u)
    BY <1>2
  <2> HIDE DEF e, w
  <2>2. Started(w) /\ ~w.halted /\ (SetCurrent(u) => SetCurrent(w))
    BY <2>1, GenesisRedKeeps
  <2>3. w \in V
    BY <1>3, <2>1, <2>2
  <2> QED BY <2>3 DEF w, e
<1>5. s \in V
  BY <1>3
<1>a. \A u \in V : Started(u) /\ ~u.halted /\ (SetCurrent(s) => SetCurrent(u))
  OBVIOUS
<1> HIDE DEF V, n
<1>6. \E g : g = [i \in 0..n |-> IF i = 0 THEN s ELSE GenesisRed(g[i - 1], entries[i])]
  <2>1. \A i \in 1..n, u \in V : step[<<i, u>>] = GenesisRed(u, entries[i])
    OBVIOUS
  <2>2. step \in [(1..n) \X V -> V]
    BY <1>4
  <2> HIDE DEF step
  <2>3. PICK f : IsLoop(f, n, V, s, step)
    BY <1>2, <1>5, <2>2, LoopExists
  <2>4. /\ f \in [0..n -> V] /\ f[0] = s
        /\ \A i \in 1..n : f[i] = step[<<i, f[i - 1]>>]
    BY <2>3 DEF IsLoop
  <2>5. ASSUME NEW i \in 0..n
        PROVE  f[i] = IF i = 0 THEN s ELSE GenesisRed(f[i - 1], entries[i])
    <3>1. CASE i = 0
      BY <2>4, <3>1
    <3>2. CASE i # 0
      <4>1. i \in 1..n /\ i - 1 \in 0..n
        BY <1>2, <3>2
      <4>2. f[i - 1] \in V
        BY <2>4, <4>1
      <4> QED BY <2>1, <2>4, <3>2, <4>1, <4>2
    <3> QED BY <3>1, <3>2
  <2>6. f = [i \in 0..n |-> IF i = 0 THEN s ELSE GenesisRed(f[i - 1], entries[i])]
    BY <2>4, <2>5
  <2> QED BY <2>6
<1>7. acc = [i \in 0..n |-> IF i = 0 THEN s ELSE GenesisRed(acc[i - 1], entries[i])]
  BY <1>6
<1> HIDE DEF acc, step
<1> DEFINE G == {i \in 0..n : acc[i] \in V}
<1>8. 0 \in G
  <2>1. 0 \in 0..n /\ acc[0] = s
    BY <1>2, <1>7
  <2> QED BY <1>5, <2>1
<1>9. ASSUME NEW i \in 1..n, i - 1 \in G PROVE i \in G
  <2>1. i \in 0..n /\ i # 0
    BY <1>2
  <2>2. acc[i] = GenesisRed(acc[i - 1], entries[i])
    BY <1>7, <2>1
  <2>3. acc[i] \in V
    BY <1>4, <1>9, <2>2
  <2> QED BY <2>1, <2>3
<1>10. \A i \in 0..n : i \in G
  <2> HIDE DEF G
  <2> QED BY <1>2, <1>8, <1>9, LoopInduction
<1>11. t \in V
  BY <1>1, <1>2, <1>10
<1> QED BY <1>a, <1>11

\* The whole of what the genesis file puts in place.
LEMMA GenesisStoreKeeps ==
    ASSUME NEW g \in Genesis, NEW s, s = GenesisStore(g)
    PROVE  Started(s) /\ ~s.halted /\ (g.exported => SetCurrent(s))
<1> DEFINE a == GenesisBase(g)
           b == WithUbds(a, g.ubds)
<1>1. a = GenesisBase(g) /\ b = WithUbds(a, g.ubds) /\ s = WithReds(b, g.reds)
  BY DEF GenesisStore
<1>2. g.ubds \in Seq(GenesisUbds) /\ g.reds \in Seq(GenesisReds)
  BY GenesisAssumption DEF GenesisUbds, GenesisReds
<1> HIDE DEF a, b
<1>3. Started(a) /\ ~a.halted /\ (g.exported => SetCurrent(a))
  BY <1>1, GenesisBaseKeeps
<1>4. Started(b) /\ ~b.halted /\ (SetCurrent(a) => SetCurrent(b))
  BY <1>1, <1>2, <1>3, WithUbdsKeeps
<1>5. Started(s) /\ ~s.halted /\ (SetCurrent(b) => SetCurrent(s))
  BY <1>1, <1>2, <1>4, WithRedsKeeps
<1> QED BY <1>3, <1>4, <1>5

\* apply_and_return_validator_set_updates at genesis.
LEMMA GenesisSetKeeps ==
    ASSUME NEW s, Started(s), ~s.halted, NEW t, t = ApplySetUpdates(s, 0, 0)
    PROVE  Started(t) /\ (~t.halted => SetCurrent(t))
<1>1. 0 \in 0..MaxTime /\ 0 \in Nat
  BY StakingAssumption
<1>2. Always(s) /\ Running(s, 0) /\ PoolsAhead(s, 0, 0) /\ s.hist = {}
  BY DEF Started
<1>3. /\ StepKeeps(t, s, 0)
      /\ ~t.halted => SetCurrent(t) /\ t.last = Updated(s.last, s, Elected(s))
  BY <1>1, <1>2, SetUpdatesKeep
<1> QED BY <1>2, <1>3 DEF Started, StepKeeps

\* A genesis transaction.
LEMMA GenTxKeeps ==
    ASSUME NEW s, Started(s), NEW m \in CreateValidatorMsgs, NEW t, t = DeliverGenTx(s, m)
    PROVE  Started(t) /\ (s.halted => t.halted)
<1>1. Always(s) /\ s.hist = {} /\ 0 \in Nat
  BY DEF Started
<1>2. CASE ~s.halted /\ CanCreate(s, m)
  <2>1. t = Created(s, m, 0)
    BY <1>2 DEF DeliverGenTx
  <2>2. /\ MessageKeeps(t, s, 0) /\ t.halted = s.halted
        /\ \A u \in Validators : t.val[u].status = "Bonded" <=> s.val[u].status = "Bonded"
    BY <1>1, <1>2, <2>1, CreatedKeeps
  <2> QED BY <1>2, <2>2 DEF Started, MessageKeeps
<1>3. CASE ~(~s.halted /\ CanCreate(s, m))
  <2>1. t = [s EXCEPT !.halted = TRUE]
    BY <1>3 DEF DeliverGenTx
  <2>2. Always(t) /\ t.hist = s.hist /\ t.last = s.last /\ t.halted
    BY <1>1, <2>1, HaltKeeps
  <2> QED BY <1>1, <2>2 DEF Started
<1> QED BY <1>2, <1>3

\* The genesis transactions one after the other, then the validator set.
LEMMA GenutilKeeps ==
    ASSUME NEW s, Started(s), ~s.halted => SetCurrent(s),
           NEW txs \in Seq(CreateValidatorMsgs), NEW t, t = GenutilGenesis(s, txs)
    PROVE  Started(t) /\ (~t.halted => SetCurrent(t))
<1> DEFINE n == Len(txs)
           V == {u \in Store : Started(u)}
           step == [z \in (1..n) \X V |-> DeliverGenTx(z[2], txs[z[1]])]
           acc == CHOOSE g : g = [i \in 0..n |-> IF i = 0 THEN s
                                                 ELSE DeliverGenTx(g[i - 1], txs[i])]
<1>1. t = IF txs = <<>> THEN s
          ELSE IF acc[n].halted THEN acc[n] ELSE ApplySetUpdates(acc[n], 0, 0)
  BY DEF GenutilGenesis
<1>2. n \in Nat /\ \A i \in 1..n : txs[i] \in CreateValidatorMsgs
  OBVIOUS
<1>3. \A u : Started(u) => u \in V
  BY DEF Started, Always
<1>4. ASSUME NEW i \in 1..n, NEW u \in V PROVE DeliverGenTx(u, txs[i]) \in V
  <2> DEFINE m == txs[i]
             w == DeliverGenTx(u, m)
  <2>1. m \in CreateValidatorMsgs /\ Started(u) /\ w = DeliverGenTx(u, m)
    BY <1>2
  <2> HIDE DEF m, w
  <2>2. Started(w) /\ (u.halted => w.halted)
    BY <2>1, GenTxKeeps
  <2>3. w \in V
    BY <1>3, <2>2
  <2> QED BY <2>3 DEF w, m
<1>5. s \in V
  BY <1>3
<1> HIDE DEF V, n
<1>6. \E g : g = [i \in 0..n |-> IF i = 0 THEN s ELSE DeliverGenTx(g[i - 1], txs[i])]
  <2>1. \A i \in 1..n, u \in V : step[<<i, u>>] = DeliverGenTx(u, txs[i])
    OBVIOUS
  <2>2. step \in [(1..n) \X V -> V]
    BY <1>4
  <2> HIDE DEF step
  <2>3. PICK f : IsLoop(f, n, V, s, step)
    BY <1>2, <1>5, <2>2, LoopExists
  <2>4. /\ f \in [0..n -> V] /\ f[0] = s
        /\ \A i \in 1..n : f[i] = step[<<i, f[i - 1]>>]
    BY <2>3 DEF IsLoop
  <2>5. ASSUME NEW i \in 0..n
        PROVE  f[i] = IF i = 0 THEN s ELSE DeliverGenTx(f[i - 1], txs[i])
    <3>1. CASE i = 0
      BY <2>4, <3>1
    <3>2. CASE i # 0
      <4>1. i \in 1..n /\ i - 1 \in 0..n
        BY <1>2, <3>2
      <4>2. f[i - 1] \in V
        BY <2>4, <4>1
      <4> QED BY <2>1, <2>4, <3>2, <4>1, <4>2
    <3> QED BY <3>1, <3>2
  <2>6. f = [i \in 0..n |-> IF i = 0 THEN s ELSE DeliverGenTx(f[i - 1], txs[i])]
    BY <2>4, <2>5
  <2> QED BY <2>6
<1>7. acc = [i \in 0..n |-> IF i = 0 THEN s ELSE DeliverGenTx(acc[i - 1], txs[i])]
  BY <1>6
<1> HIDE DEF acc, step
<1> DEFINE G == {i \in 0..n : acc[i] \in V}
<1>8. 0 \in G
  <2>1. 0 \in 0..n /\ acc[0] = s
    BY <1>2, <1>7
  <2> QED BY <1>5, <2>1
<1>9. ASSUME NEW i \in 1..n, i - 1 \in G PROVE i \in G
  <2>1. i \in 0..n /\ i # 0
    BY <1>2
  <2>2. acc[i] = DeliverGenTx(acc[i - 1], txs[i])
    BY <1>7, <2>1
  <2>3. acc[i] \in V
    BY <1>4, <1>9, <2>2
  <2> QED BY <2>1, <2>3
<1>10. \A i \in 0..n : i \in G
  <2> HIDE DEF G
  <2> QED BY <1>2, <1>8, <1>9, LoopInduction
<1> DEFINE w == acc[n]
<1>11. Started(w)
  BY <1>2, <1>10 DEF V
<1> HIDE DEF w
<1>12. CASE txs = <<>>
  BY <1>1, <1>12
<1>13. CASE txs # <<>> /\ w.halted
  BY <1>1, <1>11, <1>13 DEF w
<1>14. CASE txs # <<>> /\ ~w.halted
  <2>1. t = ApplySetUpdates(w, 0, 0)
    BY <1>1, <1>14 DEF w
  <2> QED BY <1>11, <1>14, <2>1, GenesisSetKeeps
<1> QED BY <1>12, <1>13, <1>14

\* The genesis of gaia: the staking module, then the genesis transactions.
LEMMA GaiaKeeps ==
    ASSUME NEW g \in Genesis, NEW t, t = GaiaGenesis(g)
    PROVE  Started(t) /\ (~t.halted => SetCurrent(t))
<1> DEFINE a == GenesisStore(g)
           s == InitGenesis(g)
           u == GenutilGenesis(s, g.gentxs)
<1>1. /\ a = GenesisStore(g) /\ u = GenutilGenesis(s, g.gentxs)
      /\ s = IF g.exported THEN a ELSE ApplySetUpdates(a, 0, 0)
      /\ t = u \/ t = [u EXCEPT !.halted = TRUE]
  BY DEF InitGenesis, GaiaGenesis
<1>2. g.gentxs \in Seq(CreateValidatorMsgs) /\ g.exported \in BOOLEAN
  BY GenesisAssumption, GenesisConsistency
<1> HIDE DEF a, s, u
<1>4. Started(a) /\ ~a.halted /\ (g.exported => SetCurrent(a))
  BY <1>1, GenesisStoreKeeps
<1>5. Started(s) /\ (~s.halted => SetCurrent(s))
  <2>1. CASE g.exported
    BY <1>1, <1>4, <2>1
  <2>2. CASE ~g.exported
    <3>1. s = ApplySetUpdates(a, 0, 0)
      BY <1>1, <2>2
    <3> QED BY <1>4, <3>1, GenesisSetKeeps
  <2> QED BY <2>1, <2>2
<1>6. Started(u) /\ (~u.halted => SetCurrent(u))
  BY <1>1, <1>2, <1>5, GenutilKeeps
<1>7. CASE t = u
  BY <1>6, <1>7
<1>8. CASE t = [u EXCEPT !.halted = TRUE]
  <2>1. Always(u) /\ u.hist = {}
    BY <1>6 DEF Started
  <2>2. Always(t) /\ t.hist = u.hist /\ t.last = u.last /\ t.halted
    BY <1>8, <2>1, HaltKeeps
  <2> QED BY <2>1, <2>2 DEF Started
<1> QED BY <1>1, <1>7, <1>8

(***************************************************************************)
(* The inductive invariant holds at first and is kept by every handler.    *)
(***************************************************************************)

\* The node starts in a consistent state, or not at all.
LEMMA InitKeeps == Init => IInv
<1> SUFFICES ASSUME Init PROVE IInv
  OBVIOUS
<1>1. PICK g \in Genesis : st = GaiaGenesis(g)
  BY DEF Init
<1>2. Started(st) /\ (~st.halted => SetCurrent(st))
  BY <1>1, GaiaKeeps
<1>3. tm = st.last /\ header = [time |-> 0, height |-> 0] /\ phase = "commit" /\ msgs = 0
  BY DEF Init
<1>4. header.time = 0 /\ header.height = 0 /\ header \in [time : 0..MaxTime, height : Nat]
  <2>1. 0 \in 0..MaxTime
    BY StakingAssumption
  <2> QED BY <1>3, <2>1
<1>5. Window(0) = {}
  BY DEF Window
<1> QED BY <1>2, <1>3, <1>4, <1>5 DEF IInv, Started

\* A message that keeps what a keeper method must keep.
LEMMA MessageStep ==
    ASSUME IInv, Message, MessageKeeps(st', st, header.time)
    PROVE  IInv'
<1>1. /\ header' = header /\ tm' = tm /\ phase' = phase /\ phase = "deliver" /\ ~st.halted
      /\ msgs' = msgs + 1
  BY DEF Message
<1>2. /\ Always(st') /\ st'.hist = st.hist /\ st'.last = st.last
      /\ ~st'.halted /\ Running(st, header.time) => Running(st', header.time)
      /\ ~st'.halted /\ PoolsAhead(st, 0, 0) => PoolsAhead(st', 0, 0)
  BY DEF MessageKeeps
<1>3. /\ header \in [time : 0..MaxTime, height : Nat] /\ st.hist = Window(header.height)
      /\ msgs \in Nat /\ Running(st, header.time) /\ PoolsAhead(st, 0, 0) /\ tm = st.last
  BY <1>1 DEF IInv
<1>5. /\ Always(st') /\ header' \in [time : 0..MaxTime, height : Nat]
      /\ st'.hist = Window(header'.height)
      /\ phase' \in {"deliver", "commit"} /\ msgs' \in Nat
  BY <1>1, <1>2, <1>3
<1>6. ~st'.halted => /\ Running(st', header'.time) /\ PoolsAhead(st', 0, 0) /\ tm' = st'.last
                     /\ phase' = "commit" => SetCurrent(st')
  BY <1>1, <1>2, <1>3
<1> QED BY <1>5, <1>6 DEF IInv

\* begin_block.
LEMMA BeginBlockStep ==
    ASSUME IInv, NEW dt \in 1..2, BeginBlock(dt)
    PROVE  IInv'
<1>1. /\ phase = "commit" /\ ~st.halted /\ header.time + dt <= MaxTime
      /\ header' = [time |-> header.time + dt, height |-> header.height + 1]
      /\ st' = TrackHistoricalInfo(st, header.height + 1)
      /\ phase' = "deliver" /\ tm' = tm /\ msgs' = msgs
  BY DEF BeginBlock
<1>2. /\ Always(st) /\ header \in [time : 0..MaxTime, height : Nat]
      /\ st.hist = Window(header.height) /\ msgs \in Nat
      /\ Running(st, header.time) /\ PoolsAhead(st, 0, 0) /\ tm = st.last
  BY <1>1 DEF IInv
<1>3. MaxTime \in Nat
  BY StakingAssumption
<1>4. /\ header.time \in Nat /\ header.height \in Nat /\ header'.time \in 0..MaxTime
      /\ header'.time \in Nat /\ header.time <= header'.time
      /\ header'.height = header.height + 1
      /\ header' \in [time : 0..MaxTime, height : Nat]
  BY <1>1, <1>2, <1>3
<1>5. SameClaims(st', st) /\ st'.hist = Window(header.height + 1) /\ ~st'.halted
  BY <1>1, <1>2, <1>4, TrackKeeps
<1>6. /\ Always(st') /\ \A now : Running(st, now) => Running(st', now)
      /\ PoolsAhead(st, 0, 0) => PoolsAhead(st', 0, 0)
      /\ SetCurrent(st) => SetCurrent(st')
  BY <1>2, <1>5, SameClaimsKeep
<1>7. Running(st, header'.time)
  <2>1. st \in Store
    BY <1>2 DEF Always
  <2> QED BY <1>2, <1>4, <2>1, RunningLater
<1>8. Running(st', header'.time) /\ PoolsAhead(st', 0, 0)
  BY <1>2, <1>6, <1>7
<1>9. tm' = st'.last
  BY <1>1, <1>2, <1>5 DEF SameClaims
<1> QED BY <1>1, <1>2, <1>4, <1>5, <1>6, <1>8, <1>9 DEF IInv

\* The amounts of messages are numbers.
LEMMA AmountNat == \A a \in Amounts : a \in Nat
  BY StakingAssumption

\* What the handlers are given.
LEMMA Delivering ==
    ASSUME IInv, Message
    PROVE  Always(st) /\ header.time \in 0..MaxTime /\ header.time \in Nat /\ ~st.halted
<1>1. MaxTime \in Nat
  BY StakingAssumption
<1>2. Always(st) /\ header.time \in 0..MaxTime /\ ~st.halted
  BY DEF IInv, Message
<1> QED BY <1>1, <1>2

\* create_validator.
LEMMA CreateValidatorStep ==
    ASSUME IInv, NEW m \in CreateValidatorMsgs, CreateValidator(m)
    PROVE  IInv'
<1>1. Message /\ CanCreate(st, m) /\ st' = Created(st, m, header.time)
  BY DEF CreateValidator
<1>2. Always(st) /\ header.time \in Nat
  BY <1>1, Delivering
<1>3. /\ MessageKeeps(st', st, header.time) /\ st'.halted = st.halted
      /\ \A u \in Validators : st'.val[u].status = "Bonded" <=> st.val[u].status = "Bonded"
  BY <1>1, <1>2, CreatedKeeps
<1> QED BY <1>1, <1>3, MessageStep

\* A message after which the claims are as they were: an edit of a validator or
\* a new parameter.
LEMMA SameClaimsStep ==
    ASSUME IInv, Message, SameClaims(st', st), st'.hist = st.hist, st'.halted = st.halted
    PROVE  IInv'
<1>1. Always(st)
  BY Delivering
<1>2. /\ Always(st') /\ \A now : Running(st, now) => Running(st', now)
      /\ PoolsAhead(st, 0, 0) => PoolsAhead(st', 0, 0)
      /\ SetCurrent(st) => SetCurrent(st')
  BY <1>1, SameClaimsKeep
<1>3. MessageKeeps(st', st, header.time)
  BY <1>2 DEF MessageKeeps, SameClaims
<1> QED BY <1>3, MessageStep

\* A message that panics on a validator that cannot be decoded.
LEMMA ReadsCorruptStep ==
    ASSUME IInv, NEW v \in Validators, ReadsCorrupt(v)
    PROVE  IInv'
<1>1. Message /\ st' = [st EXCEPT !.halted = TRUE]
  BY DEF ReadsCorrupt
<1>2. Always(st)
  BY <1>1, Delivering
<1>3. Always(st') /\ st'.hist = st.hist /\ st'.last = st.last /\ st'.halted
  BY <1>1, <1>2, HaltKeeps
<1>4. MessageKeeps(st', st, header.time)
  BY <1>3 DEF MessageKeeps
<1> QED BY <1>1, <1>4, MessageStep

\* edit_validator.
LEMMA EditValidatorStep ==
    ASSUME IInv, NEW m \in EditValidatorMsgs, EditValidator(m)
    PROVE  IInv'
<1> DEFINE v == m.validator
<1>1. Message /\ v = m.validator /\ st' = [st EXCEPT !.val[v] = Edited(st.val[v], m, header.time)]
  BY DEF EditValidator
<1> HIDE DEF v
<1>2. Always(st) /\ header.time \in Nat
  BY <1>1, Delivering
<1>3. SameClaims(st', st) /\ st'.hist = st.hist /\ st'.halted = st.halted
  BY <1>1, <1>2, EditKeeps
<1> QED BY <1>1, <1>3, SameClaimsStep

\* delegate.
LEMMA DelegateStep ==
    ASSUME IInv, NEW m \in DelegateMsgs, DelegateMsg(m)
    PROVE  IInv'
<1> DEFINE d == m.delegator
           v == m.validator
           a == m.amount
<1>1. /\ Message /\ Exists(st, v) /\ ~InvalidExRate(st.val[v]) /\ st.bal[d] >= a
      /\ st' = Delegate(st, d, v, a)
  BY DEF DelegateMsg
<1>2. d \in Accounts /\ v \in Validators /\ a \in Nat
  BY AmountNat DEF DelegateMsgs
<1> HIDE DEF d, v, a
<1>3. Always(st)
  BY <1>1, Delivering
<1>4. /\ MessageKeeps(st', st, header.time) /\ st'.halted = st.halted
      /\ \A u \in Validators : u # v => st'.val[u] = st.val[u]
      /\ \A b \in Accounts : b # d => st'.bal[b] = st.bal[b]
      /\ SameBond(st'.val[v], st.val[v])
  BY <1>1, <1>2, <1>3, DelegateKeeps
<1> QED BY <1>1, <1>4, MessageStep

\* undelegate.
LEMMA UndelegateStep ==
    ASSUME IInv, NEW m \in UndelegateMsgs, UndelegateMsg(m)
    PROVE  IInv'
<1> DEFINE d == m.delegator
           v == m.validator
           a == m.amount
           sh == UnbondShares(st, d, v, a)
<1>1. Message /\ ValidUnbond(st, d, v, a) /\ st' = Undelegate(st, d, v, sh, header.time)
  BY DEF UndelegateMsg
<1>2. d \in Accounts /\ v \in Validators /\ a \in Nat
  BY AmountNat DEF UndelegateMsgs
<1> HIDE DEF d, v, a
<1>3. Always(st) /\ header.time \in 0..MaxTime
  BY <1>1, Delivering
<1>4. sh \in Nat /\ sh <= st.del[<<d, v>>] /\ Exists(st, v)
  BY <1>1, <1>2, <1>3, UnbondSharesWithin
<1> HIDE DEF sh
<1>5. MessageKeeps(st', st, header.time)
  BY <1>1, <1>2, <1>3, <1>4, UndelegateKeeps
<1> QED BY <1>1, <1>5, MessageStep

\* begin_redelegate.
LEMMA RedelegateStep ==
    ASSUME IInv, NEW m \in RedelegateMsgs, RedelegateMsg(m)
    PROVE  IInv'
<1> DEFINE d == m.delegator
           src == m.src
           dst == m.dst
           a == m.amount
           sh == UnbondShares(st, d, src, a)
<1>1. /\ Message /\ src # dst /\ ValidUnbond(st, d, src, a) /\ Exists(st, dst)
      /\ ~InvalidExRate(st.val[dst])
      /\ st' = BeginRedelegation(st, d, src, dst, sh, header.time)
  BY DEF RedelegateMsg
<1>2. d \in Accounts /\ src \in Validators /\ dst \in Validators /\ a \in Nat
  BY AmountNat DEF RedelegateMsgs
<1> HIDE DEF d, src, dst, a
<1>3. Always(st) /\ header.time \in 0..MaxTime
  BY <1>1, Delivering
<1>4. sh \in Nat /\ sh <= st.del[<<d, src>>] /\ Exists(st, src)
  BY <1>1, <1>2, <1>3, UnbondSharesWithin
<1> HIDE DEF sh
<1>5. MessageKeeps(st', st, header.time)
  BY <1>1, <1>2, <1>3, <1>4, BeginRedelegationKeeps
<1> QED BY <1>1, <1>5, MessageStep

\* A parameter proposal that has passed.
LEMMA SetUnbondingTimeStep ==
    ASSUME IInv, NEW u \in UnbondingTimes, SetUnbondingTime(u)
    PROVE  IInv'
<1>1. Message /\ st' = [st EXCEPT !.unbondingTime = u]
  BY DEF SetUnbondingTime
<1>2. Always(st) /\ st \in Store
  BY <1>1, Delivering DEF Always
<1>3. st' = WithParameter(st, u, st.hist, st.halted)
  BY <1>1, <1>2 DEF WithParameter, Store
<1>4. st.hist \in SUBSET Nat /\ st.halted \in BOOLEAN
  BY <1>2, StoreFields
<1>5. SameClaims(st', st) /\ st'.hist = st.hist /\ st'.halted = st.halted
  BY <1>2, <1>3, <1>4, ParameterKeeps
<1> QED BY <1>1, <1>5, SameClaimsStep

\* end_block: what Tendermint is sent makes its validator set the last one.
LEMMA EndBlockStep ==
    ASSUME IInv, EndBlock
    PROVE  IInv'
<1>1. /\ phase = "deliver" /\ ~st.halted
      /\ st' = BlockValidatorUpdates(st, header.time, header.height)
      /\ tm' = Updated(tm, st, Elected(st)) /\ phase' = "commit"
      /\ header' = header /\ msgs' = msgs
  BY DEF EndBlock
<1>2. /\ Always(st) /\ header \in [time : 0..MaxTime, height : Nat]
      /\ st.hist = Window(header.height) /\ msgs \in Nat
      /\ Running(st, header.time) /\ PoolsAhead(st, 0, 0) /\ tm = st.last
  BY <1>1 DEF IInv
<1>3. header.time \in 0..MaxTime /\ header.height \in Nat
  BY <1>2
<1>4. /\ StepKeeps(st', st, header.time)
      /\ ~st'.halted => SetCurrent(st') /\ st'.last = Updated(st.last, st, Elected(st))
  BY <1>1, <1>2, <1>3, BlockKeeps
<1>5. /\ Always(st') /\ st'.hist = Window(header'.height)
      /\ header' \in [time : 0..MaxTime, height : Nat]
      /\ phase' \in {"deliver", "commit"} /\ msgs' \in Nat
  BY <1>1, <1>2, <1>4 DEF StepKeeps
<1>6. ~st'.halted => /\ Running(st', header'.time) /\ PoolsAhead(st', 0, 0) /\ tm' = st'.last
                     /\ phase' = "commit" => SetCurrent(st')
  BY <1>1, <1>2, <1>4 DEF StepKeeps
<1> QED BY <1>5, <1>6 DEF IInv

\* Every handler keeps the invariant.
LEMMA NextKeeps == IInv /\ [Next]_vars => IInv'
<1> SUFFICES ASSUME IInv, [Next]_vars PROVE IInv'
  OBVIOUS
<1>1. CASE \E dt \in 1..2 : BeginBlock(dt)
  BY <1>1, BeginBlockStep
<1>2. CASE \E m \in CreateValidatorMsgs : CreateValidator(m)
  BY <1>2, CreateValidatorStep
<1>3. CASE \E m \in EditValidatorMsgs : EditValidator(m)
  BY <1>3, EditValidatorStep
<1>4. CASE \E m \in DelegateMsgs : DelegateMsg(m)
  BY <1>4, DelegateStep
<1>5. CASE \E m \in UndelegateMsgs : UndelegateMsg(m)
  BY <1>5, UndelegateStep
<1>6. CASE \E m \in RedelegateMsgs : RedelegateMsg(m)
  BY <1>6, RedelegateStep
<1>7. CASE \E u \in UnbondingTimes : SetUnbondingTime(u)
  BY <1>7, SetUnbondingTimeStep
<1>8. CASE EndBlock
  BY <1>8, EndBlockStep
<1>9. CASE \E v \in Validators : ReadsCorrupt(v)
  BY <1>9, ReadsCorruptStep
<1>10. CASE UNCHANGED vars
  BY <1>10 DEF vars, IInv
<1> QED BY <1>1, <1>2, <1>3, <1>4, <1>5, <1>6, <1>7, <1>8, <1>9, <1>10 DEF Next

\* The inductive invariant always holds: the store is well formed, the records,
\* indexes and queues agree, and while the node has not stopped the pools cover
\* what is claimed and Tendermint has the last validator set.
THEOREM StakingInvariant == Spec => []IInv
<1>1. Init => IInv
  BY InitKeeps
<1>2. IInv /\ [Next]_vars => IInv'
  BY NextKeeps
<1> QED BY <1>1, <1>2, PTL DEF Spec

(***************************************************************************)
(* What the invariant says of the system.                                  *)
(***************************************************************************)

\* However delegations are made, moved and taken away at whatever exchange rate,
\* add_tokens_from_del, remove_del_shares and unbond leave a validator with the
\* shares of its delegations, no more and no less.
THEOREM SharesProved == Spec => []SharesAreDelegations
<1>1. IInv => SharesAreDelegations
  BY DEF IInv, Always, SharesHeld, Delegated, SharesAreDelegations
<1> QED BY <1>1, StakingInvariant, PTL

\* The transfers between the two pools, of messages, of the validator set and of
\* completed unbondings, keep them at what validators and entries claim, less
\* what complete_unbonding paid again.
THEOREM PoolsProved == Spec => []PoolsAccounted
<1>1. IInv => PoolsAccounted
  <2> SUFFICES ASSUME IInv, ~st.halted
               PROVE  /\ st.bonded = TokensOf(st, WithStatus(st, TRUE))
                      /\ st.notBonded + st.uncovered
                            = TokensOf(st, WithStatus(st, FALSE)) + UnpaidBalance
    BY DEF PoolsAccounted
  <2>1. Always(st) /\ PoolsAhead(st, 0, 0)
    BY DEF IInv
  <2>2. st \in Store /\ AbsentEmpty(st) /\ st.val \in [Validators -> ValidatorRecords]
    BY <2>1, StoreFields DEF Always
  <2>3. /\ TokensOf(st, WithStatus(st, TRUE)) = Total(BondedTokens(st), Validators)
        /\ TokensOf(st, WithStatus(st, FALSE)) = Total(OtherTokens(st), Validators)
    BY <2>2, PoolTokens
  <2>4. UnpaidBalance = Total(Claims(st), DvPairs)
    BY DEF UnpaidBalance, Claims
  <2> DEFINE b == Total(BondedTokens(st), Validators)
             o == Total(OtherTokens(st), Validators)
             c == Total(Claims(st), DvPairs)
  <2>5. b \in Nat /\ o \in Nat /\ c \in Nat
    BY <2>2, ClaimsTyped
  <2>6. st.bonded = b + 0 /\ st.notBonded + st.uncovered = (o + c) + 0
    BY <2>1 DEF PoolsAhead
  <2> HIDE DEF b, o, c
  <2>7. st.bonded = b /\ st.notBonded + st.uncovered = o + c
    BY <2>5, <2>6
  <2> QED BY <2>3, <2>4, <2>7 DEF b, o, c
<1> QED BY <1>1, StakingInvariant, PTL

\* Every update of a validator deletes the key of the power that was stored: the
\* power index has each validator that is not jailed once, under its power.
THEOREM PowerIndexProved == Spec => []PowerIndexExact
<1>1. IInv => PowerIndexExact
  BY DEF IInv, Running, Indexed, PowerIndexExact
<1> QED BY <1>1, StakingInvariant, PTL

\* The queue of unbonding validators has exactly those, so that the end of a
\* block does not panic over it, and no entry of an unbonding delegation that is
\* to be completed in a later slot has been dequeued.
THEOREM QueuesProved == Spec => []UnbondingQueued
<1>1. IInv => UnbondingQueued
  BY DEF IInv, Running, ValidatorsQueued, EntriesQueued, Waits, QueueKey, UnbondingQueued
<1> QED BY <1>1, StakingInvariant, PTL

\* apply_and_return_validator_set_updates leaves the last set, the total power
\* and what Tendermint was sent at the bonded validators, no more than
\* max_validators and none jailed.
THEOREM LastSetProved == Spec => []LastSetIsBonded
<1>1. IInv => LastSetIsBonded
  <2> SUFFICES ASSUME IInv, ~st.halted
               PROVE  /\ \A v \in Validators : (st.last[v] # 0) <=> (v \in WithStatus(st, TRUE))
                      /\ Cardinality(WithStatus(st, TRUE)) <= MaxValidators
                      /\ st.total = Total(st.last, Validators)
                      /\ phase = "commit" => \A v \in WithStatus(st, TRUE) :
                            ~st.val[v].jailed /\ tm[v] = ConsensusPower(st.val[v])
    BY DEF LastSetIsBonded
  <2>1. LastBonded(st) /\ FewBonded(st) /\ tm = st.last /\ (phase = "commit" => SetCurrent(st))
    BY DEF IInv, Running
  <2>2. \A v \in Validators : v \in WithStatus(st, TRUE) <=> st.val[v].status = "Bonded"
    BY DEF WithStatus, Exists
  <2>3. WithStatus(st, TRUE) \subseteq Validators
    BY DEF WithStatus
  <2> QED BY <2>1, <2>2, <2>3 DEF LastBonded, FewBonded, SetCurrent
<1> QED BY <1>1, StakingInvariant, PTL

(***************************************************************************)
(* The queries.                                                            *)
(***************************************************************************)

\* The requests that name a delegator and a validator.
LEMMA PairRequests ==
    ASSUME NEW k \in {"Delegation", "UnbondingDelegation", "DelegatorValidator"}
    PROVE  AskAll(k) = UNION {Ask([kind |-> k, del |-> p[1], val |-> p[2]]) : p \in DvPairs}
<1>1. ASSUME NEW q \in Requests, q.kind = k
      PROVE  \E p \in DvPairs : q = [kind |-> k, del |-> p[1], val |-> p[2]]
  <2>1. q \in [kind : {"Delegation", "UnbondingDelegation", "DelegatorValidator"},
               del : Accounts, val : Validators]
    BY <1>1 DEF Requests
  <2>2. q = [kind |-> k, del |-> <<q.del, q.val>>[1], val |-> <<q.del, q.val>>[2]]
        /\ <<q.del, q.val>> \in DvPairs
    BY <1>1, <2>1 DEF DvPairs
  <2> QED BY <2>2
<1>2. ASSUME NEW p \in DvPairs
      PROVE  /\ [kind |-> k, del |-> p[1], val |-> p[2]] \in Requests
             /\ [kind |-> k, del |-> p[1], val |-> p[2]].kind = k
  BY DEF Requests, DvPairs
<1> QED BY <1>1, <1>2 DEF AskAll

\* Those that name a delegator.
LEMMA DelegatorRequests ==
    ASSUME NEW k \in {"Delegations", "UnbondingDelegations", "DelegatorValidators"}
    PROVE  AskAll(k) = UNION {Ask([kind |-> k, del |-> d]) : d \in Accounts}
<1>1. ASSUME NEW q \in Requests, q.kind = k
      PROVE  \E d \in Accounts : q = [kind |-> k, del |-> d]
  <2>1. q \in [kind : {"Delegations", "UnbondingDelegations", "DelegatorValidators"}, del : Accounts]
    BY <1>1 DEF Requests
  <2>2. q = [kind |-> k, del |-> q.del] /\ q.del \in Accounts
    BY <1>1, <2>1
  <2> QED BY <2>2
<1>2. ASSUME NEW d \in Accounts
      PROVE  [kind |-> k, del |-> d] \in Requests /\ [kind |-> k, del |-> d].kind = k
  BY DEF Requests
<1> QED BY <1>1, <1>2 DEF AskAll

\* Those that name a validator.
LEMMA ValidatorRequests ==
    AskAll("ValidatorDelegations")
        = UNION {Ask([kind |-> "ValidatorDelegations", val |-> v]) : v \in Validators}
<1> DEFINE k == "ValidatorDelegations"
<1>1. ASSUME NEW q \in Requests, q.kind = k
      PROVE  \E v \in Validators : q = [kind |-> k, val |-> v]
  <2>1. q \in [kind : {"Validator", "ValidatorDelegations", "ValidatorUnbondingDelegations"},
               val : Validators]
    BY <1>1 DEF Requests
  <2>2. q = [kind |-> k, val |-> q.val] /\ q.val \in Validators
    BY <1>1, <2>1
  <2> QED BY <2>2
<1>2. ASSUME NEW v \in Validators
      PROVE  [kind |-> k, val |-> v] \in Requests /\ [kind |-> k, val |-> v].kind = k
  BY DEF Requests
<1> QED BY <1>1, <1>2 DEF AskAll

\* What the handler of each request answers.
LEMMA Answers ==
    /\ \A d, v : Ask([kind |-> "Delegation", del |-> d, val |-> v]) = QueryDelegation(st, d, v)
    /\ \A d : Ask([kind |-> "Delegations", del |-> d]) = QueryDelegatorDelegations(st, d)
    /\ \A v : Ask([kind |-> "ValidatorDelegations", val |-> v]) = QueryValidatorDelegations(st, v)
    /\ \A d, v : Ask([kind |-> "UnbondingDelegation", del |-> d, val |-> v])
                    = QueryUnbondingDelegation(st, d, v)
    /\ \A d : Ask([kind |-> "UnbondingDelegations", del |-> d]) = QueryUnbondingDelegations(st, d)
    /\ \A d, v : Ask([kind |-> "DelegatorValidator", del |-> d, val |-> v])
                    = QueryDelegatorValidator(st, d, v)
    /\ \A d : Ask([kind |-> "DelegatorValidators", del |-> d]) = QueryDelegatorValidators(st, d)
    /\ \A x : Ask([kind |-> "Validators", status |-> x]) = QueryValidators(st, x)
    /\ \A h : Ask([kind |-> "HistoricalInfo", height |-> h]) = QueryHistoricalInfo(st, h)
    /\ Ask([kind |-> "Pool"]) = QueryPool(st)
<1>1. \A d, v : Ask([kind |-> "Delegation", del |-> d, val |-> v]) = QueryDelegation(st, d, v)
  BY DEF Ask, TypedQuery
<1>2. \A d : Ask([kind |-> "Delegations", del |-> d]) = QueryDelegatorDelegations(st, d)
  BY DEF Ask, TypedQuery
<1>3. \A v : Ask([kind |-> "ValidatorDelegations", val |-> v]) = QueryValidatorDelegations(st, v)
  BY DEF Ask, TypedQuery
<1>4. \A d, v : Ask([kind |-> "UnbondingDelegation", del |-> d, val |-> v])
                   = QueryUnbondingDelegation(st, d, v)
  BY DEF Ask, TypedQuery
<1>5. \A d : Ask([kind |-> "UnbondingDelegations", del |-> d]) = QueryUnbondingDelegations(st, d)
  BY DEF Ask, TypedQuery
<1>6. \A d, v : Ask([kind |-> "DelegatorValidator", del |-> d, val |-> v])
                   = QueryDelegatorValidator(st, d, v)
  BY DEF Ask, TypedQuery
<1>7. \A d : Ask([kind |-> "DelegatorValidators", del |-> d]) = QueryDelegatorValidators(st, d)
  BY DEF Ask, TypedQuery
<1>8. \A x : Ask([kind |-> "Validators", status |-> x]) = QueryValidators(st, x)
  BY DEF Ask, TypedQuery
<1>9. \A h : Ask([kind |-> "HistoricalInfo", height |-> h]) = QueryHistoricalInfo(st, h)
  BY DEF Ask, TypedQuery
<1>10. Ask([kind |-> "Pool"]) = QueryPool(st)
  BY DEF Ask, TypedQuery
<1> QED BY <1>1, <1>2, <1>3, <1>4, <1>5, <1>6, <1>7, <1>8, <1>9, <1>10

\* A delegation is never to a validator that is missing or has no shares.
LEMMA DelegationShown ==
    ASSUME NEW s, Always(s), NEW d \in Accounts, NEW v \in Validators, s.del[<<d, v>>] > 0
    PROVE  HasBalance(s, v) /\ Exists(s, v)
<1> DEFINE f == [a \in Accounts |-> s.del[<<a, v>>]]
<1>1. s.del \in [DvPairs -> Nat] /\ s.val \in [Validators -> ValidatorRecords]
  BY StoreFields DEF Always
<1>2. \A a \in Accounts : <<a, v>> \in DvPairs
  BY DEF DvPairs
<1>3. \A a \in Accounts : f[a] \in Nat
  BY <1>1, <1>2
<1>4. s.val[v].shares = Total(f, Accounts) /\ f[d] = s.del[<<d, v>>]
  BY DEF Always, SharesHeld, Delegated
<1> HIDE DEF f
<1>5. f[d] <= Total(f, Accounts) /\ Total(f, Accounts) \in Nat
  BY <1>3, FiniteKeys, SumAtLeast
<1>6. s.val[v].shares > 0 /\ s.val[v].shares # 0
  BY <1>3, <1>4, <1>5
<1>7. Exists(s, v)
  BY <1>6 DEF Always, AbsentEmpty
<1> QED BY <1>6, <1>7 DEF HasBalance

\* The answers about delegations, unbonding ones and validators of a delegator.
LEMMA DelegationsAgree == Always(st) => DelegationAnswersAgree
<1> SUFFICES ASSUME Always(st) PROVE DelegationAnswersAgree
  OBVIOUS
<1> DEFINE all == Shown(st, DvPairs)
<1>1. AskAll("Delegation") = all
  <2>1. AskAll("Delegation") = UNION {Shown(st, {<<p[1], p[2]>>}) : p \in DvPairs}
    BY PairRequests, Answers DEF QueryDelegation
  <2>2. \A p \in DvPairs : p = <<p[1], p[2]>>
    BY DEF DvPairs
  <2> QED BY <2>1, <2>2 DEF Shown
<1>2. AskAll("Delegations") = all
  <2>1. AskAll("Delegations") = UNION {Shown(st, {d} \X Validators) : d \in Accounts}
    BY DelegatorRequests, Answers DEF QueryDelegatorDelegations
  <2> QED BY <2>1 DEF Shown, DvPairs
<1>3. AskAll("ValidatorDelegations") = all
  <2>1. AskAll("ValidatorDelegations") = UNION {Shown(st, Accounts \X {v}) : v \in Validators}
    BY ValidatorRequests, Answers DEF QueryValidatorDelegations
  <2> QED BY <2>1 DEF Shown, DvPairs
<1>4. {<<r.del, r.val>> : r \in all} = {p \in DvPairs : st.del[p] > 0}
  <2>1. ASSUME NEW r \in all PROVE <<r.del, r.val>> \in {p \in DvPairs : st.del[p] > 0}
    <3>1. PICK p \in DvPairs : HasDelegation(st, p[1], p[2]) /\ r = DelegationResponse(st, p[1], p[2])
      BY DEF Shown
    <3>2. r.del = p[1] /\ r.val = p[2] /\ p = <<p[1], p[2]>>
      BY <3>1 DEF DelegationResponse, DvPairs
    <3> QED BY <3>1, <3>2 DEF HasDelegation
  <2>2. ASSUME NEW p \in DvPairs, st.del[p] > 0 PROVE \E r \in all : p = <<r.del, r.val>>
    <3> DEFINE r == DelegationResponse(st, p[1], p[2])
    <3>1. p = <<p[1], p[2]>> /\ p[1] \in Accounts /\ p[2] \in Validators
      BY DEF DvPairs
    <3>2. HasDelegation(st, p[1], p[2]) /\ HasBalance(st, p[2])
      BY <2>2, <3>1, DelegationShown DEF HasDelegation
    <3>3. r \in all
      BY <3>2 DEF Shown
    <3>4. r.del = p[1] /\ r.val = p[2]
      BY DEF DelegationResponse
    <3> QED BY <3>1, <3>3, <3>4
  <2> QED BY <2>1, <2>2
<1>5. AskAll("DelegatorValidators") = AskAll("DelegatorValidator")
  <2>1. AskAll("DelegatorValidators")
          = UNION {QueryDelegatorValidators(st, d) : d \in Accounts}
    BY DelegatorRequests, Answers
  <2>2. AskAll("DelegatorValidator")
          = UNION {QueryDelegatorValidator(st, p[1], p[2]) : p \in DvPairs}
    <3>1. AskAll("DelegatorValidator") = UNION {Ask([kind |-> "DelegatorValidator", del |-> p[1], val |-> p[2]]) : p \in DvPairs}
      BY PairRequests
    <3>2. \A p \in DvPairs : Ask([kind |-> "DelegatorValidator", del |-> p[1], val |-> p[2]])
                             = QueryDelegatorValidator(st, p[1], p[2])
      BY Answers
    <3> QED BY ONLY <3>1, <3>2
  <2>3. \A d \in Accounts, v \in Validators : HasDelegation(st, d, v) => Exists(st, v)
    <3> SUFFICES ASSUME NEW d \in Accounts, NEW v \in Validators, HasDelegation(st, d, v)
                 PROVE  Exists(st, v)
      OBVIOUS
    <3>1. st.del[<<d, v>>] > 0
      BY DEF HasDelegation
    <3> QED BY <3>1, DelegationShown
  <2>4. \A d \in Accounts : QueryDelegatorValidators(st, d)
            = {<<v, st.val[v]>> : v \in {u \in Validators : HasDelegation(st, d, u)}}
    BY <2>3 DEF QueryDelegatorValidators
  <2>5. \A d \in Accounts, v \in Validators : QueryDelegatorValidator(st, d, v)
            = IF HasDelegation(st, d, v) THEN {<<v, st.val[v]>>} ELSE {}
    BY <2>3 DEF QueryDelegatorValidator, QueryValidator
  <2>6. ASSUME NEW x \in AskAll("DelegatorValidators") PROVE x \in AskAll("DelegatorValidator")
    <3>1. PICK d \in Accounts : x \in QueryDelegatorValidators(st, d)
      BY <2>1
    <3>2. PICK v \in Validators : HasDelegation(st, d, v) /\ x = <<v, st.val[v]>>
      BY <2>4, <3>1
    <3>3. x \in QueryDelegatorValidator(st, d, v)
      BY <2>5, <3>2
    <3>4. <<d, v>> \in DvPairs /\ <<d, v>>[1] = d /\ <<d, v>>[2] = v
      BY DEF DvPairs
    <3> QED BY <2>2, <3>3, <3>4
  <2>7. ASSUME NEW x \in AskAll("DelegatorValidator") PROVE x \in AskAll("DelegatorValidators")
    <3>1. PICK p \in DvPairs : x \in QueryDelegatorValidator(st, p[1], p[2])
      BY <2>2
    <3>2. p[1] \in Accounts /\ p[2] \in Validators
      BY DEF DvPairs
    <3>3. HasDelegation(st, p[1], p[2]) /\ x = <<p[2], st.val[p[2]]>>
      BY <2>5, <3>1, <3>2
    <3>4. x \in QueryDelegatorValidators(st, p[1])
      BY <2>4, <3>2, <3>3
    <3> QED BY <2>1, <3>2, <3>4
  <2> QED BY <2>6, <2>7
<1>6. AskAll("UnbondingDelegations") = AskAll("UnbondingDelegation")
  <2>1. AskAll("UnbondingDelegations")
          = UNION {QueryUnbondingDelegations(st, d) : d \in Accounts}
    BY DelegatorRequests, Answers
  <2>2. AskAll("UnbondingDelegation")
          = UNION {QueryUnbondingDelegation(st, p[1], p[2]) : p \in DvPairs}
    <3>1. AskAll("UnbondingDelegation") = UNION {Ask([kind |-> "UnbondingDelegation", del |-> p[1], val |-> p[2]]) : p \in DvPairs}
      BY PairRequests
    <3>2. \A p \in DvPairs : Ask([kind |-> "UnbondingDelegation", del |-> p[1], val |-> p[2]])
                             = QueryUnbondingDelegation(st, p[1], p[2])
      BY Answers
    <3> QED BY ONLY <3>1, <3>2
  <2>3. \A d \in Accounts, v \in Validators :
            <<d, v>> \in DvPairs /\ <<d, v>>[1] = d /\ <<d, v>>[2] = v
    BY DEF DvPairs
  <2>4. \A p \in DvPairs : p[1] \in Accounts /\ p[2] \in Validators
    BY DEF DvPairs
  <2>5. \A d \in Accounts :
            QueryUnbondingDelegations(st, d) = UNION {QueryUnbondingDelegation(st, d, v) : v \in Validators}
    BY DEF QueryUnbondingDelegations
  <2>6. \A x : x \in AskAll("UnbondingDelegations")
            <=> \E d \in Accounts, v \in Validators : x \in QueryUnbondingDelegation(st, d, v)
    BY <2>1, <2>5
  <2>7. \A x : x \in AskAll("UnbondingDelegation")
            <=> \E d \in Accounts, v \in Validators : x \in QueryUnbondingDelegation(st, d, v)
    <3>1. \A x : x \in AskAll("UnbondingDelegation")
              <=> \E p \in DvPairs : x \in QueryUnbondingDelegation(st, p[1], p[2])
      BY <2>2
    <3> QED BY <2>3, <2>4, <3>1
  <2> QED BY <2>6, <2>7
<1> QED BY <1>1, <1>2, <1>3, <1>4, <1>5, <1>6 DEF DelegationAnswersAgree

\* tokens_from_shares rounds down: the balances of all delegations together are
\* no more than the tokens of the validator.
LEMMA BalancesWithin ==
    ASSUME NEW s, Always(s), NEW v \in Validators, NEW told, told = QueryValidatorDelegations(s, v)
    PROVE  s.val[v].tokens >= Total([r \in told |-> r.balance], told)
<1> DEFINE n == s.val[v].shares
           t == s.val[v].tokens
           D == {d \in Accounts : HasDelegation(s, d, v)}
           f == [d \in Accounts |-> s.del[<<d, v>>]]
           h == [d \in Accounts |-> IF d \in D THEN f[d] ELSE 0]
           b == [d \in D |-> TokensFromShares(s.val[v], s.del[<<d, v>>])]
           R == [d \in D |-> DelegationResponse(s, d, v)]
           bal == [r \in told |-> r.balance]
<1>1. s.del \in [DvPairs -> Nat] /\ s.val \in [Validators -> ValidatorRecords]
  BY StoreFields DEF Always
<1>2. n \in Nat /\ t \in Nat
  BY <1>1, ValidatorFields
<1>3. \A d \in Accounts : <<d, v>> \in DvPairs
  BY DEF DvPairs
<1>4. \A d \in Accounts : f[d] \in Nat
  BY <1>1, <1>3
<1>5. \A d \in D : HasBalance(s, v) /\ n > 0
  BY DelegationShown DEF HasDelegation, HasBalance
<1>6. IsFiniteSet(D) /\ D \in SUBSET Accounts /\ IsFiniteSet(Accounts)
  BY FiniteKeys, FS_Subset
<1>7. told = {R[d] : d \in D}
  <2>1. ASSUME NEW r \in told PROVE \E d \in D : r = R[d]
    <3>1. PICK p \in Accounts \X {v} : /\ HasDelegation(s, p[1], p[2])
                                       /\ r = DelegationResponse(s, p[1], p[2])
      BY DEF QueryValidatorDelegations, Shown
    <3>2. p[1] \in D /\ p[2] = v
      BY <3>1
    <3>3. r = R[p[1]]
      BY <3>1, <3>2
    <3> QED BY <3>2, <3>3
  <2>2. ASSUME NEW d \in D PROVE R[d] \in told
    <3>1. <<d, v>> \in Accounts \X {v} /\ HasDelegation(s, d, v) /\ HasBalance(s, v)
      BY <1>5
    <3>2. <<d, v>>[1] = d /\ <<d, v>>[2] = v /\ R[d] = DelegationResponse(s, d, v)
      OBVIOUS
    <3> HIDE DEF R, D
    <3> QED BY <3>1, <3>2 DEF QueryValidatorDelegations, Shown
  <2> QED BY <2>1, <2>2
<1>8. \A c, d \in D : R[c] = R[d] => c = d
  <2>1. \A d \in D : R[d].del = d
    BY DEF DelegationResponse
  <2> HIDE DEF R
  <2> QED BY <2>1
<1>9. ASSUME NEW d \in D PROVE b[d] \in Nat /\ n * b[d] <= f[d] * t /\ f[d] \in Nat
  <2>1. n \in Nat \ {0} /\ f[d] \in Nat /\ f[d] * t \in Nat /\ f[d] = s.del[<<d, v>>]
    BY <1>2, <1>4, <1>5
  <2>2. b[d] = (f[d] * t) \div n
    BY <2>1 DEF TokensFromShares
  <2> HIDE DEF n, t, f, b, D
  <2> QED BY <2>1, <2>2, DivBounds
<1>10. ASSUME NEW d \in D PROVE b[d] \in Int /\ bal[R[d]] = b[d]
  <2>1. R[d] \in told
    BY <1>7
  <2>2. R[d].balance = b[d]
    BY DEF DelegationResponse
  <2> QED BY <1>9, <2>1, <2>2
<1>11. Delegated(s, v) = Total(f, Accounts)
  BY DEF Delegated
<1>12. n = Total(f, Accounts)
  BY <1>11 DEF Always, SharesHeld
<1>13. \A d \in Accounts : h[d] = f[d]
  <2>1. ASSUME NEW d \in Accounts, d \notin D PROVE f[d] = 0
    BY <1>4, <2>1 DEF HasDelegation
  <2> QED BY <2>1
<1>14. \A d \in Accounts : h[d] = IF d \in D THEN f[d] ELSE 0
  OBVIOUS
<1> HIDE DEF n, t, D, f, h, b, R, bal
<1>15. Total(bal, told) = Total(b, D)
  BY <1>6, <1>7, <1>8, <1>10, SumImage
<1>16. n * Total(b, D) <= Total(f, D) * t
  BY <1>2, <1>6, <1>9, SumShares
<1>17. Total(f, D) = n
  <2>1. \A d \in Accounts : f[d] \in Int /\ h[d] \in Int /\ h[d] = f[d]
    BY <1>4, <1>13
  <2>2. Total(f, D) = Total(h, Accounts)
    BY <1>6, <1>14, <2>1, SumChosen
  <2>3. Total(h, Accounts) = Total(f, Accounts)
    BY <1>6, <2>1, SumSame
  <2> QED BY <1>12, <2>2, <2>3
<1>18. Total(b, D) \in Nat
  BY <1>6, <1>9, SumNat
<1>19. Total(b, D) <= t
  <2>1. CASE D = {}
    <3>1. Total(b, D) = 0
      BY <2>1, SumEmpty
    <3> QED BY <1>2, <3>1
  <2>2. CASE D # {}
    <3> DEFINE x == Total(b, D)
    <3>1. n \in Nat /\ n > 0 /\ t \in Nat /\ x \in Nat /\ n * x <= n * t
      BY <1>2, <1>5, <1>16, <1>17, <1>18, <2>2
    <3> HIDE DEF x
    <3>2. ASSUME NEW i \in Nat, NEW j \in Nat, NEW k \in Nat, k > 0, k * i <= k * j
          PROVE  i <= j
      BY <3>2, Z3
    <3>3. x <= t
      BY <3>1, <3>2
    <3> QED BY <3>3 DEF x
  <2> QED BY <2>1, <2>2
<1>20. Total(bal, told) <= t /\ Total(bal, told) \in Nat
  BY <1>15, <1>18, <1>19
<1>21. t >= Total(bal, told)
  BY <1>2, <1>20
<1> QED BY <1>21 DEF t, bal

\* The bonded validators that are told of have the tokens of the bonded pool.
LEMMA PoolAnswered ==
    ASSUME NEW s, Always(s), PoolsAhead(s, 0, 0), Readable(s),
           NEW told, told = QueryValidators(s, "Bonded")
    PROVE  QueryPool(s).bonded = Total([w \in told |-> w[2].tokens], told)
<1> DEFINE B == WithStatus(s, TRUE)
           R == [v \in B |-> <<v, s.val[v]>>]
           e == [v \in Validators |-> s.val[v].tokens]
           f == [w \in told |-> w[2].tokens]
           all == Total(BondedTokens(s), Validators)
<1>1. s \in Store /\ AbsentEmpty(s) /\ s.val \in [Validators -> ValidatorRecords]
  BY StoreFields DEF Always
<1>2. B \subseteq Validators /\ IsFiniteSet(B)
  BY FiniteKeys, FS_Subset DEF WithStatus
<1>3. \A v \in Validators :
         v \in B <=> /\ Exists(s, v) /\ Decodable(s.val[v])
                     /\ "Bonded" \in {"Unspecified", s.val[v].status}
  <2> HIDE DEF Decodable
  <2> QED BY DEF WithStatus, Readable
<1>4. told = {R[v] : v \in B}
  BY <1>2, <1>3 DEF QueryValidators
<1>5. \A u, v \in B : R[u] = R[v] => u = v
  OBVIOUS
<1>6. ASSUME NEW v \in B PROVE e[v] \in Int /\ f[R[v]] = e[v]
  <2>1. R[v] \in told /\ R[v][2] = s.val[v] /\ v \in Validators
    BY <1>2, <1>4
  <2>2. s.val[v].tokens \in Nat
    BY <1>1, <2>1, ValidatorFields
  <2> QED BY <2>1, <2>2
<1>7. TokensOf(s, B) = Total(e, B)
  BY DEF TokensOf
<1>8. TokensOf(s, B) = all
  BY <1>1, PoolTokens
<1>9. all \in Nat
  BY <1>1, ClaimsTyped
<1>10. s.bonded = all + 0
  BY DEF PoolsAhead
<1> HIDE DEF B, R, e, f, all
<1>11. Total(f, told) = Total(e, B)
  BY <1>2, <1>4, <1>5, <1>6, SumImage
<1>12. s.bonded = all
  BY <1>9, <1>10
<1>13. QueryPool(s).bonded = s.bonded
  BY DEF QueryPool
<1> QED BY <1>7, <1>8, <1>11, <1>12, <1>13 DEF f

\* Both together.
LEMMA TokensAgree == Always(st) /\ PoolsAhead(st, 0, 0) /\ Readable(st) => TokenAnswersAgree
<1> SUFFICES ASSUME Always(st), PoolsAhead(st, 0, 0), Readable(st) PROVE TokenAnswersAgree
  OBVIOUS
<1>1. ASSUME NEW w \in Ask([kind |-> "Validators", status |-> "Unspecified"])
      PROVE  LET told == Ask([kind |-> "ValidatorDelegations", val |-> w[1]])
             IN  w[2].tokens >= Total([r \in told |-> r.balance], told)
  <2> DEFINE told == Ask([kind |-> "ValidatorDelegations", val |-> w[1]])
  <2>1. w \in QueryValidators(st, "Unspecified")
    BY Answers
  <2>2. PICK v \in Validators : w = <<v, st.val[v]>>
    BY <2>1 DEF QueryValidators
  <2>3. told = QueryValidatorDelegations(st, v)
    BY <2>2, Answers
  <2> HIDE DEF told
  <2>4. st.val[v].tokens >= Total([r \in told |-> r.balance], told)
    BY <2>3, BalancesWithin
  <2>5. w[2] = st.val[v]
    BY <2>2
  <2>6. w[2].tokens >= Total([r \in told |-> r.balance], told)
    BY <2>4, <2>5
  <2> QED BY <2>6 DEF told
<1>2. LET told == Ask([kind |-> "Validators", status |-> "Bonded"])
      IN  Ask([kind |-> "Pool"]).bonded = Total([w \in told |-> w[2].tokens], told)
  <2> DEFINE told == Ask([kind |-> "Validators", status |-> "Bonded"])
  <2>1. told = QueryValidators(st, "Bonded") /\ Ask([kind |-> "Pool"]) = QueryPool(st)
    BY Answers
  <2> HIDE DEF told
  <2>2. QueryPool(st).bonded = Total([w \in told |-> w[2].tokens], told)
    BY <2>1, PoolAnswered
  <2>3. Ask([kind |-> "Pool"]).bonded = Total([w \in told |-> w[2].tokens], told)
    BY <2>1, <2>2
  <2> QED BY <2>3 DEF told
<1> QED BY <1>1, <1>2 DEF TokenAnswersAgree

\* The historical infos that are kept, and the query that panics.
LEMMA WindowHolds ==
    ASSUME Always(st), header.height \in Nat, st.hist = Window(header.height)
    PROVE  WindowAnswered
<1>1. ASSUME NEW h \in 0..MaxHeight
      PROVE  (Ask([kind |-> "HistoricalInfo", height |-> h]) # {})
                 <=> (h > 0 /\ h <= header.height /\ h > header.height - HistoricalEntries)
  <2>1. Ask([kind |-> "HistoricalInfo", height |-> h]) = st.hist \cap {h}
    BY Answers DEF QueryHistoricalInfo
  <2>2. h \in Nat
    <3>1. MaxHeight \in Nat
      BY StakingAssumption
    <3> QED BY <3>1
  <2>3. h \in st.hist <=> (h > 0 /\ h <= header.height /\ h > header.height - HistoricalEntries)
    BY <2>2 DEF Window
  <2> QED BY <2>1, <2>3
<1>2. ASSUME NEW v \in Validators
      PROVE  Answered(GrpcKinds, st, [kind |-> "ValidatorUnbondingDelegations", val |-> v])
                 <=> \A d \in Accounts : st.ubd[<<d, v>>] = <<>>
  <2> DEFINE q == [kind |-> "ValidatorUnbondingDelegations", val |-> v]
  <2>1. q.kind = "ValidatorUnbondingDelegations" /\ q.val = v /\ q.kind \in GrpcKinds
    BY DEF GrpcKinds, Kinds
  <2> HIDE DEF q
  <2>2. Panics(st, q) <=> \E k \in st.ubdByVal : k[1] = v
    <3>1. ReadBy(st, q) = {}
      BY <2>1 DEF ReadBy
    <3> QED BY <2>1, <3>1 DEF Panics, UnbondingDelegationsFromValidatorPanics
  <2>3. st.ubdByVal = {UbdByValKey(p[1], p[2]) : p \in {x \in DvPairs : st.ubd[x] # <<>>}}
    BY DEF Always, KeysExact
  <2>4. ASSUME NEW k \in st.ubdByVal, k[1] = v PROVE \E d \in Accounts : st.ubd[<<d, v>>] # <<>>
    <3>1. PICK p \in DvPairs : st.ubd[p] # <<>> /\ k = UbdByValKey(p[1], p[2])
      BY <2>3
    <3>2. p = <<p[1], p[2]>> /\ p[1] \in Accounts /\ k[1] = p[2]
      BY <3>1 DEF DvPairs, UbdByValKey
    <3> QED BY <2>4, <3>1, <3>2
  <2>5. ASSUME NEW d \in Accounts, st.ubd[<<d, v>>] # <<>> PROVE \E k \in st.ubdByVal : k[1] = v
    <3>1. <<d, v>> \in DvPairs /\ <<d, v>>[1] = d /\ <<d, v>>[2] = v
      BY DEF DvPairs
    <3>2. UbdByValKey(d, v) \in st.ubdByVal
      BY <2>3, <2>5, <3>1
    <3>3. UbdByValKey(d, v)[1] = v
      BY DEF UbdByValKey
    <3> QED BY <3>2, <3>3
  <2>6. Answered(GrpcKinds, st, q) <=> \A d \in Accounts : st.ubd[<<d, v>>] = <<>>
    BY <2>1, <2>2, <2>4, <2>5 DEF Answered
  <2> QED BY <2>6 DEF q
<1> QED BY <1>1, <1>2 DEF WindowAnswered

\* The indexes have what is stored, always; and of a committed store the answers
\* of the query handlers agree: about delegations however they are asked for,
\* about tokens, balances and the pool, and about the window of historical infos.
THEOREM QueriesProved == Spec => []QueriesAgree
<1>1. IInv => QueriesAgree
  <2> SUFFICES ASSUME IInv PROVE QueriesAgree
    OBVIOUS
  <2>1. Always(st) /\ header.height \in Nat /\ st.hist = Window(header.height)
    BY DEF IInv
  <2>2. IndexesAgree
    <3>1. DOMAIN st.ubd = DvPairs /\ DOMAIN st.red = DvvTriplets
      BY <2>1, StoreFields DEF Always
    <3> QED BY <2>1, <3>1 DEF Always, KeysExact, IndexesAgree
  <2>3. ~st.halted => PoolsAhead(st, 0, 0)
    BY DEF IInv
  <2>4. WindowAnswered
    BY <2>1, WindowHolds
  <2> QED BY <2>1, <2>2, <2>3, <2>4, DelegationsAgree, TokensAgree DEF QueriesAgree
<1> QED BY <1>1, StakingInvariant, PTL
=============================================================================
