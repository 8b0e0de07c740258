----------------------------- MODULE AnteProofs -----------------------------
(***************************************************************************)
(* Proofs about the ante handler and the ledger of auth and bank below it, *)
(* for any holders, denominations and genesis and for transactions in any  *)
(* order: coins are conserved, no transaction is accepted twice and every  *)
(* accepted one has paid. The invariant relates three stores that          *)
(* different keepers write: the accounts, the balances and the supply.     *)
(***************************************************************************)
EXTENDS BankQueries, SumProofs

\* The ledgers of auth and bank: what the stores of the two modules hold.
Ledger == [acct : [Holder -> Account \cup {NoAccount}], next : Nat,
           bal : [Holder -> [Denom -> Nat]], supply : [Denom -> Nat]]

\* auth: no two accounts have the same number, and the next number is free.
Numbered(l) ==
    /\ \A h \in Holder : HasAccount(l, h) => l.acct[h].number < l.next
    /\ \A h, k \in Holder : HasAccount(l, h) /\ HasAccount(l, k)
                              /\ l.acct[h].number = l.acct[k].number => h = k

\* What all holders together have of a denomination.
Held(l, d) == Total([h \in Holder |-> l.bal[h][d]], Holder)

\* bank: the supply that is stored is what the holders have.
Balanced(l) == \A d \in Denom : l.supply[d] = Held(l, d)

\* A step of auth leaves the bank alone, and a step of the bank auth.
SameCoins(l, m) == m.bal = l.bal /\ m.supply = l.supply
SameAccounts(l, m) == m.acct = l.acct /\ m.next = l.next

\* No account is lost, no sequence number changes and new accounts start at 0.
KeepsAccounts(l, m) ==
    \A h \in Holder :
        /\ HasAccount(l, h) => HasAccount(m, h) /\ m.acct[h].sequence = l.acct[h].sequence
        /\ ~HasAccount(l, h) /\ HasAccount(m, h) => m.acct[h].sequence = 0

\* Users and modules are finitely many, so their balances have a total.
LEMMA HolderFinite == IsFiniteSet(Holder)
  BY BankAssumption, FS_Union DEF Holder

\* A ledger with one field replaced is a ledger: each keeper writes one store
\* at a time.
LEMMA FieldUpdates ==
    ASSUME NEW l \in Ledger
    PROVE  /\ \A x \in [Holder -> Account \cup {NoAccount}] : [l EXCEPT !.acct = x] \in Ledger
           /\ \A x \in Nat : [l EXCEPT !.next = x] \in Ledger
           /\ \A x \in [Holder -> [Denom -> Nat]] : [l EXCEPT !.bal = x] \in Ledger
           /\ \A x \in [Denom -> Nat] : [l EXCEPT !.supply = x] \in Ledger
  BY DEF Ledger

\* Creating an account (auth Keeper::create_account) gives it the next number
\* and sequence 0 and touches nobody else.
LEMMA CreateFacts ==
    ASSUME NEW l \in Ledger, Numbered(l), NEW a \in Holder,
           NEW p \in SUBSET {"burner", "staking", "minter"}
    PROVE  LET m == CreateAccount(l, a, p)
           IN  /\ m \in Ledger /\ Numbered(m) /\ SameCoins(l, m)
               /\ ~HasAccount(l, a) => KeepsAccounts(l, m)
               /\ m.acct[a].sequence = 0
               /\ \A h \in Holder \ {a} : m.acct[h] = l.acct[h]
<1> DEFINE m == CreateAccount(l, a, p)
<1>1. NewAccount(l.next, p) \in Account /\ NewAccount(l.next, p).number = l.next
        /\ NewAccount(l.next, p).sequence = 0
  BY DEF NewAccount, Account, Ledger
<1>2. NewAccount(l.next, p) # NoAccount
  BY <1>1, BankAssumption
<1>3. m \in Ledger
  <2> DEFINE k == [l EXCEPT !.acct[a] = NewAccount(l.next, p)]
  <2>1. k \in Ledger
    BY <1>1 DEF Ledger
  <2>2. m = [k EXCEPT !.next = @ + 1]
    BY DEF CreateAccount, Ledger
  <2> HIDE DEF k, m
  <2>3. k.next + 1 \in Nat
    BY <2>1 DEF Ledger
  <2> QED BY <2>1, <2>2, <2>3, FieldUpdates
<1>4. m.acct[a] = NewAccount(l.next, p) /\ m.next = l.next + 1 /\ l.next \in Nat
        /\ \A h \in Holder \ {a} : m.acct[h] = l.acct[h]
  BY DEF CreateAccount, Ledger
<1>5. SameCoins(l, m)
  BY DEF CreateAccount, Ledger, SameCoins
<1>6. \A h \in Holder : HasAccount(l, h) => l.acct[h].number \in Nat
  BY DEF Ledger, HasAccount, Account
<1>7. Numbered(m)
  <2> HIDE DEF m
  <2>1. ASSUME NEW h \in Holder, HasAccount(m, h) PROVE m.acct[h].number < m.next
    BY <1>1, <1>4, <1>6, <2>1 DEF Numbered, HasAccount
  <2>2. ASSUME NEW h \in Holder, NEW k \in Holder, HasAccount(m, h), HasAccount(m, k),
               m.acct[h].number = m.acct[k].number
        PROVE  h = k
    BY <1>1, <1>4, <1>6, <2>2 DEF Numbered, HasAccount
  <2> QED BY <2>1, <2>2 DEF Numbered
<1>8. ~HasAccount(l, a) => KeepsAccounts(l, m)
  <2> HIDE DEF m
  <2> QED BY <1>1, <1>2, <1>4 DEF KeepsAccounts, HasAccount
<1> HIDE DEF m
<1>9. m.acct[a].sequence = 0
  BY <1>1, <1>4
<1> QED BY <1>3, <1>4, <1>5, <1>7, <1>8, <1>9 DEF m

\* Nothing happens to accounts when nothing happens.
LEMMA KeepsReflexive == \A l : KeepsAccounts(l, l)
  BY DEF KeepsAccounts

\* Two steps that keep the accounts keep them together.
LEMMA KeepsTransitive ==
    ASSUME NEW l, NEW m, NEW n, KeepsAccounts(l, m), KeepsAccounts(m, n)
    PROVE  KeepsAccounts(l, n)
  BY DEF KeepsAccounts

\* A step that does not write auth's store keeps the accounts.
LEMMA KeepsSame ==
    ASSUME NEW l, NEW m, SameAccounts(l, m)
    PROVE  KeepsAccounts(l, m) /\ (Numbered(l) => Numbered(m))
  BY DEF KeepsAccounts, SameAccounts, HasAccount, Numbered

\* Creating a module's or a receiver's account only if there is none, as the
\* keepers do, keeps every account there is.
LEMMA CreateIfMissing ==
    ASSUME NEW l \in Ledger, Numbered(l)
    PROVE  /\ \A m \in Module :
                LET k == CheckCreateModuleAccount(l, m)
                IN  k \in Ledger /\ Numbered(k) /\ SameCoins(l, k) /\ KeepsAccounts(l, k)
           /\ \A a \in Holder :
                LET k == CreateBaseAccount(l, a)
                IN  k \in Ledger /\ Numbered(k) /\ SameCoins(l, k) /\ KeepsAccounts(l, k)
<1>1. l \in Ledger /\ Numbered(l) /\ SameCoins(l, l) /\ KeepsAccounts(l, l)
  BY KeepsReflexive DEF SameCoins
<1>2. ASSUME NEW m \in Module
      PROVE  LET k == CheckCreateModuleAccount(l, m)
             IN  k \in Ledger /\ Numbered(k) /\ SameCoins(l, k) /\ KeepsAccounts(l, k)
  <2>1. m \in Holder /\ Permissions[m] \in SUBSET {"burner", "staking", "minter"}
    BY BankAssumption DEF Holder
  <2> QED BY <1>1, <2>1, CreateFacts DEF CheckCreateModuleAccount
<1>3. ASSUME NEW a \in Holder
      PROVE  LET k == CreateBaseAccount(l, a)
             IN  k \in Ledger /\ Numbered(k) /\ SameCoins(l, k) /\ KeepsAccounts(l, k)
  <2>1. {} \in SUBSET {"burner", "staking", "minter"}
    OBVIOUS
  <2> QED BY <1>1, <2>1, CreateFacts DEF CreateBaseAccount
<1> QED BY <1>2, <1>3

\* When one holder's balance changes, what all of them hold changes by as much.
LEMMA HeldChange ==
    ASSUME NEW l \in Ledger, NEW m \in Ledger, NEW a \in Holder, NEW d \in Denom,
           \A h \in Holder \ {a} : m.bal[h] = l.bal[h]
    PROVE  /\ Held(m, d) = Held(l, d) + (m.bal[a][d] - l.bal[a][d])
           /\ Held(l, d) \in Int
<1> DEFINE f == [h \in Holder |-> l.bal[h][d]]
           e == [h \in Holder |-> m.bal[h][d]]
<1>1. \A h \in Holder : f[h] \in Int /\ e[h] \in Int
  BY DEF Ledger
<1>2. \A h \in Holder \ {a} : f[h] = e[h]
  OBVIOUS
<1>3. e[a] = m.bal[a][d] /\ f[a] = l.bal[a][d] /\ Held(l, d) = Total(f, Holder)
        /\ Held(m, d) = Total(e, Holder)
  BY DEF Held
<1> HIDE DEF f, e
<1>4. Total(e, Holder) = Total(f, Holder) + (e[a] - f[a])
  BY <1>1, <1>2, HolderFinite, SumUpdate
<1>5. Total(f, Holder) \in Int
  BY <1>1, HolderFinite, SumInt
<1> QED BY <1>3, <1>4, <1>5

\* add_coins adds to one balance and leaves the supply alone.
LEMMA AddCoinsFacts ==
    ASSUME NEW l \in Ledger, NEW a \in Holder, NEW c \in [Denom -> Nat]
    PROVE  LET m == AddCoins(l, a, c)
           IN  /\ m \in Ledger /\ SameAccounts(l, m) /\ m.supply = l.supply
               /\ \A h \in Holder : m.bal[h] = IF h = a THEN Plus(l.bal[a], c) ELSE l.bal[h]
               /\ \A d \in Denom : Held(m, d) = Held(l, d) + c[d]
<1> DEFINE m == AddCoins(l, a, c)
<1>1. Plus(l.bal[a], c) \in [Denom -> Nat]
  BY DEF Plus, Ledger
<1>2. m \in Ledger /\ SameAccounts(l, m) /\ m.supply = l.supply
        /\ m.bal = [l.bal EXCEPT ![a] = Plus(l.bal[a], c)]
  BY <1>1 DEF AddCoins, Ledger, SameAccounts
<1> HIDE DEF m
<1>3. \A h \in Holder : m.bal[h] = IF h = a THEN Plus(l.bal[a], c) ELSE l.bal[h]
  BY <1>2 DEF Ledger
<1>4. ASSUME NEW d \in Denom PROVE Held(m, d) = Held(l, d) + c[d]
  <2>1. m.bal[a][d] = l.bal[a][d] + c[d] /\ l.bal[a][d] \in Nat /\ c[d] \in Nat
    BY <1>3, <1>2 DEF Plus, Ledger
  <2>2. Held(m, d) = Held(l, d) + (m.bal[a][d] - l.bal[a][d]) /\ Held(l, d) \in Int
    <3>1. \A h \in Holder \ {a} : m.bal[h] = l.bal[h]
      BY <1>3
    <3>2. m \in Ledger
      BY <1>2
    <3> QED BY <3>1, <3>2, HeldChange
  <2> QED BY <2>1, <2>2
<1> QED BY <1>2, <1>3, <1>4 DEF m

\* sub_unlocked_coins, when it succeeds, takes from one balance and leaves the
\* supply alone; no amount becomes negative.
LEMMA SubCoinsFacts ==
    ASSUME NEW l \in Ledger, NEW a \in Holder, NEW c \in [Denom -> Nat],
           NEW m \in SubUnlockedCoins(l, a, c)
    PROVE  /\ m \in Ledger /\ SameAccounts(l, m) /\ m.supply = l.supply
           /\ \A h \in Holder : m.bal[h] = IF h = a THEN Minus(l.bal[a], c) ELSE l.bal[h]
           /\ \A d \in Denom : Held(m, d) = Held(l, d) - c[d]
<1>1. Minus(l.bal[a], c) \in [Denom -> Nat]
  BY DEF SubUnlockedCoins, Covers, Minus, Ledger
<1>2. m = [l EXCEPT !.bal[a] = Minus(@, c)]
  BY DEF SubUnlockedCoins
<1>2a. m \in Ledger /\ SameAccounts(l, m) /\ m.supply = l.supply
        /\ m.bal = [l.bal EXCEPT ![a] = Minus(l.bal[a], c)]
  BY <1>1, <1>2 DEF Ledger, SameAccounts
<1>3. \A h \in Holder : m.bal[h] = IF h = a THEN Minus(l.bal[a], c) ELSE l.bal[h]
  BY <1>2a DEF Ledger
<1>4. ASSUME NEW d \in Denom PROVE Held(m, d) = Held(l, d) - c[d]
  <2>1. m.bal[a][d] = l.bal[a][d] - c[d] /\ l.bal[a][d] \in Nat /\ c[d] \in Nat
    BY <1>3, <1>2a DEF Minus, Ledger
  <2>2. Held(m, d) = Held(l, d) + (m.bal[a][d] - l.bal[a][d]) /\ Held(l, d) \in Int
    <3>1. \A h \in Holder \ {a} : m.bal[h] = l.bal[h]
      BY <1>3
    <3>2. m \in Ledger
      BY <1>2a
    <3> QED BY <3>1, <3>2, HeldChange
  <2> QED BY <2>1, <2>2
<1> QED BY <1>2a, <1>3, <1>4

\* What every ledger of a block is: of the right type, its accounts numbered,
\* its coins adding up to the supply.
Sound(l) == l \in Ledger /\ Numbered(l) /\ Balanced(l)

\* A holder that did not lose anything.
Richer(l, m, h) == Covers(m.bal[h], l.bal[h])

\* Coins taken from one holder and given to another, who may be the same.
LEMMA MoveFacts ==
    ASSUME NEW l \in Ledger, Sound(l), NEW from \in Holder, NEW to \in Holder,
           NEW c \in [Denom -> Nat], NEW k \in SubUnlockedCoins(l, from, c)
    PROVE  LET m == AddCoins(k, to, c)
           IN  /\ Sound(m) /\ SameAccounts(l, m)
               /\ \A h \in Holder \ {from} : Richer(l, m, h)
               /\ from # to => m.bal[to] = Plus(l.bal[to], c)
<1> DEFINE m == AddCoins(k, to, c)
<1>1. /\ k \in Ledger /\ SameAccounts(l, k) /\ k.supply = l.supply
      /\ \A h \in Holder : k.bal[h] = IF h = from THEN Minus(l.bal[from], c) ELSE l.bal[h]
      /\ \A d \in Denom : Held(k, d) = Held(l, d) - c[d]
  BY SubCoinsFacts
<1>2. /\ m \in Ledger /\ SameAccounts(k, m) /\ m.supply = k.supply
      /\ \A h \in Holder : m.bal[h] = IF h = to THEN Plus(k.bal[to], c) ELSE k.bal[h]
      /\ \A d \in Denom : Held(m, d) = Held(k, d) + c[d]
  BY <1>1, AddCoinsFacts
<1> HIDE DEF m
<1>3. SameAccounts(l, m)
  BY <1>1, <1>2 DEF SameAccounts
<1>4. Balanced(m)
  <2> SUFFICES ASSUME NEW d \in Denom PROVE m.supply[d] = Held(m, d)
    BY DEF Balanced
  <2>1. l.supply[d] = Held(l, d) /\ l.supply[d] \in Nat /\ c[d] \in Nat
    BY DEF Sound, Balanced, Ledger
  <2> QED BY <1>1, <1>2, <2>1
<1>5. Sound(m)
  BY <1>2, <1>3, <1>4, KeepsSame DEF Sound
<1>6. ASSUME NEW h \in Holder \ {from} PROVE Richer(l, m, h)
  <2>1. m.bal[h] = IF h = to THEN Plus(l.bal[h], c) ELSE l.bal[h]
    BY <1>1, <1>2
  <2>2. l.bal[h] \in [Denom -> Nat]
    BY DEF Ledger
  <2> QED BY <2>1, <2>2 DEF Richer, Covers, Plus
<1>7. from # to => m.bal[to] = Plus(l.bal[to], c)
  BY <1>1, <1>2
<1> QED BY <1>3, <1>5, <1>6, <1>7 DEF m

\* send_coins keeps the ledger sound and takes from the sender only.
LEMMA SendCoinsFacts ==
    ASSUME NEW l \in Ledger, Sound(l), NEW from \in Holder, NEW to \in Holder,
           NEW c \in [Denom -> Nat], NEW m \in SendCoins(l, from, to, c)
    PROVE  /\ Sound(m) /\ SameAccounts(l, m)
           /\ \A h \in Holder \ {from} : Richer(l, m, h)
           /\ from # to => m.bal[to] = Plus(l.bal[to], c)
<1>1. PICK k \in SubUnlockedCoins(l, from, c) : m = AddCoins(k, to, c)
  BY DEF SendCoins
<1> QED BY <1>1, MoveFacts

\* Creating an account first changes nothing of this.
LEMMA CreatedFacts ==
    ASSUME NEW l \in Ledger, Sound(l)
    PROVE  /\ \A n \in Module : LET k == CheckCreateModuleAccount(l, n)
                                IN  k \in Ledger /\ Sound(k) /\ KeepsAccounts(l, k) /\ k.bal = l.bal
           /\ \A a \in Holder : LET k == CreateBaseAccount(l, a)
                                IN  k \in Ledger /\ Sound(k) /\ KeepsAccounts(l, k) /\ k.bal = l.bal
<1>1. ASSUME NEW k, SameCoins(l, k) PROVE Balanced(k)
  BY <1>1 DEF SameCoins, Sound, Balanced, Held
<1>2. Numbered(l)
  BY DEF Sound
<1>3. ASSUME NEW n \in Module
      PROVE  LET k == CheckCreateModuleAccount(l, n)
             IN  k \in Ledger /\ Sound(k) /\ KeepsAccounts(l, k) /\ k.bal = l.bal
  <2> DEFINE k == CheckCreateModuleAccount(l, n)
  <2>1. k \in Ledger /\ Numbered(k) /\ SameCoins(l, k) /\ KeepsAccounts(l, k)
    BY <1>2, CreateIfMissing
  <2> HIDE DEF k
  <2>2. k \in Ledger /\ Sound(k) /\ KeepsAccounts(l, k) /\ k.bal = l.bal
    BY <1>1, <2>1 DEF Sound, SameCoins
  <2> QED BY <2>2 DEF k
<1>4. ASSUME NEW a \in Holder
      PROVE  LET k == CreateBaseAccount(l, a)
             IN  k \in Ledger /\ Sound(k) /\ KeepsAccounts(l, k) /\ k.bal = l.bal
  <2> DEFINE k == CreateBaseAccount(l, a)
  <2>1. k \in Ledger /\ Numbered(k) /\ SameCoins(l, k) /\ KeepsAccounts(l, k)
    BY <1>2, CreateIfMissing
  <2> HIDE DEF k
  <2>2. k \in Ledger /\ Sound(k) /\ KeepsAccounts(l, k) /\ k.bal = l.bal
    BY <1>1, <2>1 DEF Sound, SameCoins
  <2> QED BY <2>2 DEF k
<1> QED BY <1>3, <1>4

\* What a transfer does: nobody but the payer has less.
Transfer(l, m, from) ==
    Sound(m) /\ KeepsAccounts(l, m) /\ \A h \in Holder \ {from} : Richer(l, m, h)

\* A transfer that first creates the account of the receiver is a transfer.
LEMMA SendAfterCreate ==
    ASSUME NEW l \in Ledger, Sound(l), NEW k \in Ledger, Sound(k), KeepsAccounts(l, k), k.bal = l.bal,
           NEW from \in Holder, NEW m \in Ledger, Sound(m), SameAccounts(k, m),
           \A h \in Holder \ {from} : Richer(k, m, h)
    PROVE  Transfer(l, m, from)
<1>1. KeepsAccounts(k, m)
  BY KeepsSame
<1>2. KeepsAccounts(l, m)
  BY <1>1, KeepsTransitive
<1>3. \A h \in Holder \ {from} : Richer(l, m, h)
  BY DEF Richer
<1> QED BY <1>2, <1>3 DEF Transfer

\* send_coins_from_account_to_module is a transfer into the module's account.
LEMMA ToModuleFacts ==
    ASSUME NEW l \in Ledger, Sound(l), NEW from \in Holder, NEW n \in Module,
           NEW c \in [Denom -> Nat]
    PROVE  \A m \in SendCoins(CheckCreateModuleAccount(l, n), from, n, c) :
              Transfer(l, m, from) /\ (from # n => m.bal[n] = Plus(l.bal[n], c))
<1> DEFINE k == CheckCreateModuleAccount(l, n)
<1>1. k \in Ledger /\ Sound(k) /\ KeepsAccounts(l, k) /\ k.bal = l.bal
  BY CreatedFacts
<1>2. n \in Holder
  BY DEF Holder
<1> HIDE DEF k
<1>3. ASSUME NEW m \in SendCoins(k, from, n, c)
      PROVE  Transfer(l, m, from) /\ (from # n => m.bal[n] = Plus(l.bal[n], c))
  <2>1. Sound(m) /\ SameAccounts(k, m) /\ (\A h \in Holder \ {from} : Richer(k, m, h))
          /\ (from # n => m.bal[n] = Plus(k.bal[n], c))
    BY <1>1, <1>2, SendCoinsFacts
  <2>2. m \in Ledger
    BY <2>1 DEF Sound
  <2>3. Transfer(l, m, from)
    BY <1>1, <2>1, <2>2, SendAfterCreate
  <2> QED BY <1>1, <2>1, <2>3
<1> QED BY <1>3 DEF k

\* Transfers between accounts, with and without creating the receiver's.
LEMMA ToAccountFacts ==
    ASSUME NEW l \in Ledger, Sound(l), NEW from \in Holder, NEW to \in Holder,
           NEW c \in [Denom -> Nat]
    PROVE  /\ \A m \in SendCoins(l, from, to, c) : Transfer(l, m, from)
           /\ \A m \in AccountToAccount(l, from, to, c) : Transfer(l, m, from)
<1>1. ASSUME NEW k \in SendCoins(l, from, to, c)
      PROVE  k \in Ledger /\ Sound(k) /\ KeepsAccounts(l, k)
               /\ \A h \in Holder \ {from} : Richer(l, k, h)
  <2>1. Sound(k) /\ SameAccounts(l, k) /\ \A h \in Holder \ {from} : Richer(l, k, h)
    BY SendCoinsFacts
  <2> QED BY <2>1, KeepsSame DEF Sound
<1>2. ASSUME NEW m \in AccountToAccount(l, from, to, c) PROVE Transfer(l, m, from)
  <2>1. PICK k \in SendCoins(l, from, to, c) : m = CreateBaseAccount(k, to)
    BY DEF AccountToAccount
  <2>2. k \in Ledger /\ Sound(k) /\ KeepsAccounts(l, k)
          /\ \A h \in Holder \ {from} : Richer(l, k, h)
    BY <1>1
  <2>3. Sound(m) /\ KeepsAccounts(k, m) /\ m.bal = k.bal
    BY <2>1, <2>2, CreatedFacts
  <2>4. KeepsAccounts(l, m)
    BY <2>2, <2>3, KeepsTransitive
  <2> QED BY <2>2, <2>3, <2>4 DEF Transfer, Richer
<1> QED BY <1>1, <1>2 DEF Transfer

\* delegate_coins and undelegate_coins are transfers between a user and a pool.
LEMMA DelegateFacts ==
    ASSUME NEW l \in Ledger, Sound(l), NEW a \in Addr, NEW n \in Module,
           NEW c \in [Denom -> Nat]
    PROVE  /\ \A m \in DelegateCoins(l, a, n, c) : Transfer(l, m, a)
           /\ \A m \in UndelegateCoins(l, n, a, c) : Transfer(l, m, n)
<1> DEFINE k == CheckCreateModuleAccount(l, n)
<1>1. k \in Ledger /\ Sound(k) /\ KeepsAccounts(l, k) /\ k.bal = l.bal
  BY CreatedFacts
<1>2. n \in Holder /\ a \in Holder
  BY DEF Holder
<1> HIDE DEF k
<1>3. ASSUME NEW from \in Holder, NEW to \in Holder, NEW j \in SubUnlockedCoins(k, from, c)
      PROVE  Transfer(l, AddCoins(j, to, c), from)
  <2> DEFINE m == AddCoins(j, to, c)
  <2>1. Sound(m) /\ SameAccounts(k, m) /\ \A h \in Holder \ {from} : Richer(k, m, h)
    BY <1>1, MoveFacts
  <2>2. m \in Ledger
    BY <2>1 DEF Sound
  <2> HIDE DEF m
  <2>3. Transfer(l, m, from)
    BY <1>1, <2>1, <2>2, SendAfterCreate
  <2> QED BY <2>3 DEF m
<1>4. ASSUME NEW m \in DelegateCoins(l, a, n, c) PROVE Transfer(l, m, a)
  <2>1. PICK j \in SubUnlockedCoins(k, a, c) : m = AddCoins(j, n, c)
    BY DEF DelegateCoins, k
  <2> QED BY <1>2, <1>3, <2>1
<1>5. ASSUME NEW m \in UndelegateCoins(l, n, a, c) PROVE Transfer(l, m, n)
  <2>1. PICK j \in SubUnlockedCoins(k, n, c) : m = AddCoins(j, a, c)
    BY DEF UndelegateCoins, k
  <2> QED BY <1>2, <1>3, <2>1
<1> QED BY <1>4, <1>5

\* What the holders have together is not negative.
LEMMA HeldNat ==
    ASSUME NEW l \in Ledger, NEW d \in Denom
    PROVE  Held(l, d) \in Nat
<1> DEFINE f == [h \in Holder |-> l.bal[h][d]]
<1>1. \A h \in Holder : f[h] \in Nat
  BY DEF Ledger
<1> HIDE DEF f
<1>2. Total(f, Holder) \in Nat
  BY <1>1, HolderFinite, SumNat
<1> QED BY <1>2 DEF Held, f

\* Minting and burning change the supply and the balance of the module by the
\* same amount, so the ledger stays sound.
LEMMA MintBurnFacts ==
    ASSUME NEW l \in Ledger, Sound(l), NEW n \in Module, NEW c \in [Denom -> Nat]
    PROVE  /\ \A m \in MintCoins(l, n, c) : Sound(m) /\ KeepsAccounts(l, m)
           /\ \A m \in BurnCoins(l, n, c) : Sound(m) /\ KeepsAccounts(l, m)
<1>1. n \in Holder
  BY DEF Holder
<1>2. ASSUME NEW k \in Ledger, SameAccounts(l, k), NEW s \in [Denom -> Nat],
             \A d \in Denom : s[d] = Held(k, d)
      PROVE  LET m == [k EXCEPT !.supply = s] IN Sound(m) /\ KeepsAccounts(l, m)
  <2> DEFINE m == [k EXCEPT !.supply = s]
  <2>1. m \in Ledger
    BY FieldUpdates
  <2>2. m.acct = k.acct /\ m.next = k.next /\ m.bal = k.bal /\ m.supply = s
    BY DEF Ledger
  <2> HIDE DEF m
  <2>3. SameAccounts(l, m)
    BY <1>2, <2>2 DEF SameAccounts
  <2>4. Balanced(m)
    BY <1>2, <2>2 DEF Balanced, Held
  <2>5. Sound(m) /\ KeepsAccounts(l, m)
    BY <2>1, <2>3, <2>4, KeepsSame DEF Sound
  <2> QED BY <2>5 DEF m
<1>3. ASSUME NEW m \in MintCoins(l, n, c) PROVE Sound(m) /\ KeepsAccounts(l, m)
  <2> DEFINE k == AddCoins(l, n, c)
             s == Plus(k.supply, c)
  <2>1. k \in Ledger /\ SameAccounts(l, k) /\ k.supply = l.supply
          /\ \A d \in Denom : Held(k, d) = Held(l, d) + c[d]
    BY <1>1, AddCoinsFacts
  <2>2. m = [k EXCEPT !.supply = s]
    BY DEF MintCoins
  <2> HIDE DEF k
  <2>3. s \in [Denom -> Nat] /\ \A d \in Denom : s[d] = Held(k, d)
    BY <2>1 DEF Plus, Ledger, Sound, Balanced
  <2> HIDE DEF s
  <2> QED BY <1>2, <2>1, <2>2, <2>3
<1>4. ASSUME NEW m \in BurnCoins(l, n, c) PROVE Sound(m) /\ KeepsAccounts(l, m)
  <2>1. PICK k \in SubUnlockedCoins(l, n, c) : m = [k EXCEPT !.supply = Minus(@, c)]
    BY DEF BurnCoins
  <2> DEFINE s == Minus(k.supply, c)
  <2>2. k \in Ledger /\ SameAccounts(l, k) /\ k.supply = l.supply
          /\ \A d \in Denom : Held(k, d) = Held(l, d) - c[d]
    BY <1>1, SubCoinsFacts
  <2>3. \A d \in Denom : Held(k, d) \in Nat
    BY <2>2, HeldNat
  <2>4. s \in [Denom -> Nat] /\ \A d \in Denom : s[d] = Held(k, d)
    BY <2>2, <2>3 DEF Minus, Ledger, Sound, Balanced
  <2>5. m = [k EXCEPT !.supply = s]
    BY <2>1
  <2> HIDE DEF s
  <2> QED BY <1>2, <2>2, <2>4, <2>5
<1> QED BY <1>3, <1>4

-----------------------------------------------------------------------------
(* Genesis.                                                                *)

\* Ledgers whose accounts are numbered and have not signed anything.
Fresh == {l \in Ledger : Numbered(l) /\ \A h \in Holder : HasAccount(l, h) => l.acct[h].sequence = 0}

\* Creating an account at genesis keeps a fresh ledger fresh.
LEMMA FreshKept ==
    ASSUME NEW l \in Fresh
    PROVE  /\ \A a \in Holder : CreateAccount(l, a, {}) \in Fresh
           /\ \A n \in Module : CheckCreateModuleAccount(l, n) \in Fresh
<1>0. l \in Ledger /\ Numbered(l)
  BY DEF Fresh
<1>1. ASSUME NEW a \in Holder, NEW p \in SUBSET {"burner", "staking", "minter"}
      PROVE  CreateAccount(l, a, p) \in Fresh
  <2> DEFINE m == CreateAccount(l, a, p)
  <2>1. m \in Ledger /\ Numbered(m) /\ m.acct[a].sequence = 0
          /\ \A h \in Holder \ {a} : m.acct[h] = l.acct[h]
    BY <1>0, CreateFacts
  <2> HIDE DEF m
  <2>2. m \in Fresh
    BY <2>1 DEF Fresh, HasAccount
  <2> QED BY <2>2 DEF m
<1>2. {} \in SUBSET {"burner", "staking", "minter"}
  OBVIOUS
<1>3. ASSUME NEW n \in Module PROVE CheckCreateModuleAccount(l, n) \in Fresh
  <2>1. n \in Holder /\ Permissions[n] \in SUBSET {"burner", "staking", "minter"}
    BY BankAssumption DEF Holder
  <2> QED BY <1>1, <2>1 DEF CheckCreateModuleAccount
<1> QED BY <1>1, <1>2, <1>3

\* The accounts of the genesis file are created one after the other, in any
\* order.
LEMMA UsersCreated ==
    ASSUME NEW S \in SUBSET Addr, NEW base \in Fresh
    PROVE  FoldSet(LAMBDA a, l : CreateAccount(l, a, {}), base, S) \in Fresh
<1> DEFINE Is(g) == g = [s \in SUBSET S |-> IF s = {} THEN base
                           ELSE CreateAccount(g[s \ {First(s)}], First(s), {})]
           step(V) == [p \in S \X V |-> CreateAccount(p[2], p[1], {})]
<1>1. IsFiniteSet(S) /\ S \subseteq Holder
  BY BankAssumption, FS_Subset DEF Holder
<1>2. \A s \in SUBSET S : s # {} => First(s) \in S /\ s \ {First(s)} \in SUBSET S
  BY FirstIn
<1>3. ASSUME NEW V, Fresh \subseteq V, NEW x \in S, NEW v \in Fresh
      PROVE  step(V)[<<x, v>>] \in Fresh
  <2>1. step(V)[<<x, v>>] = CreateAccount(v, x, {})
    BY <1>3
  <2> QED BY <1>1, <2>1, FreshKept
<1>4. \E g : Is(g)
  <2> DEFINE st == step(Fresh)
  <2>0. \A x \in S, v \in Fresh : st[<<x, v>>] = CreateAccount(v, x, {})
    OBVIOUS
  <2>0a. \A x \in S, v \in Fresh : st[<<x, v>>] \in Fresh
    BY <1>3
  <2> HIDE DEF st
  <2>1. PICK g : IsFold(g, S, st, base)
    BY <1>1, FoldExists
  <2>2. g \in [SUBSET S -> Fresh]
    BY <1>1, <2>0a, <2>1, FoldType
  <2>3. \A s \in SUBSET S : s # {} => st[<<First(s), g[s \ {First(s)}]>>]
                                        = CreateAccount(g[s \ {First(s)}], First(s), {})
    BY <1>2, <2>0, <2>2
  <2>4. Is(g)
    BY <2>1, <2>3 DEF IsFold
  <2> QED BY <2>4
<1>5. ASSUME NEW g, Is(g) PROVE g[S] \in Fresh
  <2> DEFINE st == step(Fresh \cup {g[s] : s \in SUBSET S})
  <2>1. \A x \in S, s \in SUBSET S : st[<<x, g[s]>>] = CreateAccount(g[s], x, {})
    OBVIOUS
  <2>2. \A x \in S, v \in Fresh : st[<<x, v>>] \in Fresh
    BY <1>3
  <2> HIDE DEF st
  <2>3. IsFold(g, S, st, base)
    BY <1>2, <1>5, <2>1 DEF IsFold
  <2>4. g \in [SUBSET S -> Fresh]
    BY <1>1, <2>2, <2>3, FoldType
  <2> QED BY <2>4
<1>6. Is(CHOOSE g : Is(g))
  BY <1>4
<1>7. FoldSet(LAMBDA a, l : CreateAccount(l, a, {}), base, S) = (CHOOSE g : Is(g))[S]
  BY DEF FoldSet, MapThenFoldSet, First
<1> HIDE DEF Is
<1> QED BY <1>5, <1>6, <1>7

\* So are those of the modules.
LEMMA ModulesCreated ==
    ASSUME NEW S \in SUBSET Module, NEW base \in Fresh
    PROVE  FoldSet(LAMBDA m, l : CheckCreateModuleAccount(l, m), base, S) \in Fresh
<1> DEFINE Is(g) == g = [s \in SUBSET S |-> IF s = {} THEN base
                           ELSE CheckCreateModuleAccount(g[s \ {First(s)}], First(s))]
           step(V) == [p \in S \X V |-> CheckCreateModuleAccount(p[2], p[1])]
<1>1. IsFiniteSet(S) /\ S \subseteq Module
  BY BankAssumption, FS_Subset DEF Holder
<1>2. \A s \in SUBSET S : s # {} => First(s) \in S /\ s \ {First(s)} \in SUBSET S
  BY FirstIn
<1>3. ASSUME NEW V, Fresh \subseteq V, NEW x \in S, NEW v \in Fresh
      PROVE  step(V)[<<x, v>>] \in Fresh
  <2>1. step(V)[<<x, v>>] = CheckCreateModuleAccount(v, x)
    BY <1>3
  <2> QED BY <1>1, <2>1, FreshKept
<1>4. \E g : Is(g)
  <2> DEFINE st == step(Fresh)
  <2>0. \A x \in S, v \in Fresh : st[<<x, v>>] = CheckCreateModuleAccount(v, x)
    OBVIOUS
  <2>0a. \A x \in S, v \in Fresh : st[<<x, v>>] \in Fresh
    BY <1>3
  <2> HIDE DEF st
  <2>1. PICK g : IsFold(g, S, st, base)
    BY <1>1, FoldExists
  <2>2. g \in [SUBSET S -> Fresh]
    BY <1>1, <2>0a, <2>1, FoldType
  <2>3. \A s \in SUBSET S : s # {} => st[<<First(s), g[s \ {First(s)}]>>]
                                        = CheckCreateModuleAccount(g[s \ {First(s)}], First(s))
    BY <1>2, <2>0, <2>2
  <2>4. Is(g)
    BY <2>1, <2>3 DEF IsFold
  <2> QED BY <2>4
<1>5. ASSUME NEW g, Is(g) PROVE g[S] \in Fresh
  <2> DEFINE st == step(Fresh \cup {g[s] : s \in SUBSET S})
  <2>1. \A x \in S, s \in SUBSET S : st[<<x, g[s]>>] = CheckCreateModuleAccount(g[s], x)
    OBVIOUS
  <2>2. \A x \in S, v \in Fresh : st[<<x, v>>] \in Fresh
    BY <1>3
  <2> HIDE DEF st
  <2>3. IsFold(g, S, st, base)
    BY <1>2, <1>5, <2>1 DEF IsFold
  <2>4. g \in [SUBSET S -> Fresh]
    BY <1>1, <2>2, <2>3, FoldType
  <2> QED BY <2>4
<1>6. Is(CHOOSE g : Is(g))
  BY <1>4
<1>7. FoldSet(LAMBDA m, l : CheckCreateModuleAccount(l, m), base, S) = (CHOOSE g : Is(g))[S]
  BY DEF FoldSet, MapThenFoldSet, First
<1> HIDE DEF Is
<1> QED BY <1>5, <1>6, <1>7

\* The entries of the file.
LEMMA EntryTypes ==
    /\ DOMAIN GenesisBalances = 1 .. Len(GenesisBalances) /\ Len(GenesisBalances) \in Nat
    /\ \A i \in DOMAIN GenesisBalances : /\ GenesisBalances[i].addr \in Holder
                                         /\ \A d \in Denom : GenesisBalances[i].coins[d] \in Nat
<1> DEFINE E == [addr : Holder, coins : [Denom -> Nat]]
<1>1. GenesisBalances \in Seq(E)
  BY AnteAssumption DEF GenesisEntries
<1>2. \A x \in E : x.addr \in Holder /\ \A d \in Denom : x.coins[d] \in Nat
  OBVIOUS
<1> HIDE DEF E
<1>3. /\ DOMAIN GenesisBalances = 1 .. Len(GenesisBalances) /\ Len(GenesisBalances) \in Nat
      /\ \A i \in DOMAIN GenesisBalances : GenesisBalances[i] \in E
  BY ONLY <1>1
<1> QED BY ONLY <1>2, <1>3

\* Of an address that the file lists once, the entry is stored; the others have
\* nothing.
LEMMA EntryStored ==
    ASSUME NEW d \in Denom, NEW h \in Holder
    PROVE  /\ StoredCoin(GenesisBalances, h, d) \in Nat
           /\ \A i \in DOMAIN GenesisBalances :
                 GenesisBalances[i].addr = h =>
                     StoredCoin(GenesisBalances, h, d) = GenesisBalances[i].coins[d]
           /\ (\A i \in DOMAIN GenesisBalances : GenesisBalances[i].addr # h) =>
                 StoredCoin(GenesisBalances, h, d) = 0
<1> DEFINE listed == {i \in DOMAIN GenesisBalances :
                          GenesisBalances[i].addr = h /\ GenesisBalances[i].coins[d] > 0}
<1>1. \A i \in DOMAIN GenesisBalances : i \in Nat /\ GenesisBalances[i].coins[d] \in Nat
  BY EntryTypes
<1>2. \A i, j \in DOMAIN GenesisBalances :
          GenesisBalances[i].addr = GenesisBalances[j].addr => i = j
  BY AnteAssumption DEF AddedOnce
<1>3. StoredCoin(GenesisBalances, h, d)
        = IF listed = {} THEN 0 ELSE GenesisBalances[Max(listed)].coins[d]
  BY DEF StoredCoin
<1>4. ASSUME NEW i \in listed PROVE Max(listed) = i
  <2>1. listed = {i}
    BY <1>2
  <2>2. i >= i
    BY <1>1
  <2> HIDE DEF listed
  <2> QED BY <2>1, <2>2 DEF Max
<1>5. CASE listed = {}
  <2>1. \A i \in DOMAIN GenesisBalances :
            GenesisBalances[i].addr = h => GenesisBalances[i].coins[d] = 0
    BY <1>1, <1>5
  <2> QED BY <1>3, <1>5, <2>1
<1>6. ASSUME NEW i \in listed
      PROVE  StoredCoin(GenesisBalances, h, d) = GenesisBalances[i].coins[d]
  <2>1. listed # {} /\ Max(listed) = i
    BY <1>4
  <2> QED BY <1>3, <2>1
<1>7. CASE listed # {}
  BY <1>1, <1>2, <1>6, <1>7
<1> QED BY <1>5, <1>7

\* The supply that bank's genesis adds up entry by entry is what it stored.
LEMMA GenesisBalanced ==
    ASSUME NEW d \in Denom
    PROVE  ListedSupply(GenesisBalances)[d]
             = Total([h \in Holder |-> StoredCoin(GenesisBalances, h, d)], Holder)
<1> DEFINE D == DOMAIN GenesisBalances
           e == [i \in D |-> GenesisBalances[i].coins[d]]
           R == [i \in D |-> GenesisBalances[i].addr]
           f == [h \in Holder |-> StoredCoin(GenesisBalances, h, d)]
           A == {R[i] : i \in D}
           B == Holder \ A
<1>1. ListedSupply(GenesisBalances)[d] = Total(e, D)
  BY DEF ListedSupply
<1>2. IsFiniteSet(D)
  <2>1. D = 1 .. Len(GenesisBalances) /\ Len(GenesisBalances) \in Nat
    BY EntryTypes
  <2> QED BY <2>1, FS_Interval
<1>3. \A i \in D : R[i] \in Holder /\ e[i] \in Nat
  BY EntryTypes
<1>4. \A i, j \in D : R[i] = R[j] => i = j
  BY AnteAssumption DEF AddedOnce
<1>5. \A i \in D : f[R[i]] = e[i]
  BY <1>3, EntryStored
<1>6. \A h \in Holder : f[h] \in Int
  BY EntryStored
<1>7. \A h \in B : f[h] = 0
  <2> SUFFICES ASSUME NEW h \in B PROVE f[h] = 0
    OBVIOUS
  <2>1. \A i \in D : GenesisBalances[i].addr # h
    OBVIOUS
  <2> QED BY <2>1, EntryStored
<1>8. A \subseteq Holder /\ A \cup B = Holder /\ A \cap B = {}
  BY <1>3
<1>9. IsFiniteSet(Holder)
  BY BankAssumption, FS_Union DEF Holder
<1>10. IsFiniteSet(A) /\ IsFiniteSet(B)
  BY <1>8, <1>9, FS_Subset
<1>11. A = {R[i] : i \in D} /\ \A i \in D : e[i] \in Int
  BY <1>3
<1> HIDE DEF D, e, R, f, A, B
<1>12. Total(f, A) = Total(e, D)
  BY ONLY <1>2, <1>4, <1>5, <1>11, SumImage
<1>13. Total(f, B) = 0
  BY ONLY <1>7, <1>10, SumZero
<1>14. Total(f, A \cup B) = Total(f, A) + Total(f, B)
  BY ONLY <1>6, <1>8, <1>10, SumUnion
<1>15. Total(e, D) \in Int
  BY ONLY <1>2, <1>11, SumInt
<1>16. Total(f, A \cup B) = Total(e, D)
  BY ONLY <1>12, <1>13, <1>14, <1>15
<1>17. Total(f, Holder) = Total(e, D)
  BY ONLY <1>8, <1>16
<1> QED BY <1>1, <1>17 DEF f

\* The ledger of init_chain is sound: bank's genesis sums the supply up from
\* the entries of the file.
LEMMA GenesisFacts ==
    LET l == GenesisLedger(GenesisUsers, GenesisModules, GenesisBalances)
    IN  Sound(l) /\ \A h \in Holder : HasAccount(l, h) => l.acct[h].sequence = 0
<1> DEFINE l1 == FoldSet(LAMBDA a, l : CreateAccount(l, a, {}), EmptyLedger, GenesisUsers)
           l2 == CheckCreateModuleAccount(l1, FeeCollector)
           l3 == FoldSet(LAMBDA m, l : CheckCreateModuleAccount(l, m), l2, GenesisModules)
           m == GenesisLedger(GenesisUsers, GenesisModules, GenesisBalances)
           stored == [h \in Holder |-> [d \in Denom |-> StoredCoin(GenesisBalances, h, d)]]
           supply == ListedSupply(GenesisBalances)
           b == [l3 EXCEPT !.bal = stored]
<1>1. EmptyLedger \in Fresh
  BY DEF EmptyLedger, Fresh, Ledger, Numbered, HasAccount
<1>2. l1 \in Fresh
  BY <1>1, UsersCreated, AnteAssumption
<1>3. l2 \in Fresh
  <2> HIDE DEF l1
  <2> QED BY <1>2, FreshKept, BankAssumption
<1>4. l3 \in Fresh
  <2> HIDE DEF l2
  <2> QED BY <1>3, ModulesCreated, AnteAssumption
<1>5. m = [l3 EXCEPT !.bal = stored, !.supply = supply]
  BY DEF GenesisLedger
<1>5a. stored \in [Holder -> [Denom -> Nat]]
  BY EntryStored
<1>5b. \A d \in Denom : supply[d] = Total([h \in Holder |-> stored[h][d]], Holder)
  <2> SUFFICES ASSUME NEW d \in Denom
               PROVE  supply[d] = Total([h \in Holder |-> stored[h][d]], Holder)
    OBVIOUS
  <2>1. [h \in Holder |-> stored[h][d]] = [h \in Holder |-> StoredCoin(GenesisBalances, h, d)]
    OBVIOUS
  <2> QED BY <2>1, GenesisBalanced
<1>5c. supply = [d \in Denom |-> supply[d]]
  BY DEF ListedSupply
<1> HIDE DEF l3, m, stored, supply
<1>6. l3 \in Ledger
  BY <1>4 DEF Fresh
<1>7. m = [b EXCEPT !.supply = supply]
  BY <1>5, <1>6 DEF Ledger
<1>8. b \in Ledger /\ b.bal = stored /\ SameAccounts(l3, b)
  BY <1>5a, <1>6 DEF Ledger, SameAccounts
<1> HIDE DEF b
<1>9. \A d \in Denom : supply[d] = Held(b, d)
  BY <1>5b, <1>8 DEF Held
<1>10. supply \in [Denom -> Nat]
  <2>1. \A d \in Denom : Held(b, d) \in Nat
    BY <1>8, HeldNat
  <2> QED BY <1>5c, <1>9, <2>1
<1>11. m \in Ledger /\ m.supply = supply /\ m.bal = b.bal /\ SameAccounts(b, m)
  BY <1>7, <1>8, <1>10 DEF Ledger, SameAccounts
<1>12. SameAccounts(l3, m)
  BY <1>8, <1>11 DEF SameAccounts
<1>13. Balanced(m)
  BY <1>9, <1>11 DEF Balanced, Held
<1>14. Numbered(l3) /\ \A h \in Holder : HasAccount(l3, h) => l3.acct[h].sequence = 0
  BY <1>4 DEF Fresh
<1>15. Numbered(m) /\ \A h \in Holder : HasAccount(m, h) => m.acct[h].sequence = 0
  BY <1>12, <1>14 DEF SameAccounts, Numbered, HasAccount
<1>16. Sound(m)
  BY <1>11, <1>13, <1>15 DEF Sound
<1> QED BY <1>15, <1>16 DEF m

-----------------------------------------------------------------------------
(* The ante handler.                                                       *)

\* Replacing accounts by others with the same numbers keeps the ledger sound.
LEMMA AccountsRewritten ==
    ASSUME NEW l \in Ledger, Sound(l), NEW A \in [Holder -> Account \cup {NoAccount}],
           \A h \in Holder : (A[h] = NoAccount <=> l.acct[h] = NoAccount)
                               /\ (A[h] # NoAccount => A[h].number = l.acct[h].number)
    PROVE  LET m == [l EXCEPT !.acct = A]
           IN  m \in Ledger /\ Sound(m) /\ m.bal = l.bal /\ m.acct = A
<1> DEFINE m == [l EXCEPT !.acct = A]
<1>1. m \in Ledger
  BY FieldUpdates
<1>2. m.bal = l.bal /\ m.supply = l.supply /\ m.acct = A /\ m.next = l.next
  BY DEF Ledger
<1> HIDE DEF m
<1>3. Numbered(m)
  BY <1>2 DEF Sound, Numbered, HasAccount
<1>4. Balanced(m)
  BY <1>2 DEF Sound, Balanced, Held
<1>5. m \in Ledger /\ Sound(m) /\ m.bal = l.bal /\ m.acct = A
  BY <1>1, <1>2, <1>3, <1>4 DEF Sound
<1> QED BY <1>5 DEF m

\* What a transaction consists of.
LEMMA TxFacts ==
    ASSUME NEW tx \in Tx
    PROVE  /\ Signers(tx) \subseteq Addr /\ tx.keys \subseteq Holder
           /\ FeePayer(tx) \in Addr /\ tx.msg.from \in Addr
           /\ tx.fee = None \/ tx.fee \in [Denom -> Nat]
           /\ tx.sequence \in [Addr -> SeqNo]
<1>1. tx.msg \in Message /\ tx.payer \in Addr \cup {None} /\ tx.fee \in Fees
        /\ tx.sequence \in [Addr -> SeqNo] /\ tx.keys \in SUBSET Addr
  BY DEF Tx
<1>2. tx.msg.from \in Addr
  BY <1>1 DEF Message
<1>3. tx.fee = None \/ tx.fee \in [Denom -> Nat]
  BY <1>1, AnteAssumption
<1> QED BY <1>1, <1>2, <1>3 DEF Signers, FeePayer, Holder

\* The fee of a transaction as coins.
FeeOf(tx) == IF tx.fee = None THEN [d \in Denom |-> 0] ELSE tx.fee

\* DeductFee moves exactly the fee to the fee collector.
LEMMA DeductFeeFacts ==
    ASSUME NEW l \in Ledger, Sound(l), NEW tx \in Tx, NEW m \in DeductFee(l, tx)
    PROVE  m \in Ledger /\ Sound(m) /\ KeepsAccounts(l, m)
             /\ m.bal[FeeCollector] = Plus(l.bal[FeeCollector], FeeOf(tx))
<1>1. FeeCollector \in Module /\ FeePayer(tx) \in Holder /\ FeePayer(tx) # FeeCollector
  BY BankAssumption, TxFacts DEF Holder
<1>2. CASE tx.fee = None
  <2>1. m = l
    BY <1>2 DEF DeductFee
  <2>2. l.bal[FeeCollector] \in [Denom -> Nat]
    BY <1>1 DEF Ledger, Holder
  <2>3. l.bal[FeeCollector] = Plus(l.bal[FeeCollector], FeeOf(tx))
    BY <1>2, <2>2 DEF Plus, FeeOf
  <2> QED BY <2>1, <2>3, KeepsReflexive
<1>3. CASE tx.fee # None
  <2>1. m \in SendCoins(CheckCreateModuleAccount(l, FeeCollector), FeePayer(tx), FeeCollector, tx.fee)
    BY <1>3 DEF DeductFee, AccountToModule
  <2>2. tx.fee \in [Denom -> Nat]
    BY <1>3, TxFacts
  <2>3. Transfer(l, m, FeePayer(tx)) /\ m.bal[FeeCollector] = Plus(l.bal[FeeCollector], tx.fee)
    BY <1>1, <2>1, <2>2, ToModuleFacts
  <2> QED BY <1>3, <2>3 DEF Transfer, Sound, FeeOf
<1> QED BY <1>2, <1>3

\* Setting the public keys of the signers changes neither sequences nor coins.
LEMMA SetPubKeysFacts ==
    ASSUME NEW l \in Ledger, Sound(l), NEW tx \in Tx, NEW m \in SetPubKeys(l, tx)
    PROVE  m \in Ledger /\ Sound(m) /\ KeepsAccounts(l, m) /\ m.bal = l.bal
<1> DEFINE A == [h \in Holder |-> IF h \in tx.keys THEN [l.acct[h] EXCEPT !.hasKey = TRUE]
                                  ELSE l.acct[h]]
<1>1. m = [l EXCEPT !.acct = A] /\ \A a \in tx.keys : HasAccount(l, a)
  BY DEF SetPubKeys
<1>2. \A h \in tx.keys : h \in Holder /\ l.acct[h] \in Account
  BY <1>1, TxFacts DEF HasAccount, Ledger
<1>3. \A h \in tx.keys : A[h] \in Account /\ A[h].number = l.acct[h].number
                           /\ A[h].sequence = l.acct[h].sequence
  BY <1>2 DEF Account
<1>4. A \in [Holder -> Account \cup {NoAccount}]
  BY <1>3 DEF Ledger
<1>5. \A h \in Holder : A[h] = NoAccount <=> l.acct[h] = NoAccount
  BY <1>2, <1>3, BankAssumption
<1>6. \A h \in Holder : A[h] # NoAccount => A[h].number = l.acct[h].number
                                              /\ A[h].sequence = l.acct[h].sequence
  BY <1>3
<1> HIDE DEF A
<1>7. m \in Ledger /\ Sound(m) /\ m.bal = l.bal /\ m.acct = A
  BY <1>1, <1>4, <1>5, <1>6, AccountsRewritten
<1>8. KeepsAccounts(l, m)
  BY <1>5, <1>6, <1>7 DEF KeepsAccounts, HasAccount
<1> QED BY <1>7, <1>8

\* After the signatures are verified the sequence of every signer, and of
\* nobody else, is incremented.
LEMMA IncrementFacts ==
    ASSUME NEW l \in Ledger, Sound(l), NEW tx \in Tx, VerifySignatures(l, tx)
    PROVE  LET m == IncrementSequence(l, tx)
           IN  /\ m \in Ledger /\ Sound(m) /\ m.bal = l.bal
               /\ \A a \in Addr : HasAccount(m, a) <=> HasAccount(l, a)
               /\ \A a \in Addr \ Signers(tx) : m.acct[a] = l.acct[a]
               /\ \A a \in Signers(tx) : m.acct[a].sequence = l.acct[a].sequence + 1
<1> DEFINE A == [h \in Holder |-> IF h \in Signers(tx) THEN [l.acct[h] EXCEPT !.sequence = @ + 1]
                                  ELSE l.acct[h]]
           m == IncrementSequence(l, tx)
<1>1. m = [l EXCEPT !.acct = A]
  BY DEF IncrementSequence
<1>2. \A h \in Signers(tx) : h \in Holder /\ l.acct[h] \in Account
  BY TxFacts DEF VerifySignatures, HasAccount, Ledger, Holder
<1>3. \A h \in Signers(tx) : A[h] \in Account /\ A[h].number = l.acct[h].number
                               /\ A[h].sequence = l.acct[h].sequence + 1
  BY <1>2 DEF Account
<1>4. A \in [Holder -> Account \cup {NoAccount}] /\ \A h \in Holder \ Signers(tx) : A[h] = l.acct[h]
  BY <1>3 DEF Ledger
<1>5. \A h \in Holder : A[h] = NoAccount <=> l.acct[h] = NoAccount
  BY <1>2, <1>3, BankAssumption
<1>6. \A h \in Holder : A[h] # NoAccount => A[h].number = l.acct[h].number
  BY <1>3
<1> HIDE DEF A, m
<1>7. m \in Ledger /\ Sound(m) /\ m.bal = l.bal /\ m.acct = A
  BY <1>1, <1>4, <1>5, <1>6, AccountsRewritten
<1>8. Addr \subseteq Holder
  BY DEF Holder
<1>9. /\ \A a \in Addr : HasAccount(m, a) <=> HasAccount(l, a)
      /\ \A a \in Addr \ Signers(tx) : m.acct[a] = l.acct[a]
      /\ \A a \in Signers(tx) : m.acct[a].sequence = l.acct[a].sequence + 1
  BY <1>3, <1>4, <1>5, <1>7, <1>8 DEF HasAccount
<1> QED BY <1>7, <1>9 DEF m

\* A message of x/bank is a transfer out of its sender.
LEMMA RunMsgFacts ==
    ASSUME NEW l \in Ledger, Sound(l), NEW g \in Message, NEW m \in RunMsg(l, g)
    PROVE  Transfer(l, m, g.from)
<1>1. g.from \in Addr /\ g.from \in Holder /\ g.coins \in [Denom -> Nat] /\ Module \subseteq Holder
  BY AnteAssumption DEF Message, Holder
<1>2. CASE g.kind = "send"
  <2>1. g.to \in Holder
    BY <1>1 DEF Message
  <2>2. m \in AccountToAccount(l, g.from, g.to, g.coins)
    BY <1>2 DEF RunMsg
  <2> QED BY <1>1, <2>1, <2>2, ToAccountFacts
<1>3. CASE g.kind = "delegate"
  <2>1. g.to \in Module
    BY <1>3 DEF Message
  <2>2. m \in DelegateCoins(l, g.from, g.to, g.coins)
    BY <1>3 DEF RunMsg
  <2> QED BY <1>1, <2>1, <2>2, DelegateFacts
<1>4. CASE g.kind = "deposit"
  <2>1. g.to \in Module
    BY <1>4 DEF Message
  <2>2. m \in SendCoins(CheckCreateModuleAccount(l, g.to), g.from, g.to, g.coins)
    BY <1>4 DEF RunMsg, AccountToModule
  <2> QED BY <1>1, <2>1, <2>2, ToModuleFacts
<1> QED BY <1>2, <1>3, <1>4 DEF Message

\* A transaction that succeeds has paid its fee, and was signed for the
\* sequence numbers that its signers had; those are used up.
LEMMA RunFacts ==
    ASSUME NEW l \in Ledger, Sound(l), NEW tx \in Tx, NEW m \in Run(l, tx)
    PROVE  /\ m \in Ledger /\ Sound(m)
           /\ m.bal[FeeCollector] = Plus(l.bal[FeeCollector], FeeOf(tx))
           /\ \A a \in Signers(tx) :
                /\ HasAccount(m, a) /\ m.acct[a].sequence = tx.sequence[a] + 1
                /\ HasAccount(l, a) => l.acct[a].sequence = tx.sequence[a]
                /\ ~HasAccount(l, a) => tx.sequence[a] = 0
           /\ \A a \in Addr \ Signers(tx) :
                /\ HasAccount(l, a) => HasAccount(m, a) /\ m.acct[a].sequence = l.acct[a].sequence
                /\ ~HasAccount(l, a) /\ HasAccount(m, a) => m.acct[a].sequence = 0
<1>1. PICK l2 \in BeforeSignatures(l, tx) : VerifySignatures(l2, tx) /\ m = IncrementSequence(l2, tx)
  BY DEF Run
<1>2. PICK l1 \in DeductFee(l, tx) : l2 \in SetPubKeys(l1, tx)
  BY <1>1 DEF BeforeSignatures
<1>3. l1 \in Ledger /\ Sound(l1) /\ KeepsAccounts(l, l1)
        /\ l1.bal[FeeCollector] = Plus(l.bal[FeeCollector], FeeOf(tx))
  BY <1>2, DeductFeeFacts
<1>4. l2 \in Ledger /\ Sound(l2) /\ KeepsAccounts(l1, l2) /\ l2.bal = l1.bal
  BY <1>2, <1>3, SetPubKeysFacts
<1>5. KeepsAccounts(l, l2)
  BY <1>3, <1>4, KeepsTransitive
<1>6. /\ m \in Ledger /\ Sound(m) /\ m.bal = l2.bal
      /\ \A a \in Addr : HasAccount(m, a) <=> HasAccount(l2, a)
      /\ \A a \in Addr \ Signers(tx) : m.acct[a] = l2.acct[a]
      /\ \A a \in Signers(tx) : m.acct[a].sequence = l2.acct[a].sequence + 1
  BY <1>1, <1>4, IncrementFacts
<1>7. \A a \in Signers(tx) : a \in Addr /\ a \in Holder /\ HasAccount(l2, a) /\ tx.sequence[a] = l2.acct[a].sequence
  BY <1>1, TxFacts DEF VerifySignatures, Holder
<1>8. Addr \subseteq Holder
  BY DEF Holder
<1>9. \A a \in Signers(tx) :
         /\ HasAccount(m, a) /\ m.acct[a].sequence = tx.sequence[a] + 1
         /\ HasAccount(l, a) => l.acct[a].sequence = tx.sequence[a]
         /\ ~HasAccount(l, a) => tx.sequence[a] = 0
  BY <1>5, <1>6, <1>7 DEF KeepsAccounts
<1>10. \A a \in Addr \ Signers(tx) :
         /\ HasAccount(l, a) => HasAccount(m, a) /\ m.acct[a].sequence = l.acct[a].sequence
         /\ ~HasAccount(l, a) /\ HasAccount(m, a) => m.acct[a].sequence = 0
  BY <1>5, <1>6, <1>8 DEF KeepsAccounts
<1> QED BY <1>3, <1>4, <1>6, <1>9, <1>10

-----------------------------------------------------------------------------
(* Sequence numbers.                                                       *)

\* The transactions accepted from an account were signed for the numbers below
\* its sequence, each once.
Counted(l, u) ==
    \A a \in Addr :
        /\ ~HasAccount(l, a) => \A n \in SeqNo : u[a][n] = 0
        /\ HasAccount(l, a) =>
              /\ l.acct[a].sequence = Total(u[a], SeqNo)
              /\ \A n \in SeqNo : u[a][n] <= 1 /\ (u[a][n] # 0 => n < l.acct[a].sequence)

\* The sequence numbers of a run are finitely many.
LEMMA SeqNoFinite == IsFiniteSet(SeqNo) /\ SeqNo \subseteq Nat /\ 0 \in SeqNo
<1>1. MaxTxs \in Nat \ {0} /\ 0 \in Int /\ MaxTxs - 1 \in Int
  BY AnteAssumption
<1> QED BY <1>1, FS_Interval DEF SeqNo

\* Steps that keep the accounts do not accept transactions.
LEMMA CountedKept ==
    ASSUME NEW l \in Ledger, NEW m \in Ledger, NEW u \in [Addr -> [SeqNo -> Nat]],
           Counted(l, u), KeepsAccounts(l, m)
    PROVE  Counted(m, u)
<1> SUFFICES ASSUME NEW a \in Addr
             PROVE  /\ ~HasAccount(m, a) => \A n \in SeqNo : u[a][n] = 0
                    /\ HasAccount(m, a) =>
                          /\ m.acct[a].sequence = Total(u[a], SeqNo)
                          /\ \A n \in SeqNo : u[a][n] <= 1 /\ (u[a][n] # 0 => n < m.acct[a].sequence)
  BY DEF Counted
<1>1. a \in Holder
  BY DEF Holder
<1>2. CASE HasAccount(l, a)
  BY <1>1, <1>2 DEF Counted, KeepsAccounts
<1>3. CASE ~HasAccount(l, a)
  <2>1. \A n \in SeqNo : u[a][n] = 0
    BY <1>3 DEF Counted
  <2>2. Total(u[a], SeqNo) = 0
    BY <2>1, SeqNoFinite, SumZero
  <2>3. HasAccount(m, a) => m.acct[a].sequence = 0
    BY <1>1, <1>3 DEF KeepsAccounts
  <2> QED BY <2>1, <2>2, <2>3
<1> QED BY <1>2, <1>3

\* Counting one more transaction adds one to the total.
LEMMA CountOne ==
    ASSUME NEW f \in [SeqNo -> Nat], NEW e \in [SeqNo -> Nat], NEW s \in SeqNo,
           \A n \in SeqNo \ {s} : f[n] = e[n]
    PROVE  Total(e, SeqNo) = Total(f, SeqNo) + (e[s] - f[s])
<1>1. IsFiniteSet(SeqNo) /\ \A n \in SeqNo : f[n] \in Int /\ e[n] \in Int
  BY SeqNoFinite
<1> QED BY <1>1, SumUpdate

\* A transaction that succeeds takes a sequence number that no accepted
\* transaction of the signer had.
LEMMA CountedRun ==
    ASSUME NEW l \in Ledger, Sound(l), NEW u \in [Addr -> [SeqNo -> Nat]], Counted(l, u),
           NEW tx \in Tx, NEW m \in Run(l, tx), NEW w,
           w = [a \in Addr |-> [n \in SeqNo |->
                  u[a][n] + (IF a \in Signers(tx) /\ n = tx.sequence[a] THEN 1 ELSE 0)]]
    PROVE  w \in [Addr -> [SeqNo -> Nat]] /\ Counted(m, w)
<1>1. w \in [Addr -> [SeqNo -> Nat]]
  OBVIOUS
<1> SUFFICES ASSUME NEW a \in Addr
             PROVE  /\ ~HasAccount(m, a) => \A n \in SeqNo : w[a][n] = 0
                    /\ HasAccount(m, a) =>
                          /\ m.acct[a].sequence = Total(w[a], SeqNo)
                          /\ \A n \in SeqNo : w[a][n] <= 1 /\ (w[a][n] # 0 => n < m.acct[a].sequence)
  BY <1>1 DEF Counted
<1>2. CASE a \in Signers(tx)
  <2> DEFINE s == tx.sequence[a]
  <2>1. /\ HasAccount(m, a) /\ m.acct[a].sequence = s + 1
        /\ HasAccount(l, a) => l.acct[a].sequence = s
        /\ ~HasAccount(l, a) => s = 0
    BY <1>2, RunFacts
  <2>2. s \in SeqNo /\ s \in Nat
    BY TxFacts, SeqNoFinite
  <2>3. Total(u[a], SeqNo) = s /\ \A n \in SeqNo : u[a][n] <= 1 /\ (u[a][n] # 0 => n < s)
    <3>1. CASE HasAccount(l, a)
      BY <2>1, <3>1 DEF Counted
    <3>2. CASE ~HasAccount(l, a)
      <4>1. \A n \in SeqNo : u[a][n] = 0
        BY <3>2 DEF Counted
      <4>2. Total(u[a], SeqNo) = 0
        BY <4>1, SeqNoFinite, SumZero
      <4> QED BY <2>1, <3>2, <4>1, <4>2
    <3> QED BY <3>1, <3>2
  <2> HIDE DEF s
  <2>4. /\ \A n \in SeqNo \ {s} : u[a][n] = w[a][n]
        /\ w[a][s] = u[a][s] + 1
        /\ \A n \in SeqNo : u[a][n] \in Int /\ w[a][n] \in Int /\ n \in Nat
    BY <1>2, <2>2, SeqNoFinite DEF s
  <2>5. Total(w[a], SeqNo) = Total(u[a], SeqNo) + (w[a][s] - u[a][s])
    <3>1. u[a] \in [SeqNo -> Nat] /\ w[a] \in [SeqNo -> Nat]
      BY <1>1
    <3> QED BY <2>2, <2>4, <3>1, CountOne
  <2>6. u[a][s] = 0
    BY <2>2, <2>3
  <2>7. Total(w[a], SeqNo) = s + 1
    BY <2>2, <2>3, <2>4, <2>5, <2>6
  <2>8. \A n \in SeqNo : w[a][n] <= 1 /\ (w[a][n] # 0 => n < s + 1)
    <3> SUFFICES ASSUME NEW n \in SeqNo PROVE w[a][n] <= 1 /\ (w[a][n] # 0 => n < s + 1)
      OBVIOUS
    <3>1. CASE n = s
      <4>1. w[a][s] = 1
        BY <2>4, <2>6
      <4> QED BY <2>2, <3>1, <4>1
    <3>2. CASE n # s
      <4>1. w[a][n] = u[a][n] /\ n \in Nat
        BY <2>4, <3>2
      <4>2. u[a][n] <= 1 /\ (u[a][n] # 0 => n < s)
        BY <2>3
      <4>3. n < s => n < s + 1
        BY <2>2, <4>1
      <4> QED BY <4>1, <4>2, <4>3
    <3> QED BY <3>1, <3>2
  <2> QED BY <2>1, <2>7, <2>8
<1>3. CASE a \notin Signers(tx)
  <2>1. w[a] = u[a]
    <3>1. \A n \in SeqNo : w[a][n] = u[a][n]
      BY <1>3
    <3> QED BY <3>1
  <2>2. /\ HasAccount(l, a) => HasAccount(m, a) /\ m.acct[a].sequence = l.acct[a].sequence
        /\ ~HasAccount(l, a) /\ HasAccount(m, a) => m.acct[a].sequence = 0
    BY <1>3, RunFacts
  <2>3. CASE HasAccount(l, a)
    BY <2>1, <2>2, <2>3 DEF Counted
  <2>4. CASE ~HasAccount(l, a)
    <3>1. \A n \in SeqNo : u[a][n] = 0
      BY <2>4 DEF Counted
    <3>2. Total(u[a], SeqNo) = 0
      BY <3>1, SeqNoFinite, SumZero
    <3> QED BY <2>1, <2>2, <2>4, <3>1, <3>2
  <2> QED BY <2>3, <2>4
<1> QED BY <1>2, <1>3

-----------------------------------------------------------------------------
(* The inductive invariant.                                                *)

\* The inductive invariant: the ledger is sound, and what was accepted agrees
\* with the sequence numbers that it holds.
IInv ==
    /\ Sound(ledger)
    /\ height \in Nat /\ panicked \in {None, "pub_key", "mint"}
    /\ used \in Nat /\ due \in [Denom -> Nat]
    /\ uses \in [Addr -> [SeqNo -> Nat]]
    /\ Counted(ledger, uses)

\* The invariant holds after init_chain.
LEMMA InitIInv == Init => IInv
<1> SUFFICES ASSUME Init PROVE IInv
  OBVIOUS
<1>1. Sound(ledger) /\ \A h \in Holder : HasAccount(ledger, h) => ledger.acct[h].sequence = 0
  BY GenesisFacts DEF Init
<1>2. uses \in [Addr -> [SeqNo -> Nat]] /\ \A a \in Addr, n \in SeqNo : uses[a][n] = 0
  BY DEF Init
<1>3. Counted(ledger, uses)
  <2> SUFFICES ASSUME NEW a \in Addr, HasAccount(ledger, a)
               PROVE  /\ ledger.acct[a].sequence = Total(uses[a], SeqNo)
                      /\ \A n \in SeqNo : uses[a][n] <= 1
                            /\ (uses[a][n] # 0 => n < ledger.acct[a].sequence)
    BY <1>2 DEF Counted
  <2>1. \A n \in SeqNo : uses[a][n] = 0
    BY <1>2
  <2>2. Total(uses[a], SeqNo) = 0
    BY <2>1, SeqNoFinite, SumZero
  <2>3. ledger.acct[a].sequence = 0
    BY <1>1 DEF Holder
  <2> QED BY <2>1, <2>2, <2>3
<1> QED BY <1>1, <1>2, <1>3 DEF Init, IInv

\* deliver_tx keeps the invariant and what the fee collector is due arrives
\* there.
LEMMA DeliverFacts ==
    ASSUME IInv, NEW tx \in Tx, DeliverTx(tx)
    PROVE  /\ IInv'
           /\ Minus(due', due) = FeeOf(tx)
           /\ Covers(ledger'.bal[FeeCollector], Plus(ledger.bal[FeeCollector], FeeOf(tx)))
<1>1. ledger \in Ledger /\ Sound(ledger)
  BY DEF IInv, Sound
<1>2. PICK l \in Run(ledger, tx) : ledger' \in AfterTx(l, tx)
  BY DEF DeliverTx
<1>3. l \in Ledger /\ Sound(l) /\ l.bal[FeeCollector] = Plus(ledger.bal[FeeCollector], FeeOf(tx))
  BY <1>1, <1>2, RunFacts
<1>4. uses' \in [Addr -> [SeqNo -> Nat]] /\ Counted(l, uses')
  BY <1>1, <1>2, CountedRun DEF IInv, DeliverTx
<1>5. FeeCollector \in Holder /\ FeeCollector # tx.msg.from /\ tx.msg \in Message
  BY BankAssumption, TxFacts DEF Holder, Tx
<1>6. Sound(ledger') /\ KeepsAccounts(l, ledger') /\ Covers(ledger'.bal[FeeCollector], l.bal[FeeCollector])
  <2>1. CASE ledger' \in RunMsg(l, tx.msg)
    <3>1. Transfer(l, ledger', tx.msg.from)
      BY <1>3, <1>5, <2>1, RunMsgFacts
    <3> QED BY <1>5, <3>1 DEF Transfer, Richer
  <2>2. CASE ledger' = l
    <3>1. \A d \in Denom : l.bal[FeeCollector][d] \in Nat
      BY <1>3, <1>5 DEF Ledger
    <3> QED BY <1>3, <2>2, <3>1, KeepsReflexive DEF Covers
  <2> QED BY <1>2, <2>1, <2>2 DEF AfterTx
<1>7. Counted(ledger', uses')
  <2>1. ledger' \in Ledger
    BY <1>6 DEF Sound
  <2> QED BY <1>3, <1>4, <1>6, <2>1, CountedKept
<1>8. due' \in [Denom -> Nat] /\ Minus(due', due) = FeeOf(tx)
  <2>1. tx.fee = None \/ tx.fee \in [Denom -> Nat]
    BY TxFacts
  <2>2. due \in [Denom -> Nat] /\ due' = IF tx.fee = None THEN due ELSE Plus(due, tx.fee)
    BY DEF IInv, DeliverTx
  <2> QED BY <2>1, <2>2 DEF Plus, Minus, FeeOf
<1>9. used' \in Nat /\ height' \in Nat /\ panicked' \in {None, "pub_key", "mint"}
  BY DEF IInv, DeliverTx
<1> QED BY <1>3, <1>4, <1>6, <1>7, <1>8, <1>9 DEF IInv

\* Every step keeps the invariant.
LEMMA NextIInv == IInv /\ [Next]_vars => IInv'
<1> SUFFICES ASSUME IInv, [Next]_vars PROVE IInv'
  OBVIOUS
<1>1. ledger \in Ledger /\ Sound(ledger)
  BY DEF IInv, Sound
<1>2. ASSUME Sound(ledger'), KeepsAccounts(ledger, ledger'), UNCHANGED <<used, due, uses>>,
             height' \in Nat, panicked' \in {None, "pub_key", "mint"}
      PROVE  IInv'
  <2>1. ledger' \in Ledger
    BY <1>2 DEF Sound
  <2>2. Counted(ledger', uses)
    BY <1>1, <1>2, <2>1, CountedKept DEF IInv
  <2> QED BY <1>2, <2>2 DEF IInv
<1>3. ASSUME UNCHANGED <<ledger, height, used, due, uses>>, panicked' \in {None, "pub_key", "mint"}
      PROVE  IInv'
  BY <1>3 DEF IInv
<1>4. ASSUME NEW tx \in Tx, DeliverTx(tx) PROVE IInv'
  BY <1>4, DeliverFacts
<1>5. ASSUME NEW tx \in Tx, DeliverPanics(tx) PROVE IInv'
  BY <1>3, <1>5 DEF DeliverPanics
<1>6. ASSUME NEW c \in Coins, MintBlock(c) PROVE IInv'
  <2>1. c \in [Denom -> Nat] /\ Minter \in Module /\ Minter \in Holder /\ FeeCollector \in Module
    BY AnteAssumption, BankAssumption DEF Holder
  <2>2. PICK l \in MintCoins(ledger, Minter, c) : ledger' \in ModuleToModule(l, Minter, FeeCollector, c)
    BY <1>6 DEF MintBlock, Minted
  <2>3. Sound(l) /\ KeepsAccounts(ledger, l) /\ l \in Ledger
    BY <1>1, <2>1, <2>2, MintBurnFacts DEF Sound
  <2>4. Transfer(l, ledger', Minter)
    BY <2>1, <2>2, <2>3, ToModuleFacts DEF ModuleToModule
  <2>5. Sound(ledger') /\ KeepsAccounts(ledger, ledger')
    BY <2>3, <2>4, KeepsTransitive DEF Transfer
  <2> QED BY <1>2, <1>6, <2>5 DEF MintBlock, IInv
<1>7. ASSUME NEW c \in Coins, MintPanics(c) PROVE IInv'
  BY <1>3, <1>7 DEF MintPanics
<1>8. ASSUME NEW m \in Module, NEW h \in Holder, NEW c \in Coins, EndBlock(m, h, c) PROVE IInv'
  <2>1. c \in [Denom -> Nat] /\ m \in Holder
    BY AnteAssumption DEF Holder
  <2>2. Sound(ledger') /\ KeepsAccounts(ledger, ledger')
    <3>1. CASE ledger' \in BurnCoins(ledger, m, c)
      BY <1>1, <2>1, <3>1, MintBurnFacts
    <3>2. CASE h \in Addr /\ ledger' \in UndelegateCoins(ledger, m, h, c)
      BY <1>1, <2>1, <3>2, DelegateFacts DEF Transfer
    <3>3. CASE ledger' \in ModuleToAccount(ledger, m, h, c)
      <4>1. ledger' \in SendCoins(ledger, m, h, c)
        BY <3>3 DEF ModuleToAccount
      <4> QED BY <1>1, <2>1, <4>1, ToAccountFacts DEF Transfer
    <3>4. CASE h \in Module /\ ledger' \in ModuleToModule(ledger, m, h, c)
      BY <1>1, <2>1, <3>4, ToModuleFacts DEF Transfer, ModuleToModule
    <3> QED BY <1>8, <3>1, <3>2, <3>3, <3>4 DEF EndBlock
  <2> QED BY <1>2, <1>8, <2>2 DEF EndBlock, IInv
<1>9. CASE UNCHANGED vars
  BY <1>3, <1>9 DEF vars, IInv
<1> QED BY <1>4, <1>5, <1>6, <1>7, <1>8, <1>9 DEF Next

\* The invariant holds in every state, after any sequence of transactions.
LEMMA Invariance == Spec => []IInv
  BY InitIInv, NextIInv, PTL DEF Spec

-----------------------------------------------------------------------------
(* Theorems.                                                               *)

(***************************************************************************)
(* Type correctness: balances, supplies, sequence numbers and account      *)
(* numbers never leave their types, whatever messages and queries come; in *)
(* particular no subtraction in the bank goes below zero.                  *)
(***************************************************************************)
THEOREM TypeCorrect == Spec => []TypeOK
<1>1. IInv => TypeOK
  BY DEF IInv, Sound, Ledger, TypeOK
<1> QED BY <1>1, Invariance, PTL

-----------------------------------------------------------------------------
(* What a client adds up.                                                  *)

\* The coins of a balance or of a supply: one for each amount that is not zero.
CoinSet(f) == {Coin(d, f[d]) : d \in {d \in Denom : f[d] # 0}}

\* In a set with at most one coin of each denomination, the amount of a
\* denomination is that of its coin.
LEMMA AmountInSet ==
    ASSUME NEW C, IsFiniteSet(C), NEW d,
           \A c \in C : c.amount \in Nat,
           \A c, e \in C : c.denom = e.denom => c = e
    PROVE  /\ (\A c \in C : c.denom # d) => AmountIn(C, d) = 0
           /\ \A c \in C : c.denom = d => AmountIn(C, d) = c.amount
<1> DEFINE f == [c \in C |-> IF c.denom = d THEN c.amount ELSE 0]
<1>1. AmountIn(C, d) = Total(f, C)
  BY DEF AmountIn
<1>2. \A c \in C : f[c] \in Int /\ f[c] = IF c.denom = d THEN c.amount ELSE 0
  OBVIOUS
<1> HIDE DEF f
<1>3. ASSUME \A c \in C : c.denom # d PROVE Total(f, C) = 0
  <2>1. \A c \in C : f[c] = 0
    BY <1>2, <1>3
  <2> QED BY <2>1, SumZero
<1>4. ASSUME NEW c \in C, c.denom = d PROVE Total(f, C) = c.amount
  <2>1. Total(f, C) = f[c] + Total(f, C \ {c})
    BY <1>2, SumRemove
  <2>2. \A e \in C \ {c} : f[e] = 0
    BY <1>2, <1>4
  <2>3. IsFiniteSet(C \ {c})
    BY FS_Subset
  <2>4. Total(f, C \ {c}) = 0
    BY <2>2, <2>3, SumZero
  <2>5. f[c] = c.amount /\ c.amount \in Nat
    BY <1>2, <1>4
  <2> QED BY <2>1, <2>4, <2>5
<1> QED BY <1>1, <1>3, <1>4

\* The amounts of an answer are the amounts in the store: zero coins are left
\* out and read back as zero.
LEMMA AmountInCoinSet ==
    ASSUME NEW f \in [Denom -> Nat], NEW d \in Denom
    PROVE  AmountIn(CoinSet(f), d) = f[d]
<1>1. IsFiniteSet(CoinSet(f))
  <2> DEFINE D == {e \in Denom : f[e] # 0}
             g == [e \in D |-> Coin(e, f[e])]
  <2>1. IsFiniteSet(D)
    BY BankAssumption, FS_Subset
  <2>2. g \in Surjection(D, CoinSet(f))
    BY DEF Surjection, CoinSet
  <2> HIDE DEF D, g
  <2> QED BY <2>1, <2>2, FS_Surjection
<1>2. \A c \in CoinSet(f) : c.denom \in Denom /\ c.amount = f[c.denom] /\ c.amount \in Nat
                              /\ c = Coin(c.denom, f[c.denom])
  BY DEF CoinSet, Coin
<1>3. \A c, e \in CoinSet(f) : c.denom = e.denom => c = e
  BY <1>2
<1>4. CASE f[d] = 0
  <2>1. \A c \in CoinSet(f) : c.denom # d
    BY <1>4 DEF CoinSet, Coin
  <2> QED BY <1>1, <1>2, <1>3, <1>4, <2>1, AmountInSet
<1>5. CASE f[d] # 0
  <2>1. Coin(d, f[d]) \in CoinSet(f) /\ Coin(d, f[d]).denom = d /\ Coin(d, f[d]).amount = f[d]
    BY <1>5 DEF CoinSet, Coin
  <2> QED BY <1>1, <1>2, <1>3, <2>1, AmountInSet
<1> QED BY <1>4, <1>5

(***************************************************************************)
(* For any users, modules, denominations, genesis and transactions: what   *)
(* bank's queries report as the total supply is the sum of what they       *)
(* report as the balances (Keeper::supply and all_balances in x/bank).     *)
(* Transfers to oneself, minting, burning, delegation and transactions     *)
(* that fail half way included.                                            *)
(***************************************************************************)
THEOREM CoinsConserved == Spec => []SupplyIsBalances
<1>1. ASSUME IInv PROVE SupplyIsBalances
  <2> SUFFICES ASSUME NEW d \in Denom
      PROVE LET held == Total([h \in Holder |->
                AmountIn(BankAnswer(ledger, [kind |-> "AllBalances", address |-> h]), d)], Holder)
            IN /\ AmountIn(BankAnswer(ledger, [kind |-> "TotalSupply"]), d) = held
               /\ AmountIn(BankAnswer(ledger, [kind |-> "SupplyOf", denom |-> d]), d) = held
    BY DEF SupplyIsBalances
  <2>0. ledger \in Ledger /\ ledger.supply \in [Denom -> Nat] /\ ledger.supply[d] = Held(ledger, d)
    BY <1>1 DEF IInv, Sound, Balanced, Ledger
  <2>1. BankAnswer(ledger, [kind |-> "TotalSupply"]) = CoinSet(ledger.supply)
    BY DEF BankAnswer, QueryTotalSupply, CoinSet
  <2>2. ASSUME NEW h \in Holder
        PROVE  AmountIn(BankAnswer(ledger, [kind |-> "AllBalances", address |-> h]), d) = ledger.bal[h][d]
    <3>1. BankAnswer(ledger, [kind |-> "AllBalances", address |-> h]) = BalanceAll(ledger, h)
      BY DEF BankAnswer
    <3>2. BalanceAll(ledger, h) = CoinSet(ledger.bal[h])
      BY DEF BalanceAll, QueryBalance, CoinSet
    <3>3. ledger.bal[h] \in [Denom -> Nat]
      BY <2>0 DEF Ledger
    <3> QED BY <3>1, <3>2, <3>3, AmountInCoinSet
  <2>3. Total([h \in Holder |->
           AmountIn(BankAnswer(ledger, [kind |-> "AllBalances", address |-> h]), d)], Holder) = Held(ledger, d)
    BY <2>2 DEF Held
  <2>4. AmountIn(BankAnswer(ledger, [kind |-> "SupplyOf", denom |-> d]), d) = ledger.supply[d]
    <3> DEFINE C == QuerySupplyOf(ledger, d)
    <3>1. BankAnswer(ledger, [kind |-> "SupplyOf", denom |-> d]) = C
      BY DEF BankAnswer
    <3>2. C = IF ledger.supply[d] = 0 THEN {} ELSE {Coin(d, ledger.supply[d])}
      BY DEF QuerySupplyOf
    <3>3. Coin(d, ledger.supply[d]).denom = d /\ Coin(d, ledger.supply[d]).amount = ledger.supply[d]
      BY DEF Coin
    <3>4. IsFiniteSet(C)
      BY <3>2, FS_EmptySet, FS_Singleton
    <3> HIDE DEF C
    <3>5. \A c \in C : c.amount \in Nat
      BY <2>0, <3>2, <3>3
    <3>6. \A c, e \in C : c.denom = e.denom => c = e
      BY <3>2
    <3>7. AmountIn(C, d) = ledger.supply[d]
      BY <2>0, <3>2, <3>3, <3>4, <3>5, <3>6, AmountInSet
    <3> QED BY <3>1, <3>7
  <2>5. AmountIn(BankAnswer(ledger, [kind |-> "TotalSupply"]), d) = ledger.supply[d]
    BY <2>0, <2>1, AmountInCoinSet
  <2> QED BY <2>0, <2>3, <2>4, <2>5
<1> QED BY <1>1, Invariance, PTL

(***************************************************************************)
(* No signed sequence number of an account is ever accepted twice: the     *)
(* ante handler verifies the signatures against the stored sequence and    *)
(* increments it in the same transaction, and no other step of a keeper    *)
(* resets it.                                                              *)
(***************************************************************************)
THEOREM ReplayImpossible == Spec => []NoReplay
<1>1. ASSUME IInv PROVE NoReplay
  <2>1. \A a \in Addr, n \in SeqNo : uses[a][n] <= 1
    BY <1>1 DEF IInv, Counted
  <2>2. \A r, s \in AuthAnswer(ledger, [kind |-> "Accounts"]) :
          r.account.number = s.account.number => r.address = s.address
    BY <1>1 DEF IInv, Sound, Numbered, AuthAnswer, QueryAccounts
  <2> QED BY <2>1, <2>2 DEF NoReplay
<1> QED BY <1>1, Invariance, PTL

(***************************************************************************)
(* Whoever is accepted pays: a transaction that passes the ante checks     *)
(* (DeductFee before the signatures, IncrementSequence last) leaves its    *)
(* fee with the collector, even when its message takes coins too, and the  *)
(* sequence of every account is the number of transactions accepted from   *)
(* it.                                                                     *)
(***************************************************************************)
THEOREM FeesPaid == Spec => AcceptedPays
<1> DEFINE Pays == used' # used =>
          /\ Covers(ledger'.bal[FeeCollector],
                    Plus(ledger.bal[FeeCollector], Minus(due', due)))
          /\ \A a \in Addr : HasAccount(ledger', a) =>
                ledger'.acct[a].sequence = Total(uses'[a], SeqNo)
<1>1. IInv /\ [Next]_vars => [Pays]_vars
  <2> SUFFICES ASSUME IInv, Next, used' # used PROVE Pays
    BY DEF vars
  <2>1. PICK tx \in Tx : DeliverTx(tx)
    BY DEF Next, DeliverPanics, MintBlock, MintPanics, EndBlock
  <2>2. /\ IInv' /\ Minus(due', due) = FeeOf(tx)
        /\ Covers(ledger'.bal[FeeCollector], Plus(ledger.bal[FeeCollector], FeeOf(tx)))
    BY <2>1, DeliverFacts
  <2> QED BY <2>2 DEF IInv, Counted
<1> QED BY <1>1, Invariance, PTL DEF Spec, AcceptedPays
=============================================================================
