-------------------------------- MODULE Bank --------------------------------
(***************************************************************************)
(* The keepers of accounts (x/auth/src/keeper.rs) and of balances and      *)
(* supply (x/bank/src/keeper), as operations on a ledger: the part of the  *)
(* stores they own.  An operation that can fail yields the set of ledgers  *)
(* it may leave: one, or none when it returns an error.  What it wrote     *)
(* before the error is not kept: a transaction's cache is cleared, and the *)
(* callers outside transactions panic.                                     *)
(*                                                                         *)
(* A list of coins (UnsignedCoins) is sorted, positive, without duplicates *)
(* and not empty: a function from denominations to amounts, zero for a     *)
(* denomination that is not listed.  Likewise a balance or a supply of     *)
(* zero is one whose key was deleted.                                      *)
(***************************************************************************)
EXTENDS Sums, Sequences

CONSTANTS Addr,         \* addresses of users
          Module,       \* modules, standing for their addresses
          Permissions,  \* Module::permissions
          FeeCollector, Minter,
          Denom,
          SendEnabled,  \* BankParams: denominations that may be sent
          NoAccount

Account == [number : Nat, sequence : Nat, hasKey : BOOLEAN,
            permissions : SUBSET {"burner", "staking", "minter"}]

ASSUME BankAssumption ==
    /\ IsFiniteSet(Addr) /\ IsFiniteSet(Module) /\ IsFiniteSet(Denom)
    /\ Addr \cap Module = {}
    /\ Permissions \in [Module -> SUBSET {"burner", "staking", "minter"}]
    /\ FeeCollector \in Module /\ Minter \in Module
    /\ SendEnabled \subseteq Denom
    /\ NoAccount \notin Account

Holder == Addr \cup Module

-----------------------------------------------------------------------------
(* Accounts.                                                               *)

NewAccount(number, permissions) ==
    [number |-> number, sequence |-> 0, hasKey |-> FALSE, permissions |-> permissions]

HasAccount(l, a) == l.acct[a] # NoAccount

\* Also next_account_number: hand out the number stored and store the next.
CreateAccount(l, a, permissions) ==
    [l EXCEPT !.acct[a] = NewAccount(l.next, permissions), !.next = @ + 1]

\* As send_coins_from_account_to_account does it for the recipient.
CreateBaseAccount(l, a) == IF HasAccount(l, a) THEN l ELSE CreateAccount(l, a, {})

CheckCreateModuleAccount(l, m) ==
    IF HasAccount(l, m) THEN l ELSE CreateAccount(l, m, Permissions[m])

-----------------------------------------------------------------------------
(* Balances.                                                               *)

Covers(balance, c) == \A d \in Denom : balance[d] >= c[d]
Plus(b, c) == [d \in Denom |-> b[d] + c[d]]
Minus(b, c) == [d \in Denom |-> b[d] - c[d]]

AddCoins(l, a, c) == [l EXCEPT !.bal[a] = Plus(@, c)]

\* No coins are ever locked: there are no vesting accounts yet.
SubUnlockedCoins(l, a, c) ==
    IF Covers(l.bal[a], c) THEN {[l EXCEPT !.bal[a] = Minus(@, c)]} ELSE {}

BlockedDenom(c) == \E d \in Denom \ SendEnabled : c[d] > 0

\* Mutated form of SendCoins: the recipient's balance is read before the
\* sender's is written.
SendStale(l, from, to, c) ==
    IF BlockedDenom(c) THEN {}
    ELSE {[l2 EXCEPT !.bal[to] = Plus(l.bal[to], c)] : l2 \in SubUnlockedCoins(l, from, c)}

SendCoins(l, from, to, c) ==
    IF BlockedDenom(c) THEN {}
    ELSE {AddCoins(l2, to, c) : l2 \in SubUnlockedCoins(l, from, c)}

AccountToModule(l, a, m, c) == SendCoins(CheckCreateModuleAccount(l, m), a, m, c)

AccountToAccount(l, from, to, c) ==
    {CreateBaseAccount(l2, to) : l2 \in SendCoins(l, from, to, c)}

ModuleToModule(l, m, n, c) == SendCoins(CheckCreateModuleAccount(l, n), m, n, c)

\* The address of a module is refused; an account is not created.
ModuleToAccount(l, m, a, c) == IF a \in Module THEN {} ELSE SendCoins(l, m, a, c)

DelegateCoins(l, a, m, c) ==
    LET l1 == CheckCreateModuleAccount(l, m)
    IN IF "staking" \in Permissions[m] /\ HasAccount(l, a)
       THEN {AddCoins(l2, m, c) : l2 \in SubUnlockedCoins(l1, a, c)} ELSE {}

UndelegateCoins(l, m, a, c) ==
    LET l1 == CheckCreateModuleAccount(l, m)
    IN IF "staking" \in Permissions[m] /\ HasAccount(l1, a)
       THEN {AddCoins(l2, a, c) : l2 \in SubUnlockedCoins(l1, m, c)} ELSE {}

MintCoins(l, m, c) ==
    IF "minter" \in Permissions[m]
    THEN {[AddCoins(l, m, c) EXCEPT !.supply = Plus(@, c)]} ELSE {}

\* The permission is looked up in the stored account, not in the module.
BurnCoins(l, m, c) ==
    IF HasAccount(l, m) /\ "burner" \in l.acct[m].permissions
    THEN {[l2 EXCEPT !.supply = Minus(@, c)] : l2 \in SubUnlockedCoins(l, m, c)} ELSE {}

-----------------------------------------------------------------------------
(* Genesis: accounts are numbered in order, then the fee collector, then   *)
(* the module accounts of the other modules.  The file lists balances: a   *)
(* later entry of an address overwrites the coins of an earlier one, and   *)
(* the supply is the sum of all the entries.                               *)

GenesisEntries == Seq([addr : Holder, coins : [Denom -> Nat]])

StoredCoin(entries, h, d) ==
    LET listed == {i \in DOMAIN entries : entries[i].addr = h /\ entries[i].coins[d] > 0}
    IN  IF listed = {} THEN 0 ELSE entries[Max(listed)].coins[d]

ListedSupply(entries) ==
    [d \in Denom |-> Total([i \in DOMAIN entries |-> entries[i].coins[d]], DOMAIN entries)]

EmptyLedger ==
    [acct |-> [h \in Holder |-> NoAccount], next |-> 0,
     bal |-> [h \in Holder |-> [d \in Denom |-> 0]], supply |-> [d \in Denom |-> 0]]

GenesisLedger(users, created, entries) ==
    LET l1 == FoldSet(LAMBDA a, l : CreateAccount(l, a, {}), EmptyLedger, users)
        l2 == CheckCreateModuleAccount(l1, FeeCollector)
        l3 == FoldSet(LAMBDA m, l : CheckCreateModuleAccount(l, m), l2, created)
    IN [l3 EXCEPT !.bal = [h \in Holder |-> [d \in Denom |-> StoredCoin(entries, h, d)]],
                  !.supply = ListedSupply(entries)]
=============================================================================
