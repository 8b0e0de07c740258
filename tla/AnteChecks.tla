----------------------------- MODULE AnteChecks -----------------------------
(***************************************************************************)
(* The checks of the ante handler that look at the transaction and the     *)
(* parameters alone, and what they are computed from: gas in 63 bits, the  *)
(* prices of a node, the fee and the transaction as they are decoded, and  *)
(* what a signature covers.  A transaction that fails one of them leaves   *)
(* nothing.  An operation that may fail yields a set of at most one value. *)
(***************************************************************************)
EXTENDS Ante

CONSTANTS DenomOrder,           \* the denominations in their order
          MaxGas,               \* Gas::MAX
          PriceUnit,            \* one, as a price per unit of gas
          Prices,               \* of one denomination, in units of 1 / PriceUnit
          TxCostPerByte, SigVerifyCost, MaxMemoCharacters,   \* AuthParams
          Small                 \* bound: amounts, lengths and limits tried

ASSUME AnteChecksConstants ==
    /\ {DenomOrder[i] : i \in DOMAIN DenomOrder} = Denom /\ Len(DenomOrder) = Cardinality(Denom)
    /\ {MaxGas, TxCostPerByte, SigVerifyCost, MaxMemoCharacters, Small} \subseteq Nat
    /\ PriceUnit \in Nat \ {0} /\ Prices \subseteq Nat

-----------------------------------------------------------------------------
(* Gas.                                                                    *)

Gas(n) == IF n > MaxGas THEN {} ELSE {n}
GasAdd(a, b) == IF MaxGas - a >= b THEN {a + b} ELSE {}
GasSub(a, b) == IF b > a THEN {} ELSE {a - b}
GasMul(a, b) == IF a # 0 /\ b > MaxGas \div a THEN {} ELSE {a * b}

-----------------------------------------------------------------------------
(* The fee, and the prices of a node.                                      *)

Position(d) == CHOOSE i \in DOMAIN DenomOrder : DenomOrder[i] = d

\* A list of coins, not empty, positive, sorted and without duplicates.
ValidCoins(list) ==
    /\ list # <<>>
    /\ \A i \in DOMAIN list : list[i].amount > 0
    /\ \A i \in 2 .. Len(list) : Position(list[i - 1].denom) < Position(list[i].denom)

CoinsOf(list) ==
    [d \in Denom |-> IF \E i \in DOMAIN list : list[i].denom = d
                     THEN list[CHOOSE i \in DOMAIN list : list[i].denom = d].amount ELSE 0]

ListOf(c) ==
    LET coin(d) == [denom |-> d, amount |-> c[d]]
        kept    == SelectSeq(DenomOrder, LAMBDA d : c[d] > 0)
    IN  [i \in DOMAIN kept |-> coin(kept[i])]

\* A list of zeros is no fee, whatever its order and its denominations.
DecodeFee(list) ==
    IF \A i \in DOMAIN list : list[i].amount = 0 THEN {None}
    ELSE IF ValidCoins(list) THEN {CoinsOf(list)} ELSE {}
EncodeFee(fee) == IF fee = None THEN <<>> ELSE ListOf(fee)

\* Not empty, without duplicates, zeros allowed.
MinGasPrices == UNION {[D -> Prices] : D \in (SUBSET Denom) \ {{}}}

\* One price of zero is enough.
IsZero(prices) == \E d \in DOMAIN prices : prices[d] = 0

\* Rounded up.
RequiredFees(prices, gas) ==
    [d \in DOMAIN prices |-> (prices[d] * gas + PriceUnit - 1) \div PriceUnit]

IsAnyGte(fee, required) ==
    \E d \in DOMAIN required : required[d] # 0 /\ fee[d] > 0 /\ fee[d] >= required[d]

\* Required fees of zero are no list of coins: the call that builds it is
\* expected not to fail, and panics.
MempoolFee(isCheck, fee, gas, prices) ==
    IF ~isCheck \/ IsZero(prices) THEN "ok"
    ELSE IF fee = None THEN "missing"
    ELSE IF \E d \in DOMAIN prices : RequiredFees(prices, gas)[d] = 0 THEN "panic"
    ELSE IF IsAnyGte(fee, RequiredFees(prices, gas)) THEN "ok" ELSE "insufficient"

-----------------------------------------------------------------------------
(* The transaction.                                                        *)

\* Of a transaction as it is decoded: no extensions, a signer info for each
\* signature.
TxDecodes(extensions, signatures, infos) == extensions = 0 /\ signatures = infos

ValidateBasic(signatures, signers) == signatures > 0 /\ signatures = signers

ValidateMemo(length) == length <= MaxMemoCharacters

\* A meter takes what it is asked for before it looks at its limit.
Consume(consumed, limit, amount) ==
    {n \in GasAdd(consumed, amount) : n <= limit}

ConsumeGasForTxSize(consumed, limit, length) ==
    UNION {Consume(consumed, limit, g) : g \in UNION {GasMul(n, TxCostPerByte) : n \in Gas(length)}}

SignGasConsume(consumed, limit, signers) ==
    LET charge[n \in 0 .. signers] ==
            IF n = 0 THEN {consumed}
            ELSE UNION {Consume(g, limit, SigVerifyCost) : g \in charge[n - 1]}
    IN  charge[signers]

\* What is left consumed by the checks of one transaction, storage aside.
StaticGas(limit, length, signers) ==
    UNION {SignGasConsume(g, limit, signers) : g \in ConsumeGasForTxSize(0, limit, length)}

-----------------------------------------------------------------------------
(* Signatures.                                                             *)

SupportedModes == {"direct", "amino", "textual"}

\* In the genesis block the numbers of accounts do not count.
SignedNumber(number) == IF height = 0 THEN 0 ELSE number

\* The payer, as the amino document has it: left out.
StdFee(tx) == [amount |-> EncodeFee(tx.fee)]

\* What is signed.  The amino document says nothing of the timeout.
SignDoc(mode, tx, number, sequence) ==
    CASE mode = "amino" -> [msg |-> tx.msg, fee |-> StdFee(tx), number |-> number,
                            sequence |-> sequence]
      [] mode = "direct" -> [tx |-> tx, number |-> number]
      [] mode = "textual" -> [tx |-> tx, number |-> number, sequence |-> sequence]

-----------------------------------------------------------------------------
(* Checked by evaluation, over the values up to the bound.                 *)

Lists == UNION {[1 .. n -> [denom : Denom, amount : 0 .. 1]] : n \in 0 .. 2}
SmallFees == [Denom -> 0 .. 2] \ {[d \in Denom |-> 0]}

\* Gas never wraps: a sum or a product is the exact one or is refused
\* (checked_add, checked_sub, checked_mul).
ASSUME GasIsExact ==
    \A a, b \in 0 .. MaxGas :
        /\ GasAdd(a, b) = Gas(a + b) /\ GasMul(a, b) = Gas(a * b)
        /\ GasSub(a, b) = {c \in 0 .. MaxGas : c + b = a}

\* A fee survives its encoding, and no list but an orderly one or a list of
\* zeros is one.
ASSUME FeesRoundTrip ==
    /\ \A f \in SmallFees \cup {None} : DecodeFee(EncodeFee(f)) = {f}
    /\ \A l \in Lists : DecodeFee(l) # {} =>
          \E f \in DecodeFee(l) : f # None => EncodeFee(f) = l

\* A fee that a node takes covers the price of all the gas in some
\* denomination, unless one price is zero; only a limit that makes a required
\* fee zero panics.
ASSUME MempoolFeeCovers ==
    \A p \in MinGasPrices, f \in SmallFees, g \in 0 .. Small :
        LET outcome == MempoolFee(TRUE, f, g, p)
        IN  /\ outcome = "ok" =>
                  IsZero(p) \/ \E d \in DOMAIN p : f[d] * PriceUnit >= p[d] * g
            /\ outcome = "panic" <=> ~IsZero(p) /\ g = 0
            /\ outcome = "insufficient" =>
                  \A d \in DOMAIN p : f[d] * PriceUnit < p[d] * g \/ f[d] = 0

\* The limit of a transaction is kept, and every byte and signer is paid for.
ASSUME StaticGasPaid ==
    \A limit, length \in 0 .. Small, signers \in 1 .. 2 :
        StaticGas(limit, length, signers)
          = {g \in Gas(length * TxCostPerByte + signers * SigVerifyCost) : g <= limit}

\* A transaction that passes has as many signer infos as signers: indexing
\* them by the position of the signer never fails.
ASSUME InfosIndexed ==
    \A e, n, infos, signers \in 0 .. Small :
        TxDecodes(e, n, infos) /\ ValidateBasic(n, signers) => infos = signers /\ signers > 0

\* A direct signature covers the whole transaction; an amino one holds for
\* the same message with another timeout and with another payer of the fee.
ASSUME WhatIsSigned ==
    LET at(t, p) == [msg |-> 0, payer |-> p, fee |-> None, timeout |-> t]
    IN  \A t, u \in Timeouts, p, q \in Addr :
            /\ SignDoc("amino", at(t, p), 0, 0) = SignDoc("amino", at(u, q), 0, 0)
            /\ SignDoc("direct", at(t, p), 0, 0) = SignDoc("direct", at(u, q), 0, 0)
                  => t = u /\ p = q
=============================================================================
