------------------------------ MODULE SendCoins -------------------------------
(***************************************************************************)
(* WalletModel::prepareTransaction and WalletModel::sendCoins             *)
(* (src/unnamed/part_000, qt/walletmodel.cpp): the checks of a send, its   *)
(* commit and the address-book update that follows.                       *)
(*                                                                         *)
(* The send dialog (not under src/) calls prepareTransaction, asks the    *)
(* user to confirm and then calls sendCoins.  Nothing is locked between   *)
(* the two: other callers of the wallet (RPC sends, modelled as spending  *)
(* a coin) may run while the confirmation is open.  Address-book edits by *)
(* other callers are not modelled.  Coins have value 1, so an amount is   *)
(* a number of coins; createTransaction (core wallet, outside src/) picks *)
(* the inputs, the fee and may fail.  Change outputs are left out.        *)
(***************************************************************************)
EXTENDS Naturals, Sequences, FiniteSets

CONSTANTS
    Coins,          \* the wallet's spendable outputs (model values)
    ValidAddresses, \* addresses IsValidDestinationString accepts
    Addresses,      \* every address a user may type
    Labels,         \* labels a user may type
    NoEntry,        \* no address-book entry
    MaxFee,         \* the largest fee createTransaction asks for
    MaxTxFee,       \* m_default_max_tx_fee
    MaxRecipients,  \* bound on the recipients of one send
    MaxAmount,      \* bound on the amount of one recipient
    MaxOther        \* bound on the other callers' steps

ASSUME SendAssumption ==
    /\ ValidAddresses \subseteq Addresses
    /\ NoEntry \notin Labels
    /\ MaxFee \in Nat /\ MaxTxFee \in Nat
    /\ MaxRecipients \in Nat \ {0}
    /\ MaxAmount \in Nat
    /\ MaxOther \in Nat

(* SendCoinsRecipient: address, amount, fSubtractFeeFromAmount, label.    *)
Recipient == [address : Addresses, amount : 0..MaxAmount, subtract : BOOLEAN,
              label : Labels]

(* The recipient lists the send dialog may pass: 1 to MaxRecipients rows. *)
RecipientLists == UNION {[1..n -> Recipient] : n \in 1..MaxRecipients}

(* An address-book entry's purpose; "none" is no entry.                    *)
Purposes == {"none", "send", "receive"}

Statuses == {"OK", "InvalidAddress", "InvalidAmount", "DuplicateAddress",
             "AmountExceedsBalance", "AmountWithFeeExceedsBalance",
             "TransactionCreationFailed", "AbsurdFee"}

NoTx == [inputs |-> {}, fee |-> 0]

VARIABLES
    coins,     \* the wallet's unspent outputs
    book,      \* address -> label (NoEntry: not in the book)
    purpose,   \* address -> purpose
    phase,     \* "idle", or "confirm": prepared and waiting for the user
    rcps,      \* the recipients of the transaction awaiting confirmation
    tx,        \* the transaction createTransaction built for it: inputs and fee
    status,    \* the last SendCoinsReturn
    cached,    \* the balance the GUI shows (checkBalanceChanged)
    others     \* steps of other callers so far

vars == <<coins, book, purpose, phase, rcps, tx, status, cached, others>>

-----------------------------------------------------------------------------
(* validateAddress.                                                        *)
validateAddress(a) == a \in ValidAddresses

(* total: the sum of the amounts, as the loop adds them.                   *)
Total(r) ==
    LET sum[i \in 0..Len(r)] == IF i = 0 THEN 0 ELSE sum[i - 1] + r[i].amount
    IN  sum[Len(r)]

(* Fault model: the amount test written rcp.amount < 0.                     *)
BadRowsNegativeOnly(r) == {i \in DOMAIN r : ~validateAddress(r[i].address) \/ r[i].amount < 0}

(* The rows the pre-check loop stops at: an invalid address or an amount   *)
(* <= 0.  The loop returns at the first of them, the address test first.  *)
BadRows(r) == {i \in DOMAIN r : ~validateAddress(r[i].address) \/ r[i].amount <= 0}

FirstBad(r) == CHOOSE i \in BadRows(r) : \A j \in BadRows(r) : i <= j

(* setAddress.size() != nAddresses.                                        *)
HasDuplicate(r) == Cardinality({r[i].address : i \in DOMAIN r}) # Len(r)

SubtractFee(r) == \E i \in DOMAIN r : r[i].subtract

(* getAvailableBalance: every coin has value 1.                            *)
AvailableBalance == Cardinality(coins)

(* What prepareTransaction returns before createTransaction.               *)
PreCheck(r) ==
    IF BadRows(r) # {}
    THEN IF ~validateAddress(r[FirstBad(r)].address) THEN "InvalidAddress"
                                                     ELSE "InvalidAmount"
    ELSE IF HasDuplicate(r) THEN "DuplicateAddress"
    ELSE IF Total(r) > AvailableBalance THEN "AmountExceedsBalance"
    ELSE "OK"

(* createTransaction: it selects inputs worth the amounts, and the fee    *)
(* too unless the fee is subtracted from the amounts; it fails when the    *)
(* coins do not cover that, and may fail for other reasons (the fail      *)
(* reason of the wallet).                                                 *)
Need(r, fee) == Total(r) + (IF SubtractFee(r) THEN 0 ELSE fee)

CreateSucceeds(r, fee, inputs) ==
    /\ inputs \subseteq coins
    /\ Cardinality(inputs) = Need(r, fee)

-----------------------------------------------------------------------------
Init ==
    /\ coins = Coins
    /\ book \in [ValidAddresses -> Labels \cup {NoEntry}]
    /\ purpose \in [ValidAddresses -> Purposes]
    /\ \A a \in ValidAddresses : (book[a] = NoEntry) = (purpose[a] = "none")
    /\ phase = "idle"
    /\ rcps = <<>>
    /\ tx = NoTx
    /\ status = "OK"
    /\ cached = Cardinality(Coins)
    /\ others = 0

(* prepareTransaction(transaction, coinControl) for the recipient list r:  *)
(* the pre-check loop, the duplicate and balance checks, then             *)
(* createTransaction, the fee-exceeds-balance test on failure, and the    *)
(* absurd-fee test.  On OK the dialog keeps the WalletModelTransaction    *)
(* and waits for the user's confirmation; otherwise it is dropped.        *)
prepareTransaction(r) ==
    /\ phase = "idle"
    /\ IF PreCheck(r) # "OK"
       THEN /\ status' = PreCheck(r)
            /\ UNCHANGED <<phase, rcps, tx>>
       ELSE \E fee \in 0..MaxFee :
              \/ \E inputs \in SUBSET coins :
                   /\ CreateSucceeds(r, fee, inputs)
                   /\ IF fee > MaxTxFee
                      THEN /\ status' = "AbsurdFee"
                           /\ UNCHANGED <<phase, rcps, tx>>
                      ELSE /\ status' = "OK"
                           /\ phase' = "confirm"
                           /\ rcps' = r
                           /\ tx' = [inputs |-> inputs, fee |-> fee]
              \/ /\ UNCHANGED <<phase, rcps, tx>>
                 /\ status' = IF ~SubtractFee(r) /\ Total(r) + fee > AvailableBalance
                              THEN "AmountWithFeeExceedsBalance"
                              ELSE "TransactionCreationFailed"
    /\ UNCHANGED <<coins, book, purpose, cached, others>>

(* The rows of r with address a; the last one's label is the one the book *)
(* keeps, since each row writes it in turn.                               *)
RowsOf(r, a) == {i \in DOMAIN r : r[i].address = a}

LastRow(r, a) == CHOOSE i \in RowsOf(r, a) : \A j \in RowsOf(r, a) : j <= i

(* Fault model: both setAddressBook calls pass the purpose "send".        *)
sendCoinsPurposeSend ==
    /\ phase = "confirm"
    /\ coins' = coins \ tx.inputs
    /\ book' = [a \in ValidAddresses |->
                   IF RowsOf(rcps, a) # {} THEN rcps[LastRow(rcps, a)].label ELSE book[a]]
    /\ purpose' = [a \in ValidAddresses |->
                      IF RowsOf(rcps, a) # {} THEN "send" ELSE purpose[a]]
    /\ cached' = Cardinality(coins')
    /\ status' = "OK"
    /\ phase' = "idle"
    /\ rcps' = <<>>
    /\ tx' = NoTx
    /\ UNCHANGED others

(* sendCoins: commitTransaction, then for each recipient a new address is *)
(* added with its label and purpose "send", and a known one whose label    *)
(* differs gets the new label with its purpose kept (""); then            *)
(* checkBalanceChanged(getBalances()).                                    *)
sendCoins ==
    /\ phase = "confirm"
    /\ coins' = coins \ tx.inputs
    /\ book' = [a \in ValidAddresses |->
                   IF RowsOf(rcps, a) # {} THEN rcps[LastRow(rcps, a)].label ELSE book[a]]
    /\ purpose' = [a \in ValidAddresses |->
                      IF RowsOf(rcps, a) # {} /\ book[a] = NoEntry THEN "send" ELSE purpose[a]]
    /\ cached' = Cardinality(coins')
    /\ status' = "OK"
    /\ phase' = "idle"
    /\ rcps' = <<>>
    /\ tx' = NoTx
    /\ UNCHANGED others

(* The user declines the confirmation dialog.                               *)
Cancel ==
    /\ phase = "confirm"
    /\ phase' = "idle"
    /\ rcps' = <<>>
    /\ tx' = NoTx
    /\ UNCHANGED <<coins, book, purpose, status, cached, others>>

(* Another caller of the wallet (an RPC send) spends coin c.               *)
OtherSpend(c) ==
    /\ others < MaxOther
    /\ c \in coins
    /\ coins' = coins \ {c}
    /\ others' = others + 1
    /\ UNCHANGED <<book, purpose, phase, rcps, tx, status, cached>>

Next ==
    \/ \E r \in RecipientLists : prepareTransaction(r)
    \/ sendCoins
    \/ Cancel
    \/ \E c \in Coins : OtherSpend(c)

Spec == Init /\ [][Next]_vars

-----------------------------------------------------------------------------
TypeOK ==
    /\ coins \subseteq Coins
    /\ book \in [ValidAddresses -> Labels \cup {NoEntry}]
    /\ purpose \in [ValidAddresses -> Purposes]
    /\ phase \in {"idle", "confirm"}
    /\ rcps \in RecipientLists \cup {<<>>}
    /\ tx \in [inputs : SUBSET Coins, fee : 0..MaxFee]
    /\ status \in Statuses
    /\ cached \in 0..Cardinality(Coins)
    /\ others \in 0..MaxOther

(* A transaction the user is asked to confirm pays valid, distinct         *)
(* addresses a positive amount each, its inputs cover the amounts and the  *)
(* fee (or the amounts alone when the fee is subtracted from them), and    *)
(* its fee is not absurd.                                                  *)
PreparedIsSound ==
    phase = "confirm" =>
        /\ \A i \in DOMAIN rcps : validateAddress(rcps[i].address) /\ rcps[i].amount > 0
        /\ Cardinality({rcps[i].address : i \in DOMAIN rcps}) = Len(rcps)
        /\ Cardinality(tx.inputs) = Need(rcps, tx.fee)
        /\ tx.fee <= MaxTxFee

(* After sendCoins every recipient's address is in the address book with   *)
(* the label the user gave that recipient, and an address that was already *)
(* in the book keeps its purpose (a receiving address stays one).          *)
SendLabelsRecipients ==
    [][sendCoins =>
         \A i \in DOMAIN rcps :
            LET a == rcps[i].address IN
            /\ book'[a] = rcps[i].label
            /\ (purpose[a] # "none" => purpose'[a] = purpose[a])]_vars

(* sendCoins commits only transactions whose inputs are still unspent: the *)
(* transaction prepareTransaction built is still a valid spend.            *)
CommitSpendsUnspent == [][sendCoins => tx.inputs \subseteq coins]_vars

=============================================================================
