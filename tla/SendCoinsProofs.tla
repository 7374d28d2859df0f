--------------------------- MODULE SendCoinsProofs ----------------------------
(***************************************************************************)
(* Proof that every transaction the user is asked to confirm passed the    *)
(* checks of prepareTransaction (PreparedIsSound), for every value of the  *)
(* constants.  The invariant is inductive as it stands: confirm is entered *)
(* only by prepareTransaction's OK branch, which sets rcps and tx from the *)
(* list and the transaction it has just checked, and the other caller's    *)
(* spends leave rcps, tx and phase alone.                                  *)
(*                                                                         *)
(* Then the proof that sendCoins labels every recipient and keeps the     *)
(* purpose of a known address (SendLabelsRecipients).  It rests on        *)
(* LabelInv, which keeps the book and the purposes in step, and on the    *)
(* duplicate check: an address set of Len(rcps) elements means each      *)
(* address is on one row (DistinctAddresses, from FiniteSetTheorems).      *)
(***************************************************************************)
EXTENDS SendCoins, FiniteSetTheorems, TLAPS

(* A recipient list the send dialog passes is a function on 1..n whose    *)
(* rows are recipients.                                                    *)
LEMMA RecipientListShape ==
    ASSUME NEW r \in RecipientLists
    PROVE  \E n \in 1..MaxRecipients : r \in [1..n -> Recipient]
BY DEF RecipientLists

(* prepareTransaction's pre-check returns "OK" only for a list with no bad *)
(* row and no duplicate address.                                           *)
LEMMA PreCheckOK ==
    ASSUME NEW r, PreCheck(r) = "OK"
    PROVE  /\ BadRows(r) = {}
           /\ ~HasDuplicate(r)
<1>1. BadRows(r) = {}
  BY DEF PreCheck
<1>2. ~HasDuplicate(r)
  BY <1>1 DEF PreCheck
<1> QED BY <1>1, <1>2

-----------------------------------------------------------------------------
(* A list whose set of addresses has as many elements as the list has     *)
(* rows (the setAddress.size() test passed) has no address on two rows.   *)
LEMMA DistinctAddresses ==
    ASSUME NEW n \in Nat, NEW r \in [1..n -> Recipient],
           Cardinality({r[k].address : k \in 1..n}) = n,
           NEW i \in 1..n, NEW j \in 1..n, r[i].address = r[j].address
    PROVE  i = j
<1> DEFINE T == {r[k].address : k \in 1..n}
           f == [k \in 1..n |-> r[k].address]
<1>1. f \in Surjection(1..n, T)
  BY DEF Surjection
<1>2. IsFiniteSet(1..n) /\ Cardinality(1..n) = n
  BY FS_Interval
<1>3. f \in Injection(1..n, T)
  BY <1>1, <1>2, FS_Surjection
<1> QED BY <1>3 DEF Injection, IsInjective
-----------------------------------------------------------------------------
(* What sendCoins needs to label every recipient: the book and the purpose *)
(* maps have their types, an address is in the book exactly when it has a  *)
(* purpose, and a transaction awaiting confirmation has a recipient list   *)
(* that passed prepareTransaction's checks.                                *)
LabelInv ==
    /\ book \in [ValidAddresses -> Labels \cup {NoEntry}]
    /\ purpose \in [ValidAddresses -> Purposes]
    /\ \A a \in ValidAddresses : (book[a] = NoEntry) = (purpose[a] = "none")
    /\ phase = "confirm" => rcps \in RecipientLists
    /\ PreparedIsSound

(* In a sound list, the rows of a recipient's address are that row alone, *)
(* so the label the book keeps for it is that row's.                       *)
LEMMA OnlyRow ==
    ASSUME NEW r \in RecipientLists,
           Cardinality({r[k].address : k \in DOMAIN r}) = Len(r),
           NEW i \in DOMAIN r
    PROVE  /\ RowsOf(r, r[i].address) = {i}
           /\ LastRow(r, r[i].address) = i
<1>1. PICK n \in 1..MaxRecipients : r \in [1..n -> Recipient]
  BY RecipientListShape
<1>2. DOMAIN r = 1..n /\ Len(r) = n /\ n \in Nat
  BY <1>1, SendAssumption
<1>3. \A j \in 1..n : r[j].address = r[i].address => j = i
  BY <1>1, <1>2, DistinctAddresses
<1>4. RowsOf(r, r[i].address) = {i}
  BY <1>2, <1>3 DEF RowsOf
<1> QED BY <1>4 DEF LastRow

LEMMA InitLabel == Init => LabelInv
BY DEF Init, LabelInv, PreparedIsSound

(* sendCoins writes a label for each recipient and the purpose "send" for  *)
(* the addresses it adds, and so keeps the book and the purposes in step.  *)
LEMMA SendKeepsLabel ==
    ASSUME LabelInv, sendCoins
    PROVE  LabelInv'
<1>1. rcps \in RecipientLists
  BY DEF sendCoins, LabelInv
<1>2. \A a \in ValidAddresses : RowsOf(rcps, a) # {} =>
          /\ LastRow(rcps, a) \in DOMAIN rcps
          /\ rcps[LastRow(rcps, a)].label \in Labels
  <2> SUFFICES ASSUME NEW a \in ValidAddresses, RowsOf(rcps, a) # {}
               PROVE  /\ LastRow(rcps, a) \in DOMAIN rcps
                      /\ rcps[LastRow(rcps, a)].label \in Labels
    OBVIOUS
  <2>1. PICK n \in 1..MaxRecipients : rcps \in [1..n -> Recipient]
    BY <1>1, RecipientListShape
  <2>2. PICK i \in RowsOf(rcps, a) : TRUE
    OBVIOUS
  <2>3. i \in DOMAIN rcps /\ rcps[i].address = a
    BY <2>2 DEF RowsOf
  <2>4. rcps \in [1..n -> Recipient] /\ n \in Nat
    BY <2>1, SendAssumption
  <2>5. RowsOf(rcps, a) = {i} /\ LastRow(rcps, a) = i
    BY <1>1, <2>3, OnlyRow DEF LabelInv, PreparedIsSound, sendCoins
  <2> QED BY <2>3, <2>4, <2>5 DEF Recipient
<1>3. book' \in [ValidAddresses -> Labels \cup {NoEntry}]
  BY <1>2 DEF sendCoins, LabelInv
<1>4. purpose' \in [ValidAddresses -> Purposes]
  BY DEF sendCoins, LabelInv, Purposes
<1>5. \A a \in ValidAddresses : (book'[a] = NoEntry) = (purpose'[a] = "none")
  BY <1>2, SendAssumption DEF sendCoins, LabelInv
<1> QED BY <1>3, <1>4, <1>5 DEF sendCoins, LabelInv, PreparedIsSound
-----------------------------------------------------------------------------
(* The initial state has nothing awaiting confirmation.                    *)
LEMMA InitSound == Init => PreparedIsSound
BY DEF Init, PreparedIsSound

(* prepareTransaction's OK branch leaves a sound transaction to confirm.   *)
LEMMA PrepareSound ==
    ASSUME NEW r \in RecipientLists, PreparedIsSound, prepareTransaction(r)
    PROVE  PreparedIsSound'
<1>1. CASE PreCheck(r) # "OK"
  BY <1>1 DEF prepareTransaction, PreparedIsSound
<1>2. CASE PreCheck(r) = "OK"
  <2>1. PICK fee \in 0..MaxFee :
          \/ \E inputs \in SUBSET coins :
               /\ CreateSucceeds(r, fee, inputs)
               /\ IF fee > MaxTxFee
                  THEN /\ status' = "AbsurdFee"
                       /\ UNCHANGED <<phase, rcps, tx>>
                  ELSE /\ status' = "OK"
                       /\ phase' = "confirm"
                       /\ rcps' = r
                       /\ tx' = [inputs |-> inputs, fee |-> fee]
          \/ /\ UNCHANGED <<phase, rcps, tx>>
             /\ status' = IF ~SubtractFee(r) /\ Total(r) + fee > AvailableBalance
                          THEN "AmountWithFeeExceedsBalance"
                          ELSE "TransactionCreationFailed"
    BY <1>2 DEF prepareTransaction
  <2>2. CASE UNCHANGED <<phase, rcps, tx>>
    BY <2>2 DEF PreparedIsSound
  <2>3. CASE ~UNCHANGED <<phase, rcps, tx>>
    <3>1. PICK inputs \in SUBSET coins :
            /\ CreateSucceeds(r, fee, inputs)
            /\ fee <= MaxTxFee
            /\ phase' = "confirm"
            /\ rcps' = r
            /\ tx' = [inputs |-> inputs, fee |-> fee]
      BY <2>1, <2>3, SendAssumption
    <3>2. PICK n \in 1..MaxRecipients : r \in [1..n -> Recipient]
      BY RecipientListShape
    <3>3. BadRows(r) = {} /\ ~HasDuplicate(r)
      BY <1>2, PreCheckOK
    <3>4. \A i \in DOMAIN r : validateAddress(r[i].address) /\ r[i].amount > 0
      <4> SUFFICES ASSUME NEW i \in DOMAIN r
                   PROVE  validateAddress(r[i].address) /\ r[i].amount > 0
        OBVIOUS
      <4>1. r[i].amount \in 0..MaxAmount
        BY <3>2 DEF Recipient
      <4>2. i \notin BadRows(r)
        BY <3>3
      <4> QED BY <4>1, <4>2 DEF BadRows
    <3>5. Cardinality({r[i].address : i \in DOMAIN r}) = Len(r)
      BY <3>3 DEF HasDuplicate
    <3>6. Cardinality(inputs) = Need(r, fee)
      BY <3>1 DEF CreateSucceeds
    <3> QED BY <3>1, <3>4, <3>5, <3>6 DEF PreparedIsSound
  <2> QED BY <2>2, <2>3
<1> QED BY <1>1, <1>2

(* Every step of the system keeps the invariant.                           *)
LEMMA StepSound == PreparedIsSound /\ [Next]_vars => PreparedIsSound'
<1> SUFFICES ASSUME PreparedIsSound, [Next]_vars PROVE PreparedIsSound'
  OBVIOUS
<1>1. CASE \E r \in RecipientLists : prepareTransaction(r)
  BY <1>1, PrepareSound
<1>2. CASE sendCoins
  BY <1>2 DEF sendCoins, PreparedIsSound
<1>3. CASE Cancel
  BY <1>3 DEF Cancel, PreparedIsSound
<1>4. CASE \E c \in Coins : OtherSpend(c)
  BY <1>4 DEF OtherSpend, PreparedIsSound
<1>5. CASE UNCHANGED vars
  BY <1>5 DEF vars, PreparedIsSound
<1> QED BY <1>1, <1>2, <1>3, <1>4, <1>5 DEF Next

(* The send dialog never asks the user to confirm a transaction that pays  *)
(* an invalid or repeated address, a non-positive amount, an absurd fee, or *)
(* whose inputs do not cover what it pays (prepareTransaction's checks).   *)
THEOREM PreparedIsSoundInvariant == Spec => []PreparedIsSound
BY InitSound, StepSound, PTL DEF Spec


(* Every step keeps LabelInv.                                              *)
LEMMA StepLabel == LabelInv /\ [Next]_vars => LabelInv'
<1> SUFFICES ASSUME LabelInv, [Next]_vars PROVE LabelInv'
  OBVIOUS
<1>1. CASE \E r \in RecipientLists : prepareTransaction(r)
  <2>1. PICK r \in RecipientLists : prepareTransaction(r)
    BY <1>1
  <2>2. PreparedIsSound'
    BY <2>1, PrepareSound DEF LabelInv
  <2>3. phase' = "confirm" => rcps' \in RecipientLists
    BY <2>1 DEF prepareTransaction, LabelInv
  <2> QED BY <2>1, <2>2, <2>3 DEF prepareTransaction, LabelInv
<1>2. CASE sendCoins
  BY <1>2, SendKeepsLabel
<1>3. CASE Cancel
  BY <1>3 DEF Cancel, LabelInv, PreparedIsSound
<1>4. CASE \E c \in Coins : OtherSpend(c)
  BY <1>4 DEF OtherSpend, LabelInv, PreparedIsSound
<1>5. CASE UNCHANGED vars
  BY <1>5 DEF vars, LabelInv, PreparedIsSound
<1> QED BY <1>1, <1>2, <1>3, <1>4, <1>5 DEF Next

(* The book and the purposes stay in step, and a transaction awaiting     *)
(* confirmation has a recipient list prepareTransaction accepted.         *)
THEOREM LabelInvariant == Spec => []LabelInv
BY InitLabel, StepLabel, PTL DEF Spec

(* A sendCoins step gives every recipient's address the recipient's label *)
(* and keeps the purpose of an address already in the book.               *)
LEMMA SendLabels ==
    ASSUME LabelInv, sendCoins
    PROVE  \A i \in DOMAIN rcps :
              LET a == rcps[i].address IN
              /\ book'[a] = rcps[i].label
              /\ (purpose[a] # "none" => purpose'[a] = purpose[a])
<1> SUFFICES ASSUME NEW i \in DOMAIN rcps
             PROVE  LET a == rcps[i].address IN
                    /\ book'[a] = rcps[i].label
                    /\ (purpose[a] # "none" => purpose'[a] = purpose[a])
  OBVIOUS
<1> DEFINE a == rcps[i].address
<1>1. rcps \in RecipientLists
        /\ Cardinality({rcps[k].address : k \in DOMAIN rcps}) = Len(rcps)
        /\ a \in ValidAddresses
  BY DEF sendCoins, LabelInv, PreparedIsSound, validateAddress
<1>2. RowsOf(rcps, a) = {i} /\ LastRow(rcps, a) = i
  BY <1>1, OnlyRow
<1>3. book'[a] = rcps[i].label
  BY <1>1, <1>2 DEF sendCoins
<1>4. purpose[a] # "none" => purpose'[a] = purpose[a]
  BY <1>1, <1>2 DEF sendCoins, LabelInv
<1> QED BY <1>3, <1>4

(* After sendCoins every recipient's address is in the address book with  *)
(* its recipient's label, and an address already in the book keeps its    *)
(* purpose (setAddressBook in WalletModel::sendCoins).                     *)
THEOREM SendLabelsRecipientsHolds == Spec => SendLabelsRecipients
<1>1. LabelInv /\ [Next]_vars => [sendCoins =>
         \A i \in DOMAIN rcps :
            LET a == rcps[i].address IN
            /\ book'[a] = rcps[i].label
            /\ (purpose[a] # "none" => purpose'[a] = purpose[a])]_vars
  BY SendLabels
<1> QED BY <1>1, LabelInvariant, PTL DEF Spec, SendLabelsRecipients

=============================================================================
