------------------------- MODULE WalletTxStatusProofs -------------------------
(***************************************************************************)
(* Proofs about the confirmation status of a wallet transaction, for every *)
(* set of blocks and every bound.                                          *)
(***************************************************************************)
EXTENDS WalletTxStatus, SequenceTheorems, TLAPS

ConfirmationRecords ==
    [status : Statuses, block_height : 0..MaxChain, hashBlock : Hashes, nIndex : 0..MaxIndex]

(* The shape of a confirmation that the wallet's transitions produce       *)
(* (spec section 3): a block is named exactly by CONFIRMED and CONFLICTED, *)
(* and it holds this transaction or a conflicting one respectively;        *)
(* MarkConflicted and the default constructor leave nIndex at 0.          *)
WellFormed(c) ==
    /\ c \in ConfirmationRecords
    /\ c.status = "CONFIRMED" => c.hashBlock \in Blocks /\ content[c.hashBlock] = "tx"
    /\ c.status = "CONFLICTED" =>
          c.hashBlock \in Blocks /\ content[c.hashBlock] = "conflict" /\ c.nIndex = 0
    /\ c.status \in {"UNCONFIRMED", "ABANDONED"} =>
          c.hashBlock = NullHash /\ c.nIndex = 0 /\ c.block_height = 0

(* The block a confirmation names is in the active chain at its height.    *)
ChainSound(c) ==
    c.status \in {"CONFIRMED", "CONFLICTED"} =>
        c.block_height \in 1..Len(chain) /\ chain[c.block_height] = c.hashBlock

(* What is on disk decodes to a well-formed confirmation.                  *)
DiskSound == WellFormed(Unserialize(disk)) /\ Unserialize(disk).block_height = 0

(* An abandonment is on disk as well as in memory.                        *)
AbandonRecorded ==
    abandoned => /\ Unserialize(disk).status = "ABANDONED"
                 /\ running => confirm.status = "ABANDONED"

IInv ==
    /\ TypeOK
    /\ running => WellFormed(confirm) /\ ChainSound(confirm)
    /\ DiskSound
    /\ AbandonRecorded
    /\ AvailableCreditCoherent

(* The parent's available credit for a confirmation c at tip height L.     *)
CreditOf(c, L) ==
    LET d == IF c.status \in {"UNCONFIRMED", "ABANDONED"} THEN 0
             ELSE (L - c.block_height + 1) * (IF c.status = "CONFLICTED" THEN -1 ELSE 1)
    IN  IF d > 0 \/ (d = 0 /\ c.status # "ABANDONED") THEN 0 ELSE 1

-----------------------------------------------------------------------------
(***************************************************************************)
(* The encoding of CWalletTx::Serialize and Unserialize.                   *)
(***************************************************************************)

(* Unserialize inverts Serialize on every well-formed confirmation, up to  *)
(* block_height, which is not written.                                     *)
LEMMA RoundTrip ==
    ASSUME NEW c, WellFormed(c)
    PROVE  Unserialize(Serialize(c)) = [c EXCEPT !.block_height = 0]
<1> USE HashAssumption
<1>1. c \in ConfirmationRecords
  BY DEF WellFormed
<1> DEFINE target == [status |-> c.status, block_height |-> 0, hashBlock |-> c.hashBlock,
                      nIndex |-> c.nIndex]
<1>2. [c EXCEPT !.block_height = 0] = target
  BY <1>1 DEF ConfirmationRecords
<1>3. CASE c.status = "ABANDONED"
  <2>1. Serialize(c) = [hash |-> AbandonHash, index |-> -1]
    BY <1>3 DEF Serialize
  <2>2. Unserialize(Serialize(c)) =
            [status |-> "ABANDONED", block_height |-> 0, hashBlock |-> NullHash, nIndex |-> 0]
    <3>1. Unserialize([hash |-> AbandonHash, index |-> -1]) =
              [status |-> "ABANDONED", block_height |-> 0, hashBlock |-> NullHash, nIndex |-> 0]
      BY DEF Unserialize, SetAbandoned, DefaultConfirmation, Confirmation
    <3> QED
      BY <2>1, <3>1
  <2> QED
    BY <1>2, <1>3, <2>2 DEF WellFormed
<1>4. CASE c.status = "CONFLICTED"
  <2>1. Serialize(c) = [hash |-> c.hashBlock, index |-> -1]
    BY <1>4 DEF Serialize
  <2>2. c.hashBlock # AbandonHash
    BY <1>4 DEF WellFormed
  <2>3. Unserialize(Serialize(c)) =
            [status |-> "CONFLICTED", block_height |-> 0, hashBlock |-> c.hashBlock, nIndex |-> 0]
    <3>1. Unserialize([hash |-> c.hashBlock, index |-> -1]) =
              [status |-> "CONFLICTED", block_height |-> 0, hashBlock |-> c.hashBlock,
               nIndex |-> 0]
      BY <2>2 DEF Unserialize, SetStatus, DefaultConfirmation, Confirmation
    <3> QED
      BY <2>1, <3>1
  <2> QED
    BY <1>2, <1>4, <2>3 DEF WellFormed
<1>5. CASE c.status = "CONFIRMED"
  <2>1. Serialize(c) = [hash |-> c.hashBlock, index |-> c.nIndex]
    BY <1>5 DEF Serialize
  <2>2. c.hashBlock # NullHash /\ c.nIndex # -1
    BY <1>1, <1>5 DEF WellFormed, ConfirmationRecords
  <2>3. Unserialize(Serialize(c)) =
            [status |-> "CONFIRMED", block_height |-> 0, hashBlock |-> c.hashBlock,
             nIndex |-> c.nIndex]
    <3>1. Unserialize([hash |-> c.hashBlock, index |-> c.nIndex]) =
              [status |-> "CONFIRMED", block_height |-> 0, hashBlock |-> c.hashBlock,
               nIndex |-> c.nIndex]
      BY <2>2 DEF Unserialize, SetStatus, DefaultConfirmation, Confirmation
    <3> QED
      BY <2>1, <3>1
  <2> QED
    BY <1>2, <1>5, <2>3
<1>6. CASE c.status = "UNCONFIRMED"
  <2>1. Serialize(c) = [hash |-> NullHash, index |-> 0]
    BY <1>6 DEF Serialize, WellFormed
  <2>2. Unserialize(Serialize(c)) =
            [status |-> "UNCONFIRMED", block_height |-> 0, hashBlock |-> NullHash, nIndex |-> 0]
    BY <2>1 DEF Unserialize, DefaultConfirmation, Confirmation
  <2> QED
    BY <1>2, <1>6, <2>2 DEF WellFormed
<1> QED
  BY <1>1, <1>3, <1>4, <1>5, <1>6 DEF ConfirmationRecords, Statuses

(* Writing a well-formed confirmation leaves a sound record on disk, and   *)
(* the status it decodes to is the one written.                            *)
LEMMA WriteSound ==
    ASSUME NEW c, WellFormed(c)
    PROVE  /\ WellFormed(Unserialize(Serialize(c)))
           /\ Unserialize(Serialize(c)).block_height = 0
           /\ Unserialize(Serialize(c)).status = c.status
<1>1. Unserialize(Serialize(c)) = [c EXCEPT !.block_height = 0]
  BY RoundTrip
<1>2. c \in ConfirmationRecords
  BY DEF WellFormed
<1>3. [c EXCEPT !.block_height = 0] =
          [status |-> c.status, block_height |-> 0, hashBlock |-> c.hashBlock,
           nIndex |-> c.nIndex]
  BY <1>2 DEF ConfirmationRecords
<1>4. 0 \in 0..MaxChain
  BY HashAssumption
<1> QED
  BY <1>1, <1>2, <1>3, <1>4 DEF WellFormed, ConfirmationRecords

-----------------------------------------------------------------------------
(***************************************************************************)
(* The spent parent's available credit.                                   *)
(***************************************************************************)

(* AvailableCredit is CreditOf the confirmation at the chain's height, in  *)
(* every state.                                                           *)
LEMMA CreditIsCreditOf ==
    /\ AvailableCredit = CreditOf(confirm, Len(chain))
    /\ AvailableCredit' = CreditOf(confirm', Len(chain'))
BY DEF AvailableCredit, IsSpent, DepthInMainChain, GetLastBlockHeight, CreditOf

(* While a confirmed or conflicted transaction's block is in the chain,    *)
(* the parent's output counts as spent exactly when the transaction is     *)
(* confirmed or unconfirmed: the depth's sign depends on the status only.  *)
LEMMA CreditByStatus ==
    ASSUME NEW c \in ConfirmationRecords, NEW L \in Nat,
           c.status \in {"CONFIRMED", "CONFLICTED"} => c.block_height \in 1..L
    PROVE  CreditOf(c, L) = IF c.status \in {"CONFIRMED", "UNCONFIRMED"} THEN 0 ELSE 1
<1>1. CASE c.status = "CONFIRMED"
  BY <1>1 DEF CreditOf
<1>2. CASE c.status = "CONFLICTED"
  BY <1>2 DEF CreditOf
<1>3. CASE c.status \in {"UNCONFIRMED", "ABANDONED"}
  BY <1>3 DEF CreditOf
<1> QED
  BY <1>1, <1>2, <1>3 DEF ConfirmationRecords, Statuses

-----------------------------------------------------------------------------
(***************************************************************************)
(* The chain.                                                              *)
(***************************************************************************)

(* HeightOf names a position of the block in the chain.                    *)
LEMMA HeightOfOnChain ==
    ASSUME NEW h, OnChain(h)
    PROVE  HeightOf(h) \in 1..Len(chain) /\ chain[HeightOf(h)] = h
BY DEF OnChain, HeightOf

(* A confirmation that names no block of Blocks is never found on a chain  *)
(* of blocks.                                                             *)
LEMMA NullNotOnChain ==
    ASSUME chain \in Seq(Blocks)
    PROVE  ~OnChain(NullHash)
BY HashAssumption DEF OnChain

(* LoadToWallet turns a decoded well-formed confirmation into one that is  *)
(* well formed and names a block at its height in the active chain.        *)
LEMMA LoadSound ==
    ASSUME TypeOK, NEW d, WellFormed(d), d.block_height = 0
    PROVE  WellFormed(LoadToWallet(d)) /\ ChainSound(LoadToWallet(d))
<1> USE HashAssumption
<1>1. CASE OnChain(d.hashBlock)
  <2>1. HeightOf(d.hashBlock) \in 1..Len(chain) /\ chain[HeightOf(d.hashBlock)] = d.hashBlock
    BY <1>1, HeightOfOnChain
  <2>2. d.status \in {"CONFIRMED", "CONFLICTED"}
    BY <1>1, NullNotOnChain DEF TypeOK, WellFormed, ConfirmationRecords, Statuses
  <2>3. Len(chain) <= MaxChain
    BY DEF TypeOK
  <2> QED
    BY <1>1, <2>1, <2>2, <2>3 DEF LoadToWallet, WellFormed, ChainSound, ConfirmationRecords
<1>2. CASE ~OnChain(d.hashBlock) /\ d.status \in {"CONFLICTED", "CONFIRMED"}
  <2>1. LoadToWallet(d) =
            [status |-> "UNCONFIRMED", block_height |-> 0, hashBlock |-> NullHash, nIndex |-> 0]
    BY <1>2 DEF LoadToWallet, SetStatus, WellFormed, ConfirmationRecords
  <2> QED
    BY <2>1 DEF WellFormed, ChainSound, ConfirmationRecords, Statuses, Hashes
<1>3. CASE ~OnChain(d.hashBlock) /\ d.status \notin {"CONFLICTED", "CONFIRMED"}
  BY <1>3 DEF LoadToWallet, WellFormed, ChainSound
<1> QED
  BY <1>1, <1>2, <1>3

(* LoadToWallet leaves a decoded abandonment abandoned: its hash is null,  *)
(* so no block of the chain is found for it.                               *)
LEMMA LoadKeepsAbandoned ==
    ASSUME TypeOK, NEW d, WellFormed(d), d.status = "ABANDONED"
    PROVE  LoadToWallet(d).status = "ABANDONED"
<1>1. ~OnChain(d.hashBlock)
  BY NullNotOnChain DEF TypeOK, WellFormed
<1> QED
  BY <1>1 DEF LoadToWallet

(* The default confirmation of CWalletTx::Init is well formed.            *)
LEMMA DefaultSound ==
    WellFormed(DefaultConfirmation) /\ ChainSound(DefaultConfirmation)
BY HashAssumption DEF WellFormed, ChainSound, ConfirmationRecords, DefaultConfirmation,
                      Confirmation, Statuses, Hashes

-----------------------------------------------------------------------------
(***************************************************************************)
(* The inductive invariant.                                                *)
(***************************************************************************)

LEMMA InitIInv == Init => IInv
<1> SUFFICES ASSUME Init PROVE IInv
  OBVIOUS
<1>1. WellFormed(DefaultConfirmation)
  BY DefaultSound
<1>2. DiskSound
  BY <1>1, WriteSound DEF Init, DiskSound
<1>3. TypeOK
  <2>1. chain \in Seq(Blocks) /\ Len(chain) <= MaxChain
    BY HashAssumption DEF Init
  <2>2. confirm \in ConfirmationRecords
    BY <1>1 DEF Init, WellFormed
  <2>3. disk = [hash |-> NullHash, index |-> 0]
    BY DEF Init, Serialize, DefaultConfirmation, Confirmation
  <2>4. disk \in [hash : Hashes, index : -1..MaxIndex]
    BY <2>3, HashAssumption DEF Hashes
  <2>5. amounts \in [cached : BOOLEAN, value : 0..1] /\ cacheEmpty \in BOOLEAN
    BY DEF Init, NoCache
  <2> QED
    BY <2>1, <2>2, <2>4, <2>5 DEF Init, TypeOK, ConfirmationRecords
<1>4. AvailableCreditCoherent
  BY DEF Init, AvailableCreditCoherent, NoCache
<1> QED
  BY <1>2, <1>3, <1>4, DefaultSound DEF Init, IInv, AbandonRecorded

(* Serialize writes a record of the on-disk shape.                        *)
LEMMA SerializeType ==
    ASSUME NEW c \in ConfirmationRecords
    PROVE  Serialize(c) \in [hash : Hashes, index : -1..MaxIndex]
BY HashAssumption DEF Serialize, ConfirmationRecords, Hashes

(* A step that writes a well-formed confirmation with WriteTx, whose block *)
(* (if any) is in the new chain at its height, keeps the invariant.       *)
LEMMA WriteStep ==
    ASSUME IInv, WellFormed(confirm'),
           disk' = Serialize(confirm'), content' = content,
           running, running' = running,
           chain' \in Seq(Blocks), Len(chain') <= MaxChain,
           confirm'.status \in {"CONFIRMED", "CONFLICTED"} =>
               confirm'.block_height \in 1..Len(chain')
               /\ chain'[confirm'.block_height] = confirm'.hashBlock,
           abandoned' \in BOOLEAN,
           abandoned' => confirm'.status = "ABANDONED",
           amounts' = NoCache, cacheEmpty' = TRUE
    PROVE  IInv'
<1>1. WellFormed(Unserialize(disk')) /\ Unserialize(disk').block_height = 0
      /\ Unserialize(disk').status = confirm'.status
  BY WriteSound
<1>2. confirm' \in ConfirmationRecords /\ disk' \in [hash : Hashes, index : -1..MaxIndex]
  BY SerializeType DEF WellFormed
<1>3. TypeOK'
  BY <1>2 DEF IInv, TypeOK, ConfirmationRecords, NoCache
<1>4. (running => WellFormed(confirm) /\ ChainSound(confirm))'
  BY DEF WellFormed, ChainSound
<1>5. DiskSound'
  BY <1>1 DEF DiskSound, WellFormed
<1>6. AbandonRecorded'
  BY <1>1 DEF AbandonRecorded
<1>7. AvailableCreditCoherent'
  BY DEF AvailableCreditCoherent, NoCache
<1> QED
  BY <1>3, <1>4, <1>5, <1>6, <1>7 DEF IInv

(* A step that keeps the confirmation, the record on disk, the history and *)
(* whether the wallet runs, and keeps a confirmed or conflicted block at   *)
(* its height, keeps the invariant.                                       *)
LEMMA KeepStep ==
    ASSUME IInv,
           UNCHANGED <<confirm, disk, content, running, abandoned, amounts, cacheEmpty>>,
           chain' \in Seq(Blocks), Len(chain') <= MaxChain,
           running /\ confirm.status \in {"CONFIRMED", "CONFLICTED"} =>
               confirm.block_height \in 1..Len(chain') /\
               chain'[confirm.block_height] = confirm.hashBlock
    PROVE  IInv'
<1>1. TypeOK'
  BY DEF IInv, TypeOK
<1>2. (running => WellFormed(confirm) /\ ChainSound(confirm))'
  BY DEF IInv, WellFormed, ChainSound
<1>3. DiskSound'
  BY DEF IInv, DiskSound, WellFormed
<1>4. AbandonRecorded'
  BY DEF IInv, AbandonRecorded
<1>5. AvailableCreditCoherent'
  <2> SUFFICES ASSUME running, amounts.cached
               PROVE  AvailableCredit' = AvailableCredit
    BY DEF IInv, AvailableCreditCoherent
  <2>1. confirm \in ConfirmationRecords /\ Len(chain) \in Nat /\ Len(chain') \in Nat
    BY DEF IInv, TypeOK, ConfirmationRecords
  <2>2. confirm.status \in {"CONFIRMED", "CONFLICTED"} =>
            confirm.block_height \in 1..Len(chain)
    BY DEF IInv, ChainSound
  <2>3. CreditOf(confirm, Len(chain)) = CreditOf(confirm, Len(chain'))
    BY <2>1, <2>2, CreditByStatus
  <2> QED
    BY <2>3, CreditIsCreditOf
<1> QED
  BY <1>1, <1>2, <1>3, <1>4, <1>5 DEF IInv

(* The length of a sequence with its last element removed.              *)
LEMMA Predecessor ==
    ASSUME NEW k \in Nat, k > 0
    PROVE  (IF 1 <= k - 1 THEN k - 1 ELSE 0) = k - 1
BY SMT

(* Connecting a block: the confirming and conflicting branches write a     *)
(* confirmation naming the new tip; otherwise the old blocks keep their   *)
(* heights in the longer chain.                                            *)
LEMMA ConnectStep ==
    ASSUME IInv, NEW b \in Blocks, BlockConnected(b)
    PROVE  IInv'
<1> USE HashAssumption
<1>0. TypeOK
  BY DEF IInv
<1>1. /\ chain' = Append(chain, b) /\ content' = content /\ running' = running
      /\ Len(chain) < MaxChain
  BY DEF BlockConnected
<1>2. /\ chain' \in Seq(Blocks) /\ Len(chain') = Len(chain) + 1 /\ Len(chain') <= MaxChain
      /\ chain'[Len(chain) + 1] = b
      /\ \A n \in 1..Len(chain) : chain'[n] = chain[n]
  BY <1>0, <1>1, AppendProperties DEF TypeOK
<1>3. Len(chain) + 1 \in 1..MaxChain
  BY <1>0, <1>1 DEF TypeOK
<1>4. CASE running /\ confirm.status \in {"UNCONFIRMED", "ABANDONED"} /\ content[b] = "tx"
  <2>1. PICK i \in 0..MaxIndex :
            /\ confirm' = Confirmation("CONFIRMED", Len(chain) + 1, b, i)
            /\ disk' = Serialize(confirm')
    BY <1>4 DEF BlockConnected, WriteTx
  <2>2. abandoned' = FALSE
    BY <1>4 DEF BlockConnected
  <2>3. WellFormed(confirm')
    BY <1>3, <1>4, <2>1 DEF WellFormed, ConfirmationRecords, Confirmation, Statuses, Hashes
  <2>4. confirm'.status \in {"CONFIRMED", "CONFLICTED"} =>
            confirm'.block_height \in 1..Len(chain')
            /\ chain'[confirm'.block_height] = confirm'.hashBlock
    BY <1>2, <2>1 DEF Confirmation
  <2>5. /\ running /\ running' = running /\ content' = content
        /\ chain' \in Seq(Blocks) /\ Len(chain') <= MaxChain
        /\ abandoned' \in BOOLEAN /\ (abandoned' => confirm'.status = "ABANDONED")
    BY <1>1, <1>2, <1>4, <2>2
  <2>6. amounts' = NoCache /\ cacheEmpty' = TRUE
    BY <1>4 DEF BlockConnected, WriteTx, MarkInputsDirty
  <2> QED
    BY <2>1, <2>3, <2>4, <2>5, <2>6, WriteStep
<1>5. CASE running /\ confirm.status \in {"UNCONFIRMED", "ABANDONED"} /\ content[b] = "conflict"
  <2>1. confirm' = [status |-> "CONFLICTED", block_height |-> Len(chain) + 1, hashBlock |-> b,
                    nIndex |-> 0]
    <3>1. confirm' = SetStatus([confirm EXCEPT !.nIndex = 0, !.hashBlock = b,
                                               !.block_height = Len(chain) + 1], "CONFLICTED")
      BY <1>5 DEF BlockConnected, WriteTx
    <3> QED
      BY <1>0, <3>1 DEF SetStatus, TypeOK
  <2>2. disk' = Serialize(confirm') /\ abandoned' = FALSE
    BY <1>5 DEF BlockConnected, WriteTx
  <2>3. WellFormed(confirm')
    BY <1>3, <1>5, <2>1 DEF WellFormed, ConfirmationRecords, Statuses, Hashes
  <2>4. confirm'.status \in {"CONFIRMED", "CONFLICTED"} =>
            confirm'.block_height \in 1..Len(chain')
            /\ chain'[confirm'.block_height] = confirm'.hashBlock
    BY <1>2, <2>1
  <2>5. /\ running /\ running' = running /\ content' = content
        /\ chain' \in Seq(Blocks) /\ Len(chain') <= MaxChain
        /\ abandoned' \in BOOLEAN /\ (abandoned' => confirm'.status = "ABANDONED")
    BY <1>1, <1>2, <1>5, <2>2
  <2>6. amounts' = NoCache /\ cacheEmpty' = TRUE
    BY <1>5 DEF BlockConnected, WriteTx, MarkInputsDirty
  <2> QED
    BY <2>2, <2>3, <2>4, <2>5, <2>6, WriteStep
<1>6. CASE ~(running /\ confirm.status \in {"UNCONFIRMED", "ABANDONED"} /\ content[b] # "none")
  <2>1. UNCHANGED <<confirm, disk, abandoned, amounts, cacheEmpty>>
    BY <1>6 DEF BlockConnected
  <2>2. running /\ confirm.status \in {"CONFIRMED", "CONFLICTED"} =>
            confirm.block_height \in 1..Len(chain')
            /\ chain'[confirm.block_height] = confirm.hashBlock
    BY <1>2 DEF IInv, ChainSound
  <2> QED
    BY <1>1, <1>2, <2>1, <2>2, KeepStep
<1> QED
  BY <1>0, <1>4, <1>5, <1>6 DEF TypeOK, Contents

(* Disconnecting the tip: a confirmation naming it is reset; any other     *)
(* block named is lower, so it keeps its height in the shorter chain.     *)
LEMMA DisconnectStep ==
    ASSUME IInv, BlockDisconnected
    PROVE  IInv'
<1> USE HashAssumption
<1>0. TypeOK
  BY DEF IInv
<1>1. /\ chain' = SubSeq(chain, 1, Len(chain) - 1) /\ Len(chain) > 0
      /\ UNCHANGED <<content, running, abandoned>>
  BY DEF BlockDisconnected
<1>2. /\ chain' \in Seq(Blocks) /\ Len(chain') = Len(chain) - 1 /\ Len(chain') <= MaxChain
      /\ \A n \in 1..Len(chain) - 1 : chain'[n] = chain[n]
  <2>1. \A i \in 1..Len(chain) - 1 : chain[i] \in Blocks
    BY <1>0, <1>1 DEF TypeOK
  <2>2. /\ SubSeq(chain, 1, Len(chain) - 1) \in Seq(Blocks)
        /\ Len(SubSeq(chain, 1, Len(chain) - 1)) = Len(chain) - 1
        /\ \A n \in 1..Len(chain) - 1 : SubSeq(chain, 1, Len(chain) - 1)[n] = chain[n]
    <3>1. Len(chain) \in Nat
      BY <1>0 DEF TypeOK
    <3>2. Len(chain) - 1 \in Int /\ 1 \in Int
      BY <3>1
    <3>3. /\ SubSeq(chain, 1, Len(chain) - 1) \in Seq(Blocks)
          /\ Len(SubSeq(chain, 1, Len(chain) - 1)) = IF 1 <= Len(chain) - 1 THEN Len(chain) - 1 ELSE 0
          /\ \A i \in 1..Len(chain) - 1 - 1 + 1 :
                SubSeq(chain, 1, Len(chain) - 1)[i] = chain[1 + i - 1]
      BY <2>1, <3>2, SubSeqProperties DEF TypeOK
    <3>4. Len(SubSeq(chain, 1, Len(chain) - 1)) = Len(chain) - 1
      <4>1. (IF 1 <= Len(chain) - 1 THEN Len(chain) - 1 ELSE 0) = Len(chain) - 1
        BY <1>1, <3>1, Predecessor
      <4> QED
        BY <3>3, <4>1
    <3>5. ASSUME NEW n \in 1..Len(chain) - 1
          PROVE  SubSeq(chain, 1, Len(chain) - 1)[n] = chain[n]
      <4>1. n \in 1..Len(chain) - 1 - 1 + 1 /\ 1 + n - 1 = n
        BY <3>1
      <4>2. SubSeq(chain, 1, Len(chain) - 1)[n] = chain[1 + n - 1]
        BY <3>3, <4>1
      <4> QED
        BY <4>1, <4>2
    <3> QED
      BY <3>3, <3>4, <3>5
  <2> QED
    BY <1>0, <1>1, <2>2 DEF TypeOK
<1>3. CASE running /\ confirm.status \in {"CONFIRMED", "CONFLICTED"}
           /\ confirm.hashBlock = chain[Len(chain)]
  <2>1. /\ confirm' = DefaultConfirmation /\ disk' = Serialize(DefaultConfirmation)
        /\ amounts' = NoCache /\ cacheEmpty' = TRUE
    BY <1>3 DEF BlockDisconnected, WriteTx, MarkInputsDirty
  <2>2. ~abandoned
    BY <1>3 DEF IInv, AbandonRecorded
  <2>3. WellFormed(confirm') /\ confirm'.status = "UNCONFIRMED"
    BY <2>1, DefaultSound DEF DefaultConfirmation, Confirmation
  <2>4. /\ running /\ running' = running /\ content' = content
        /\ chain' \in Seq(Blocks) /\ Len(chain') <= MaxChain
        /\ abandoned' \in BOOLEAN /\ (abandoned' => confirm'.status = "ABANDONED")
    BY <1>0, <1>1, <1>2, <1>3, <2>2 DEF TypeOK
  <2> QED
    BY <2>1, <2>3, <2>4, WriteStep
<1>4. CASE ~(running /\ confirm.status \in {"CONFIRMED", "CONFLICTED"}
             /\ confirm.hashBlock = chain[Len(chain)])
  <2>1. UNCHANGED <<confirm, disk, amounts, cacheEmpty>>
    BY <1>4 DEF BlockDisconnected
  <2>2. running /\ confirm.status \in {"CONFIRMED", "CONFLICTED"} =>
            confirm.block_height \in 1..Len(chain) - 1
    BY <1>4 DEF IInv, ChainSound
  <2>3. running /\ confirm.status \in {"CONFIRMED", "CONFLICTED"} =>
            confirm.block_height \in 1..Len(chain')
            /\ chain'[confirm.block_height] = confirm.hashBlock
    BY <1>2, <2>2 DEF IInv, ChainSound
  <2> QED
    BY <1>1, <1>2, <2>1, <2>3, KeepStep
<1> QED
  BY <1>3, <1>4

(* abandontransaction writes an abandoned confirmation and records it.    *)
LEMMA AbandonStep ==
    ASSUME IInv, AbandonTransaction
    PROVE  IInv'
<1>1. /\ confirm' = SetAbandoned(confirm) /\ disk' = Serialize(confirm') /\ abandoned' = TRUE
      /\ amounts' = NoCache /\ cacheEmpty' = TRUE
  BY DEF AbandonTransaction, WriteTx, MarkInputsDirty
<1>2. confirm' = [status |-> "ABANDONED", block_height |-> 0, hashBlock |-> NullHash,
                  nIndex |-> 0]
  BY <1>1 DEF IInv, TypeOK, SetAbandoned
<1>3. WellFormed(confirm')
  BY <1>2, HashAssumption DEF WellFormed, ConfirmationRecords, Statuses, Hashes
<1>4. /\ running /\ running' = running /\ content' = content
      /\ chain' \in Seq(Blocks) /\ Len(chain') <= MaxChain
      /\ abandoned' \in BOOLEAN /\ (abandoned' => confirm'.status = "ABANDONED")
  BY <1>1, <1>2 DEF AbandonTransaction, IInv, TypeOK
<1>5. confirm'.status \in {"CONFIRMED", "CONFLICTED"} =>
          confirm'.block_height \in 1..Len(chain')
          /\ chain'[confirm'.block_height] = confirm'.hashBlock
  BY <1>2
<1> QED
  BY <1>1, <1>3, <1>4, <1>5, WriteStep

(* An abandoned transaction seen in the mempool is written unconfirmed.   *)
LEMMA SeenStep ==
    ASSUME IInv, SeenInMempool
    PROVE  IInv'
<1>1. /\ confirm' = DefaultConfirmation /\ disk' = Serialize(confirm') /\ abandoned' = FALSE
      /\ amounts' = NoCache /\ cacheEmpty' = TRUE
  BY DEF SeenInMempool, WriteTx, MarkInputsDirty
<1>2. WellFormed(confirm') /\ confirm'.status = "UNCONFIRMED"
  BY <1>1, DefaultSound DEF DefaultConfirmation, Confirmation
<1>3. /\ running /\ running' = running /\ content' = content
      /\ chain' \in Seq(Blocks) /\ Len(chain') <= MaxChain
      /\ abandoned' \in BOOLEAN /\ (abandoned' => confirm'.status = "ABANDONED")
  BY <1>1 DEF SeenInMempool, IInv, TypeOK
<1> QED
  BY <1>1, <1>2, <1>3, WriteStep

(* A shutdown only stops the wallet; what holds of the disk still holds.  *)
LEMMA ShutdownStep ==
    ASSUME IInv, Shutdown
    PROVE  IInv'
BY DEF Shutdown, IInv, TypeOK, DiskSound, WellFormed, ChainSound, AbandonRecorded,
       AvailableCreditCoherent

(* A reload decodes the record on disk and looks its block up in the      *)
(* chain: the result is well formed and backed by the chain, and an       *)
(* abandonment on disk comes back abandoned.                              *)
LEMMA LoadStep ==
    ASSUME IInv, Load
    PROVE  IInv'
<1>0. TypeOK
  BY DEF IInv
<1>1. /\ confirm' = LoadToWallet(Unserialize(disk)) /\ running' = TRUE
      /\ UNCHANGED <<chain, content, disk, abandoned>>
      /\ amounts' = NoCache /\ cacheEmpty' = TRUE
  BY DEF Load
<1>2. WellFormed(Unserialize(disk)) /\ Unserialize(disk).block_height = 0
  BY DEF IInv, DiskSound
<1>3. WellFormed(confirm') /\ ChainSound(confirm')
  BY <1>0, <1>1, <1>2, LoadSound
<1>4. abandoned => confirm'.status = "ABANDONED"
  BY <1>0, <1>1, <1>2, LoadKeepsAbandoned DEF IInv, AbandonRecorded
<1>5. TypeOK'
  BY <1>0, <1>1, <1>3 DEF TypeOK, WellFormed, ConfirmationRecords, NoCache
<1>6. (running => WellFormed(confirm) /\ ChainSound(confirm))'
  BY <1>1, <1>3 DEF WellFormed, ChainSound
<1>7. DiskSound'
  BY <1>1, <1>2 DEF DiskSound, WellFormed
<1>8. AbandonRecorded'
  BY <1>1, <1>4 DEF IInv, AbandonRecorded
<1>9. AvailableCreditCoherent'
  BY <1>1 DEF AvailableCreditCoherent, NoCache
<1> QED
  BY <1>5, <1>6, <1>7, <1>8, <1>9 DEF IInv

(* A balance read caches the credit computed from the current state.      *)
LEMMA ReadStep ==
    ASSUME IInv, ReadAvailableCredit
    PROVE  IInv'
<1>1. /\ UNCHANGED <<chain, content, confirm, disk, running, abandoned>>
      /\ amounts' = [cached |-> TRUE, value |-> AvailableCredit]
      /\ cacheEmpty' = FALSE
  BY DEF ReadAvailableCredit
<1>2. AvailableCredit' = AvailableCredit
  BY <1>1, CreditIsCreditOf
<1>3. AvailableCredit \in 0..1
  BY DEF AvailableCredit
<1>4. TypeOK'
  BY <1>1, <1>3 DEF IInv, TypeOK
<1>5. AvailableCreditCoherent'
  BY <1>1, <1>2 DEF AvailableCreditCoherent
<1> QED
  BY <1>1, <1>4, <1>5 DEF IInv, DiskSound, WellFormed, ChainSound, AbandonRecorded

(* Every step of the wallet keeps the inductive invariant.                *)
LEMMA IInvStep == IInv /\ [Next]_vars => IInv'
<1> SUFFICES ASSUME IInv, [Next]_vars PROVE IInv'
  OBVIOUS
<1>1. CASE \E b \in Blocks : BlockConnected(b)
  BY <1>1, ConnectStep
<1>2. CASE BlockDisconnected
  BY <1>2, DisconnectStep
<1>3. CASE AbandonTransaction
  BY <1>3, AbandonStep
<1>4. CASE SeenInMempool
  BY <1>4, SeenStep
<1>5. CASE Shutdown
  BY <1>5, ShutdownStep
<1>6. CASE Load
  BY <1>6, LoadStep
<1>7. CASE ReadAvailableCredit
  BY <1>7, ReadStep
<1>8. CASE UNCHANGED vars
  <2>1. AvailableCredit' = AvailableCredit
    BY <1>8, CreditIsCreditOf DEF vars
  <2> QED
    BY <1>8, <2>1 DEF vars, IInv, TypeOK, DiskSound, WellFormed, ChainSound, AbandonRecorded,
                      AvailableCreditCoherent
<1> QED
  BY <1>1, <1>2, <1>3, <1>4, <1>5, <1>6, <1>7, <1>8 DEF Next

-----------------------------------------------------------------------------
(* The invariant is inductive, so every reachable state satisfies it.     *)
LEMMA IInvInvariant == Spec => []IInv
BY InitIInv, IInvStep, PTL DEF Spec

(* Through any sequence of block connections and disconnections,          *)
(* abandonments, mempool sightings, shutdowns and reloads (each write     *)
(* going through CWalletTx::Serialize, each reload through Unserialize    *)
(* and LoadToWallet), a loaded wallet's confirmation is backed by the     *)
(* active chain.                                                           *)
THEOREM ConfirmationSoundInvariant == Spec => []ConfirmationSound
<1>1. IInv => ConfirmationSound
  BY DEF IInv, ConfirmationSound, WellFormed, ChainSound
<1> QED
  BY <1>1, IInvInvariant, PTL

(* An abandonment survives shutdowns and reloads: CWalletTx::Serialize     *)
(* writes it as ABANDON_HASH with index -1, and Unserialize decodes that   *)
(* back to ABANDONED before LoadToWallet sees it.                          *)
THEOREM AbandonmentPersistsInvariant == Spec => []AbandonmentPersists
<1>1. IInv => AbandonmentPersists
  BY DEF IInv, AbandonRecorded, AbandonmentPersists
<1> QED
  BY <1>1, IInvInvariant, PTL

(* A balance served from the spent parent's cache is never stale: every   *)
(* status change of the spending transaction (block connected or          *)
(* disconnected, conflict, abandonment, mempool sighting) resets the      *)
(* parent's AVAILABLE_CREDIT through MarkInputsDirty, a reload starts with *)
(* empty caches, and a chain change that keeps the status keeps the sign  *)
(* of the depth.                                                           *)
THEOREM AvailableCreditCoherentInvariant == Spec => []AvailableCreditCoherent
<1>1. IInv => AvailableCreditCoherent
  BY DEF IInv
<1> QED
  BY <1>1, IInvInvariant, PTL

(* The chain never outgrows its bound, and a reload never produces a       *)
(* status, height, hash or index outside their ranges: in particular the  *)
(* -1 that Serialize writes for ABANDONED and CONFLICTED never reaches    *)
(* nIndex.                                                                 *)
THEOREM TypeCorrect == Spec => []TypeOK
<1>1. IInv => TypeOK
  BY DEF IInv
<1> QED
  BY <1>1, IInvInvariant, PTL
====
