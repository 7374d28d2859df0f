--------------------------- MODULE WalletTxStatus ----------------------------
(***************************************************************************)
(* The confirmation status of one wallet transaction (CWalletTx in         *)
(* src/src/yupost/yupostutils.h) across chain changes, a shutdown and a    *)
(* reload from the wallet database.                                        *)
(*                                                                         *)
(* The record m_confirm = {status, block_height, hashBlock, nIndex} is     *)
(* changed through the setters of CWalletTx; every change is written with  *)
(* CWalletTx::Serialize, which keeps (hashBlock, nIndex) only and encodes  *)
(* ABANDONED and CONFLICTED in them; a reload runs Unserialize and then    *)
(* the wallet's LoadToWallet, which looks the block up in the active      *)
(* chain.  The wallet's transitions (block connected or disconnected,      *)
(* conflict, abandon, mempool sighting) are CWallet code outside src/ and  *)
(* follow the state machine of the spec (section 4.1).                     *)
(*                                                                         *)
(* The transaction spends an output (value 1) of a parent wallet          *)
(* transaction.  The parent's memory-only AVAILABLE_CREDIT cache           *)
(* (m_amounts) counts that output unless the wallet's spend index finds it *)
(* spent, which depends on this transaction's status; so every status      *)
(* change marks the parent's caches dirty (MarkInputsDirty), and a balance *)
(* read fills the cache again.                                             *)
(***************************************************************************)
EXTENDS Integers, Sequences

CONSTANTS
    Blocks,       \* block hashes that may appear in the chain
    NullHash,     \* uint256(): IsNull()
    AbandonHash,  \* CWalletTx::ABANDON_HASH
    MaxChain,     \* bound on the length of the active chain
    MaxIndex      \* bound on a transaction's index in its block

ASSUME HashAssumption ==
    /\ NullHash \notin Blocks
    /\ AbandonHash \notin Blocks
    /\ NullHash # AbandonHash
    /\ MaxChain \in Nat
    /\ MaxIndex \in Nat

VARIABLES
    chain,        \* the node's active chain, genesis first; chain[n] is at height n
    content,      \* what each block holds: this transaction, a conflicting one, neither
    confirm,      \* m_confirm
    disk,         \* the record last written by Serialize
    running,      \* the wallet is loaded
    abandoned,    \* history: the user abandoned it and nothing has overridden that
    amounts,      \* the parent's m_amounts[AVAILABLE_CREDIT]
    cacheEmpty    \* the parent's m_is_cache_empty

vars == <<chain, content, confirm, disk, running, abandoned, amounts, cacheEmpty>>

Hashes == Blocks \cup {NullHash, AbandonHash}

Contents == {"tx", "conflict", "none"}

Statuses == {"UNCONFIRMED", "CONFIRMED", "CONFLICTED", "ABANDONED"}

-----------------------------------------------------------------------------
(***************************************************************************)
(* CWalletTx.                                                              *)
(***************************************************************************)

(* struct Confirmation and its default constructor, used by Init().       *)
Confirmation(s, b, h, i) == [status |-> s, block_height |-> b, hashBlock |-> h, nIndex |-> i]

DefaultConfirmation == Confirmation("UNCONFIRMED", 0, NullHash, 0)

(* setConflicted, setUnconfirmed, setConfirmed only change the status.    *)
SetStatus(c, s) == [c EXCEPT !.status = s]

(* Fault model for setAbandoned: written like the other setters.          *)
SetAbandonedStatusOnly(c) == SetStatus(c, "ABANDONED")

(* setAbandoned also clears the block fields.                             *)
SetAbandoned(c) ==
    [c EXCEPT !.status = "ABANDONED", !.hashBlock = NullHash, !.block_height = 0, !.nIndex = 0]

(* Serialize: the status is not written; (hashBlock, nIndex) encode it.    *)
Serialize(c) ==
    [hash  |-> IF c.status = "ABANDONED" THEN AbandonHash ELSE c.hashBlock,
     index |-> IF c.status \in {"ABANDONED", "CONFLICTED"} THEN -1 ELSE c.nIndex]

(* Fault model for Unserialize: nIndex assigned from serializedIndex       *)
(* before the status is decoded.                                          *)
UnserializeIndexFirst(r) ==
    LET c == [DefaultConfirmation EXCEPT !.hashBlock = r.hash, !.nIndex = r.index]
    IN  IF r.index = -1 /\ r.hash = AbandonHash THEN SetAbandoned(c)
        ELSE IF r.index = -1 THEN SetStatus(c, "CONFLICTED")
        ELSE IF r.hash # NullHash THEN SetStatus(c, "CONFIRMED")
        ELSE c

(* Unserialize: Init(nullptr), read hashBlock and serializedIndex, then    *)
(* decode the status; block_height is left at 0.                           *)
Unserialize(r) ==
    LET c == [DefaultConfirmation EXCEPT !.hashBlock = r.hash]
    IN  IF r.index = -1 /\ r.hash = AbandonHash THEN SetAbandoned(c)
        ELSE IF r.index = -1 THEN SetStatus(c, "CONFLICTED")
        ELSE IF r.hash # NullHash THEN SetStatus([c EXCEPT !.nIndex = r.index], "CONFIRMED")
        ELSE c

(* CachableAmount after Reset(): nothing cached.                          *)
NoCache == [cached |-> FALSE, value |-> 0]

(* Fault model for MarkDirty: m_amounts[AVAILABLE_CREDIT].Reset() left   *)
(* out.                                                                    *)
MarkDirtyKeepingAvailableCredit == amounts' = amounts /\ cacheEmpty' = TRUE

(* CWallet::MarkInputsDirty: MarkDirty on the parent resets its caches.    *)
MarkInputsDirty == amounts' = NoCache /\ cacheEmpty' = TRUE

-----------------------------------------------------------------------------
(***************************************************************************)
(* The chain and the wallet.                                               *)
(***************************************************************************)

OnChain(h) == \E n \in 1..Len(chain) : chain[n] = h

HeightOf(h) == CHOOSE n \in 1..Len(chain) : chain[n] = h

(* A valid chain confirms the transaction at most once and never together  *)
(* with a conflicting one.                                                *)
CanConnect(b) ==
    LET held == {content[chain[n]] : n \in 1..Len(chain)}
    IN  CASE content[b] = "tx"       -> held \cap {"tx", "conflict"} = {}
          [] content[b] = "conflict" -> "tx" \notin held
          [] OTHER                   -> TRUE

(* GetLastBlockHeight: a running wallet has processed every block.        *)
GetLastBlockHeight == Len(chain)

(* GetDepthInMainChain: 0 for an unconfirmed or abandoned transaction,     *)
(* the depth of its block when confirmed, minus the depth of the          *)
(* conflicting block when conflicted.                                     *)
DepthInMainChain ==
    IF confirm.status \in {"UNCONFIRMED", "ABANDONED"} THEN 0
    ELSE (GetLastBlockHeight - confirm.block_height + 1)
         * (IF confirm.status = "CONFLICTED" THEN -1 ELSE 1)

(* IsSpent: mapTxSpends names this transaction as the spender of the      *)
(* parent's output; it counts when in a block or in the mempool and not    *)
(* abandoned.                                                              *)
IsSpent ==
    \/ DepthInMainChain > 0
    \/ DepthInMainChain = 0 /\ confirm.status # "ABANDONED"

(* GetAvailableCredit of the parent, computed: its output unless spent.    *)
AvailableCredit == IF IsSpent THEN 0 ELSE 1

(* AddToWallet / MarkConflicted / AbandonTransaction write the transaction *)
(* with WriteTx as part of the change, under cs_wallet, and then mark the  *)
(* inputs dirty.                                                           *)
WriteTx(c) == confirm' = c /\ disk' = Serialize(c) /\ MarkInputsDirty

Init ==
    /\ chain = <<>>
    /\ content \in [Blocks -> Contents]
    /\ confirm = DefaultConfirmation
    /\ disk = Serialize(DefaultConfirmation)
    /\ running = TRUE
    /\ abandoned = FALSE
    /\ amounts = NoCache
    /\ cacheEmpty = TRUE

(* A block is connected.  A running wallet that finds this transaction in  *)
(* it confirms it (this also overrides an abandonment); one that finds a   *)
(* conflicting transaction marks it conflicted with the block as          *)
(* reference, as MarkConflicted does when the conflict is deeper than the  *)
(* transaction's own depth 0.                                              *)
BlockConnected(b) ==
    /\ Len(chain) < MaxChain
    /\ ~OnChain(b)
    /\ CanConnect(b)
    /\ chain' = Append(chain, b)
    /\ IF running /\ confirm.status \in {"UNCONFIRMED", "ABANDONED"} /\ content[b] # "none"
       THEN /\ \/ /\ content[b] = "tx"
                  /\ \E i \in 0..MaxIndex :
                        WriteTx(Confirmation("CONFIRMED", Len(chain) + 1, b, i))
               \/ /\ content[b] = "conflict"
                  /\ WriteTx(SetStatus([confirm EXCEPT !.nIndex = 0, !.hashBlock = b,
                                                       !.block_height = Len(chain) + 1],
                                       "CONFLICTED"))
            /\ abandoned' = FALSE
       ELSE UNCHANGED <<confirm, disk, abandoned, amounts, cacheEmpty>>
    /\ UNCHANGED <<content, running>>

(* The tip is disconnected.  A transaction confirmed in it, or conflicted  *)
(* by it, becomes unconfirmed.                                             *)
BlockDisconnected ==
    /\ Len(chain) > 0
    /\ chain' = SubSeq(chain, 1, Len(chain) - 1)
    /\ IF running /\ confirm.status \in {"CONFIRMED", "CONFLICTED"}
          /\ confirm.hashBlock = chain[Len(chain)]
       THEN WriteTx(DefaultConfirmation)
       ELSE UNCHANGED <<confirm, disk, amounts, cacheEmpty>>
    /\ UNCHANGED <<content, running, abandoned>>

(* abandontransaction: only a transaction of depth 0 that is not in the    *)
(* mempool, i.e. unconfirmed here.                                        *)
AbandonTransaction ==
    /\ running
    /\ confirm.status = "UNCONFIRMED"
    /\ WriteTx(SetAbandoned(confirm))
    /\ abandoned' = TRUE
    /\ UNCHANGED <<chain, content, running>>

(* The abandoned transaction is seen in the mempool again: AddToWallet     *)
(* replaces the confirmation by an unconfirmed one.                        *)
SeenInMempool ==
    /\ running
    /\ confirm.status = "ABANDONED"
    /\ WriteTx(DefaultConfirmation)
    /\ abandoned' = FALSE
    /\ UNCHANGED <<chain, content, running>>

(* The wallet is unloaded or the process stops; what is not on disk is     *)
(* lost.                                                                  *)
Shutdown ==
    /\ running
    /\ running' = FALSE
    /\ UNCHANGED <<chain, content, confirm, disk, abandoned, amounts, cacheEmpty>>

(* Fault model for LoadToWallet: every transaction whose block is not     *)
(* found is reset, abandoned ones included.                               *)
LoadToWalletResettingAbandoned(c) ==
    IF OnChain(c.hashBlock) THEN [c EXCEPT !.block_height = HeightOf(c.hashBlock)]
    ELSE [SetStatus(c, "UNCONFIRMED") EXCEPT !.hashBlock = NullHash,
                                             !.block_height = 0, !.nIndex = 0]

(* LoadToWallet after Unserialize: a block found in the active chain gives *)
(* block_height; a confirmed or conflicted transaction whose block left    *)
(* the chain while the wallet was down is reset to unconfirmed.           *)
LoadToWallet(c) ==
    IF OnChain(c.hashBlock) THEN [c EXCEPT !.block_height = HeightOf(c.hashBlock)]
    ELSE IF c.status \in {"CONFLICTED", "CONFIRMED"}
         THEN [SetStatus(c, "UNCONFIRMED") EXCEPT !.hashBlock = NullHash,
                                                  !.block_height = 0, !.nIndex = 0]
         ELSE c

Load ==
    /\ ~running
    /\ running' = TRUE
    /\ confirm' = LoadToWallet(Unserialize(disk))
    /\ amounts' = NoCache
    /\ cacheEmpty' = TRUE
    /\ UNCHANGED <<chain, content, disk, abandoned>>

(* A balance read (GetBalance, under cs_wallet) asks the parent for its   *)
(* available credit: GetCachableAmount returns the cached value, or        *)
(* computes it and caches it.  A hit changes nothing.                     *)
ReadAvailableCredit ==
    /\ running
    /\ ~amounts.cached
    /\ amounts' = [cached |-> TRUE, value |-> AvailableCredit]
    /\ cacheEmpty' = FALSE
    /\ UNCHANGED <<chain, content, confirm, disk, running, abandoned>>

Next ==
    \/ \E b \in Blocks : BlockConnected(b)
    \/ BlockDisconnected
    \/ AbandonTransaction
    \/ SeenInMempool
    \/ Shutdown
    \/ Load
    \/ ReadAvailableCredit

Spec == Init /\ [][Next]_vars

-----------------------------------------------------------------------------
(***************************************************************************)
(* Properties.                                                             *)
(***************************************************************************)

TypeOK ==
    /\ chain \in Seq(Blocks)
    /\ Len(chain) <= MaxChain
    /\ content \in [Blocks -> Contents]
    /\ confirm \in [status : Statuses, block_height : 0..MaxChain, hashBlock : Hashes,
                    nIndex : 0..MaxIndex]
    /\ disk \in [hash : Hashes, index : -1..MaxIndex]
    /\ running \in BOOLEAN
    /\ abandoned \in BOOLEAN
    /\ amounts \in [cached : BOOLEAN, value : 0..1]
    /\ cacheEmpty \in BOOLEAN

(* What a loaded wallet reports is backed by the chain, before and after   *)
(* any number of reloads: a CONFIRMED transaction names a block of the     *)
(* active chain that holds it, at that block's height; a CONFLICTED one   *)
(* names a block of the active chain that holds a conflict; an unconfirmed *)
(* or abandoned one carries no block (spec section 3).  Serialize,         *)
(* Unserialize and LoadToWallet together must preserve this.               *)
ConfirmationSound ==
    running =>
        /\ confirm.status = "CONFIRMED" =>
              /\ confirm.hashBlock \in Blocks /\ content[confirm.hashBlock] = "tx"
              /\ confirm.block_height \in 1..Len(chain)
              /\ chain[confirm.block_height] = confirm.hashBlock
        /\ confirm.status = "CONFLICTED" =>
              /\ confirm.hashBlock \in Blocks /\ content[confirm.hashBlock] = "conflict"
              /\ confirm.block_height \in 1..Len(chain)
              /\ chain[confirm.block_height] = confirm.hashBlock
        /\ confirm.status \in {"UNCONFIRMED", "ABANDONED"} =>
              /\ confirm.hashBlock = NullHash
              /\ confirm.block_height = 0
              /\ confirm.nIndex = 0

(* A transaction the user abandoned stays abandoned, through shutdowns and *)
(* reloads, until the wallet sees it again in a block or the mempool.     *)
AbandonmentPersists == (running /\ abandoned) => confirm.status = "ABANDONED"

(* A balance the loaded wallet serves from the parent's cache is the one   *)
(* it would compute now: every status change of the spending transaction,  *)
(* through block connection, disconnection, conflict, abandonment or a     *)
(* mempool sighting, reaches the parent's cache before the next read (spec *)
(* section 3: caches are coherent with the transaction set).               *)
AvailableCreditCoherent ==
    (running /\ amounts.cached) => amounts.value = AvailableCredit

=============================================================================
