---------------------------- MODULE WalletRecords -----------------------------
(***************************************************************************)
(* The wallet's persisted records and their round trip through the wallet *)
(* database (yupostutils.h).                                               *)
(*                                                                         *)
(*  - The four keyed stores of CWallet: mapToken, mapTokenTx,              *)
(*    mapDelegation and mapSuperStaker.  Each value class (CTokenInfo,     *)
(*    CTokenTx, CDelegationInfo, CSuperStakerInfo) is modelled by its      *)
(*    SetNull (the constructor's state) and by its SerializationOp: the    *)
(*    fields written to the database, and the fields that alone make up    *)
(*    the stream GetHash hashes (SER_GETHASH skips the wallet data).  A    *)
(*    record is keyed in memory and on disk by that hash.                  *)
(*  - The metadata of a CWalletTx: mapValue, nOrderPos and nTimeSmart, and *)
(*    how Serialize folds the last two into a copy of mapValue             *)
(*    (WriteOrderPos, "timesmart") and Unserialize takes them out again    *)
(*    (ReadOrderPos, the erase of the reserved keys).                      *)
(*                                                                         *)
(* The Add/Remove/Load operations of the stores are in wallet.cpp, outside *)
(* the source tree: they are modelled from the specification's             *)
(* "append/update-on-mutate and read-all-on-load" persistence contract.    *)
(*                                                                         *)
(* Data is abstracted: a string, an address or a hash is Null (its empty   *)
(* or SetNull value) or a model value; a label is its length, the one      *)
(* thing about it that LIMITED_STRING looks at; a decimal string written   *)
(* by ToString or "%u" and read back by atoi64 is the number it encodes,   *)
(* since the two are inverse on the values the fields hold.                *)
(***************************************************************************)
EXTENDS Naturals, Integers, Sequences, FiniteSets

CONSTANTS
    Null,          \* "", uint256::SetNull(), uint160::SetNull()
    Ids,           \* the identities (addresses, tx hashes) records are about
    Heights,       \* block numbers a token record can be confirmed at
    LabelLengths,  \* lengths of the labels the user gives a token tx
    LabelLimit,    \* LIMITED_STRING(strLabel, 65536)
    Fees,          \* delegation fees / super-staker minimum fees (uint8_t)
    Decimals,      \* nDecimals a token record is added with
    StakerNames,   \* the names the user gives a staker (strStakerName)
    Vals,          \* values of the user's mapValue entries
    UserKeys,      \* mapValue keys read and written through the map
    MaxOrderPos,   \* bound on nOrderPos
    TimeSmarts     \* values nTimeSmart can hold

ASSUME RecordsAssumption ==
    /\ Null \notin Ids \cup Vals
    /\ Heights \subseteq Nat
    /\ LabelLengths \subseteq Nat /\ LabelLimit \in Nat
    /\ Fees \subseteq Nat /\ Decimals \subseteq Nat /\ MaxOrderPos \in Nat
    /\ TimeSmarts \subseteq Nat /\ 0 \in TimeSmarts

Kinds == {"token", "tokentx", "delegation", "superstaker"}

-----------------------------------------------------------------------------
(* CTokenInfo: the members and SetNull, then SerializationOp.              *)
TokenInfoSetNull ==
    [nVersion |-> 1, nCreateTime |-> 0, strContractAddress |-> Null,
     strTokenName |-> Null, strTokenSymbol |-> Null, nDecimals |-> 0,
     strSenderAddress |-> Null, blockHash |-> Null, blockNumber |-> -1]

TokenInfoSerializationOp ==
    [data |-> <<"nVersion", "nCreateTime", "strTokenName", "strTokenSymbol",
                "blockHash", "blockNumber">>,
     hash |-> <<"nDecimals", "strContractAddress", "strSenderAddress">>]

(* Fault model for TokenTxSerializationOp: the label written outside the   *)
(* SER_GETHASH guard, so that it is hashed.                                *)
TokenTxSerializationOpLabelHashed ==
    [data |-> <<"nVersion", "nCreateTime", "blockHash", "blockNumber">>,
     hash |-> <<"strContractAddress", "strSenderAddress",
                "strReceiverAddress", "nValue", "transactionHash",
                "strLabel">>]

(* CTokenTx.  strLabel is the length of the label; "" has length 0.        *)
TokenTxSetNull ==
    [nVersion |-> 1, nCreateTime |-> 0, strContractAddress |-> Null,
     strSenderAddress |-> Null, strReceiverAddress |-> Null, nValue |-> Null,
     transactionHash |-> Null, blockHash |-> Null, blockNumber |-> -1,
     strLabel |-> 0]

TokenTxSerializationOp ==
    [data |-> <<"nVersion", "nCreateTime", "blockHash", "blockNumber",
                "strLabel">>,
     hash |-> <<"strContractAddress", "strSenderAddress",
                "strReceiverAddress", "nValue", "transactionHash">>]

(* The fields of a class read through LIMITED_STRING, and the limit.       *)
LimitedFields(k) == IF k = "tokentx" THEN {"strLabel"} ELSE {}

(* Fault model for DelegationInfoSerializationOp: a field of the class    *)
(* (blockNumber) left out of the READWRITE list.                           *)
DelegationInfoSerializationOpNoBlock ==
    [data |-> <<"nVersion", "nCreateTime", "nFee", "createTxHash",
                "removeTxHash">>,
     hash |-> <<"delegateAddress", "stakerAddress", "strStakerName">>]

(* CDelegationInfo.                                                        *)
DelegationInfoSetNull ==
    [nVersion |-> 1, nCreateTime |-> 0, nFee |-> 0, delegateAddress |-> Null,
     stakerAddress |-> Null, strStakerName |-> Null, blockNumber |-> -1,
     createTxHash |-> Null, removeTxHash |-> Null]

DelegationInfoSerializationOp ==
    [data |-> <<"nVersion", "nCreateTime", "nFee", "blockNumber",
                "createTxHash", "removeTxHash">>,
     hash |-> <<"delegateAddress", "stakerAddress", "strStakerName">>]

(* CSuperStakerInfo.  fCustomConfig = 0 is FALSE; clear() is <<>>.        *)
SuperStakerInfoSetNull ==
    [nVersion |-> 1, nCreateTime |-> 0, nMinFee |-> 0, stakerAddress |-> Null,
     strStakerName |-> Null, fCustomConfig |-> FALSE, nMinDelegateUtxo |-> 0,
     delegateAddressList |-> <<>>, nDelegateAddressType |-> 0]

SuperStakerInfoSerializationOp ==
    [data |-> <<"nVersion", "nCreateTime", "nMinFee", "fCustomConfig",
                "nMinDelegateUtxo", "delegateAddressList",
                "nDelegateAddressType">>,
     hash |-> <<"stakerAddress", "strStakerName">>]

(* The class of each store's values: its SetNull and its SerializationOp.  *)
SetNull(k) ==
    CASE k = "token"       -> TokenInfoSetNull
      [] k = "tokentx"     -> TokenTxSetNull
      [] k = "delegation"  -> DelegationInfoSetNull
      [] k = "superstaker" -> SuperStakerInfoSetNull

SerializationOp(k) ==
    CASE k = "token"       -> TokenInfoSerializationOp
      [] k = "tokentx"     -> TokenTxSerializationOp
      [] k = "delegation"  -> DelegationInfoSerializationOp
      [] k = "superstaker" -> SuperStakerInfoSerializationOp

(* The fields a stream carries, in order: the wallet data unless the       *)
(* stream is SER_GETHASH, then the hashed fields.                          *)
StreamFields(k, gethash) ==
    IF gethash THEN SerializationOp(k).hash
               ELSE SerializationOp(k).data \o SerializationOp(k).hash

(* READWRITE in the writing direction: the values of the fields in order. *)
Serialize(k, r, gethash) ==
    LET fs == StreamFields(k, gethash)
    IN  [i \in 1..Len(fs) |-> r[fs[i]]]

(* GetHash: SerializeHash of the object over the SER_GETHASH stream; the   *)
(* hash is taken to be collision-free, so it is the stream itself.         *)
GetHash(k, r) == <<k, Serialize(k, r, TRUE)>>

(* READWRITE in the reading direction, into a freshly SetNull'd object:    *)
(* each field the stream carries takes the value read at its position.    *)
FieldIndex(fs, f) == CHOOSE i \in 1..Len(fs) : fs[i] = f

Unserialize(k, s) ==
    LET fs == StreamFields(k, FALSE)
        read == {fs[i] : i \in 1..Len(fs)}
    IN  [f \in DOMAIN SetNull(k) |->
           IF f \in read THEN s[FieldIndex(fs, f)] ELSE SetNull(k)[f]]

(* LimitedString's read throws "String length limit exceeded" when the     *)
(* length read is over the limit; the write never checks it.               *)
ReadFails(k, s) ==
    LET fs == StreamFields(k, FALSE)
    IN  \E i \in 1..Len(fs) : fs[i] \in LimitedFields(k) /\ s[i] > LabelLimit

(* The records the wallet is asked to add to each store: an entry about    *)
(* the identity id, confirmed at a height or not (blockNumber -1 and a     *)
(* null blockHash), with the wallet data the user or the chain sets, the   *)
(* token's decimals, and the name the user gives a delegation's or a      *)
(* super staker's staker.  A token's name and symbol are the contract's.  *)
Confirmed(r, h) == [r EXCEPT !.blockNumber = h,
                             !.blockHash = IF h = -1 THEN Null ELSE h]

BlockNumbers == {-1} \cup Heights

Candidates(k) ==
    CASE k = "token" ->
           {Confirmed([TokenInfoSetNull EXCEPT !.strContractAddress = id,
                        !.strSenderAddress = id, !.strTokenName = id,
                        !.strTokenSymbol = id, !.nDecimals = d], h) :
              id \in Ids, h \in BlockNumbers, d \in Decimals}
      [] k = "tokentx" ->
           {[Confirmed([TokenTxSetNull EXCEPT !.strContractAddress = id,
                         !.strSenderAddress = id, !.strReceiverAddress = id,
                         !.nValue = id, !.transactionHash = id], h)
               EXCEPT !.strLabel = l] :
              id \in Ids, h \in BlockNumbers, l \in LabelLengths}
      [] k = "delegation" ->
           {[DelegationInfoSetNull EXCEPT !.delegateAddress = id,
               !.stakerAddress = id, !.nFee = f, !.blockNumber = h,
               !.createTxHash = id, !.strStakerName = n] :
              id \in Ids, f \in Fees, h \in BlockNumbers, n \in StakerNames}
      [] k = "superstaker" ->
           {[SuperStakerInfoSetNull EXCEPT !.stakerAddress = id,
               !.fCustomConfig = c, !.nMinFee = IF c THEN f ELSE 0,
               !.strStakerName = n] :
              id \in Ids, c \in BOOLEAN, f \in Fees, n \in StakerNames}

(* The wallet data of an entry: what the chain (its block, the delegation *)
(* transaction) or the user (the label, the fee, the custom configuration) *)
(* changes on an entry that is already there, and the version and creation *)
(* time of the record.                                                     *)
WalletData(k) ==
    {"nVersion", "nCreateTime"} \cup
    CASE k = "token"       -> {"blockHash", "blockNumber"}
      [] k = "tokentx"     -> {"blockHash", "blockNumber", "strLabel"}
      [] k = "delegation"  -> {"nFee", "blockNumber", "createTxHash",
                               "removeTxHash"}
      [] k = "superstaker" -> {"nMinFee", "fCustomConfig", "nMinDelegateUtxo",
                               "delegateAddressList", "nDelegateAddressType"}

(* Two records of store k that differ at most in their wallet data.        *)
SameEntity(k, r1, r2) == \A f \in DOMAIN r1 \ WalletData(k) : r1[f] = r2[f]

-----------------------------------------------------------------------------
(* CWalletTx metadata.  The keys the map carries only on disk.             *)
ReservedKeys == {"fromaccount", "n", "timesmart", "spent"}

(* The keys used through the map are not the reserved ones (the comment at *)
(* the declaration of mapValue).                                           *)
ASSUME KeysAssumption == UserKeys \cap ReservedKeys = {}

Put(m, key, v) == [x \in DOMAIN m \cup {key} |-> IF x = key THEN v ELSE m[x]]

Erase(m, keys) == [x \in DOMAIN m \ keys |-> m[x]]

(* WriteOrderPos: nothing for -1, else mapValue["n"] = ToString(nOrderPos). *)
WriteOrderPos(nOrderPos, mapValue) ==
    IF nOrderPos = -1 THEN mapValue ELSE Put(mapValue, "n", nOrderPos)

(* ReadOrderPos: -1 when "n" is missing, else atoi64 of it.                *)
ReadOrderPos(mapValue) ==
    IF "n" \notin DOMAIN mapValue THEN -1 ELSE mapValue["n"]

(* CWalletTx::Serialize: the copy of mapValue that goes to disk.           *)
SerializeMeta(wtx) ==
    LET c1 == Put(wtx.mapValue, "fromaccount", Null)
        c2 == WriteOrderPos(wtx.nOrderPos, c1)
    IN  IF wtx.nTimeSmart # 0 THEN Put(c2, "timesmart", wtx.nTimeSmart) ELSE c2

(* Fault model for UnserializeMeta: the reserved keys erased before the    *)
(* order position and smart time are read from the map.                    *)
UnserializeMetaEraseFirst(mapValue) ==
    LET m == Erase(mapValue, ReservedKeys)
    IN  [mapValue   |-> m,
         nOrderPos  |-> ReadOrderPos(m),
         nTimeSmart |-> IF "timesmart" \in DOMAIN m THEN m["timesmart"] ELSE 0]

(* CWalletTx::Unserialize: order position and smart time are read from the *)
(* map, then the reserved keys are erased from it.                         *)
UnserializeMeta(mapValue) ==
    [mapValue   |-> Erase(mapValue, ReservedKeys),
     nOrderPos  |-> ReadOrderPos(mapValue),
     nTimeSmart |-> IF "timesmart" \in DOMAIN mapValue
                    THEN mapValue["timesmart"] ELSE 0]

UserMaps == UNION {[D -> Vals] : D \in SUBSET UserKeys}

TxMetas == [mapValue : UserMaps, nOrderPos : -1..MaxOrderPos,
            nTimeSmart : TimeSmarts]

(* The maps a wallet file can hold: written by this code, or by a client   *)
(* from before 2014 that wrote "spent" and neither "fromaccount" nor "n".  *)
DiskMaps ==
    {SerializeMeta(w) : w \in TxMetas} \cup
    {Put(m, "spent", v) : m \in UserMaps, v \in Vals}

-----------------------------------------------------------------------------
VARIABLES
    mem,         \* mem[k]: the store in memory, a set of [key, rec] entries
    db,          \* db[k]: the records on disk, a set of [key, value] entries
    wtx,         \* the metadata of a wallet transaction in memory
    wtxRecord,   \* the mapValue copy its last write put on disk
    running,     \* the wallet is loaded
    loadResult   \* what the last load reported

vars == <<mem, db, wtx, wtxRecord, running, loadResult>>

(* What LoadWallet puts in a store from its records on disk: each record   *)
(* that reads back is passed to LoadToken (LoadTokenTx, ...), which keys it *)
(* by its own GetHash; one that throws is skipped.                         *)
Readable(k, entries) == {e \in entries : ~ReadFails(k, e.value)}

LoadKind(k, entries) ==
    {[key |-> GetHash(k, Unserialize(k, e.value)),
      rec |-> Unserialize(k, e.value)] : e \in Readable(k, entries)}

Keys == UNION {{GetHash(k, r) : r \in Candidates(k)} : k \in Kinds}

TypeOK ==
    /\ \A k \in Kinds :
         /\ mem[k] \subseteq [key : Keys, rec : Candidates(k)]
         /\ db[k] \subseteq
              [key : Keys, value : {Serialize(k, r, FALSE) : r \in Candidates(k)}]
    /\ wtx \in TxMetas
    /\ wtxRecord \in DiskMaps
    /\ running \in BOOLEAN
    /\ loadResult \in {"ok", "noncritical"}

Init ==
    /\ mem = [k \in Kinds |-> {}]
    /\ db = [k \in Kinds |-> {}]
    /\ wtxRecord \in DiskMaps
    /\ wtx = UnserializeMeta(wtxRecord)
    /\ running = TRUE
    /\ loadResult = "ok"

(* AddTokenEntry (AddTokenTxEntry, AddDelegationEntry, AddSuperStakerEntry):*)
(* under cs_wallet, the record is written to disk under its GetHash, then   *)
(* mapX[hash] takes it, replacing an entry with the same hash.              *)
AddEntry(k, r) ==
    LET h == GetHash(k, r)
    IN  /\ running
        /\ db' = [db EXCEPT ![k] = {e \in @ : e.key # h} \cup
                     {[key |-> h, value |-> Serialize(k, r, FALSE)]}]
        /\ mem' = [mem EXCEPT ![k] = {e \in @ : e.key # h} \cup
                     {[key |-> h, rec |-> r]}]
        /\ UNCHANGED <<wtx, wtxRecord, running, loadResult>>

(* RemoveTokenEntry (RemoveDelegationEntry, RemoveSuperStakerEntry): the    *)
(* record is erased from disk, then from the map.                           *)
RemoveEntry(k, h) ==
    /\ running
    /\ \E e \in mem[k] : e.key = h
    /\ db' = [db EXCEPT ![k] = {e \in @ : e.key # h}]
    /\ mem' = [mem EXCEPT ![k] = {e \in @ : e.key # h}]
    /\ UNCHANGED <<wtx, wtxRecord, running, loadResult>>

(* A mapValue entry set through the map ("comment" by CommitTransaction,    *)
(* "replaced_by_txid" by MarkReplaced), and the transaction rewritten.      *)
SetMapValue(key, v) ==
    /\ running
    /\ wtx' = [wtx EXCEPT !.mapValue = Put(@, key, v)]
    /\ wtxRecord' = SerializeMeta(wtx')
    /\ UNCHANGED <<mem, db, running, loadResult>>

(* Fault model for ReorderTransactions: the position taken after the       *)
(* counter is incremented (++nOrderPosNext for nOrderPosNext++).           *)
ReorderTransactionsPreIncrement(p) ==
    /\ running
    /\ wtx' = [wtx EXCEPT !.nOrderPos = p + 1]
    /\ wtxRecord' = SerializeMeta(wtx')
    /\ UNCHANGED <<mem, db, running, loadResult>>

(* ReorderTransactions gives the transaction an order position and        *)
(* rewrites it.                                                             *)
ReorderTransactions(p) ==
    /\ running
    /\ wtx' = [wtx EXCEPT !.nOrderPos = p]
    /\ wtxRecord' = SerializeMeta(wtx')
    /\ UNCHANGED <<mem, db, running, loadResult>>

(* The wallet is unloaded: memory is gone, the database stays.             *)
Shutdown ==
    /\ running
    /\ running' = FALSE
    /\ mem' = [k \in Kinds |-> {}]
    /\ UNCHANGED <<db, wtx, wtxRecord, loadResult>>

(* LoadWallet reads every record back; a record that fails to read makes   *)
(* the load report a non-critical error.                                   *)
Load ==
    /\ ~running
    /\ running' = TRUE
    /\ mem' = [k \in Kinds |-> LoadKind(k, db[k])]
    /\ wtx' = UnserializeMeta(wtxRecord)
    /\ loadResult' = IF \E k \in Kinds : Readable(k, db[k]) # db[k]
                     THEN "noncritical" ELSE "ok"
    /\ UNCHANGED <<db, wtxRecord>>

Next ==
    \/ \E k \in Kinds : \E r \in Candidates(k) : AddEntry(k, r)
    \/ \E k \in Kinds : \E e \in mem[k] : RemoveEntry(k, e.key)
    \/ \E key \in UserKeys, v \in Vals : SetMapValue(key, v)
    \/ \E p \in 0..MaxOrderPos : ReorderTransactions(p)
    \/ Shutdown
    \/ Load

Spec == Init /\ [][Next]_vars

-----------------------------------------------------------------------------
(* While the wallet runs, every token, token transfer, delegation and super *)
(* staker record it holds is on disk in a form that reads back, and a       *)
(* reload (LoadWallet, then LoadToken & co. keying each record by its own   *)
(* GetHash) rebuilds exactly the maps in memory: no field lost by           *)
(* SerializationOp, no entry re-keyed, none dropped by LIMITED_STRING.      *)
StoredRecordsReload ==
    running =>
      \A k \in Kinds : /\ Readable(k, db[k]) = db[k]
                       /\ mem[k] = LoadKind(k, db[k])

(* Updating the wallet data of an entry (its block, label, fee or custom    *)
(* config) through Add*Entry replaces it: a store never holds two entries   *)
(* that differ only in wallet data.  The staker's name and the token's      *)
(* decimals are not wallet data: GetHash covers them, so a delegation or a  *)
(* super staker added again under another name is a second entry.          *)
OneEntryPerEntity ==
    \A k \in Kinds : \A e1, e2 \in mem[k] :
        SameEntity(k, e1.rec, e2.rec) => e1 = e2

(* The transaction metadata in memory is what a reload of its last write   *)
(* gives back: CWalletTx::Serialize and Unserialize are inverse on         *)
(* mapValue, nOrderPos and nTimeSmart, the reserved keys included.          *)
TxMetaReloads ==
    running => UnserializeMeta(wtxRecord) = wtx

=============================================================================
