------------------------- MODULE WalletRecordsProofs --------------------------
(***************************************************************************)
(* Proofs about the wallet's persisted records, for every value of the     *)
(* constants.                                                              *)
(*                                                                         *)
(*  - Transaction metadata (TxMetaReloads): CWalletTx::Serialize and       *)
(*    Unserialize are inverse on mapValue, nOrderPos and nTimeSmart        *)
(*    (MetaRoundTrip) when the keys used through the map are disjoint from *)
(*    the reserved ones.  The invariant is strengthened to hold also while *)
(*    the wallet is unloaded (MetaInv).                                    *)
(*  - The four keyed stores (TypeOK, OneEntryPerEntity,                    *)
(*    StoredRecordsReload): each class's SerializationOp writes every      *)
(*    member exactly once (StreamShape), so READWRITE reads back what it   *)
(*    wrote (RoundTrip); no hashed field is wallet data, so records that   *)
(*    differ only in wallet data share a key (KeyOfEntity).  The inductive *)
(*    invariant StoreInv says every entry on disk and in memory is a       *)
(*    record the wallet was asked to add,                                  *)
(*    keyed by its own GetHash, one entry per key; ReloadInv adds that the *)
(*    stores in memory are what the records on disk decode to while the    *)
(*    wallet runs.  StoredRecordsReload needs the labels within            *)
(*    LIMITED_STRING's limit (LabelBound): WalletRecords_LabelOverLimit    *)
(*    shows it fails otherwise, so it is a hypothesis of the theorem and   *)
(*    not an assumption of the module.                                    *)
(***************************************************************************)
EXTENDS WalletRecords, SequenceTheorems, TLAPS

-----------------------------------------------------------------------------
(* The metadata of a wallet transaction.                                 *)
(* The reserved keys are four distinct strings.                            *)
LEMMA ReservedDistinct ==
    /\ "fromaccount" # "n" /\ "fromaccount" # "timesmart"
    /\ "fromaccount" # "spent" /\ "n" # "timesmart" /\ "n" # "spent"
    /\ "timesmart" # "spent"
OBVIOUS

(* Unserialize(Serialize(w)) = w for metadata the code can hold.           *)
LEMMA MetaRoundTrip ==
    ASSUME NEW w \in TxMetas
    PROVE  UnserializeMeta(SerializeMeta(w)) = w
<1> DEFINE c1 == Put(w.mapValue, "fromaccount", Null)
           c2 == WriteOrderPos(w.nOrderPos, c1)
           c3 == IF w.nTimeSmart # 0 THEN Put(c2, "timesmart", w.nTimeSmart)
                 ELSE c2
<1>1. SerializeMeta(w) = c3
  BY DEF SerializeMeta
<1>2. PICK D \in SUBSET UserKeys : w.mapValue \in [D -> Vals]
  BY DEF TxMetas, UserMaps
<1>3. /\ w.nOrderPos \in -1..MaxOrderPos
      /\ w.nTimeSmart \in Nat
  BY RecordsAssumption DEF TxMetas
<1>4. D \cap ReservedKeys = {}
  BY <1>2, KeysAssumption
<1>5. /\ DOMAIN c3 \subseteq D \cup ReservedKeys
      /\ \A x \in D : x \in DOMAIN c3 /\ c3[x] = w.mapValue[x]
  BY <1>2, <1>4, ReservedDistinct DEF Put, WriteOrderPos, ReservedKeys
<1>6. Erase(c3, ReservedKeys) = w.mapValue
  <2>1. DOMAIN c3 \ ReservedKeys = D
    BY <1>4, <1>5
  <2>2. Erase(c3, ReservedKeys) = [x \in D |-> c3[x]]
    BY <2>1 DEF Erase
  <2>3. w.mapValue = [x \in D |-> w.mapValue[x]]
    BY <1>2
  <2> QED BY <1>5, <2>2, <2>3
<1>7. ReadOrderPos(c3) = w.nOrderPos
  <2>1. "n" \notin D
    BY <1>4 DEF ReservedKeys
  <2>2. "n" \notin DOMAIN c1
    BY <1>2, <2>1, ReservedDistinct DEF Put
  <2>3. CASE w.nOrderPos = -1
    BY <2>2, <2>3, ReservedDistinct DEF ReadOrderPos, Put, WriteOrderPos
  <2>4. CASE w.nOrderPos # -1
    BY <2>4, ReservedDistinct DEF ReadOrderPos, Put, WriteOrderPos
  <2> QED BY <2>3, <2>4
<1>8. (IF "timesmart" \in DOMAIN c3 THEN c3["timesmart"] ELSE 0) = w.nTimeSmart
  <2>1. "timesmart" \notin DOMAIN c2
    <3>1. "timesmart" \notin D
      BY <1>4 DEF ReservedKeys
    <3> QED BY <1>2, <3>1, ReservedDistinct DEF Put, WriteOrderPos
  <2>2. CASE w.nTimeSmart = 0
    BY <2>1, <2>2
  <2>3. CASE w.nTimeSmart # 0
    BY <2>3 DEF Put
  <2> QED BY <2>2, <2>3
<1>9. w = [mapValue |-> w.mapValue, nOrderPos |-> w.nOrderPos,
           nTimeSmart |-> w.nTimeSmart]
  BY DEF TxMetas
<1> QED BY <1>1, <1>6, <1>7, <1>8, <1>9 DEF UnserializeMeta

-----------------------------------------------------------------------------
(* The inductive invariant: the metadata in memory is one the code can     *)
(* hold and is what its record on disk reads back as.                      *)
MetaInv ==
    /\ wtx \in TxMetas
    /\ UnserializeMeta(wtxRecord) = wtx

(* A wallet file of either generation reads back as metadata the code can  *)
(* hold.                                                                   *)
LEMMA InitMeta == Init => MetaInv
<1> SUFFICES ASSUME Init PROVE MetaInv
  OBVIOUS
<1>1. CASE \E w \in TxMetas : wtxRecord = SerializeMeta(w)
  BY <1>1, MetaRoundTrip DEF Init, MetaInv
<1>2. CASE \E m \in UserMaps, v \in Vals : wtxRecord = Put(m, "spent", v)
  <2>1. PICK m \in UserMaps, v \in Vals : wtxRecord = Put(m, "spent", v)
    BY <1>2
  <2>2. PICK D \in SUBSET UserKeys : m \in [D -> Vals]
    BY DEF UserMaps
  <2>3. D \cap ReservedKeys = {}
    BY <2>2, KeysAssumption
  <2>4. Erase(wtxRecord, ReservedKeys) = m
    BY <2>1, <2>2, <2>3 DEF Put, Erase, ReservedKeys
  <2>5. ReadOrderPos(wtxRecord) = -1
    BY <2>1, <2>2, <2>3, ReservedDistinct DEF Put, ReadOrderPos, ReservedKeys
  <2>6. "timesmart" \notin DOMAIN wtxRecord
    BY <2>1, <2>2, <2>3, ReservedDistinct DEF Put, ReservedKeys
  <2>7. UnserializeMeta(wtxRecord) = [mapValue |-> m, nOrderPos |-> -1,
                                      nTimeSmart |-> 0]
    BY <2>4, <2>5, <2>6 DEF UnserializeMeta
  <2>8. [mapValue |-> m, nOrderPos |-> -1, nTimeSmart |-> 0] \in TxMetas
    BY RecordsAssumption DEF TxMetas
  <2> QED BY <2>7, <2>8 DEF Init, MetaInv
<1> QED BY <1>1, <1>2 DEF Init, DiskMaps

(* Every step keeps the invariant: the two metadata updates write the new  *)
(* metadata back, Load reads the record the invariant ties to memory.      *)
LEMMA StepMeta == MetaInv /\ [Next]_vars => MetaInv'
<1> SUFFICES ASSUME MetaInv, [Next]_vars PROVE MetaInv'
  OBVIOUS
<1>1. CASE \E key \in UserKeys, v \in Vals : SetMapValue(key, v)
  <2>1. PICK key \in UserKeys, v \in Vals : SetMapValue(key, v)
    BY <1>1
  <2>2. PICK D \in SUBSET UserKeys : wtx.mapValue \in [D -> Vals]
    BY DEF MetaInv, TxMetas, UserMaps
  <2>3. Put(wtx.mapValue, key, v) \in [D \cup {key} -> Vals]
    BY <2>2 DEF Put
  <2>4. wtx' \in TxMetas
    BY <2>1, <2>3 DEF SetMapValue, MetaInv, TxMetas, UserMaps
  <2> QED BY <2>1, <2>4, MetaRoundTrip DEF SetMapValue, MetaInv
<1>2. CASE \E p \in 0..MaxOrderPos : ReorderTransactions(p)
  <2>1. PICK p \in 0..MaxOrderPos : ReorderTransactions(p)
    BY <1>2
  <2>2. wtx' \in TxMetas
    BY <2>1 DEF ReorderTransactions, MetaInv, TxMetas
  <2> QED BY <2>1, <2>2, MetaRoundTrip DEF ReorderTransactions, MetaInv
<1>3. CASE Load
  BY <1>3 DEF Load, MetaInv
<1>4. CASE \E k \in Kinds : \E r \in Candidates(k) : AddEntry(k, r)
  BY <1>4 DEF AddEntry, MetaInv
<1>5. CASE \E k \in Kinds : \E e \in mem[k] : RemoveEntry(k, e.key)
  BY <1>5 DEF RemoveEntry, MetaInv
<1>6. CASE Shutdown
  BY <1>6 DEF Shutdown, MetaInv
<1>7. CASE UNCHANGED vars
  BY <1>7 DEF vars, MetaInv
<1> QED BY <1>1, <1>2, <1>3, <1>4, <1>5, <1>6, <1>7 DEF Next

(* CWalletTx::Serialize and Unserialize lose nothing of a transaction's    *)
(* comments, order position and smart time: while the wallet runs, the     *)
(* metadata in memory is what a reload of its last write gives back.       *)
THEOREM TxMetaReloadsInvariant == Spec => []TxMetaReloads
<1>1. Init => MetaInv
  BY InitMeta
<1>2. MetaInv /\ [Next]_vars => MetaInv'
  BY StepMeta
<1>3. MetaInv => TxMetaReloads
  BY DEF MetaInv, TxMetaReloads
<1> QED BY <1>1, <1>2, <1>3, PTL DEF Spec

-----------------------------------------------------------------------------
(* The records of the four stores.                                        *)
(* A sequence without repetitions, and the set of its elements.            *)
InjectiveSeq(s) == \A i, j \in 1..Len(s) : s[i] = s[j] => i = j
Rng(s) == {s[i] : i \in 1..Len(s)}

(* Concatenating two sequences without repetitions and with no element in *)
(* common gives a sequence without repetitions of the elements of both.   *)
LEMMA ConcatShape ==
  ASSUME NEW S, NEW d \in Seq(S), NEW h \in Seq(S),
         InjectiveSeq(d), InjectiveSeq(h), Rng(d) \cap Rng(h) = {}
  PROVE  /\ d \o h \in Seq(S)
         /\ InjectiveSeq(d \o h)
         /\ Rng(d \o h) = Rng(d) \cup Rng(h)
<1>1. /\ d \o h \in Seq(S)
      /\ Len(d \o h) = Len(d) + Len(h)
      /\ \A i \in 1 .. Len(d) + Len(h) :
           (d \o h)[i] = IF i <= Len(d) THEN d[i] ELSE h[i - Len(d)]
  BY ConcatProperties
<1>2. InjectiveSeq(d \o h)
  <2> SUFFICES ASSUME NEW i \in 1..Len(d) + Len(h), NEW j \in 1..Len(d) + Len(h),
                      (d \o h)[i] = (d \o h)[j]
               PROVE  i = j
    BY <1>1 DEF InjectiveSeq
  <2>1. CASE i <= Len(d) /\ j <= Len(d)
    BY <1>1, <2>1 DEF InjectiveSeq
  <2>2. CASE i > Len(d) /\ j > Len(d)
    <3>1. h[i - Len(d)] = h[j - Len(d)]
      BY <1>1, <2>2
    <3>2. i - Len(d) \in 1..Len(h) /\ j - Len(d) \in 1..Len(h)
      BY <2>2
    <3> QED BY <3>1, <3>2 DEF InjectiveSeq
  <2>3. CASE i <= Len(d) /\ j > Len(d)
    <3>1. d[i] = h[j - Len(d)]
      BY <1>1, <2>3
    <3>2. d[i] \in Rng(d) /\ h[j - Len(d)] \in Rng(h)
      BY <2>3 DEF Rng
    <3> QED BY <3>1, <3>2
  <2>4. CASE i > Len(d) /\ j <= Len(d)
    <3>1. h[i - Len(d)] = d[j]
      BY <1>1, <2>4
    <3>2. d[j] \in Rng(d) /\ h[i - Len(d)] \in Rng(h)
      BY <2>4 DEF Rng
    <3> QED BY <3>1, <3>2
  <2> QED BY <2>1, <2>2, <2>3, <2>4
<1>3. Rng(d \o h) \subseteq Rng(d) \cup Rng(h)
  <2> SUFFICES ASSUME NEW i \in 1..Len(d) + Len(h)
               PROVE  (d \o h)[i] \in Rng(d) \cup Rng(h)
    BY <1>1 DEF Rng
  <2>1. CASE i <= Len(d)
    BY <1>1, <2>1 DEF Rng
  <2>2. CASE i > Len(d)
    <3>1. i - Len(d) \in 1..Len(h)
      BY <2>2
    <3> QED BY <1>1, <2>2, <3>1 DEF Rng
  <2> QED BY <2>1, <2>2
<1>4. Rng(d) \subseteq Rng(d \o h)
  <2> SUFFICES ASSUME NEW i \in 1..Len(d) PROVE d[i] \in Rng(d \o h)
    BY DEF Rng
  <2>1. i \in 1..Len(d) + Len(h) /\ (d \o h)[i] = d[i]
    BY <1>1
  <2> QED BY <2>1, <1>1 DEF Rng
<1>5. Rng(h) \subseteq Rng(d \o h)
  <2> SUFFICES ASSUME NEW i \in 1..Len(h) PROVE h[i] \in Rng(d \o h)
    BY DEF Rng
  <2>1. i + Len(d) \in 1..Len(d) + Len(h) /\ (d \o h)[i + Len(d)] = h[i]
    BY <1>1
  <2> QED BY <2>1, <1>1 DEF Rng
<1> QED BY <1>1, <1>2, <1>3, <1>4, <1>5

(* A SerializationOp that writes each member of the class exactly once.    *)
OpShape(op, nul) ==
    /\ op.data \in Seq(DOMAIN nul) /\ op.hash \in Seq(DOMAIN nul)
    /\ InjectiveSeq(op.data) /\ InjectiveSeq(op.hash)
    /\ Rng(op.data) \cap Rng(op.hash) = {}
    /\ Rng(op.data) \cup Rng(op.hash) = DOMAIN nul

(* CTokenInfo::SerializationOp, CTokenTx's, CDelegationInfo's and        *)
(* CSuperStakerInfo's each write every member of the class exactly once,  *)
(* counting the wallet data and the hashed fields together.               *)
LEMMA TokenInfoShape == OpShape(TokenInfoSerializationOp, TokenInfoSetNull)
<1> DEFINE d == TokenInfoSerializationOp.data
           h == TokenInfoSerializationOp.hash
<1>1. d \in Seq(DOMAIN TokenInfoSetNull) /\ h \in Seq(DOMAIN TokenInfoSetNull)
  BY DEF TokenInfoSetNull, TokenInfoSerializationOp
<1>2. InjectiveSeq(d) /\ InjectiveSeq(h)
  BY DEF TokenInfoSerializationOp, InjectiveSeq
<1>3. Rng(d) \cap Rng(h) = {}
  BY DEF TokenInfoSerializationOp, Rng
<1>4. Rng(d) \cup Rng(h) = DOMAIN TokenInfoSetNull
  BY DEF TokenInfoSetNull, TokenInfoSerializationOp, Rng
<1> QED BY <1>1, <1>2, <1>3, <1>4 DEF OpShape

LEMMA TokenTxShape == OpShape(TokenTxSerializationOp, TokenTxSetNull)
<1> DEFINE d == TokenTxSerializationOp.data
           h == TokenTxSerializationOp.hash
<1>1. d \in Seq(DOMAIN TokenTxSetNull) /\ h \in Seq(DOMAIN TokenTxSetNull)
  BY DEF TokenTxSetNull, TokenTxSerializationOp
<1>2. InjectiveSeq(d) /\ InjectiveSeq(h)
  BY DEF TokenTxSerializationOp, InjectiveSeq
<1>3. Rng(d) \cap Rng(h) = {}
  BY DEF TokenTxSerializationOp, Rng
<1>4. Rng(d) \cup Rng(h) = DOMAIN TokenTxSetNull
  BY DEF TokenTxSetNull, TokenTxSerializationOp, Rng
<1> QED BY <1>1, <1>2, <1>3, <1>4 DEF OpShape

LEMMA DelegationInfoShape ==
    OpShape(DelegationInfoSerializationOp, DelegationInfoSetNull)
<1> DEFINE d == DelegationInfoSerializationOp.data
           h == DelegationInfoSerializationOp.hash
<1>1. d \in Seq(DOMAIN DelegationInfoSetNull)
      /\ h \in Seq(DOMAIN DelegationInfoSetNull)
  BY DEF DelegationInfoSetNull, DelegationInfoSerializationOp
<1>2. InjectiveSeq(d) /\ InjectiveSeq(h)
  BY DEF DelegationInfoSerializationOp, InjectiveSeq
<1>3. Rng(d) \cap Rng(h) = {}
  BY DEF DelegationInfoSerializationOp, Rng
<1>4. Rng(d) \cup Rng(h) = DOMAIN DelegationInfoSetNull
  BY DEF DelegationInfoSetNull, DelegationInfoSerializationOp, Rng
<1> QED BY <1>1, <1>2, <1>3, <1>4 DEF OpShape

LEMMA SuperStakerInfoShape ==
    OpShape(SuperStakerInfoSerializationOp, SuperStakerInfoSetNull)
<1> DEFINE d == SuperStakerInfoSerializationOp.data
           h == SuperStakerInfoSerializationOp.hash
<1>1. d \in Seq(DOMAIN SuperStakerInfoSetNull)
      /\ h \in Seq(DOMAIN SuperStakerInfoSetNull)
  BY DEF SuperStakerInfoSetNull, SuperStakerInfoSerializationOp
<1>2. InjectiveSeq(d) /\ InjectiveSeq(h)
  BY DEF SuperStakerInfoSerializationOp, InjectiveSeq
<1>3. Rng(d) \cap Rng(h) = {}
  BY DEF SuperStakerInfoSerializationOp, Rng
<1>4. Rng(d) \cup Rng(h) = DOMAIN SuperStakerInfoSetNull
  BY DEF SuperStakerInfoSetNull, SuperStakerInfoSerializationOp, Rng
<1> QED BY <1>1, <1>2, <1>3, <1>4 DEF OpShape

(* The stream of each store's class carries every member once.            *)
LEMMA StreamShape ==
    ASSUME NEW k \in Kinds
    PROVE  LET fs == StreamFields(k, FALSE)
           IN  /\ fs \in Seq(DOMAIN SetNull(k))
               /\ InjectiveSeq(fs)
               /\ Rng(fs) = DOMAIN SetNull(k)
<1>1. OpShape(SerializationOp(k), SetNull(k))
  <2>1. CASE k = "token"
    BY <2>1, TokenInfoShape DEF SerializationOp, SetNull
  <2>2. CASE k = "tokentx"
    BY <2>2, TokenTxShape DEF SerializationOp, SetNull
  <2>3. CASE k = "delegation"
    BY <2>3, DelegationInfoShape DEF SerializationOp, SetNull
  <2>4. CASE k = "superstaker"
    BY <2>4, SuperStakerInfoShape DEF SerializationOp, SetNull
  <2> QED BY <2>1, <2>2, <2>3, <2>4 DEF Kinds
<1> DEFINE S == DOMAIN SetNull(k)
           d == SerializationOp(k).data
           h == SerializationOp(k).hash
<1>2. d \in Seq(S) /\ h \in Seq(S) /\ InjectiveSeq(d) /\ InjectiveSeq(h)
      /\ Rng(d) \cap Rng(h) = {} /\ Rng(d) \cup Rng(h) = S
  BY <1>1 DEF OpShape
<1>3. /\ d \o h \in Seq(S) /\ InjectiveSeq(d \o h)
      /\ Rng(d \o h) = Rng(d) \cup Rng(h)
  BY <1>2, ConcatShape DEF S, d, h
<1> QED BY <1>2, <1>3 DEF StreamFields
(* A record that has exactly the members of class k.                      *)
IsRec(k, r) == r = [f \in DOMAIN SetNull(k) |-> r[f]]

(* The records each store is asked to take, one constructor per class.     *)
TokenCand(id, h, d) ==
    Confirmed([TokenInfoSetNull EXCEPT !.strContractAddress = id,
                !.strSenderAddress = id, !.strTokenName = id,
                !.strTokenSymbol = id, !.nDecimals = d], h)

TokenTxCand(id, h, l) ==
    [Confirmed([TokenTxSetNull EXCEPT !.strContractAddress = id,
                 !.strSenderAddress = id, !.strReceiverAddress = id,
                 !.nValue = id, !.transactionHash = id], h)
       EXCEPT !.strLabel = l]

DelegationCand(id, f, h, n) ==
    [DelegationInfoSetNull EXCEPT !.delegateAddress = id,
       !.stakerAddress = id, !.nFee = f, !.blockNumber = h,
       !.createTxHash = id, !.strStakerName = n]

SuperStakerCand(id, c, f, n) ==
    [SuperStakerInfoSetNull EXCEPT !.stakerAddress = id,
       !.fCustomConfig = c, !.nMinFee = IF c THEN f ELSE 0,
       !.strStakerName = n]

(* The records a store is asked to take, by constructor.                  *)
LEMMA CandidatesByKind ==
    /\ Candidates("token") =
         {TokenCand(id, h, d) : id \in Ids, h \in BlockNumbers, d \in Decimals}
    /\ Candidates("tokentx") =
         {TokenTxCand(id, h, l) : id \in Ids, h \in BlockNumbers,
                                  l \in LabelLengths}
    /\ Candidates("delegation") =
         {DelegationCand(id, f, h, n) : id \in Ids, f \in Fees,
                                        h \in BlockNumbers, n \in StakerNames}
    /\ Candidates("superstaker") =
         {SuperStakerCand(id, c, f, n) : id \in Ids, c \in BOOLEAN, f \in Fees,
                                         n \in StakerNames}
BY DEF Candidates, TokenCand, TokenTxCand, DelegationCand, SuperStakerCand

(* Every such record has exactly the members its class's SetNull has.    *)
LEMMA CandidateIsRec ==
    ASSUME NEW k \in Kinds, NEW r \in Candidates(k)
    PROVE  IsRec(k, r)
<1>1. CASE k = "token"
  <2>1. PICK id \in Ids, h \in BlockNumbers, d \in Decimals : r = TokenCand(id, h, d)
    BY <1>1, CandidatesByKind
  <2>2. SetNull(k) = TokenInfoSetNull
    BY <1>1 DEF SetNull
  <2>3. r = [f \in DOMAIN TokenInfoSetNull |-> r[f]]
    BY <2>1 DEF TokenCand, Confirmed, TokenInfoSetNull
  <2> QED BY <2>2, <2>3 DEF IsRec
<1>2. CASE k = "tokentx"
  <2>1. PICK id \in Ids, h \in BlockNumbers, l \in LabelLengths :
          r = TokenTxCand(id, h, l)
    BY <1>2, CandidatesByKind
  <2>2. SetNull(k) = TokenTxSetNull
    BY <1>2 DEF SetNull
  <2>3. r = [f \in DOMAIN TokenTxSetNull |-> r[f]]
    BY <2>1 DEF TokenTxCand, Confirmed, TokenTxSetNull
  <2> QED BY <2>2, <2>3 DEF IsRec
<1>3. CASE k = "delegation"
  <2>1. PICK id \in Ids, f \in Fees, h \in BlockNumbers, n \in StakerNames :
          r = DelegationCand(id, f, h, n)
    BY <1>3, CandidatesByKind
  <2>2. SetNull(k) = DelegationInfoSetNull
    BY <1>3 DEF SetNull
  <2>3. r = [x \in DOMAIN DelegationInfoSetNull |-> r[x]]
    BY <2>1 DEF DelegationCand, DelegationInfoSetNull
  <2> QED BY <2>2, <2>3 DEF IsRec
<1>4. CASE k = "superstaker"
  <2>1. PICK id \in Ids, c \in BOOLEAN, f \in Fees, n \in StakerNames :
          r = SuperStakerCand(id, c, f, n)
    BY <1>4, CandidatesByKind
  <2>2. SetNull(k) = SuperStakerInfoSetNull
    BY <1>4 DEF SetNull
  <2>3. r = [x \in DOMAIN SuperStakerInfoSetNull |-> r[x]]
    BY <2>1 DEF SuperStakerCand, SuperStakerInfoSetNull
  <2> QED BY <2>2, <2>3 DEF IsRec
<1> QED BY <1>1, <1>2, <1>3, <1>4 DEF Kinds

(* Unserialize(Serialize(r)) = r: READWRITE reads back every member at the *)
(* position it wrote it.                                                   *)
LEMMA RoundTrip ==
    ASSUME NEW k \in Kinds, NEW r, IsRec(k, r)
    PROVE  Unserialize(k, Serialize(k, r, FALSE)) = r
<1> DEFINE fs == StreamFields(k, FALSE)
           s == Serialize(k, r, FALSE)
           D == DOMAIN SetNull(k)
<1>1. fs \in Seq(D) /\ InjectiveSeq(fs) /\ Rng(fs) = D
  BY StreamShape
<1>2. s = [i \in 1..Len(fs) |-> r[fs[i]]]
  BY DEF Serialize
<1>3. \A f \in D : FieldIndex(fs, f) \in 1..Len(fs) /\ fs[FieldIndex(fs, f)] = f
  BY <1>1 DEF FieldIndex, Rng
<1>4. \A f \in D : s[FieldIndex(fs, f)] = r[f]
  BY <1>2, <1>3
<1>5. Unserialize(k, s) = [f \in D |-> s[FieldIndex(fs, f)]]
  BY <1>1 DEF Unserialize, Rng
<1> QED BY <1>4, <1>5 DEF IsRec

(* An entry on disk and an entry in memory for record r of store k, and    *)
(* the entry LoadKind makes of a record on disk.                           *)
Entry(k, r) == [key |-> GetHash(k, r), value |-> Serialize(k, r, FALSE)]

MemEntry(k, r) == [key |-> GetHash(k, r), rec |-> r]

Decode(k, e) ==
    [key |-> GetHash(k, Unserialize(k, e.value)), rec |-> Unserialize(k, e.value)]

KeysUnique(S) == \A e1, e2 \in S : e1.key = e2.key => e1 = e2

(* Store k holds D on disk and M in memory: every entry is a record the    *)
(* wallet was asked to add, keyed by its own GetHash, and no key has two   *)
(* entries.                                                                *)
StoreOK(k, D, M) ==
    /\ D \subseteq {Entry(k, r) : r \in Candidates(k)}
    /\ KeysUnique(D)
    /\ M \subseteq {MemEntry(k, r) : r \in Candidates(k)}
    /\ KeysUnique(M)

(* The inductive invariant of the stores.                                  *)
StoreInv ==
    /\ DOMAIN mem = Kinds /\ DOMAIN db = Kinds
    /\ \A k \in Kinds : StoreOK(k, db[k], mem[k])

(* The invariant behind StoredRecordsReload: in addition, while the wallet *)
(* runs each store in memory is what its records on disk decode to.        *)
ReloadInv ==
    /\ StoreInv
    /\ running => \A k \in Kinds : mem[k] = {Decode(k, e) : e \in db[k]}

(* LoadKind decodes the entry a record was written as into the entry that *)
(* Add*Entry put in memory for it.                                         *)
LEMMA DecodeEntry ==
    ASSUME NEW k \in Kinds, NEW r \in Candidates(k)
    PROVE  Decode(k, Entry(k, r)) = MemEntry(k, r)
<1>1. Unserialize(k, Entry(k, r).value) = r
  BY CandidateIsRec, RoundTrip DEF Entry
<1> QED BY <1>1 DEF Decode, Entry, MemEntry

(* The labels the user gives are within LIMITED_STRING's limit.            *)
LabelBound == LabelLengths \subseteq 0..LabelLimit

(* With labels within the limit, no record the wallet writes fails to     *)
(* read back.                                                              *)
LEMMA EntryReadable ==
    ASSUME LabelBound, NEW k \in Kinds, NEW r \in Candidates(k)
    PROVE  ~ReadFails(k, Entry(k, r).value)
<1> DEFINE fs == StreamFields(k, FALSE)
<1>1. CASE k # "tokentx"
  BY <1>1 DEF ReadFails, LimitedFields
<1>2. CASE k = "tokentx"
  <2>1. PICK id \in Ids, h \in BlockNumbers, l \in LabelLengths :
          r = TokenTxCand(id, h, l)
    BY <1>2, CandidatesByKind
  <2>2. r.strLabel \in 0..LabelLimit
    BY <2>1, RecordsAssumption DEF LabelBound, TokenTxCand, Confirmed, TokenTxSetNull
  <2>3. fs \in Seq(DOMAIN SetNull(k))
    BY StreamShape
  <2>4. \A i \in 1..Len(fs) : Entry(k, r).value[i] = r[fs[i]]
    BY DEF Entry, Serialize
  <2>5. ASSUME NEW i \in 1..Len(fs), fs[i] \in LimitedFields(k)
        PROVE  ~(Entry(k, r).value[i] > LabelLimit)
    <3>1. fs[i] = "strLabel"
      BY <1>2, <2>5 DEF LimitedFields
    <3>2. Entry(k, r).value[i] = r.strLabel
      BY <2>4, <3>1
    <3> QED BY <2>2, <3>2, RecordsAssumption
  <2> QED BY <2>5 DEF ReadFails
<1> QED BY <1>1, <1>2

(* No field GetHash hashes is wallet data: in each class the block, the   *)
(* label, the fee, the configuration, the version and the creation time   *)
(* are written inside the SER_GETHASH guard.                               *)
LEMMA HashNotWalletData ==
    ASSUME NEW k \in Kinds
    PROVE  Rng(SerializationOp(k).hash) \cap WalletData(k) = {}
<1>1. CASE k = "token"
  <2>1. Rng(SerializationOp(k).hash) =
          {"nDecimals", "strContractAddress", "strSenderAddress"}
    BY <1>1 DEF Rng, SerializationOp, TokenInfoSerializationOp
  <2>2. WalletData(k) = {"nVersion", "nCreateTime", "blockHash", "blockNumber"}
    BY <1>1 DEF WalletData
  <2> QED BY <2>1, <2>2
<1>2. CASE k = "tokentx"
  <2>1. Rng(SerializationOp(k).hash) =
          {"strContractAddress", "strSenderAddress", "strReceiverAddress",
           "nValue", "transactionHash"}
    BY <1>2 DEF Rng, SerializationOp, TokenTxSerializationOp
  <2>2. WalletData(k) = {"nVersion", "nCreateTime", "blockHash", "blockNumber",
                         "strLabel"}
    BY <1>2 DEF WalletData
  <2> QED BY <2>1, <2>2
<1>3. CASE k = "delegation"
  <2>1. Rng(SerializationOp(k).hash) =
          {"delegateAddress", "stakerAddress", "strStakerName"}
    BY <1>3 DEF Rng, SerializationOp, DelegationInfoSerializationOp
  <2>2. WalletData(k) = {"nVersion", "nCreateTime", "nFee", "blockNumber",
                         "createTxHash", "removeTxHash"}
    BY <1>3 DEF WalletData
  <2> QED BY <2>1, <2>2
<1>4. CASE k = "superstaker"
  <2>1. Rng(SerializationOp(k).hash) = {"stakerAddress", "strStakerName"}
    BY <1>4 DEF Rng, SerializationOp, SuperStakerInfoSerializationOp
  <2>2. WalletData(k) = {"nVersion", "nCreateTime", "nMinFee", "fCustomConfig",
                         "nMinDelegateUtxo", "delegateAddressList",
                         "nDelegateAddressType"}
    BY <1>4 DEF WalletData
  <2> QED BY <2>1, <2>2
<1> QED BY <1>1, <1>2, <1>3, <1>4 DEF Kinds

(* Two records of a store that differ only in wallet data have the same   *)
(* key: GetHash reads only the hashed fields.                              *)
LEMMA KeyOfEntity ==
    ASSUME NEW k \in Kinds, NEW r1 \in Candidates(k), NEW r2 \in Candidates(k),
           SameEntity(k, r1, r2)
    PROVE  GetHash(k, r1) = GetHash(k, r2)
<1> DEFINE hs == SerializationOp(k).hash
<1>1. Rng(hs) \subseteq DOMAIN SetNull(k)
  <2>1. OpShape(SerializationOp(k), SetNull(k))
    <3>1. CASE k = "token"
      BY <3>1, TokenInfoShape DEF SerializationOp, SetNull
    <3>2. CASE k = "tokentx"
      BY <3>2, TokenTxShape DEF SerializationOp, SetNull
    <3>3. CASE k = "delegation"
      BY <3>3, DelegationInfoShape DEF SerializationOp, SetNull
    <3>4. CASE k = "superstaker"
      BY <3>4, SuperStakerInfoShape DEF SerializationOp, SetNull
    <3> QED BY <3>1, <3>2, <3>3, <3>4 DEF Kinds
  <2> QED BY <2>1 DEF OpShape
<1>2. DOMAIN r1 = DOMAIN SetNull(k)
  BY CandidateIsRec DEF IsRec
<1>3. \A f \in Rng(hs) : r1[f] = r2[f]
  BY <1>1, <1>2, HashNotWalletData DEF SameEntity
<1> QED BY <1>3 DEF GetHash, Serialize, StreamFields, Rng

(* Add*Entry replaces the entry under the record's key, on disk and in     *)
(* memory alike.                                                           *)
LEMMA AddKeepsStore ==
    ASSUME NEW k \in Kinds, NEW r \in Candidates(k), NEW D, NEW M,
           StoreOK(k, D, M)
    PROVE  StoreOK(k, {e \in D : e.key # GetHash(k, r)} \cup {Entry(k, r)},
                      {e \in M : e.key # GetHash(k, r)} \cup {MemEntry(k, r)})
<1>1. Entry(k, r).key = GetHash(k, r) /\ MemEntry(k, r).key = GetHash(k, r)
  BY DEF Entry, MemEntry
<1>2. {e \in D : e.key # GetHash(k, r)} \cup {Entry(k, r)}
        \subseteq {Entry(k, x) : x \in Candidates(k)}
  BY DEF StoreOK
<1>3. KeysUnique({e \in D : e.key # GetHash(k, r)} \cup {Entry(k, r)})
  BY <1>1 DEF StoreOK, KeysUnique
<1>4. {e \in M : e.key # GetHash(k, r)} \cup {MemEntry(k, r)}
        \subseteq {MemEntry(k, x) : x \in Candidates(k)}
  BY DEF StoreOK
<1>5. KeysUnique({e \in M : e.key # GetHash(k, r)} \cup {MemEntry(k, r)})
  BY <1>1 DEF StoreOK, KeysUnique
<1> QED BY <1>2, <1>3, <1>4, <1>5 DEF StoreOK

(* Remove*Entry erases the entry under a key, on disk and in memory.       *)
LEMMA RemoveKeepsStore ==
    ASSUME NEW k \in Kinds, NEW h, NEW D, NEW M, StoreOK(k, D, M)
    PROVE  StoreOK(k, {e \in D : e.key # h}, {e \in M : e.key # h})
BY DEF StoreOK, KeysUnique

(* A record on disk decodes to its entry in memory, under the same key.    *)
LEMMA DecodeOnDisk ==
    ASSUME NEW k \in Kinds, NEW D, NEW M, StoreOK(k, D, M), NEW e \in D
    PROVE  /\ Decode(k, e) \in {MemEntry(k, r) : r \in Candidates(k)}
           /\ Decode(k, e).key = e.key
<1>1. PICK r \in Candidates(k) : e = Entry(k, r)
  BY DEF StoreOK
<1>2. Decode(k, e) = MemEntry(k, r)
  BY <1>1, DecodeEntry
<1> QED BY <1>1, <1>2 DEF Entry, MemEntry

(* LoadWallet rebuilds a store in memory from its records on disk.         *)
LEMMA LoadKeepsStore ==
    ASSUME NEW k \in Kinds, NEW D, NEW M, StoreOK(k, D, M)
    PROVE  StoreOK(k, D, LoadKind(k, D))
<1>1. LoadKind(k, D) = {Decode(k, e) : e \in Readable(k, D)}
  BY DEF LoadKind, Decode
<1>2. LoadKind(k, D) \subseteq {MemEntry(k, r) : r \in Candidates(k)}
  BY <1>1, DecodeOnDisk DEF Readable
<1>3. KeysUnique(LoadKind(k, D))
  <2> SUFFICES ASSUME NEW e1 \in Readable(k, D), NEW e2 \in Readable(k, D),
                      Decode(k, e1).key = Decode(k, e2).key
               PROVE  Decode(k, e1) = Decode(k, e2)
    BY <1>1 DEF KeysUnique
  <2>1. e1.key = e2.key
    BY DecodeOnDisk DEF Readable
  <2> QED BY <2>1 DEF StoreOK, KeysUnique, Readable
<1> QED BY <1>2, <1>3 DEF StoreOK

(* A wallet starts with empty stores.                                      *)
LEMMA InitStore == Init => StoreInv
BY DEF Init, StoreInv, StoreOK, KeysUnique

(* Every step keeps the stores keyed by their records' hashes.            *)
LEMMA StepStore == StoreInv /\ [Next]_vars => StoreInv'
<1> SUFFICES ASSUME StoreInv, [Next]_vars PROVE StoreInv'
  OBVIOUS
<1>1. CASE \E k \in Kinds : \E r \in Candidates(k) : AddEntry(k, r)
  <2>0. PICK k \in Kinds : \E r \in Candidates(k) : AddEntry(k, r)
    BY <1>1
  <2>1. PICK r \in Candidates(k) : AddEntry(k, r)
    BY <2>0
  <2>2. StoreOK(k, db'[k], mem'[k])
    BY <2>1, AddKeepsStore DEF AddEntry, StoreInv, Entry, MemEntry
  <2>3. \A j \in Kinds \ {k} : db'[j] = db[j] /\ mem'[j] = mem[j]
    BY <2>1 DEF AddEntry, StoreInv
  <2> QED BY <2>1, <2>2, <2>3 DEF AddEntry, StoreInv
<1>2. CASE \E k \in Kinds : \E e \in mem[k] : RemoveEntry(k, e.key)
  <2>0. PICK k \in Kinds : \E e \in mem[k] : RemoveEntry(k, e.key)
    BY <1>2
  <2>1. PICK e \in mem[k] : RemoveEntry(k, e.key)
    BY <2>0
  <2>2. StoreOK(k, db'[k], mem'[k])
    BY <2>1, RemoveKeepsStore DEF RemoveEntry, StoreInv
  <2>3. \A j \in Kinds \ {k} : db'[j] = db[j] /\ mem'[j] = mem[j]
    BY <2>1 DEF RemoveEntry, StoreInv
  <2> QED BY <2>1, <2>2, <2>3 DEF RemoveEntry, StoreInv
<1>3. CASE Shutdown
  BY <1>3 DEF Shutdown, StoreInv, StoreOK, KeysUnique
<1>4. CASE Load
  <2>1. \A k \in Kinds : StoreOK(k, db'[k], mem'[k])
    BY <1>4, LoadKeepsStore DEF Load, StoreInv
  <2> QED BY <1>4, <2>1 DEF Load, StoreInv
<1>5. CASE \E key \in UserKeys, v \in Vals : SetMapValue(key, v)
  BY <1>5 DEF SetMapValue, StoreInv
<1>6. CASE \E p \in 0..MaxOrderPos : ReorderTransactions(p)
  BY <1>6 DEF ReorderTransactions, StoreInv
<1>7. CASE UNCHANGED vars
  BY <1>7 DEF vars, StoreInv
<1> QED BY <1>1, <1>2, <1>3, <1>4, <1>5, <1>6, <1>7 DEF Next

(* Add*Entry keys every record by its GetHash and replaces what was under  *)
(* that key, and no hashed field is wallet data: for every set of          *)
(* identities, heights, fees, labels, decimals and staker names, a store    *)
(* never holds two entries that differ only in their wallet data.          *)
THEOREM OneEntryPerEntityInvariant == Spec => []OneEntryPerEntity
<1>1. StoreInv => OneEntryPerEntity
  <2> SUFFICES ASSUME StoreInv, NEW k \in Kinds, NEW e1 \in mem[k],
                      NEW e2 \in mem[k], SameEntity(k, e1.rec, e2.rec)
               PROVE  e1 = e2
    BY DEF OneEntryPerEntity
  <2>1. PICK r1 \in Candidates(k) : e1 = MemEntry(k, r1)
    BY DEF StoreInv, StoreOK
  <2>2. PICK r2 \in Candidates(k) : e2 = MemEntry(k, r2)
    BY DEF StoreInv, StoreOK
  <2>3. GetHash(k, r1) = GetHash(k, r2)
    BY <2>1, <2>2, KeyOfEntity DEF MemEntry
  <2> QED BY <2>1, <2>2, <2>3 DEF StoreInv, StoreOK, KeysUnique, MemEntry
<1> QED BY <1>1, InitStore, StepStore, PTL DEF Spec

(* Erasing the entries under a key on disk erases their decoded entries.   *)
LEMMA DecodeFilter ==
    ASSUME NEW k \in Kinds, NEW D, NEW M, StoreOK(k, D, M), NEW h
    PROVE  {Decode(k, e) : e \in {x \in D : x.key # h}} =
           {m \in {Decode(k, e) : e \in D} : m.key # h}
BY DecodeOnDisk

(* With labels within the limit, every record on disk reads back, so a    *)
(* load decodes all of them.                                               *)
LEMMA LoadAll ==
    ASSUME LabelBound, NEW k \in Kinds, NEW D, NEW M, StoreOK(k, D, M)
    PROVE  /\ Readable(k, D) = D
           /\ LoadKind(k, D) = {Decode(k, e) : e \in D}
<1>1. Readable(k, D) = D
  <2> SUFFICES ASSUME NEW e \in D PROVE ~ReadFails(k, e.value)
    BY DEF Readable
  <2>1. PICK r \in Candidates(k) : e = Entry(k, r)
    BY DEF StoreOK
  <2> QED BY <2>1, EntryReadable
<1> QED BY <1>1 DEF LoadKind, Decode

(* Every step keeps the stores in memory equal to what their records on    *)
(* disk decode to while the wallet runs.                                   *)
LEMMA StepReload ==
    ASSUME LabelBound
    PROVE  ReloadInv /\ [Next]_vars => ReloadInv'
<1> SUFFICES ASSUME ReloadInv, [Next]_vars
             PROVE  running' => \A k \in Kinds :
                                  mem'[k] = {Decode(k, e) : e \in db'[k]}
  BY StepStore DEF ReloadInv
<1>1. CASE \E k \in Kinds : \E r \in Candidates(k) : AddEntry(k, r)
  <2>0. PICK k \in Kinds : \E r \in Candidates(k) : AddEntry(k, r)
    BY <1>1
  <2>1. PICK r \in Candidates(k) : AddEntry(k, r)
    BY <2>0
  <2> DEFINE h == GetHash(k, r)
  <2>2. db'[k] = {e \in db[k] : e.key # h} \cup {Entry(k, r)}
        /\ mem'[k] = {e \in mem[k] : e.key # h} \cup {MemEntry(k, r)}
    BY <2>1 DEF AddEntry, ReloadInv, StoreInv, Entry, MemEntry
  <2>3. {Decode(k, e) : e \in {x \in db[k] : x.key # h}} =
        {m \in {Decode(k, e) : e \in db[k]} : m.key # h}
    BY DecodeFilter DEF ReloadInv, StoreInv
  <2>4. mem'[k] = {Decode(k, e) : e \in db'[k]}
    <3>1. mem[k] = {Decode(k, e) : e \in db[k]}
      BY <2>1 DEF AddEntry, ReloadInv
    <3>2. Decode(k, Entry(k, r)) = MemEntry(k, r)
      BY DecodeEntry
    <3>3. {Decode(k, e) : e \in db'[k]} =
          {Decode(k, e) : e \in {x \in db[k] : x.key # h}} \cup
          {Decode(k, Entry(k, r))}
      BY <2>2
    <3> QED BY <2>2, <2>3, <3>1, <3>2, <3>3
  <2>5. \A j \in Kinds \ {k} : db'[j] = db[j] /\ mem'[j] = mem[j]
    BY <2>1 DEF AddEntry, ReloadInv, StoreInv
  <2>6. running' = running
    BY <2>1 DEF AddEntry
  <2> SUFFICES ASSUME running', NEW j \in Kinds
               PROVE  mem'[j] = {Decode(j, e) : e \in db'[j]}
    OBVIOUS
  <2>7. CASE j = k
    BY <2>4, <2>7
  <2>8. CASE j # k
    BY <2>5, <2>6, <2>8 DEF ReloadInv
  <2> QED BY <2>7, <2>8
<1>2. CASE \E k \in Kinds : \E e \in mem[k] : RemoveEntry(k, e.key)
  <2>0. PICK k \in Kinds : \E e \in mem[k] : RemoveEntry(k, e.key)
    BY <1>2
  <2>1. PICK x \in mem[k] : RemoveEntry(k, x.key)
    BY <2>0
  <2>2. db'[k] = {e \in db[k] : e.key # x.key}
        /\ mem'[k] = {e \in mem[k] : e.key # x.key}
    BY <2>1 DEF RemoveEntry, ReloadInv, StoreInv
  <2>3. {Decode(k, e) : e \in {y \in db[k] : y.key # x.key}} =
        {m \in {Decode(k, e) : e \in db[k]} : m.key # x.key}
    BY DecodeFilter DEF ReloadInv, StoreInv
  <2>4. mem'[k] = {Decode(k, e) : e \in db'[k]}
    BY <2>1, <2>2, <2>3 DEF RemoveEntry, ReloadInv
  <2>5. \A j \in Kinds \ {k} : db'[j] = db[j] /\ mem'[j] = mem[j]
    BY <2>1 DEF RemoveEntry, ReloadInv, StoreInv
  <2> QED BY <2>1, <2>4, <2>5 DEF RemoveEntry, ReloadInv
<1>3. CASE Shutdown
  BY <1>3 DEF Shutdown
<1>4. CASE Load
  BY <1>4, LoadAll DEF Load, ReloadInv, StoreInv
<1>5. CASE \E key \in UserKeys, v \in Vals : SetMapValue(key, v)
  BY <1>5 DEF SetMapValue, ReloadInv
<1>6. CASE \E p \in 0..MaxOrderPos : ReorderTransactions(p)
  BY <1>6 DEF ReorderTransactions, ReloadInv
<1>7. CASE UNCHANGED vars
  BY <1>7 DEF vars, ReloadInv
<1> QED BY <1>1, <1>2, <1>3, <1>4, <1>5, <1>6, <1>7 DEF Next

(* With every label the user gives within LIMITED_STRING's limit, for     *)
(* every set of identities, heights and fees: while the wallet runs, every *)
(* token, transfer, delegation and super-staker record on disk reads back, *)
(* and LoadWallet, keying each record by its own GetHash, rebuilds exactly *)
(* the stores in memory.                                                    *)
THEOREM StoredRecordsReloadInvariant ==
    ASSUME LabelBound
    PROVE  Spec => []StoredRecordsReload
<1>1. Init => ReloadInv
  BY InitStore DEF Init, ReloadInv
<1>2. ReloadInv /\ [Next]_vars => ReloadInv'
  BY StepReload
<1>3. ReloadInv => StoredRecordsReload
  BY LoadAll DEF ReloadInv, StoreInv, StoredRecordsReload
<1> QED BY <1>1, <1>2, <1>3, PTL DEF Spec

(* The inductive invariant behind TypeOK.                                  *)
TypeInv ==
    /\ StoreInv
    /\ MetaInv
    /\ wtxRecord \in DiskMaps
    /\ running \in BOOLEAN
    /\ loadResult \in {"ok", "noncritical"}

(* Every step keeps the record on disk one of the maps a wallet file can   *)
(* hold: each write of the metadata writes SerializeMeta of metadata the   *)
(* code can hold.                                                          *)
LEMMA StepType == TypeInv /\ [Next]_vars => TypeInv'
<1> SUFFICES ASSUME TypeInv, [Next]_vars
             PROVE  /\ wtxRecord' \in DiskMaps
                    /\ running' \in BOOLEAN
                    /\ loadResult' \in {"ok", "noncritical"}
  BY StepStore, StepMeta DEF TypeInv
<1>1. MetaInv'
  BY StepMeta DEF TypeInv
<1>2. CASE \E key \in UserKeys, v \in Vals : SetMapValue(key, v)
  BY <1>1, <1>2 DEF SetMapValue, MetaInv, DiskMaps, TypeInv
<1>3. CASE \E p \in 0..MaxOrderPos : ReorderTransactions(p)
  BY <1>1, <1>3 DEF ReorderTransactions, MetaInv, DiskMaps, TypeInv
<1>4. CASE \E k \in Kinds : \E r \in Candidates(k) : AddEntry(k, r)
  BY <1>4 DEF AddEntry, TypeInv
<1>5. CASE \E k \in Kinds : \E e \in mem[k] : RemoveEntry(k, e.key)
  BY <1>5 DEF RemoveEntry, TypeInv
<1>6. CASE Shutdown
  BY <1>6 DEF Shutdown, TypeInv
<1>7. CASE Load
  BY <1>7 DEF Load, TypeInv
<1>8. CASE UNCHANGED vars
  BY <1>8 DEF vars, TypeInv
<1> QED BY <1>2, <1>3, <1>4, <1>5, <1>6, <1>7, <1>8 DEF Next

(* For every value of the constants, the stores hold only records the     *)
(* wallet was asked to add, keyed by their hash, and the transaction       *)
(* metadata in memory and on disk is of the types the code gives them.     *)
THEOREM TypeCorrect == Spec => []TypeOK
<1>1. Init => TypeInv
  BY InitStore, InitMeta DEF Init, TypeInv
<1>2. TypeInv /\ [Next]_vars => TypeInv'
  BY StepType
<1>3. TypeInv => TypeOK
  <2> SUFFICES ASSUME TypeInv, NEW k \in Kinds
               PROVE  /\ mem[k] \subseteq [key : Keys, rec : Candidates(k)]
                      /\ db[k] \subseteq
                           [key : Keys,
                            value : {Serialize(k, r, FALSE) : r \in Candidates(k)}]
    BY DEF TypeInv, TypeOK, MetaInv
  <2>1. \A r \in Candidates(k) : GetHash(k, r) \in Keys
    BY DEF Keys
  <2>2. mem[k] \subseteq {MemEntry(k, r) : r \in Candidates(k)}
        /\ db[k] \subseteq {Entry(k, r) : r \in Candidates(k)}
    BY DEF TypeInv, StoreInv, StoreOK
  <2>3. mem[k] \subseteq [key : Keys, rec : Candidates(k)]
    BY <2>1, <2>2 DEF MemEntry
  <2>4. db[k] \subseteq
          [key : Keys, value : {Serialize(k, r, FALSE) : r \in Candidates(k)}]
    <3> SUFFICES ASSUME NEW r \in Candidates(k)
                 PROVE  Entry(k, r) \in
                          [key : Keys,
                           value : {Serialize(k, x, FALSE) : x \in Candidates(k)}]
      BY <2>2
    <3>1. Serialize(k, r, FALSE) \in
            {Serialize(k, x, FALSE) : x \in Candidates(k)}
      OBVIOUS
    <3> QED BY <2>1, <3>1 DEF Entry
  <2> QED BY <2>3, <2>4
<1> QED BY <1>1, <1>2, <1>3, PTL DEF Spec

=============================================================================
