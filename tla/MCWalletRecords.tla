--------------------------- MODULE MCWalletRecords ----------------------------
(* One identity, one block height, labels of length 0 and 1 against a      *)
(* limit of 1, one fee, two decimals, two staker names (the empty one and *)
(* s), one user key of mapValue, order positions 0..1.                     *)
EXTENDS WalletRecords

CONSTANTS a, v, s, NullValue

MCIds == {a}
MCVals == {v}
MCStakerNames == {NullValue, s}
MCUserKeys == {"comment"}
=============================================================================
