------------------------- MODULE MCWalletModelSync -------------------------
(* Small instances of WalletModelSync for TLC.  Each run varies only the *)
(* wallet data its property is about; the rest is a single value.        *)
EXTENDS WalletModelSync

TwoValues == {0, 1}
OneValue == {0}

=============================================================================
