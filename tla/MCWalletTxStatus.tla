-------------------------- MODULE MCWalletTxStatus ---------------------------
(* Three blocks, so that a reorg can replace a block by another and bring *)
(* it back; symmetric in the block names.                                  *)
EXTENDS WalletTxStatus, TLC

CONSTANTS b1, b2, b3

MCBlocks == {b1, b2, b3}

MCSymmetry == Permutations(MCBlocks)
====
