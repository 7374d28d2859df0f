---------------------------- MODULE MCSendCoins ------------------------------
(* A small instance of SendCoins: three coins, two valid addresses and an *)
(* invalid one, two labels.                                                *)
EXTENDS SendCoins

CONSTANTS c1, c2, c3, a1, a2, bad, l1, l2, noEntry

MCCoins == {c1, c2, c3}
MCValid == {a1, a2}
MCAddresses == {a1, a2, bad}
MCLabels == {l1, l2}
=============================================================================
