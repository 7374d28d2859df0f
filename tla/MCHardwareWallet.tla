-------------------------- MODULE MCHardwareWallet ---------------------------
(* A small instance of HardwareWallet: two import requests, two devices.   *)
EXTENDS HardwareWallet

CONSTANTS r1, r2, d1, d2, none

MCRequests == {r1, r2}
MCFingerprints == {d1, d2}

(* Two choices of keys to import: all three kinds, or PKH alone.  The     *)
(* paths and the other subsets behave alike in checkHardwareWallet.       *)
MCParams ==
    [id : MCRequests, rescan : BOOLEAN,
     import : {[k \in Kinds |-> TRUE], [k \in Kinds |-> k = "PKH"]}]
=============================================================================
