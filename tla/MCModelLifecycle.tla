--------------------------- MODULE MCModelLifecycle --------------------------
(* A small instance of ModelLifecycle: two core threads.                   *)
EXTENDS ModelLifecycle

CONSTANTS n1, n2

MCThreads == {n1, n2}
=============================================================================
