----------------------------- MODULE MCHeadless -----------------------------
(***************************************************************************)
(* Small instances of Headless for TLC: all worlds are of one account.     *)
(***************************************************************************)
EXTENDS Headless

CONSTANTS k1

OneAccount == [w \in Worlds |-> k1]
=============================================================================
