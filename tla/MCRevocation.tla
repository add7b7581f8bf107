---------------------------- MODULE MCRevocation ----------------------------
(***************************************************************************)
(* Small instances of Revocation for TLC: two connections of one world on  *)
(* the first instance, and one revocation.                                 *)
(***************************************************************************)
EXTENDS Revocation

CONSTANTS n1, n2, w1, k1, h1, t1, t2

Req(t) == [inst |-> n1, id |-> w1, key |-> k1, host |-> h1, tok |-> t]

\* A browser that reconnects, with the world's token.
OneToken == {Req(t1)}

\* Two browsers of one host, each with its own token.
TwoTokens == {Req(t1), Req(t2)}
=============================================================================
