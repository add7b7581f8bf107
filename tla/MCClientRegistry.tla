-------------------------- MODULE MCClientRegistry --------------------------
(***************************************************************************)
(* Small instances of ClientRegistry for TLC.                              *)
(***************************************************************************)
EXTENDS ClientRegistry, TLC

CONSTANTS n1, w1, k1, k2, h1, h2, t1, t2

Req(k, h, t) == [inst |-> n1, id |-> w1, key |-> k, host |-> h, tok |-> t]

\* Connections of one world: a browser that reconnects, another browser of the
\* same host whose token belongs to another account, and another host.
OneWorld == {Req(k1, h1, t1), Req(k2, h1, t2), Req(k1, h2, t1)}

\* Three connections take part when they come from one host, no caller other than
\* the cleanup loop removes by client ID and none was lost that way, two otherwise;
\* while such a caller is at work no disconnect command is.
FewAtOnce ==
    LET removing == \E n \in Instances : ending[n] # Idle IN
    /\ (Cardinality({req[c].host : c \in Conns}) > 1 \/ removing \/ lost # {})
         => Cardinality({c \in Conns : phase[c] # "dialing"}) <= 2
    /\ removing => closing = {}

ConnSymmetry == Permutations(Conns)
=============================================================================
