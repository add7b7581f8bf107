---------------------------- MODULE MCDirectory ----------------------------
(***************************************************************************)
(* A small instance of Directory: one world that connects up to three      *)
(* times, two instances, one request, and up to two crashes, failed calls  *)
(* or writes of others.                                                    *)
(***************************************************************************)
EXTENDS Directory, TLC

CONSTANT c1

MCLoads == {[conns |-> 3, requests |-> 0, upsets |-> 1],
            [conns |-> 2, requests |-> 1, upsets |-> 1],
            [conns |-> 2, requests |-> 0, upsets |-> 2]}
\* Forwarding or not makes a difference only where requests are made.
ForwardsIfAsked == load.requests = 0 => forwards = redis
MCWorldOf == [k \in Conns |-> c1]
Alike == Permutations(Conns) \cup Permutations(Hosts)
=============================================================================
