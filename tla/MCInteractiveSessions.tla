----------------------- MODULE MCInteractiveSessions -----------------------
(***************************************************************************)
(* A small instance of InteractiveSessions: a viewer that asks for two     *)
(* sessions where one is allowed, and a module that connects twice.        *)
(***************************************************************************)
EXTENDS InteractiveSessions

CONSTANTS a, b, v

MCViewerOf == [s \in {a, b} |-> v]

\* Bound: two writes at a time, and an answer to the viewer alone: it changes nothing
\* else, and which session it is about does not matter.
FewWrites ==
    /\ Cardinality(writing) <= 2
    /\ \A w \in writing : w.by = "send" => w.s = a /\ writing = {w}
=============================================================================
