------------------------- MODULE MCPendingRequests -------------------------
(***************************************************************************)
(* A small instance of PendingRequests for TLC, where a pair of callers    *)
(* takes part: two downloads over HTTP, which may fall into one            *)
(* millisecond; two requests of a WebSocket client with one slot; two      *)
(* callers of different kinds.                                             *)
(***************************************************************************)
EXTENDS PendingRequests

CONSTANTS h1, h2, s1, s2, r1

Groups == {{h1, h2}, {s1, s2}, {s1, r1}, {h1, s1}, {h1, r1}}

OneGroup == \E g \in Groups : \A c \in Callers \ g : pc[c] = "new"
=============================================================================
