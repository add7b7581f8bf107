------------------------------ MODULE MCTunnel ------------------------------
(* Instances of Tunnel for TLC.  Each load bounds what occurs in a behaviour. *)
EXTENDS Tunnel

CONSTANTS src, a, b, t1, k1, s1, c1

MCWorlds == {src, a, b}
MCTopics == {[event |-> "execute-js", world |-> a, key |-> k1],
             [event |-> "execute-js", world |-> b, key |-> NoKey],
             [event |-> "duplicate-connection-rejected", world |-> b, key |-> NoKey]}
Open(targets, limit) ==
    [known |-> TRUE, made |-> 0, targets |-> targets, scopes |-> {s1}, limit |-> limit, auto |-> TRUE, cred |-> c1]
Rows(targets, limit) == [w \in MCWorlds |-> IF w = src THEN Open(targets, limit) ELSE Open({}, 0)]
Nothing == [rows |-> Rows({a}, 0), presence |-> "here", requests |-> 0, jobs |-> 0, edits |-> {},
            movers |-> {}, notices |-> 0, asked |-> {}, puts |-> 0, alerts |-> FALSE, debounce |-> {FALSE}]
MCLoads == {
    \* two requests against a limit of one in the hour, while the token may be deleted
    [Nothing EXCEPT !.rows = Rows({a}, 1), !.requests = 2, !.edits = {"token"}],
    \* two requests for a world elsewhere
    [Nothing EXCEPT !.rows = Rows({Every}, 0), !.presence = "elsewhere", !.requests = 2],
    \* two requests for a world to be started, whose settings change
    [Nothing EXCEPT !.presence = "off", !.requests = 2, !.edits = {"auto"}, !.movers = {a}],
    \* a request while one handler changes the source's reach, or two patches do
    [Nothing EXCEPT !.rows = Rows({a, b}, 0), !.requests = 1, !.edits = {"patch", "delete", "approve"}, !.jobs = 1],
    [Nothing EXCEPT !.rows = Rows({a, b}, 0), !.requests = 1, !.edits = {"patch"}, !.jobs = 2],
    \* two handlers of any kind, with a world that comes back
    [Nothing EXCEPT !.rows = Rows({a, b}, 0), !.edits = {"patch", "delete", "approve"}, !.jobs = 2, !.movers = {b}],
    \* notifications while their settings change
    [Nothing EXCEPT !.notices = 2, !.asked = {"execute-js"}, !.puts = 1, !.debounce = {TRUE}],
    \* alerts
    [Nothing EXCEPT !.alerts = TRUE]}
=============================================================================
