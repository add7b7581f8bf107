----------------------------- MODULE MCAccounts -----------------------------
(***************************************************************************)
(* Small instances of AdminRuns, with the account, its billing and the     *)
(* admin's sessions under it: every load lets a few actors take part.      *)
(***************************************************************************)
EXTENDS AdminRuns, TLC

CONSTANTS e1, e2, e3

MCEventOf ==
    e1 :> [type |-> "updated", sub |-> "s1", status |-> "active"]
    @@ e2 :> [type |-> "payment_failed", sub |-> "s1", status |-> "none"]
    @@ e3 :> [type |-> "deleted", sub |-> "s1", status |-> "none"]

NoLoad == [kinds |-> {}, jobs |-> 0, calls |-> 0, events |-> 0, months |-> 0,
           attempts |-> 0, tokens |-> 0, runs |-> 0, lines |-> 0, saves |-> 0]

MCLoads == {
    \* any two handlers that rewrite the account
    [NoLoad EXCEPT !.jobs = 2, !.kinds = OwnerKinds \cup AdminKinds \cup {"disable", "expel"}],
    \* three of those that most often meet
    [NoLoad EXCEPT !.jobs = 3, !.kinds = {"change", "disable", "force"}],
    \* logins around a rotation
    [NoLoad EXCEPT !.jobs = 3, !.kinds = {"login", "regenerate"}],
    \* password resets
    [NoLoad EXCEPT !.jobs = 3, !.kinds = {"forgot", "reset"}],
    \* API calls around what should end them
    [NoLoad EXCEPT !.jobs = 1, !.calls = 2,
                   !.kinds = Clearing \cup {"unverify", "disable", "expel", "keys", "expiry", "patch"}],
    \* a checkout from a cached row
    [NoLoad EXCEPT !.jobs = 2, !.calls = 1, !.kinds = {"keys", "checkout", "disable", "force"}],
    \* counting, with a handler that rewrites the row
    [NoLoad EXCEPT !.jobs = 1, !.calls = 2, !.months = 1, !.kinds = {"keys", "change"}],
    \* webhooks
    [NoLoad EXCEPT !.jobs = 3, !.events = 2, !.kinds = {"event", "change"}],
    \* the admin's browser
    [NoLoad EXCEPT !.attempts = 3, !.tokens = 1],
    [NoLoad EXCEPT !.attempts = 2, !.tokens = 2],
    [NoLoad EXCEPT !.attempts = 1, !.tokens = 3],
    \* what the admin runs and edits
    [NoLoad EXCEPT !.runs = 1, !.lines = 2],
    [NoLoad EXCEPT !.runs = 2],
    [NoLoad EXCEPT !.saves = 2]}

\* Of saves under way at once, and of those after one that changed more than was
\* asked, those that post one value and read the file.
FewOdd ==
    met \/ odd # {} => \A p \in Saving :
        /\ saver[p].odd = {}
        /\ \A v \in Versions : saver[p].wants.urls[v] \in {Absent, "a"}

=============================================================================
