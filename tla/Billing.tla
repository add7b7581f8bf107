------------------------------- MODULE Billing -------------------------------
(***************************************************************************)
(* The columns of the account that others than its owner write: the        *)
(* subscription, which Stripe's webhooks rewrite with the whole row        *)
(* (handler/stripe.go), and the requests of the month, counted in memory   *)
(* and added to the row every half second (internal/counter, cmd/server,   *)
(* middleware.TrackAPIUsage) until the monthly reset (internal/cron).      *)
(* One instance; Stripe delivers an event again until it is answered 200,  *)
(* and in any order.                                                       *)
(***************************************************************************)
EXTENDS Accounts

CONSTANTS
    Events,   \* webhook events
    EventOf,  \* what each of them says: its type, subscription and status
    Limit     \* MONTHLY_REQUEST_LIMIT, 0 for none

ASSUME BillingAssumption ==
    /\ Limit \in Nat /\ IsFiniteSet(Events)
    /\ \A e \in Events :
        /\ EventOf[e].type \in {"updated", "deleted", "paid", "payment_failed"}
        /\ EventOf[e].type = "updated" =>
            EventOf[e].status \in {"incomplete", "past_due", "canceled", "active"}

VARIABLES
    marked,    \* processedEvents
    answered,  \* events answered 200, not delivered again
    handled,   \* history: events whose handler succeeded
    again,     \* history: events handled twice
    failed,    \* history: events that a handler failed on
    forgotten, \* history: events whose mark was dropped
    pending,   \* RequestCounter.pending
    flying,    \* the counts that a flush has taken
    served,    \* history: API calls served
    closed,    \* history: calls of closed months
    lost,      \* history: calls whose count was lost
    rewritten, \* history: an Update wrote an old count back
    months     \* monthly resets so far

webhookVars == <<marked, answered, handled, again, failed, forgotten>>
countVars == <<pending, flying, served, closed, lost, rewritten, months>>
vars == <<adminVars, accountVars, webhookVars, countVars>>

TypeOK ==
    /\ AdminTypeOK
    /\ load \in Loads
    /\ row.password \in Jobs \cup {None} /\ row.hash \in Jobs \cup {None}
    /\ {row.verified, row.link, row.rotate, row.disabled} \subseteq BOOLEAN
    /\ row.status \in {"free", "incomplete", "past_due", "canceled", "active", "deleted"}
    /\ row.requests \in Nat
    /\ \A j \in Jobs :
        /\ job[j].at \in {"new", "read", "written", "cleared", "signedOut", "done"}
        /\ job[j].at \in {"new", "done"} => job[j].row = Deleted
    /\ sessions \subseteq Jobs \cup {None}
    /\ reset \in [Jobs -> {"none", "invalidated", "usable", "used"}]
    /\ key \in [Keys -> {"absent", "on", "off", "expired", "gone"}]
    /\ \A a \in Calls : call[a].at \in {"new", "found", "checked", "admitted", "served", "refused"}
    /\ torn \subseteq Columns /\ excused \subseteq Keys
    /\ void \cup late \subseteq Jobs \cup {None} /\ spent \cup twice \cup shared \subseteq Jobs
    /\ marked \cup answered \cup handled \cup again \cup failed \cup forgotten \subseteq Events
    /\ {pending, flying, served, closed, lost, months} \subseteq Nat /\ rewritten \in BOOLEAN

Init ==
    /\ AdminInit /\ AccountInit
    /\ marked = {} /\ answered = {} /\ handled = {} /\ again = {} /\ failed = {} /\ forgotten = {}
    /\ pending = 0 /\ flying = 0 /\ served = 0 /\ closed = 0 /\ lost = 0 /\ months = 0
    /\ rewritten = FALSE

----------------------------------------------------------------------------
(* Webhooks.                                                               *)

\* statusPriority; the priority of a status that the map does not have is -1 for
\* the current one (and 1 for a new one, which Stripe does not send here).
Priority == [incomplete |-> 0, past_due |-> 1, canceled |-> 2, active |-> 3]
CurrentPriority(status) == IF status \in DOMAIN Priority THEN Priority[status] ELSE -1

Handling == {j \in Jobs : job[j].at = "read" /\ job[j].kind = "event"}

\* Mutant: an event is not marked when it comes.
MarkNoEvent(e) == marked
\* markEventProcessed: before the handler runs, and whatever becomes of it.
MarkEventProcessed(e) == marked \cup {e}

\* POST /api/webhooks/stripe: a marked event is answered 200 at once; the others
\* are marked, and their handler finds the user by the customer id.
Webhook(j, e) ==
    /\ e \notin answered /\ Cardinality(marked \cup forgotten \cup {e}) <= load.events
    /\ \/ /\ e \in marked
          /\ answered' = answered \cup {e}
          /\ UNCHANGED <<marked, accountVars, adminVars>>
       \/ /\ e \notin marked /\ row # Deleted
          /\ marked' = MarkEventProcessed(e)
          /\ Begin(j, "event", row, e, "none")
          /\ UNCHANGED answered
    /\ UNCHANGED <<handled, again, failed, forgotten, countVars>>

\* What the handlers change in the row they read.  An update for the same
\* subscription does not lower the status by statusPriority; a deletion and a
\* failed payment set it whatever it was.
Billed(e, r) ==
    CASE EventOf[e].type = "updated" ->
            IF r.sub = EventOf[e].sub /\ Priority[EventOf[e].status] < CurrentPriority(r.status)
            THEN r
            ELSE [r EXCEPT !.status = EventOf[e].status, !.sub = EventOf[e].sub]
      [] EventOf[e].type = "deleted" -> [r EXCEPT !.status = "canceled"]
      [] EventOf[e].type = "payment_failed" -> [r EXCEPT !.status = "past_due"]
      [] OTHER -> r

Rewrites(r) == rewritten' = (rewritten \/ (row # Deleted /\ r.requests # row.requests))

\* The handler's Update, and 200.  A payment that succeeded is only logged.
EventHandled(j) ==
    /\ j \in Handling
    /\ LET e == job[j].of IN
        /\ handled' = handled \cup {e}
        /\ again' = IF e \in handled THEN again \cup {e} ELSE again
        /\ answered' = answered \cup {e}
        /\ IF EventOf[e].type = "paid" THEN UNCHANGED <<row, decisions, excused, rewritten>>
           ELSE /\ row' = Update(Billed(e, job[j].row))
                /\ Decided(j, {"status"})
                /\ ExcusesRow
                /\ Rewrites(job[j].row)
    /\ Step(j, "done")
    /\ UNCHANGED <<load, sessions, reset, key, cached, call, void, late, resets, adminVars,
                   marked, failed, forgotten, pending, flying, served, closed, lost, months>>

\* No user for the customer, or the statement fails: 500.
EventFails(j) ==
    /\ j \in Handling
    /\ failed' = failed \cup {job[j].of}
    /\ Step(j, "done")
    /\ UNCHANGED <<load, tables, cached, call, history, adminVars,
                   marked, answered, handled, again, forgotten, countVars>>

\* The marks are in the process's memory: a restart loses them, and so do 24 hours.
Forget ==
    /\ marked # {}
    /\ marked' = {} /\ forgotten' = forgotten \cup marked
    /\ UNCHANGED <<accountVars, adminVars, answered, handled, again, failed, countVars>>

----------------------------------------------------------------------------
(* Metering.                                                               *)

\* TrackAPIUsage: the limit is compared with what the (cached) row said.
Over(seen) == Limit > 0 /\ seen.status # "active" /\ seen.requests >= Limit

TrackAPIUsage(a) ==
    /\ call[a].at = "admitted"
    /\ \/ /\ Over(call[a].seen)
          /\ CallStep(a, Refused)
          /\ UNCHANGED <<pending, served>>
       \/ /\ ~Over(call[a].seen)
          /\ CallStep(a, [NoCall EXCEPT !.at = "served"])
          /\ pending' = pending + 1 /\ served' = served + 1
    /\ UNCHANGED <<load, tables, job, cached, history, adminVars, webhookVars,
                   flying, closed, lost, rewritten, months>>

\* RequestCounter.Flush, every 500 ms and at shutdown: the map is swapped under
\* the lock ...
TakeCounts ==
    /\ flying = 0 /\ pending > 0
    /\ flying' = pending /\ pending' = 0
    /\ UNCHANGED <<accountVars, adminVars, webhookVars, served, closed, lost, rewritten, months>>

\* Mutant: the map is emptied after the counts were written, not before.
EmptiedAfter == 0
\* What is left to count after a flush wrote what it had taken.
Uncounted == pending

\* ... and IncrementRequestsBy adds to the column, or fails and the counts are
\* gone; no row matches a deleted user.
AddCounts(stored) ==
    /\ flying > 0
    /\ flying' = 0 /\ pending' = Uncounted
    /\ IF stored /\ row # Deleted
       THEN row' = [row EXCEPT !.requests = @ + flying] /\ UNCHANGED lost
       ELSE lost' = lost + flying /\ UNCHANGED row
    /\ UNCHANGED <<load, sessions, reset, key, job, cached, call, history, adminVars, webhookVars,
                   served, closed, rewritten, months>>

\* runMonthlyReset (under a lock in Redis, on one instance): the column of every
\* user; counts not yet written go to the new month.
MonthlyReset ==
    /\ months < load.months
    /\ months' = months + 1
    /\ closed' = closed + row.requests
    /\ row' = [row EXCEPT !.requests = 0]
    /\ UNCHANGED <<load, sessions, reset, key, job, cached, call, history, adminVars, webhookVars,
                   pending, flying, served, lost, rewritten>>

----------------------------------------------------------------------------

\* The steps of Accounts; those that write the row write its counts back too.
AccountStep ==
    /\ AccountNext
    /\ rewritten' = (rewritten \/ (row' # Deleted /\ row'.requests # row.requests))
    /\ closed' = IF row' = Deleted THEN closed + row.requests ELSE closed
    /\ UNCHANGED <<webhookVars, pending, flying, served, lost, months>>

\* The admin's browser; where the load leaves it out, one request of an admin
\* stays inside RequireAdmin.
AdminStep ==
    /\ load.attempts > 0
    /\ AdminNext
    /\ Cardinality({a \in Attempts : attempt'[a] # "new"}) <= load.attempts
    /\ Cardinality({t \in Tokens : token'[t] # "unused"}) <= load.tokens
    /\ UNCHANGED <<accountVars, webhookVars, countVars>>

AdminIsIn ==
    /\ load.attempts = 0 /\ passing = {}
    /\ \E t \in Tokens : First(t, Tokens) /\ passing' = {t}
    /\ UNCHANGED <<trusted, token, rootOf, denied, aged, cookie, answers, signedOut, crossed,
                   lockVars, accountVars, webhookVars, countVars>>

Next ==
    \/ AccountStep \/ AdminStep \/ AdminIsIn
    \/ \E j \in Jobs, e \in Events : Webhook(j, e)
    \/ \E j \in Jobs : EventHandled(j) \/ EventFails(j)
    \/ Forget
    \/ \E a \in Calls : TrackAPIUsage(a)
    \/ TakeCounts \/ MonthlyReset
    \/ \E stored \in BOOLEAN : AddCounts(stored)

Spec == Init /\ [][Next]_vars

----------------------------------------------------------------------------

\* Every served call is in exactly one place: the month's column, a closed month,
\* the counter, a flush, or lost with a failed statement; unless an Update wrote
\* an older count over the column.
CallsAreAccounted ==
    ~rewritten => served = row.requests + closed + pending + flying + lost

\* Stripe's deliveries: an event changes the account twice only when its mark was
\* dropped in between, and is answered 200 only once handled, while it is being
\* handled, or after a failure.
EventsApplyOnce ==
    /\ again \subseteq forgotten
    /\ answered \subseteq handled \cup failed \cup {job[j].of : j \in Handling}

\* "Return 500 so Stripe will retry": an event that failed is handled by a
\* retry before it is answered 200.
RetriesAreHandled ==
    failed \cap answered \subseteq handled \cup {job[j].of : j \in Handling}
=============================================================================
