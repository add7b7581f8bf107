---------------------------- MODULE Notifications ----------------------------
(***************************************************************************)
(* What an account's owner and the operator are told                       *)
(* (service/notification_batcher.go, service/notification_dispatcher.go,   *)
(* handler/connection_tokens.go, alerts/alerts.go).                        *)
(*                                                                         *)
(* Cross-world requests are counted in a batch per source token and target *)
(* and told in one summary when the batch's timer fires.  A notification   *)
(* passes the account's debounce window and goes to the destinations of    *)
(* the account, the scoped key and the world.  Dispatch runs in a          *)
(* goroutine of its own for every notification.  Alerts are tracked        *)
(* against a threshold; their clock is a number of ticks.                  *)
(*                                                                         *)
(* The lengths of the batch and debounce windows are not modelled: each    *)
(* may end at any time.  RemoteRequestBatcher.Shutdown has no caller and   *)
(* has no action: the batches of a process that stops are lost.            *)
(***************************************************************************)
EXTENDS Integers, FiniteSets, FiniteSetsExt

CONSTANTS
    Tokens,    \* connection tokens that cross-world requests come with
    Worlds,    \* client ids of the account's worlds
    ApiKeys,   \* scoped keys
    Notices,   \* notifications, numbered as they are dispatched
    Topics,    \* what is told apart from summaries: records [event, world, key]
    NoKey,     \* ApiKeyID 0
    Threshold, Window, Cooldown,  \* of one alert key (alerts.Track)
    MaxTime,   \* bound: ticks of the alerts' clock
    Loads      \* bounds: what occurs in one behaviour

ASSUME NotificationsAssumption ==
    /\ Notices \subseteq Nat /\ IsFiniteSet(Tokens) /\ IsFiniteSet(Worlds)
    /\ Threshold \in Nat \ {0} /\ {Window, Cooldown, MaxTime} \subseteq Nat
    /\ \A t \in Topics : t.world \in Worlds /\ t.key \in ApiKeys \cup {NoKey}

VARIABLES
    load,      \* the load of this behaviour
    asked,     \* the three tables of settings: events that each destination is told
    debounce,  \* NotificationDebounceWindowSecs > 0, in the account's row
    puts,      \* how often settings were put
    batch,     \* RemoteRequestBatcher.pending: how many, by token and target
    notice,    \* runs of Dispatch
    recent,    \* Dispatcher.debounce: topics stored within the window
    passed,    \* history: notices that the current window let through
    resettled, \* history: topics whose account's settings changed within the window, or
               \* after a notice that can still open one had read them
    overlapped, \* history: notices that looked while another had not stored yet
    heard,     \* history: notices and the destinations they were sent to
    unasked,   \* history: notices and destinations that did not ask for them since they began
    lost,      \* history: suppressed notices of which nobody else was, or will be, heard
    counted,   \* history: requests added to a batch
    told,      \* history: requests in summaries that were dispatched in full
    silenced,  \* history: requests in summaries that the window suppressed
    now,       \* the clock of the alerts
    tracker,   \* trackerEntry: count, windowEnd, lastFired
    hits,      \* history: calls of Track at each tick
    firings    \* history: when Track returned true, and how many calls it had seen

settingsVars == <<asked, debounce, puts>>
hearing == <<heard, lost>>
sums == <<told, silenced>>
noticeVars == <<notice, recent, passed, resettled, overlapped, unasked, hearing, sums>>
batchVars == <<batch, counted>>
alertVars == <<now, tracker, hits, firings>>
noteVars == <<load, settingsVars, noticeVars, batchVars, alertVars>>

Summary == "remote-request"
\* Told whatever the account's toggles say.
AlwaysOn == {"duplicate-connection-rejected"}
Events == {t.event : t \in Topics} \cup {Summary}
Account == <<"account", NoKey>>
Destinations == {Account} \cup ({"key"} \X ApiKeys) \cup ({"world"} \X Worlds)
\* The toggles that each table has.
Offers(d) ==
    CASE d[1] = "account" -> Events \ AlwaysOn
      [] d[1] = "key" -> Events \cap {"execute-js", "macro-execute", "rate-limit", "error"}
      [] OTHER -> Events \cap {"connect", "disconnect", "execute-js", "macro-execute"}

Pairs == Tokens \X Worlds
NoNotice == [at |-> "new", event |-> Summary, world |-> CHOOSE w \in Worlds : TRUE,
             key |-> NoKey, count |-> 0, wanted |-> FALSE]
Gone == [NoNotice EXCEPT !.at = "done"]
Never == -1 - Cooldown  \* the zero time

\* The notices that were dispatched.
Begun == {n \in Notices : notice[n].at # "new"}

\* f summed over a finite set.
SumOver(S, f) == MapThenSumSet(LAMBDA x : f[x], S)

NoteTypeOK ==
    /\ \A d \in Destinations : asked[d] \subseteq Offers(d)
    /\ debounce \in BOOLEAN /\ batch \in [Pairs -> Nat]
    /\ \A n \in Notices : notice[n].at \in {"new", "begun", "loaded", "account", "key", "world", "done"}
    /\ recent \cup resettled \subseteq Events \X Worlds
    /\ overlapped \cup lost \subseteq Notices
    /\ passed \in [Events \X Worlds -> SUBSET Notices]
    /\ heard \cup unasked \subseteq Notices \X Destinations
    /\ {counted, told, silenced} \subseteq Nat
    /\ now \in 0..MaxTime /\ tracker.count \in Nat

NoteInit ==
    /\ load \in Loads
    /\ asked = [d \in Destinations |-> Offers(d) \cap load.asked]
    /\ debounce \in load.debounce /\ puts = 0
    /\ batch = [p \in Pairs |-> 0]
    /\ notice = [n \in Notices |-> NoNotice]
    /\ recent = {} /\ resettled = {} /\ overlapped = {} /\ lost = {}
    /\ heard = {} /\ unasked = {}
    /\ passed = [x \in Events \X Worlds |-> {}]
    /\ counted = 0 /\ told = 0 /\ silenced = 0
    /\ now = 0
    /\ tracker = [count |-> 0, windowEnd |-> Never, lastFired |-> Never]
    /\ hits = [t \in 0..MaxTime |-> 0]
    /\ firings = {}

----------------------------------------------------------------------------
(* RemoteRequestBatcher.                                                   *)

\* Add: the first request of a pair opens the batch and starts its timer.
Added(t, w) ==
    /\ batch' = [batch EXCEPT ![<<t, w>>] = @ + 1]
    /\ counted' = counted + 1

\* Ids are given in order.
First(n, unused) == n \in unused /\ \A m \in unused : n <= m

\* What a destination wants of a notice: the destinations of the notice's key and
\* world are the only ones of their kind.
Wants(d, event) == event \in asked[d] \cup (IF d = Account THEN AlwaysOn ELSE {})

Begin(n, event, world, key, count) ==
    /\ First(n, {m \in Notices : notice[m].at = "new"})
    /\ notice' = [notice EXCEPT ![n] =
            [at |-> "begun", event |-> event, world |-> world, key |-> key,
             count |-> count, wanted |-> FALSE]]
    /\ unasked' = unasked \cup
            ({n} \X {d \in Destinations : ~Wants(d, event) \/ d \notin {Account, <<"key", key>>, <<"world", world>>}})
    /\ UNCHANGED <<recent, passed, resettled, overlapped, hearing, sums>>

\* What a summary tells of a batch: all of it, the entry being removed under
\* the same lock.
Taken(t, w) == batch[<<t, w>>]

\* The timer fires: flush removes the batch and dispatches its summary.
Flush(n, t, w) ==
    /\ batch[<<t, w>>] > 0
    /\ Begin(n, Summary, w, NoKey, Taken(t, w))
    /\ batch' = [batch EXCEPT ![<<t, w>>] = 0]
    /\ UNCHANGED <<load, settingsVars, counted, alertVars>>

----------------------------------------------------------------------------
(* Dispatcher.                                                             *)

\* A handler dispatches: a client connected or left, execute-js, a mismatch.
Notify(n, topic) ==
    /\ Cardinality(Begun) < load.notices
    /\ Begin(n, topic.event, topic.world, topic.key, 0)
    /\ UNCHANGED <<load, settingsVars, batchVars, alertVars>>

Topic(n) == <<notice[n].event, notice[n].world>>
Looking(x) == {n \in Notices : notice[n].at = "loaded" /\ Topic(n) = x}
Goto(n, at) == notice' = [notice EXCEPT ![n].at = at]

accountEventEnabled(event) == event \in asked[Account] \cup AlwaysOn
worldEventEnabled(w, event) == event \in asked[<<"world", w>>]
keyEventEnabled(k, event) == k # NoKey /\ event \in asked[<<"key", k>>]

\* Mutant: the debounce key leaves out the client, and is stored with it.
DebouncedByEvent(x) == \E y \in recent : y[1] = x[1] /\ y[2] # x[2]
Debounced(x) == x \in recent

\* The account's row is read, and the debounce map is asked (sync.Map.Load).
Look(n) ==
    /\ notice[n].at = "begun"
    /\ IF debounce /\ Debounced(Topic(n))
       THEN /\ notice' = [notice EXCEPT ![n] = Gone]
            /\ silenced' = silenced + notice[n].count
            /\ lost' = IF \/ ~Wants(Account, notice[n].event) \/ Topic(n) \in resettled
                          \/ \E m \in passed[Topic(n)] :
                                notice[m].wanted \/ <<m, Account>> \in heard
                       THEN lost ELSE lost \cup {n}
            /\ UNCHANGED overlapped
       ELSE /\ notice' = [notice EXCEPT ![n] =
                    [@ EXCEPT !.at = IF debounce THEN "loaded" ELSE "account",
                              !.wanted = accountEventEnabled(notice[n].event)]]
            /\ overlapped' = IF debounce /\ Looking(Topic(n)) # {}
                             THEN overlapped \cup {n} ELSE overlapped
            /\ UNCHANGED <<silenced, lost>>
    /\ UNCHANGED <<load, settingsVars, batchVars, recent, passed, resettled, unasked, heard, told, alertVars>>

\* The row cannot be read: no window is asked or opened, and the account is told
\* nothing.
LookFails(n) ==
    /\ notice[n].at = "begun"
    /\ Goto(n, "account")
    /\ UNCHANGED <<load, settingsVars, batchVars, recent, passed, resettled, overlapped, unasked,
                   hearing, sums, alertVars>>

\* Mutant: the time is not stored when nothing will be sent to the account.
StoredIfWanted(n) == IF notice[n].wanted THEN {Topic(n)} ELSE {}
\* sync.Map.Store, before anything is sent, and whether anything is.
Stored(n) == {Topic(n)}

Record(n) ==
    /\ notice[n].at = "loaded"
    /\ recent' = recent \cup Stored(n)
    /\ passed' = [passed EXCEPT ![Topic(n)] = @ \cup {n}]
    /\ Goto(n, "account")
    /\ UNCHANGED <<load, settingsVars, batchVars, resettled, overlapped, unasked, hearing, sums, alertVars>>

\* sendToDestination; a failed delivery is only logged.
Send(n, d, enabled) == heard' = IF enabled THEN heard \cup {<<n, d>>} ELSE heard

SendAccount(n) ==
    /\ notice[n].at = "account"
    /\ Send(n, Account, notice[n].wanted)
    /\ Goto(n, "key")
    /\ UNCHANGED <<load, settingsVars, batchVars, recent, passed, resettled, overlapped, unasked, lost, sums, alertVars>>

SendKey(n) ==
    /\ notice[n].at = "key"
    /\ \E readable \in BOOLEAN : LET k == notice[n].key IN
        Send(n, <<"key", k>>, readable /\ keyEventEnabled(k, notice[n].event))
    /\ Goto(n, "world")
    /\ UNCHANGED <<load, settingsVars, batchVars, recent, passed, resettled, overlapped, unasked, lost, sums, alertVars>>

\* The last destination; then Dispatch returns.
SendWorld(n) ==
    /\ notice[n].at = "world"
    /\ \E readable \in BOOLEAN : LET w == notice[n].world IN
        Send(n, <<"world", w>>, readable /\ worldEventEnabled(w, notice[n].event))
    /\ notice' = [notice EXCEPT ![n] = Gone]
    /\ told' = told + notice[n].count
    /\ UNCHANGED <<load, settingsVars, batchVars, recent, passed, resettled, overlapped, unasked, lost, silenced, alertVars>>

\* The debounce window of a topic ends.
WindowEnds(x) ==
    /\ x \in recent
    /\ recent' = recent \ {x}
    /\ resettled' = IF Looking(x) = {} THEN resettled \ {x} ELSE resettled
    /\ passed' = [passed EXCEPT ![x] = {}]
    /\ UNCHANGED <<load, settingsVars, batchVars, notice, overlapped, unasked, hearing, sums, alertVars>>

----------------------------------------------------------------------------
(* The settings' handlers, behind SessionOnlyMiddleware.                   *)

\* The row is inserted or replaced.
Upserted(d, events) ==
    /\ puts < load.puts /\ puts' = puts + 1
    /\ asked' = [asked EXCEPT ![d] = events]
    /\ unasked' = {x \in unasked : x[2] # d \/ notice[x[1]].event \notin events}
    /\ UNCHANGED <<load, batchVars, notice, recent, passed, overlapped, hearing, sums, alertVars>>

\* PUT /auth/notification-settings: what the body leaves out goes back to its default.
PutAccount(events, window) ==
    /\ Upserted(Account, events)
    /\ debounce' = window
    /\ resettled' = resettled \cup recent \cup {x \in Events \X Worlds : Looking(x) # {}}

\* PUT /auth/api-keys/{id}/notification-settings; DELETE leaves no row.
PutKey(k, events) == Upserted(<<"key", k>>, events) /\ UNCHANGED <<debounce, resettled>>

\* PUT /auth/known-clients/{id}/notification-settings; DELETE leaves no row.
PutWorld(w, events) == Upserted(<<"world", w>>, events) /\ UNCHANGED <<debounce, resettled>>

----------------------------------------------------------------------------
(* alerts.Track, for one key.                                              *)

\* A window that has ended begins anew with this call.
Count(time) == (IF time > tracker.windowEnd THEN 0 ELSE tracker.count) + 1

Track ==
    /\ load.alerts /\ hits[now] <= Threshold
    /\ LET fires == Count(now) >= Threshold /\ now > tracker.lastFired + Cooldown IN
        /\ tracker' = [count |-> Count(now),
                       windowEnd |-> IF now > tracker.windowEnd THEN now + Window ELSE tracker.windowEnd,
                       lastFired |-> IF fires THEN now ELSE tracker.lastFired]
        /\ firings' = IF fires
                      THEN firings \cup
                        {[at |-> now, seen |-> 1 + SumOver({t \in 0..now : t + Window >= now}, hits)]}
                      ELSE firings
    /\ hits' = [hits EXCEPT ![now] = @ + 1]
    /\ UNCHANGED <<load, settingsVars, noticeVars, batchVars, now>>

Tick ==
    /\ load.alerts /\ now < MaxTime
    /\ now' = now + 1
    /\ UNCHANGED <<load, settingsVars, noticeVars, batchVars, tracker, hits, firings>>

NoteNext ==
    \/ \E n \in Notices, t \in Tokens, w \in Worlds : Flush(n, t, w)
    \/ \E n \in Notices, topic \in Topics : Notify(n, topic)
    \/ \E n \in Notices : Look(n) \/ LookFails(n) \/ Record(n) \/ SendAccount(n) \/ SendKey(n) \/ SendWorld(n)
    \/ \E x \in recent : WindowEnds(x)
    \/ \E window \in BOOLEAN : \E events \in {{}, Offers(Account)} : PutAccount(events, window)
    \/ \E k \in ApiKeys : \E events \in {{}, Offers(<<"key", k>>)} : PutKey(k, events)
    \/ \E w \in Worlds : \E events \in {{}, Offers(<<"world", w>>)} : PutWorld(w, events)
    \/ Track \/ Tick

----------------------------------------------------------------------------

\* "Record send time before dispatching so concurrent calls are also suppressed":
\* within one window, a second notification of a topic goes out only if it looked
\* while another had looked and not stored yet (Load and Store are two steps).
DebounceHolds ==
    \A x \in Events \X Worlds : \A m, n \in passed[x] : m # n => {m, n} \cap overlapped # {}

\* What an account asked for is told, and nothing else: a notification is
\* suppressed only if one of the same window was, or is about to be, sent to the
\* account (or the account's settings changed in between), and none reaches a
\* destination that had turned its event off when it began and not on since.  (One
\* that cannot read the account's settings is not suppressed, nor told to it.)
OwnersHearWhatTheyAsk == lost = {} /\ heard \cap unasked = {}

\* An alert fires only after Threshold calls within its window, and then not
\* again within the cooldown.
AlertsAreEarned ==
    /\ \A f \in firings : f.seen >= Threshold
    /\ \A f, g \in firings : f # g => f.at > g.at + Cooldown \/ g.at > f.at + Cooldown
=============================================================================
