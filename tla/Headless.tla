------------------------------ MODULE Headless ------------------------------
(***************************************************************************)
(* Headless browser sessions: the HeadlessManager of                       *)
(* internal/worker/headless.go, with what it touches of the registry: the  *)
(* mutex of ClientManager, under which OnClientRemoved is called           *)
(* (internal/ws/manager.go, wired in internal/server/server.go).           *)
(*                                                                         *)
(* A launch is one call of AutoStartForKnownClient (by a request whose     *)
(* world is offline; calls for one world share a launch) or of             *)
(* LaunchSession (POST /start-session).  It opens a tab, logs in, and      *)
(* polls the registry until the world has dialled the relay.               *)
(*                                                                         *)
(* A critical section of HeadlessManager.mu is one action, and so is one   *)
(* of ClientManager.mu, except the two in which the other mutex is taken.  *)
(* For those the holder is part of the state.                              *)
(***************************************************************************)
EXTENDS Integers, FiniteSets

CONSTANTS
    Launches,     \* calls of AutoStartForKnownClient and of LaunchSession
    Direct,       \* those of LaunchSession
    Worlds,       \* client IDs of Foundry worlds
    Keys,         \* accounts: (hashes of) master API keys
    KeyOf,        \* the account of each world
    MaxSessions,  \* MAX_HEADLESS_SESSIONS; 0 is no limit
    None

ASSUME KeyOfAssumption == KeyOf \in [Worlds -> Keys]
ASSUME MaxSessionsAssumption == MaxSessions \in Nat
ASSUME LaunchesAssumption ==
    Direct \subseteq Launches /\ Launches \cap Worlds = {} /\ None \notin Launches \cup Worlds

VARIABLES
    online,   \* worlds in ClientManager.clients
    cmu,      \* who holds ClientManager.mu inside a removal: an EndSession, or the
              \* read pump of a world
    hmu,      \* the launch that holds HeadlessManager.mu while it asks the registry
    at,       \* where it is
    world,    \* the client ID it is for, or found
    awaits,   \* the launchQueue a joined call waits for, named by its owner
    seen,     \* existingClients of a direct launch
    counted,  \* history: launches whose session had been stored when this one counted
    tab,      \* its browser context
    pending,  \* HeadlessManager.pending
    sessions, \* HeadlessManager.sessions: launch -> the client ID of its session
    ending,   \* how far EndSession got with the session of a launch
    launchQueues, \* world -> the launch that owns the slot
    result,   \* per launchQueue: open, or how it was closed
    cooldowns,    \* HeadlessManager.failureCooldowns
    global    \* the Redis set headless:global_sessions

lockVars == <<online, cmu, hmu>>
callVars == <<at, world, awaits, seen, counted>>
tabVars  == <<tab, pending, sessions, ending, global>>
slotVars == <<launchQueues, result, cooldowns>>
vars == <<lockVars, callVars, tabVars, slotVars>>

\* The stages between the tab and the verdict: in all of them the launch itself sees
\* to it that the tab is closed or gets its session.
WithTab == {"browsing", "loggedin", "polling", "found"}

\* The stages in which the owner of a slot of launchQueues has not resolved it.
Owning == {"owner", "sweeping", "checked", "opening", "established", "succeeding", "failing"}
             \cup WithTab

TypeOK ==
    /\ online \subseteq Worlds
    /\ cmu \in Launches \cup Worlds \cup {None}
    /\ hmu \in Launches \cup {None}
    /\ at \in [Launches -> Owning \cup {"new", "queued", "cleared", "joined", "cooling", "done"}]
    /\ world \in [Launches -> Worlds \cup {None}]
    /\ awaits \in [Launches -> Launches \cup {None}]
    /\ seen \in [Launches -> SUBSET Worlds]
    /\ counted \in [Launches -> SUBSET Launches]
    /\ tab \in [Launches -> {"none", "open", "closed"}]
    /\ pending \subseteq Launches
    /\ sessions \in [Launches -> Worlds \cup {None}]
    /\ ending \in [Launches -> {"no", "taken", "cancelled", "removed"}]
    /\ launchQueues \in [Worlds -> Launches \cup {None}]
    /\ result \in [Launches -> {"open", "ok", "failed"}]
    /\ cooldowns \subseteq Worlds
    /\ global \subseteq Launches

Init ==
    /\ online = {} /\ cmu = None /\ hmu = None
    /\ at = [l \in Launches |-> "new"]
    /\ world = [l \in Launches |-> None]
    /\ awaits = [l \in Launches |-> None]
    /\ seen = [l \in Launches |-> {}]
    /\ counted = [l \in Launches |-> {}]
    /\ tab = [l \in Launches |-> "none"]
    /\ pending = {}
    /\ sessions = [l \in Launches |-> None]
    /\ ending = [l \in Launches |-> "no"]
    /\ launchQueues = [w \in Worlds |-> None]
    /\ result = [l \in Launches |-> "open"]
    /\ cooldowns = {}
    /\ global = {}

Goes(l, from, to) == at[l] = from /\ at' = [at EXCEPT ![l] = to]

\* A goroutine that only moves on.
Moves(l, from, to) ==
    /\ Goes(l, from, to)
    /\ UNCHANGED <<lockVars, world, awaits, seen, counted, tabVars, slotVars>>

SessionsOf(k) == {l \in Launches : sessions[l] # None /\ KeyOf[world[l]] = k}

----------------------------------------------------------------------------
(* The slot of an auto-start.                                              *)

\* The route helper first asks IsLaunching, ...
IsLaunching(l, w) ==
    /\ l \notin Direct /\ Goes(l, "new", "queued")
    /\ launchQueues[w] # None
    /\ world' = [world EXCEPT ![l] = w]
    /\ UNCHANGED <<lockVars, awaits, seen, counted, tabVars, slotVars>>

Joins(l) ==
    /\ at' = [at EXCEPT ![l] = "joined"]
    /\ awaits' = [awaits EXCEPT ![l] = launchQueues[world[l]]]

\* ... and WaitForLaunch looks again: by then the launch may be over ("no pending
\* launch").
WaitForLaunch(l) ==
    /\ at[l] = "queued"
    /\ IF launchQueues[world[l]] = None
         THEN at' = [at EXCEPT ![l] = "done"] /\ UNCHANGED awaits
         ELSE Joins(l)
    /\ UNCHANGED <<lockVars, world, seen, counted, tabVars, slotVars>>

\* AutoStartForKnownClient: the cool-down is looked at under its own mutex ...
CheckCooldown(l, w) ==
    /\ l \notin Direct /\ at[l] = "new"
    /\ at' = [at EXCEPT ![l] = IF w \in cooldowns THEN "done" ELSE "cleared"]
    /\ world' = [world EXCEPT ![l] = w]
    /\ UNCHANGED <<lockVars, awaits, seen, counted, tabVars, slotVars>>

\* Mutant: tryRegisterLaunch does not look whether there is a slot.
TryRegisterLaunchAlways(l) ==
    /\ at[l] = "cleared"
    /\ launchQueues' = [launchQueues EXCEPT ![world[l]] = l]
    /\ at' = [at EXCEPT ![l] = "owner"]
    /\ UNCHANGED <<lockVars, world, awaits, seen, counted, tabVars, result, cooldowns>>

\* ... and tryRegisterLaunch takes the slot, or joins its owner.
TryRegisterLaunch(l) ==
    /\ at[l] = "cleared"
    /\ IF launchQueues[world[l]] = None
         THEN /\ launchQueues' = [launchQueues EXCEPT ![world[l]] = l]
              /\ at' = [at EXCEPT ![l] = "owner"]
              /\ UNCHANGED awaits
         ELSE Joins(l) /\ UNCHANGED launchQueues
    /\ UNCHANGED <<lockVars, world, seen, counted, tabVars, result, cooldowns>>

\* A joined call returns what its launch came to, or gives up (its context, or five
\* minutes): it leaves the slot alone.
Released(l) ==
    /\ at[l] = "joined" /\ result[awaits[l]] # "open"
    /\ Moves(l, "joined", "done")

GivesUp(l) == Moves(l, "joined", "done")

\* The database refuses: unknown user or world, no credential, it cannot be decrypted.
Unprepared(l) == Moves(l, "owner", "failing")

\* CompleteLaunch and FailLaunch close the queue and delete it, in one critical
\* section.  A failed owner then starts the cool-down.
Resolve(l, as) ==
    /\ result' = [result EXCEPT ![l] = as]
    /\ launchQueues' = [launchQueues EXCEPT ![world[l]] = None]
    /\ UNCHANGED <<lockVars, world, awaits, seen, counted, tabVars, cooldowns>>

CompleteLaunch(l) == l \notin Direct /\ Goes(l, "succeeding", "done") /\ Resolve(l, "ok")

\* Mutant: a failed launch leaves its slot.
FailLaunchLeaks(l) == l \notin Direct /\ Moves(l, "failing", "cooling")

FailLaunch(l) == l \notin Direct /\ Goes(l, "failing", "cooling") /\ Resolve(l, "failed")

StartCooldown(l) ==
    /\ Goes(l, "cooling", "done")
    /\ cooldowns' = cooldowns \cup {world[l]}
    /\ UNCHANGED <<lockVars, world, awaits, seen, counted, tabVars, launchQueues, result>>

CooldownEnds(w) ==
    /\ w \in cooldowns
    /\ cooldowns' = cooldowns \ {w}
    /\ UNCHANGED <<lockVars, callVars, tabVars, launchQueues, result>>

\* A LaunchSession just returns.
Answers(l) ==
    /\ l \in Direct
    /\ Moves(l, "succeeding", "done") \/ Moves(l, "failing", "done")

----------------------------------------------------------------------------
(* The launch.                                                             *)

DirectStart(l, w) ==
    /\ l \in Direct /\ Goes(l, "new", "owner")
    /\ world' = [world EXCEPT ![l] = w]
    /\ UNCHANGED <<lockVars, awaits, seen, counted, tabVars, slotVars>>

LockToSweep(l) ==
    /\ Goes(l, "owner", "sweeping")
    /\ hmu = None
    /\ hmu' = l
    /\ UNCHANGED <<online, cmu, world, awaits, seen, counted, tabVars, slotVars>>

\* Some session is stored, so the sweep asks the registry, whose mutex is taken.
SweepIsBlocked == cmu # None /\ \E l \in Launches : sessions[l] # None

Kept == {l \in Launches : sessions[l] \in online}

\* Mutant: an off-by-one in the limit.
MoreThanMany(S) == MaxSessions > 0 /\ Cardinality(S) > MaxSessions

TooMany(S) == MaxSessions > 0 /\ Cardinality(S) >= MaxSessions

\* Sessions whose client is gone are dropped, their tabs closed; Redis is not told.
\* The rest of the account is counted, and the mutex released.
Sweep(l) ==
    /\ at[l] = "sweeping"
    /\ ~SweepIsBlocked
    /\ hmu' = None
    /\ sessions' = [m \in Launches |-> IF m \in Kept THEN sessions[m] ELSE None]
    /\ tab' = [m \in Launches |-> IF sessions[m] # None /\ m \notin Kept
                                    THEN "closed" ELSE tab[m]]
    /\ counted' = [counted EXCEPT ![l] = {m \in Launches :
                      sessions[m] # None \/ at[m] \in {"established", "succeeding", "done"}}]
    /\ LET k == KeyOf[world[l]] IN
         at' = [at EXCEPT ![l] =
                  IF TooMany(Kept \cap SessionsOf(k)) THEN "failing" ELSE "checked"]
    /\ UNCHANGED <<online, cmu, world, awaits, seen, pending, ending, global, slotVars>>

\* checkGlobalSessionCap; without Redis, or when it fails, there is no such check.
PassGlobalCap(l) == Moves(l, "checked", "opening")

HitGlobalCap(l) == TooMany(global) /\ Moves(l, "checked", "failing")

OpenTab(l) ==
    /\ Goes(l, "opening", "browsing")
    /\ tab' = [tab EXCEPT ![l] = "open"]
    /\ UNCHANGED <<lockVars, world, awaits, seen, counted, pending, sessions,
                   ending, global, slotVars>>

NoTab(l) == Moves(l, "opening", "failing")

\* A direct launch remembers who is connected before it logs in.
LogIn(l) ==
    /\ Goes(l, "browsing", "loggedin")
    /\ cmu = None
    /\ seen' = [seen EXCEPT ![l] = IF l \in Direct THEN online ELSE {}]
    /\ UNCHANGED <<lockVars, world, awaits, counted, tabVars, slotVars>>

\* Navigation, administrator gate, login, canvas or the world: any of them fails.
BrowsingFails(l) ==
    /\ Goes(l, "browsing", "failing") \/ Goes(l, "loggedin", "failing")
    /\ tab' = [tab EXCEPT ![l] = "closed"]
    /\ UNCHANGED <<lockVars, world, awaits, seen, counted, pending, sessions,
                   ending, global, slotVars>>

AddPending(l) ==
    /\ Goes(l, "loggedin", "polling")
    /\ hmu = None
    /\ pending' = pending \cup {l}
    /\ UNCHANGED <<lockVars, world, awaits, seen, counted, tab, sessions,
                   ending, global, slotVars>>

\* The poll finds the client: an auto-start the very world, a direct launch any world
\* of the account that was not connected before.
Found(l, w) ==
    /\ Goes(l, "polling", "found")
    /\ cmu = None
    /\ w \in online
    /\ IF l \notin Direct THEN w = world[l]
                           ELSE w \notin seen[l] /\ KeyOf[w] = KeyOf[world[l]]
    /\ world' = [world EXCEPT ![l] = w]
    /\ UNCHANGED <<lockVars, awaits, seen, counted, tabVars, slotVars>>

\* The session is stored: the client may be gone again by now.
Establish(l) ==
    /\ Goes(l, "found", "established")
    /\ hmu = None
    /\ pending' = pending \ {l}
    /\ sessions' = [sessions EXCEPT ![l] = world[l]]
    /\ UNCHANGED <<lockVars, world, awaits, seen, counted, tab, ending, global, slotVars>>

RegisterInRedis(l) ==
    /\ Goes(l, "established", "succeeding")
    /\ global' = global \cup {l}
    /\ UNCHANGED <<lockVars, world, awaits, seen, counted, tab, pending, sessions,
                   ending, slotVars>>

\* Mutant: the tab of a launch that timed out stays open.
PollTimesOutOpen(l) ==
    /\ Goes(l, "polling", "failing")
    /\ hmu = None
    /\ pending' = pending \ {l}
    /\ UNCHANGED <<lockVars, world, awaits, seen, counted, tab, sessions,
                   ending, global, slotVars>>

PollTimesOut(l) ==
    /\ Goes(l, "polling", "failing")
    /\ hmu = None
    /\ pending' = pending \ {l}
    /\ tab' = [tab EXCEPT ![l] = "closed"]
    /\ UNCHANGED <<lockVars, world, awaits, seen, counted, sessions, ending,
                   global, slotVars>>

----------------------------------------------------------------------------
(* The end of a session.                                                   *)

\* A world dials the relay: the one in a tab, or one in somebody's browser.
Connects(w) ==
    /\ w \notin online /\ cmu = None
    /\ online' = online \cup {w}
    /\ UNCHANGED <<cmu, hmu, callVars, tabVars, slotVars>>

\* Its read pump ends: RemoveClientIfMatch takes the registry's mutex, ...
Disconnects(w) ==
    /\ w \in online /\ cmu = None
    /\ cmu' = w
    /\ UNCHANGED <<online, hmu, callVars, tabVars, slotVars>>

Leaving == IF cmu \in Worlds THEN cmu ELSE world[cmu]

\* ... calls OnClientRemoved, which needs the mutex of the HeadlessManager, closes
\* the sessions of the client, and only then deletes the client.
OnClientDisconnected ==
    /\ cmu # None
    /\ hmu = None
    /\ LET S == {l \in Launches : sessions[l] = Leaving} IN
         /\ sessions' = [l \in Launches |-> IF l \in S THEN None ELSE sessions[l]]
         /\ tab' = [l \in Launches |-> IF l \in S THEN "closed" ELSE tab[l]]
         /\ global' = global \ S
    /\ online' = online \ {Leaving}
    /\ cmu' = None
    /\ UNCHANGED <<hmu, callVars, pending, ending, slotVars>>

\* EndSession, by the API, or by cleanupInactive: take the session out, ...
EndSession(l) ==
    /\ sessions[l] # None
    /\ hmu = None
    /\ sessions' = [sessions EXCEPT ![l] = None]
    /\ ending' = [ending EXCEPT ![l] = "taken"]
    /\ UNCHANGED <<lockVars, callVars, tab, pending, global, slotVars>>

\* ... close its tab, ...
EndCancels(l) ==
    /\ ending[l] = "taken"
    /\ ending' = [ending EXCEPT ![l] = "cancelled"]
    /\ tab' = [tab EXCEPT ![l] = "closed"]
    /\ UNCHANGED <<lockVars, callVars, pending, sessions, global, slotVars>>

\* ... remove the client by its ID, ...
EndRemovesClient(l) ==
    /\ ending[l] = "cancelled"
    /\ cmu = None
    /\ cmu' = IF world[l] \in online THEN l ELSE None
    /\ ending' = [ending EXCEPT ![l] = "removed"]
    /\ UNCHANGED <<online, hmu, callVars, tab, pending, sessions, global, slotVars>>

\* ... and forget it in Redis.
EndForgets(l) ==
    /\ ending[l] = "removed"
    /\ cmu # l
    /\ ending' = [ending EXCEPT ![l] = "no"]
    /\ global' = global \ {l}
    /\ UNCHANGED <<lockVars, callVars, tab, pending, sessions, slotVars>>

\* cleanupOrphanedPending, or EndSession: a direct launch polls as long as a pending
\* session may last.
EndPending(l) ==
    /\ l \in pending /\ l \in Direct
    /\ hmu = None
    /\ pending' = pending \ {l}
    /\ tab' = [tab EXCEPT ![l] = "closed"]
    /\ UNCHANGED <<lockVars, callVars, sessions, ending, global, slotVars>>

----------------------------------------------------------------------------
SlotStep(l) ==
    \/ \E w \in Worlds : IsLaunching(l, w) \/ CheckCooldown(l, w) \/ DirectStart(l, w)
    \/ WaitForLaunch(l) \/ TryRegisterLaunch(l) \/ Released(l) \/ GivesUp(l)
    \/ Unprepared(l) \/ CompleteLaunch(l) \/ FailLaunch(l) \/ StartCooldown(l) \/ Answers(l)

LaunchStep(l) ==
    \/ LockToSweep(l) \/ Sweep(l) \/ PassGlobalCap(l) \/ HitGlobalCap(l)
    \/ OpenTab(l) \/ NoTab(l) \/ LogIn(l) \/ BrowsingFails(l) \/ AddPending(l)
    \/ (\E w \in Worlds : Found(l, w)) \/ Establish(l) \/ RegisterInRedis(l) \/ PollTimesOut(l)

EndStep(l) ==
    EndSession(l) \/ EndCancels(l) \/ EndRemovesClient(l) \/ EndForgets(l) \/ EndPending(l)

Next ==
    \/ \E l \in Launches : SlotStep(l) \/ LaunchStep(l) \/ EndStep(l)
    \/ \E w \in Worlds : Connects(w) \/ Disconnects(w) \/ CooldownEnds(w)
    \/ OnClientDisconnected

Spec == Init /\ [][Next]_vars

\* An auto-start goes on while it can: the browser answers or fails, a poll ends.
\* Both mutexes are given to whoever keeps asking (Go's are starvation-free).  Of a
\* direct launch only the release of the mutex is needed.
Progress(l) ==
    \/ LockToSweep(l) \/ Sweep(l) \/ PassGlobalCap(l) \/ OpenTab(l) \/ LogIn(l) \/ AddPending(l)
    \/ PollTimesOut(l) \/ Establish(l) \/ RegisterInRedis(l) \/ CompleteLaunch(l) \/ FailLaunch(l)

Fairness ==
    /\ WF_vars(OnClientDisconnected)
    /\ \A l \in Launches \ Direct : SF_vars(Progress(l))
    /\ \A l \in Direct : WF_vars(Sweep(l))

FairSpec == Spec /\ Fairness

----------------------------------------------------------------------------
(* Properties.                                                             *)

\* No browser tab is leaked: an open one belongs to a launch that will close it, or
\* to a session in the map, or to an EndSession that is about to close it.  Seven
\* paths take a launch or a session out; several can meet.
TabsAreAccountedFor ==
    \A l \in Launches :
        tab[l] = "open" => at[l] \in WithTab \/ sessions[l] # None \/ ending[l] = "taken"

\* "Concurrent calls for the same clientId join the in-flight launch rather than
\* spawning a parallel browser" (headless.go, AutoStartForKnownClient): two auto-
\* starts of one world never run at once, whatever callers time out or fail.
OneLaunchPerWorld ==
    \A l, m \in Launches :
        (/\ l # m /\ {l, m} \cap Direct = {}
         /\ at[l] \in Owning /\ at[m] \in Owning)
        => world[l] # world[m]

\* A call that joined is not stranded: the launch it waits for was resolved, or is
\* running and still owns the slot, so that its end is what closes the queue.
JoinedIsNotStranded ==
    \A l \in Launches :
        at[l] = "joined" =>
            \/ result[awaits[l]] # "open"
            \/ at[awaits[l]] \in Owning /\ launchQueues[world[l]] = awaits[l]

\* The limit of an account is checked long before a session is stored, so it can be
\* exceeded; but only by launches that overlapped, neither of which had its session
\* when the other counted.
OverLimitOnlyByOverlap ==
    \A k \in Keys :
        (MaxSessions > 0 /\ Cardinality(SessionsOf(k)) > MaxSessions)
        => \E l, m \in SessionsOf(k) : l # m /\ l \notin counted[m] /\ m \notin counted[l]

\* "We own the slot. ... so it's always resolved below - a leaked launchQueues entry
\* would block this client forever" (headless.go, AutoStartForKnownClient).
SlotIsResolved ==
    \A w \in Worlds : (launchQueues[w] # None) ~> (launchQueues[w] = None)

\* A sweep holds HeadlessManager.mu and waits for ClientManager.mu; a removal holds
\* that one and waits for the first.
LocksCrossed == hmu # None /\ SweepIsBlocked

\* The same, unless the two mutexes were taken crosswise: nothing else, no failing
\* step and no order of the rest, keeps a slot.
SlotIsResolvedUnlessCrossed ==
    \A w \in Worlds : (launchQueues[w] # None) ~> (launchQueues[w] = None \/ LocksCrossed)
=============================================================================
