-------------------------- MODULE PendingRequests --------------------------
(***************************************************************************)
(* A request to a Foundry module and the wait for its answer: the table    *)
(* internal/ws/pending.go, its three kinds of caller (the HTTP route       *)
(* helper, the client WebSocket API, a remote-request of another module)   *)
(* and the "...-result" handlers of message_handlers.go.                   *)
(*                                                                         *)
(* A caller stores its channel under a request id, sends the request, and  *)
(* waits for the channel, a timer or its own cancellation.  The answer     *)
(* names the id only.  Everybody who deletes from the table does so by id. *)
(*                                                                         *)
(* An HTTP id is the type of the request and the millisecond of the clock, *)
(* so the HTTP callers here (all of one type) share an id when they start  *)
(* in the same tick.  The other ids are random or in nanoseconds: unique.  *)
(***************************************************************************)
EXTENDS Integers, FiniteSets

CONSTANTS
    HTTPCallers,    \* requests made through the HTTP API, of one message type
    WSCallers,      \* requests of one client of the WebSocket API
    RemoteCallers,  \* remote-requests from another module
    Binary,         \* callers whose answer goes through a handler that decodes it
    Slots,          \* the capacity of clientWSState.semaphore
    MaxClock,       \* bound: ticks of the millisecond clock
    None            \* no caller, no response

Callers == HTTPCallers \cup WSCallers \cup RemoteCallers

ASSUME KindsAssumption ==
    /\ HTTPCallers \cap WSCallers = {}
    /\ (HTTPCallers \cup WSCallers) \cap RemoteCallers = {}
    /\ Binary \subseteq Callers
ASSUME BoundsAssumption == Slots \in Nat /\ MaxClock \in Nat
ASSUME CallersAssumption == Callers \cap (0 .. MaxClock) = {} /\ None \notin Callers

VARIABLES
    clock,     \* time.Now().UnixMilli()
    born,      \* PendingRequest.Timestamp of each caller
    requests,  \* PendingRequests.requests: id -> the caller whose channel it holds
    pc,        \* where each caller is
    ch,        \* ResponseCh of each caller: a response, or None
    outcome,   \* what each caller was told
    reply,     \* per request that was sent: how far its answer got
    stale,     \* callers CleanupStale took out and has not told
    semaphore, \* slots of the WebSocket client that are in use
    tracked,   \* clientWSState.pendingRequestIDs
    wsDone,    \* clientWSState.done is closed
    wsGone     \* cleanupClientWSState ran

vars == <<clock, born, requests, pc, ch, outcome, reply, stale, semaphore,
          tracked, wsDone, wsGone>>

Ids == Callers \cup 0 .. MaxClock

\* The id of a request made at t, and of a caller that has started.
IdAt(c, t) == IF c \in HTTPCallers THEN t ELSE c

IdOf(c) == IdAt(c, born[c])

\* A response in a channel: the module's answer to the request of "from", or
\* the 408 of CleanupStale, which is nobody's.
Answer(v) == [kind |-> "answer", from |-> v]
Stale     == [kind |-> "stale", from |-> None]
Responses == {Answer(v) : v \in Callers} \cup {Stale}

ASSUME NoneAssumption == None \notin Responses

\* What a caller is told without a response: no such client; Send failed; no free
\* slot; its timer fired; nothing, for it left.
Told(w)  == [kind |-> w, from |-> None]
Verdicts == {Told(w) : w \in {"offline", "failed", "busy", "timeout", "cancelled"}}

TypeOK ==
    /\ clock \in 0 .. MaxClock
    /\ born \in [Callers -> 0 .. MaxClock]
    /\ requests \in [Ids -> Callers \cup {None}]
    /\ pc \in [Callers -> {"new", "stored", "sent", "waiting", "done"}]
    /\ ch \in [Callers -> Responses \cup {None}]
    /\ outcome \in [Callers -> Responses \cup Verdicts \cup {None}]
    /\ reply \in [Callers -> [at : {"unasked", "asked", "loaded", "taken", "over"},
                              to : Callers \cup {None}]]
    /\ stale \subseteq Callers
    /\ semaphore \in 0 .. Slots
    /\ tracked \subseteq WSCallers
    /\ wsDone \in BOOLEAN
    /\ wsGone \in BOOLEAN

Init ==
    /\ clock = 0
    /\ born = [c \in Callers |-> 0]
    /\ requests = [i \in Ids |-> None]
    /\ pc = [c \in Callers |-> "new"]
    /\ ch = [c \in Callers |-> None]
    /\ outcome = [c \in Callers |-> None]
    /\ reply = [c \in Callers |-> [at |-> "unasked", to |-> None]]
    /\ stale = {}
    /\ semaphore = 0
    /\ tracked = {}
    /\ wsDone = FALSE
    /\ wsGone = FALSE

\* PendingRequests.Delete: by id, whoever's channel is there.
Delete(i) == requests' = [requests EXCEPT ![i] = None]

Ends(c, o) ==
    /\ pc' = [pc EXCEPT ![c] = "done"]
    /\ outcome' = [outcome EXCEPT ![c] = o]

\* A non-blocking send on a channel of capacity one.
Offer(c, r) == ch' = IF ch[c] = None THEN [ch EXCEPT ![c] = r] ELSE ch

Tick ==
    /\ clock < MaxClock
    /\ clock' = clock + 1
    /\ UNCHANGED <<born, requests, pc, ch, outcome, reply, stale, semaphore,
                   tracked, wsDone, wsGone>>

----------------------------------------------------------------------------
(* A caller.                                                               *)

\* The read pump of the WebSocket client handles one message at a time.
PumpIsFree == ~wsDone /\ \A c \in WSCallers : pc[c] \notin {"stored", "sent"}

\* GetClient finds nothing (auto-start included).
Offline(c) ==
    /\ pc[c] = "new"
    /\ c \in WSCallers => PumpIsFree
    /\ Ends(c, Told("offline"))
    /\ UNCHANGED <<clock, born, requests, ch, reply, stale, semaphore, tracked, wsDone, wsGone>>

\* Store overwrites what the table holds for the id.
Store(c) ==
    /\ pc[c] = "new"
    /\ clock < MaxClock
    /\ c \in WSCallers => PumpIsFree
    /\ born' = [born EXCEPT ![c] = clock]
    /\ requests' = [requests EXCEPT ![IdAt(c, clock)] = c]
    /\ pc' = [pc EXCEPT ![c] = "stored"]
    /\ tracked' = IF c \in WSCallers THEN tracked \cup {c} ELSE tracked
    /\ UNCHANGED <<clock, ch, outcome, reply, stale, semaphore, wsDone, wsGone>>

\* Client.Send queues the request for the module.
Send(c) ==
    /\ pc[c] = "stored"
    /\ reply' = [reply EXCEPT ![c] = [at |-> "asked", to |-> None]]
    /\ pc' = [pc EXCEPT ![c] = IF c \in WSCallers THEN "sent" ELSE "waiting"]
    /\ UNCHANGED <<clock, born, requests, ch, outcome, stale, semaphore, tracked, wsDone, wsGone>>

\* Client.Send refuses: the client is marked dead, or its buffer is full.
SendFails(c) ==
    /\ pc[c] = "stored"
    /\ Delete(IdOf(c))
    /\ tracked' = tracked \ {c}
    /\ Ends(c, Told("failed"))
    /\ UNCHANGED <<clock, born, ch, reply, stale, semaphore, wsDone, wsGone>>

\* A WebSocket request takes a slot for its goroutine, or is rejected although it
\* is already on its way to the module.
Acquire(c) ==
    /\ pc[c] = "sent"
    /\ semaphore < Slots
    /\ semaphore' = semaphore + 1
    /\ pc' = [pc EXCEPT ![c] = "waiting"]
    /\ UNCHANGED <<clock, born, requests, ch, outcome, reply, stale, tracked, wsDone, wsGone>>

Busy(c) ==
    /\ pc[c] = "sent"
    /\ semaphore = Slots
    /\ Delete(IdOf(c))
    /\ tracked' = tracked \ {c}
    /\ Ends(c, Told("busy"))
    /\ UNCHANGED <<clock, born, ch, reply, stale, semaphore, wsDone, wsGone>>

\* The deferred release of the goroutine's slot.
Release(c) == semaphore' = IF c \in WSCallers THEN semaphore - 1 ELSE semaphore

\* Mutant: the channel is read again after the wait is over.
ReceiveLate(c) ==
    /\ pc[c] \in {"waiting", "done"}
    /\ ch[c] # None
    /\ ch' = [ch EXCEPT ![c] = None]
    /\ Ends(c, ch[c])
    /\ UNCHANGED <<clock, born, requests, reply, stale, semaphore, tracked, wsDone, wsGone>>

Receive(c) ==
    /\ pc[c] = "waiting"
    /\ ch[c] # None
    /\ ch' = [ch EXCEPT ![c] = None]
    /\ Ends(c, ch[c])
    /\ tracked' = tracked \ {c}
    /\ Release(c)
    /\ UNCHANGED <<clock, born, requests, reply, stale, wsDone, wsGone>>

\* Mutant: the timer of the HTTP route does not delete the entry.
TimeoutLeavesEntry(c) ==
    /\ pc[c] = "waiting"
    /\ clock > born[c]
    /\ Ends(c, Told("timeout"))
    /\ tracked' = tracked \ {c}
    /\ Release(c)
    /\ UNCHANGED <<clock, born, requests, ch, reply, stale, wsDone, wsGone>>

\* Mutant: a remote-request waits without a timer.
TimeoutNotRemote(c) == c \notin RemoteCallers /\ TimeoutLeavesEntry(c)

\* The timers are of 10 seconds and more.
Timeout(c) ==
    /\ pc[c] = "waiting"
    /\ clock > born[c]
    /\ Delete(IdOf(c))
    /\ Ends(c, Told("timeout"))
    /\ tracked' = tracked \ {c}
    /\ Release(c)
    /\ UNCHANGED <<clock, born, ch, reply, stale, wsDone, wsGone>>

\* Mutant: the goroutine of a closed WebSocket client keeps its slot.
CancelKeepsSlot(c) ==
    /\ pc[c] = "waiting"
    /\ c \in HTTPCallers \/ (c \in WSCallers /\ wsDone)
    /\ Delete(IdOf(c))
    /\ Ends(c, Told("cancelled"))
    /\ UNCHANGED <<clock, born, ch, reply, stale, semaphore, tracked, wsDone, wsGone>>

\* The HTTP client went away, or the WebSocket client did.  A remote-request
\* has no such branch.
Cancel(c) ==
    /\ pc[c] = "waiting"
    /\ c \in HTTPCallers \/ (c \in WSCallers /\ wsDone)
    /\ Delete(IdOf(c))
    /\ Ends(c, Told("cancelled"))
    /\ Release(c)
    /\ UNCHANGED <<clock, born, ch, reply, stale, tracked, wsDone, wsGone>>

----------------------------------------------------------------------------
(* The answer of the module to the request of v.                           *)

\* Resolve and ResolveRaw: one critical section takes the entry out.
Take(v) ==
    LET i == IdOf(v) IN
    /\ reply[v].at = "asked"
    /\ Delete(i)
    /\ reply' = [reply EXCEPT ![v] =
                   [at |-> IF requests[i] = None THEN "over" ELSE "taken", to |-> requests[i]]]
    /\ UNCHANGED <<clock, born, pc, ch, outcome, stale, semaphore, tracked, wsDone, wsGone>>

\* The handlers for files and screenshots look the entry up, and delete it by id
\* in a second critical section.
Load(v) ==
    LET i == IdOf(v) IN
    /\ reply[v].at = "asked"
    /\ v \in Binary
    /\ requests[i] # None
    /\ reply' = [reply EXCEPT ![v] = [at |-> "loaded", to |-> requests[i]]]
    /\ UNCHANGED <<clock, born, requests, pc, ch, outcome, stale, semaphore,
                   tracked, wsDone, wsGone>>

DeleteLoaded(v) ==
    /\ reply[v].at = "loaded"
    /\ Delete(IdOf(v))
    /\ reply' = [reply EXCEPT ![v] = [at |-> "taken", to |-> reply[v].to]]
    /\ UNCHANGED <<clock, born, pc, ch, outcome, stale, semaphore, tracked, wsDone, wsGone>>

\* The send, outside the lock.
Deliver(v) ==
    /\ reply[v].at = "taken"
    /\ Offer(reply[v].to, Answer(v))
    /\ reply' = [reply EXCEPT ![v] = [at |-> "over", to |-> None]]
    /\ UNCHANGED <<clock, born, requests, pc, outcome, stale, semaphore,
                   tracked, wsDone, wsGone>>

----------------------------------------------------------------------------
(* CleanupStale, every 30 seconds, and the end of the WebSocket client.    *)

\* A remote-request has an age limit of its own, 90 seconds; the others 30.
Overdue == {c \in Callers : requests[IdOf(c)] = c /\ clock > born[c]}

\* Mutant: the entries are dropped and nobody is told.
CleanupStaleSilently(S) ==
    /\ S # {}
    /\ requests' = [i \in Ids |-> IF requests[i] \in S THEN None ELSE requests[i]]
    /\ UNCHANGED <<clock, born, pc, ch, outcome, reply, stale, semaphore,
                   tracked, wsDone, wsGone>>

CleanupStale(S) ==
    /\ S # {}
    /\ requests' = [i \in Ids |-> IF requests[i] \in S THEN None ELSE requests[i]]
    /\ stale' = stale \cup S
    /\ UNCHANGED <<clock, born, pc, ch, outcome, reply, semaphore, tracked, wsDone, wsGone>>

TellStale(c) ==
    /\ c \in stale
    /\ stale' = stale \ {c}
    /\ Offer(c, Stale)
    /\ UNCHANGED <<clock, born, requests, pc, outcome, reply, semaphore,
                   tracked, wsDone, wsGone>>

\* The read pump returns: first it closes done, ...
CloseWS ==
    /\ PumpIsFree
    /\ wsDone' = TRUE
    /\ UNCHANGED <<clock, born, requests, pc, ch, outcome, reply, stale, semaphore,
                   tracked, wsGone>>

\* ... then cleanupClientWSState deletes every request the client is tracking.
CleanupWS ==
    /\ wsDone /\ ~wsGone
    /\ wsGone' = TRUE
    /\ requests' = [i \in Ids |-> IF i \in tracked THEN None ELSE requests[i]]
    /\ tracked' = {}
    /\ UNCHANGED <<clock, born, pc, ch, outcome, reply, stale, semaphore, wsDone>>

----------------------------------------------------------------------------
CallerStep(c) ==
    \/ Offline(c) \/ Store(c) \/ Send(c) \/ SendFails(c) \/ Acquire(c) \/ Busy(c)
    \/ Receive(c) \/ Timeout(c) \/ Cancel(c)

ReplyStep(v) == Take(v) \/ Load(v) \/ DeleteLoaded(v) \/ Deliver(v)

Next ==
    \/ \E c \in Callers : CallerStep(c) \/ ReplyStep(c) \/ TellStale(c)
    \/ \E S \in SUBSET Overdue : CleanupStale(S)
    \/ Tick \/ CloseWS \/ CleanupWS

Spec == Init /\ [][Next]_vars

\* A goroutine that is ready runs, and time passes.  A module need not answer, a
\* caller need not leave, and the cleanup loop is not needed.
Fairness ==
    /\ WF_vars(Tick)
    /\ \A c \in Callers :
         /\ WF_vars(Send(c) \/ SendFails(c)) /\ WF_vars(Acquire(c) \/ Busy(c))
         /\ WF_vars(Receive(c) \/ Timeout(c))

FairSpec == Spec /\ Fairness

----------------------------------------------------------------------------
(* Properties.                                                             *)

\* Callers that share a request id: HTTP requests of one millisecond.
Shares(c, d) == {c, d} \subseteq HTTPCallers

Alike(c, d) == c = d \/ (Shares(c, d) /\ born[c] = born[d] /\ pc[d] # "new")

\* An answer reaches the caller it was asked for.  Only HTTP requests of one type
\* and one millisecond can get each other's: nothing tells their answers apart.
\* No order of timers, cleanup, late and crossing answers mixes up any others.
AnswersKeepToTheirId ==
    \A c \in Callers : \A r \in {ch[c], outcome[c]} :
        (r # None /\ r.kind = "answer") => r.from \in Callers /\ Alike(c, r.from)

\* A caller that is still waiting can be answered: the table has its channel, or
\* the answer or the 408 is on its way to it.  Only a caller of the same id, or
\* the end of its own WebSocket connection, takes that away.
NoOrphan ==
    \A c \in Callers :
        (/\ pc[c] \in {"stored", "sent", "waiting"}
         /\ \A d \in Callers \ {c} : ~Alike(c, d)
         /\ ~(c \in WSCallers /\ wsDone))
        => \/ requests[IdOf(c)] = c
           \/ ch[c] # None
           \/ c \in stale
           \/ reply[c].at = "taken" /\ reply[c].to = c

\* A caller that ended left nothing in the table, however it ended and whoever
\* else stored or deleted under its id.
NothingLeftBehind ==
    \A c \in Callers : pc[c] \in {"new", "done"} => \A i \in Ids : requests[i] # c

\* The table holds the callers that wait, and no others.
TableFollowsCallers == NoOrphan /\ NothingLeftBehind

\* Every slot of the semaphore belongs to a goroutine that is waiting: no path out
\* of the wait keeps one, so a client is not locked out by requests that ended.
SlotsAreHeld == semaphore = Cardinality({c \in WSCallers : pc[c] = "waiting"})

\* Every request that was stored ends, whatever the module and the table do.
EveryRequestEnds == \A c \in Callers : (pc[c] = "stored") ~> (pc[c] = "done")

\* The promise to the callers: one verdict each, once; an answer only to a call
\* that waits, of a call that the module was sent, and under a shared id at most.
Promise == INSTANCE RequestReply WITH
    Ticks <- 0 .. MaxClock,
    Answers <- Answer,
    Verdicts <- Verdicts \cup {Stale},
    start <- born,
    open <- {c \in Callers : pc[c] \in {"stored", "sent", "waiting"}},
    sent <- {c \in Callers : reply[c].at # "unasked"},
    told <- outcome

ImplementsRequestReply == Promise!Spec
=============================================================================
