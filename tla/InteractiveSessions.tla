------------------------ MODULE InteractiveSessions ------------------------
(***************************************************************************)
(* Interactive viewing sessions: internal/ws/interactive_sessions.go, the  *)
(* interactive messages of the client WebSocket API (client_api.go), the   *)
(* answers of the module (message_handlers.go) and the admin's kill.       *)
(*                                                                         *)
(* A viewer (a consumer WebSocket) opens a session with one world; the     *)
(* module of the world streams frames to it through the relay.  A session  *)
(* may be ended by the viewer, by its socket's close, by the module, by    *)
(* the removal of the module's connection, by a timeout or by the admin;   *)
(* each of them takes it out of the table under the lock and then tells    *)
(* the viewer, or the module, or neither.                                  *)
(***************************************************************************)
EXTENDS Integers, FiniteSets

CONSTANTS
    Sessions,    \* session ids, one per interactive-session-start
    Viewers,     \* consumer WebSockets, all with one API key
    ViewerOf,    \* which of them asks for the session
    MaxPerKey,   \* maxPerKey
    MaxConnects, \* bound: connections of the module
    MaxInputs    \* bound: interactive-input messages

ASSUME SessionsAssumption == IsFiniteSet(Sessions) /\ ViewerOf \in [Sessions -> Viewers]
ASSUME BoundsAssumption ==
    /\ MaxPerKey \in Nat \ {0}
    /\ MaxConnects \in Nat
    /\ MaxInputs \in Nat

VARIABLES
    current,  \* the connection in ClientManager.clients, 0 for none
    connects, \* connections of the module so far
    dead,     \* connections whose Send is refused (an evicted one, in time)
    streams,  \* sessions the module of the current connection serves
    pump,     \* the handler its read pump is in: a message about a session
    table,    \* InteractiveSessionManager.sessions: the state of each, or "out"
    expired,  \* the session's timeout has passed
    starting, \* the start handler: where it is, and the connection it looked up
    input,    \* the input handler of each viewer: the session between the lookup of
              \*   the session and the lookup of the module
    inputs,   \* interactive-input messages so far
    open,     \* viewers whose socket is open
    stalled,  \* viewers that have stopped reading: a write to them does not return
    cleaned,  \* viewers whose cleanupClientWSState ran
    writing,  \* writes to a viewer's socket that are under way: who, about what
    notices,  \* sessions taken out whose viewer is still to be told, and by whom
    told,     \* history: sessions whose end, or error, was written to the viewer
    asked,    \* history: sessions the viewer itself ended
    dropped,  \* history: sessions a timeout or the admin took out
    unheard   \* history: sessions whose end the relay could not pass on to the module

module == <<current, connects, dead, streams, pump>>
viewer == <<open, stalled, cleaned, input, inputs>>
history == <<told, asked, dropped, unheard>>
vars == <<module, viewer, table, expired, starting, writing, notices, history>>

Idle == [kind |-> "idle"]
Kinds == {"started", "frame", "error", "fatal", "ended"}
Live == {"pending", "active"}

TypeOK ==
    /\ connects \in 0 .. MaxConnects /\ current \in 0 .. connects
    /\ dead \subseteq 1 .. connects
    /\ streams \subseteq Sessions /\ (current = 0 => streams = {})
    /\ pump = Idle \/ (pump.kind \in Kinds /\ pump.s \in Sessions)
    /\ table \in [Sessions -> {"new", "pending", "active", "out"}]
    /\ Cardinality({s \in Sessions : table[s] \in Live}) <= MaxPerKey
    /\ expired \subseteq Sessions
    /\ starting \in [Sessions -> [at : {"idle", "found", "created", "over"},
                                  conn : 0 .. MaxConnects]]
    /\ inputs \in 0 .. MaxInputs
    /\ open \subseteq Viewers /\ cleaned \subseteq Viewers \ open
    /\ stalled \subseteq open
    /\ told \subseteq Sessions /\ asked \subseteq Sessions /\ dropped \subseteq Sessions
    /\ unheard \subseteq Sessions

Init ==
    /\ current = 0
    /\ connects = 0
    /\ dead = {}
    /\ streams = {}
    /\ pump = Idle
    /\ table = [s \in Sessions |-> "new"]
    /\ expired = {}
    /\ starting = [s \in Sessions |-> [at |-> "idle", conn |-> 0]]
    /\ input = [v \in Viewers |-> {}]
    /\ inputs = 0
    /\ open = Viewers
    /\ stalled = {}
    /\ cleaned = {}
    /\ writing = {}
    /\ notices = {}
    /\ told = {}
    /\ asked = {}
    /\ dropped = {}
    /\ unheard = {}

----------------------------------------------------------------------------
(* The table.                                                              *)

\* EndSession, and the deletion in the loops of the other removals.
End(set) ==
    /\ table' = [s \in Sessions |-> IF s \in set THEN "out" ELSE table[s]]
    /\ expired' = expired \ set

\* UpdateActivity: a pending session is timed by its creation, not by this.
UpdateActivity(s) ==
    /\ expired' = IF table[s] = "active" THEN expired \ {s} ELSE expired
    /\ UNCHANGED table

\* ActivateSession.
Activate(s) ==
    IF table[s] = "pending"
    THEN table' = [table EXCEPT ![s] = "active"] /\ expired' = expired \ {s}
    ELSE UNCHANGED <<table, expired>>

\* Time: 30 s since a pending session was created, 5 min since an active one moved.
TimePasses(s) ==
    /\ table[s] \in Live
    /\ expired' = expired \cup {s}
    /\ s \notin expired
    /\ UNCHANGED <<module, viewer, table, starting, writing, notices, history>>

----------------------------------------------------------------------------
(* The module's connection.                                                *)

\* AddClient: a new connection, or the eviction of a stale one, which calls neither
\* OnClientRemoved nor anything else that knows of the sessions.  (A handler of the
\* connection before is finished first: it would touch the same entries later.)
Connect ==
    /\ connects < MaxConnects /\ pump = Idle
    /\ connects' = connects + 1
    /\ current' = connects + 1
    /\ streams' = {}
    /\ UNCHANGED <<dead, pump, viewer, table, expired, starting, writing, notices, history>>

\* DisconnectWithReason of the evicted connection, in a goroutine of its own.
Evicted(n) ==
    /\ n \in 1 .. connects /\ n # current /\ n \notin dead
    /\ dead' = dead \cup {n}
    /\ UNCHANGED <<current, connects, streams, pump, viewer, table, expired,
                   starting, writing, notices, history>>

\* Mutant: the viewers are not told.
TerminateSilently ==
    End({s \in Sessions : table[s] \in Live}) /\ UNCHANGED notices

\* TerminateSessionsForClient: out of the table under the lock, told after it.
TerminateSessionsForClient ==
    LET set == {s \in Sessions : table[s] \in Live}
    IN End(set) /\ notices' = notices \cup {[s |-> s, by |-> "terminate"] : s \in set}

\* RemoveClient, RemoveClientIfMatch: OnClientRemoved, then the entry.  A removal by
\* another goroutine meets the read pump in any handler.
Disconnect ==
    /\ current # 0
    /\ TerminateSessionsForClient
    /\ current' = 0
    /\ streams' = {}
    /\ UNCHANGED <<connects, dead, pump, viewer, starting, writing, history>>

\* The module sends a message about a session it serves; the handler has looked the
\* session up, and drops the message when it is not in the table.
ModuleSends(k, s) ==
    /\ current # 0 /\ pump = Idle /\ s \in streams
    /\ k = "started" => table[s] # "active"
    /\ streams' = IF k \in {"fatal", "ended"} THEN streams \ {s} ELSE streams
    /\ pump' = IF table[s] \in Live THEN [kind |-> k, s |-> s, at |-> "found"] ELSE Idle
    /\ UNCHANGED <<current, connects, dead, viewer, table, expired, starting,
                   writing, notices, history>>

Write(by, s) == [to |-> ViewerOf[s], by |-> by, s |-> s]

\* The table is updated, and the write to the viewer's socket begins - straight to
\* the connection, not through clientWSState.send ...
HandlerWrites ==
    /\ pump # Idle /\ pump.at = "found"
    /\ CASE pump.kind = "started" -> Activate(pump.s)
         [] pump.kind = "frame"   -> UpdateActivity(pump.s)
         [] OTHER                 -> UNCHANGED <<table, expired>>
    /\ pump' = [pump EXCEPT !.at = "writing"]
    /\ writing' = writing \cup {Write("pump", pump.s)}
    /\ UNCHANGED <<current, connects, dead, streams, viewer, starting, notices,
                   history>>

\* ... and ends, when the viewer reads; a fatal error and an end take the session out
\* after that.
HandlerDone ==
    /\ pump # Idle /\ pump.at = "writing" /\ ViewerOf[pump.s] \notin stalled
    /\ pump' = Idle
    /\ writing' = writing \ {Write("pump", pump.s)}
    /\ told' = IF pump.kind \in {"error", "fatal", "ended"} THEN told \cup {pump.s} ELSE told
    /\ IF pump.kind \in {"fatal", "ended"} THEN End({pump.s})
       ELSE UNCHANGED <<table, expired>>
    /\ UNCHANGED <<current, connects, dead, streams, viewer, starting, notices,
                   asked, dropped, unheard>>

----------------------------------------------------------------------------
(* A viewer.                                                               *)

\* A read pump is in one handler at a time.
Free(v) ==
    /\ v \in open /\ input[v] = {}
    /\ \A s \in Sessions : ViewerOf[s] = v => starting[s].at \in {"idle", "over"}

\* handleInteractiveSessionStart: GetClient; without a module an error is sent.
LookUp(s) ==
    /\ Free(ViewerOf[s]) /\ starting[s].at = "idle"
    /\ starting' = [starting EXCEPT ![s] =
           [at |-> IF current = 0 THEN "over" ELSE "found", conn |-> current]]
    /\ UNCHANGED <<module, viewer, table, expired, writing, notices, history>>

Held == {t \in Sessions : table[t] \in Live}

\* CreateSession: refused at the limit, which counts the live sessions of the key.
Create(s) ==
    /\ starting[s].at = "found"
    /\ IF Cardinality(Held) >= MaxPerKey
       THEN /\ starting' = [starting EXCEPT ![s].at = "over"]
            /\ UNCHANGED table
       ELSE /\ starting' = [starting EXCEPT ![s].at = "created"]
            /\ table' = [table EXCEPT ![s] = "pending"]
    /\ UNCHANGED <<module, viewer, expired, writing, notices, history>>

\* Send to the connection that was looked up: it is refused by a dead one and by one
\* whose channel is full, and nobody reads the queue of one that was removed.
SendStart(s) ==
    /\ starting[s].at = "created"
    /\ starting' = [starting EXCEPT ![s].at = "over"]
    /\ \/ End({s}) /\ told' = told \cup {s} /\ UNCHANGED streams
       \/ /\ starting[s].conn \notin dead
          /\ streams' = IF starting[s].conn = current
                        THEN streams \cup {s} ELSE streams
          /\ UNCHANGED <<table, expired, told>>
    /\ UNCHANGED <<current, connects, dead, pump, viewer, writing, notices, asked,
                   dropped, unheard>>

\* handleInteractiveInput: an unknown session is answered with an error; else the
\* activity is noted ...
Input(s) ==
    /\ Free(ViewerOf[s]) /\ starting[s].at = "over"
    /\ inputs < MaxInputs /\ table[s] \in Live
    /\ inputs' = inputs + 1
    /\ UpdateActivity(s)
    /\ input' = [input EXCEPT ![ViewerOf[s]] = {s}]
    /\ UNCHANGED <<module, open, stalled, cleaned, starting, writing, notices, history>>

\* ... and the module is looked up: without one the session ends.
InputSent(s) ==
    /\ s \in input[ViewerOf[s]]
    /\ input' = [input EXCEPT ![ViewerOf[s]] = {}]
    /\ IF current = 0 THEN End({s}) /\ told' = told \cup {s}
       ELSE UNCHANGED <<table, expired, told>>
    /\ UNCHANGED <<module, open, stalled, cleaned, inputs, starting, writing, notices,
                   asked, dropped, unheard>>

\* Mutant: the viewer's end is not passed on.
ForgetEnd(set) == UNCHANGED <<streams, unheard>>

\* interactive-session-end, to the module the world has by now.  Whether Send took it,
\* nobody asks: a full channel, or a client that is on its way out, drops it.
PassEnd(set) ==
    \E lost \in SUBSET (set \cap streams) :
        /\ streams' = streams \ (set \ lost)
        /\ unheard' = unheard \cup lost

\* handleInteractiveSessionEnd: passed on whether or not the session was in the table.
ViewerEnds(s) ==
    /\ Free(ViewerOf[s]) /\ starting[s].at = "over"
    /\ table[s] # "new"
    /\ End({s})
    /\ PassEnd({s})
    /\ asked' = IF table[s] \in Live THEN asked \cup {s} ELSE asked
    /\ UNCHANGED <<current, connects, dead, pump, viewer, starting, writing, notices,
                   told, dropped>>

\* The viewer's socket closes: its read pump returns ...
HangUp(v) ==
    /\ Free(v)
    /\ open' = open \ {v}
    /\ stalled' = stalled \ {v}
    /\ UNCHANGED <<module, cleaned, input, inputs, table, expired, starting, writing,
                   notices, history>>

\* ... and cleanupClientWSState ends its sessions (TerminateSessionsForConsumer).
CleanUpViewer(v) ==
    /\ v \notin open /\ v \notin cleaned
    /\ cleaned' = cleaned \cup {v}
    /\ LET set == {s \in Sessions : ViewerOf[s] = v /\ table[s] \in Live}
       IN End(set) /\ PassEnd(set) /\ asked' = asked \cup set
    /\ UNCHANGED <<current, connects, dead, pump, open, stalled, input, inputs, starting,
                   writing, notices, told, dropped>>

\* The viewer stops reading, and reads again.  No write to it has a deadline.  (Only
\* while something is written to it does it matter whether it reads.)
Stall(v) ==
    /\ v \in open /\ v \notin stalled /\ \E w \in writing : w.to = v
    /\ stalled' = stalled \cup {v}
    /\ UNCHANGED <<module, open, cleaned, input, inputs, table, expired, starting,
                   writing, notices, history>>

Resume(v) ==
    /\ v \in stalled
    /\ stalled' = stalled \ {v}
    /\ UNCHANGED <<module, open, cleaned, input, inputs, table, expired, starting,
                   writing, notices, history>>

\* clientWSState.send: answers, events and errors, one at a time under writeMu.
SendBegins(v) ==
    /\ v \in open
    /\ \A w \in writing : w.to = v => w.by # "send"
    /\ \E s \in Sessions : ViewerOf[s] = v /\ writing' = writing \cup {Write("send", s)}
    /\ UNCHANGED <<module, viewer, table, expired, starting, notices, history>>

SendEnds ==
    /\ \E w \in writing :
           w.by = "send" /\ w.to \notin stalled /\ writing' = writing \ {w}
    /\ UNCHANGED <<module, viewer, table, expired, starting, notices, history>>

----------------------------------------------------------------------------
(* The removals nobody asked for.                                          *)

\* Mutant: only the active sessions are timed.
OverdueActive == {s \in expired : table[s] = "active"}

Overdue == {s \in expired : table[s] \in Live}

\* cleanup: out of the table under the lock; the module is not told.  It is one loop:
\* it does not tick while it is still telling the viewers of the tick before.
CleanUp ==
    /\ Overdue # {}
    /\ \A n \in notices \cup writing : n.by # "cleanup"
    /\ End(Overdue)
    /\ notices' = notices \cup {[s |-> s, by |-> "cleanup"] : s \in Overdue}
    /\ dropped' = dropped \cup Overdue
    /\ UNCHANGED <<module, viewer, starting, writing, told, asked, unheard>>

\* The admin's DELETE of a session tells neither side.
Kill(s) ==
    /\ table[s] \in Live
    /\ End({s})
    /\ dropped' = dropped \cup {s}
    /\ UNCHANGED <<module, viewer, starting, writing, notices, told, asked, unheard>>

\* The viewers of the sessions taken out are told, one after the other by each
\* remover, straight to the connection.
NoticeBegins(n) ==
    /\ n \in notices
    /\ \A w \in writing : w.by # n.by
    /\ writing' = writing \cup {Write(n.by, n.s)}
    /\ notices' = notices \ {n}
    /\ UNCHANGED <<module, viewer, table, expired, starting, history>>

NoticeEnds(w) ==
    /\ w \in writing /\ w.by \in {"terminate", "cleanup"} /\ w.to \notin stalled
    /\ writing' = writing \ {w}
    /\ told' = told \cup {w.s}
    /\ UNCHANGED <<module, viewer, table, expired, starting, notices, asked,
                   dropped, unheard>>

Next ==
    \/ Connect \/ Disconnect \/ HandlerWrites \/ HandlerDone \/ CleanUp \/ SendEnds
    \/ \E n \in 1 .. MaxConnects : Evicted(n)
    \/ \E k \in Kinds, s \in Sessions : ModuleSends(k, s)
    \/ \E s \in Sessions :
          \/ TimePasses(s) \/ LookUp(s) \/ Create(s) \/ SendStart(s)
          \/ Input(s) \/ InputSent(s) \/ ViewerEnds(s) \/ Kill(s)
    \/ \E v \in Viewers :
          HangUp(v) \/ CleanUpViewer(v) \/ SendBegins(v) \/ Stall(v) \/ Resume(v)
    \/ \E n \in notices : NoticeBegins(n)
    \/ \E w \in writing : NoticeEnds(w)

Spec == Init /\ [][Next]_vars

\* The writes of the cleanup loop.
CleanupTells ==
    \/ \E n \in notices : n.by = "cleanup" /\ NoticeBegins(n)
    \/ \E w \in writing : w.by = "cleanup" /\ NoticeEnds(w)

\* Time passes and the cleanup loop goes on: it ticks, and writes to viewers that
\* read.  Neither the viewers nor the module have to move.
FairSpec ==
    /\ Spec
    /\ WF_vars(CleanUp)
    /\ WF_vars(CleanupTells)
    /\ \A s \in Sessions : WF_vars(TimePasses(s))

----------------------------------------------------------------------------
(* Properties.                                                             *)

Over(s) == table[s] = "out"

\* A session that ends is announced: its viewer ended it, or was told (an end, an
\* error), or is about to be told - unless it was the admin.  All the removals.
ViewersAreTold ==
    \A s \in Sessions :
        Over(s) /\ s \notin dropped =>
            \/ s \in told \cup asked
            \/ \E n \in notices : n.s = s
            \/ \E w \in writing : w.s = s /\ w.by \in {"terminate", "cleanup"}

\* The module does not go on streaming a session that the relay has forgotten,
\* unless a timeout or the admin took it out, of which the relay does not tell it, or
\* the Send of the end was refused, which no handler looks at.  PassEnd, Disconnect,
\* the start handler.
NothingStreamsUnwatched ==
    \A s \in streams : table[s] \in Live \/ s \in dropped \cup unheard

\* A viewer that has stopped reading holds the cleanup loop up.
CleanupIsHeldUp == \E w \in writing : w.by = "cleanup" /\ w.to \in stalled

\* A session that no module confirms does not stay: also one that was created after
\* the sessions of its world had been ended, or whose connection was evicted - unless
\* the cleanup loop is held up by a viewer, of this session or of any other.
PendingIsSettled ==
    \A s \in Sessions :
        (table[s] = "pending") ~> (table[s] # "pending" \/ CleanupIsHeldUp)

\* What client_api.go says of clientWSState.send: unserialized writes to a consumer's
\* socket panic the library.  So there is one writer at a time.
OneWriterPerSocket ==
    \A w1, w2 \in writing : w1.to = w2.to => w1 = w2
=============================================================================
