--------------------------- MODULE Subscriptions ---------------------------
(***************************************************************************)
(* The event subscriptions of one world: internal/handler/helpers/sse.go,  *)
(* the SSE handler internal/handler/sse.go, the subscribe and unsubscribe  *)
(* messages of the client WebSocket API, and the part of                   *)
(* internal/server/server.go that fans events out and tells the module of  *)
(* the world how many subscribers a channel has.                           *)
(*                                                                         *)
(* Three things meet here.  The lists of subscribers are changed under a   *)
(* lock, and the count is sent to the module after the lock is released.   *)
(* A disconnect of the module cancels the streams that have registered.    *)
(* And a fan-out walks over a slice that it took under the lock and that a *)
(* removal shifts in place while it walks.                                 *)
(***************************************************************************)
EXTENDS Integers, FiniteSets, Sequences

CONSTANTS
    Streams,     \* requests for an SSE stream of the world
    Sockets,     \* subscriptions made over client WebSockets
    Channels,    \* "chat-events", "hooks", ... that occur
    Lenient,     \* the channels (chat, roll) whose filter passes an event
                 \*   that has no such field
    ChannelOf,   \* the channel of each subscription
    FilterOf,    \* what its filter asks for, or Anything; a socket's has none
    Foreign,     \* streams asked for with the key of another account
    Events,      \* the events the module may send: [ch, tag]
    Anything,    \* no filter; an event without the filtered field
    Loads,       \* bound: what may occur in one behaviour: the subscriptions asked
                 \*   for, the events sent, the connections made, the faults
    Limit,       \* MaxSSEConnectionsPerClient
    MaxConnects, \* bound: connections of the module in any of the loads
    MaxFaults    \* bound: "sse-close" commands from other instances, and messages
                 \*   lost to a full send channel, in any of the loads

Subs  == Streams \cup Sockets
Lists == Channels \cup {"wsEvents"}
NoCount == -1  \* in emit
Due == -1      \* in sync; a count of zero is not sent
Off == 0
Shared  == <<>>

ASSUME SubsAssumption ==
    /\ IsFiniteSet(Subs)
    /\ Streams \cap Sockets = {}
    /\ Foreign \subseteq Streams
    /\ "wsEvents" \notin Channels
    /\ Lenient \subseteq Channels
    /\ ChannelOf \in [Subs -> Channels]
    /\ \A k \in Sockets : FilterOf[k] = Anything
    /\ Loads \subseteq [subs : SUBSET Subs, events : SUBSET Events,
                        connects : 0 .. MaxConnects, faults : 0 .. MaxFaults]
ASSUME EventsAssumption == \A e \in Events : e.ch \in Channels
ASSUME SubsBounds ==
    /\ Limit \in Nat \ {0}
    /\ MaxConnects \in Nat
    /\ MaxFaults \in Nat

VARIABLES
    load,       \* the load of this behaviour; it does not change
    online,     \* the world has an entry in ClientManager.clients
    connects,   \* connections of the module so far
    told,       \* per channel, the count the connected module has last been sent
    sync,       \* per connection and channel: OnClientConnected's loop
    closes,     \* calls of CloseForClientID that are due
    peerCloses, \* how many of them other instances asked for
    at,         \* where each subscription is
    registered, \* SSEManager.sseCancel
    cancelled,  \* its context is cancelled, its clientWSState.done closed
    arr,        \* chatSSE, ..., wsEvents: the slice of each list
    emit,       \* the count each subscription is about to send the module
    fan,        \* the walk of the fan-out
    writing,    \* goroutines that are to write the event to a stream
    got,        \* copies of the event each subscriber received
    drops,      \* messages lost to a full send channel
    late,       \* history: streams that had not registered at a close
    doubt,      \* history: per channel, counts overlapped on their way
    steady,     \* history: subscribers that were there for the whole fan-out
    shifted     \* history: lists in which the fan-out met a removal

presence == <<load, online, connects, closes, peerCloses>>
counts   == <<told, sync, emit, drops, doubt>>
fanout   == <<fan, writing, got, steady, shifted>>
subsVars == <<presence, counts, at, registered, cancelled, arr, late, fanout>>

ListOf(s) == IF s \in Sockets THEN "wsEvents" ELSE ChannelOf[s]

\* A slice: the array it points to (as far as written), its length, its capacity.
EmptySlice == [cells |-> <<>>, len |-> 0, cap |-> 0]

Phases == {"idle", "resolved", "armed", "adding", "open", "removing", "gone"}

SubsTypeOK ==
    /\ online \in BOOLEAN
    /\ connects \in 0 .. MaxConnects
    /\ told \in [Channels -> 0 .. Cardinality(Subs)]
    /\ sync \in [1 .. MaxConnects -> [Channels -> Due .. Cardinality(Subs)]]
    /\ closes \in 0 .. MaxConnects + MaxFaults
    /\ load \in Loads
    /\ peerCloses \in 0 .. MaxFaults
    /\ at \in [Subs -> Phases]
    /\ registered \subseteq Streams
    /\ cancelled \subseteq Subs
    /\ \A l \in Lists : arr[l].cells \in Seq(Subs) /\ arr[l].len <= Limit
    /\ emit \in [Subs -> NoCount .. Cardinality(Subs)]
    /\ fan.stage \in {"idle", "streams", "sockets", "over"}
    /\ writing \in [Streams -> 0 .. Limit]
    /\ got \in [Subs -> 0 .. Limit]
    /\ drops \in 0 .. MaxFaults
    /\ doubt \in [Channels -> BOOLEAN]
    /\ late \subseteq Streams /\ steady \subseteq Subs /\ shifted \subseteq Lists

\* An "idle" request may still come.
SubsInit ==
    /\ load \in Loads
    /\ online = FALSE
    /\ connects = 0
    /\ told = [c \in Channels |-> 0]
    /\ sync = [n \in 1 .. MaxConnects |-> [c \in Channels |-> Off]]
    /\ closes = 0
    /\ peerCloses = 0
    /\ at = [s \in Subs |-> IF s \in load.subs THEN "idle" ELSE "gone"]
    /\ registered = {}
    /\ cancelled = {}
    /\ arr = [l \in Lists |-> EmptySlice]
    /\ emit = [s \in Subs |-> NoCount]
    /\ fan = [stage |-> "idle"]
    /\ writing = [s \in Streams |-> 0]
    /\ got = [s \in Subs |-> 0]
    /\ drops = 0
    /\ late = {}
    /\ doubt = [c \in Channels |-> FALSE]
    /\ steady = {}
    /\ shifted = {}

Listed(l, a) == {a[l].cells[i] : i \in 1 .. a[l].len}

\* totalForChannel, of the lists a.
Total(c, a) == a[c].len + Cardinality({i \in 1 .. a["wsEvents"].len :
                                          ChannelOf[a["wsEvents"].cells[i]] = c})

----------------------------------------------------------------------------
(* The counts on their way to the module.                                  *)

InFlight(c) ==
    \/ \E s \in Subs : ChannelOf[s] = c /\ emit[s] # NoCount
    \/ \E n \in 1 .. connects : sync[n][c] > 0

\* History: a count is computed for c now.
Computed(c) == doubt' = [doubt EXCEPT ![c] = InFlight(c)]

\* notifyModuleChannelCount: to whatever connection the world has by now; Send
\* drops the message when the send channel of the connection is full.
NotifyModule(c, n) ==
    IF ~online THEN UNCHANGED <<told, drops, doubt>>
    ELSE \/ told' = [told EXCEPT ![c] = n] /\ UNCHANGED <<drops, doubt>>
         \/ /\ drops < load.faults
            /\ drops' = drops + 1
            /\ doubt' = [doubt EXCEPT ![c] = TRUE]
            /\ UNCHANGED told

\* The module connects, or a new connection takes the entry of a dead one over;
\* either way the module starts with no subscribers and the relay's
\* OnClientConnected is due for every channel.
Connect ==
    /\ connects < load.connects
    /\ online' = TRUE
    /\ connects' = connects + 1
    /\ told' = [c \in Channels |-> 0]
    /\ sync' = [sync EXCEPT ![connects + 1] = [c \in Channels |-> Due]]
    /\ doubt' = [c \in Channels |-> doubt[c] /\ InFlight(c)]
    /\ UNCHANGED <<load, closes, peerCloses, emit, drops, at, registered, cancelled,
                   arr, late, fanout>>

\* OnClientConnected, one channel: the count is read under the lock ...
SyncRead(n, c) ==
    /\ sync[n][c] = Due /\ \A d \in Channels : sync[n][d] <= 0
    /\ sync' = [sync EXCEPT ![n][c] = Total(c, arr)]
    /\ IF Total(c, arr) = 0 THEN UNCHANGED doubt ELSE Computed(c)
    /\ UNCHANGED <<presence, told, emit, drops, at, registered, cancelled, arr,
                   late, fanout>>

\* ... and sent without it.
SyncSend(n, c) ==
    /\ sync[n][c] > 0
    /\ NotifyModule(c, sync[n][c])
    /\ sync' = [sync EXCEPT ![n][c] = Off]
    /\ UNCHANGED <<presence, emit, at, registered, cancelled, arr, late, fanout>>

\* RemoveClient or RemoveClientIfMatch took the entry out; OnSSEClose is next.
Disconnect ==
    /\ online
    /\ online' = FALSE
    /\ closes' = closes + 1
    /\ UNCHANGED <<load, connects, peerCloses, counts, at, registered, cancelled, arr,
                   late, fanout>>

\* Another instance saw this client ID disconnect and published "sse-close".
PeerClose ==
    /\ peerCloses < load.faults
    /\ peerCloses' = peerCloses + 1
    /\ closes' = closes + 1
    /\ UNCHANGED <<load, online, connects, counts, at, registered, cancelled, arr,
                   late, fanout>>

CloseForClientID ==
    /\ closes > 0
    /\ closes' = closes - 1
    /\ cancelled' = cancelled \cup registered
    /\ registered' = {}
    /\ late' = late \cup {s \in Streams : at[s] = "resolved"}
    /\ steady' = steady \ registered
    /\ UNCHANGED <<load, online, connects, peerCloses, counts, at, arr, fan, writing,
                   got, shifted>>

----------------------------------------------------------------------------
(* The slices.                                                             *)

\* append: in place while there is room, else into an array of twice the size.
Appended(v, s) ==
    LET kept == SubSeq(v.cells, 1, v.len)
    IN IF v.len < v.cap
       THEN [v EXCEPT !.cells = kept \o <<s>> \o
                                SubSeq(v.cells, v.len + 2, Len(v.cells)),
                      !.len = @ + 1]
       ELSE [cells |-> kept \o <<s>>, len |-> v.len + 1,
             cap |-> IF v.len = 0 THEN 1 ELSE 2 * v.len]

\* append(conns[:i], conns[i+1:]...): the tail moves down within the array, whose
\* last used cell keeps its content.
ShiftedCells(v, s) ==
    LET i == CHOOSE j \in 1 .. v.len : v.cells[j] = s
    IN [j \in 1 .. Len(v.cells) |->
           IF i <= j /\ j < v.len THEN v.cells[j + 1] ELSE v.cells[j]]

\* RemoveXSSE and RemoveWSEvent: an empty list is deleted from the map.
Without(v, s) ==
    IF v.len = 1 THEN EmptySlice
    ELSE [v EXCEPT !.cells = ShiftedCells(v, s), !.len = @ - 1]

Walking(l) ==
    \/ fan.stage = "streams" /\ l = fan.ev.ch
    \/ fan.stage = "sockets" /\ l = "wsEvents"

\* The list l leaves its array with these cells in it: a walk keeps the array.
Detach(l, cells, leaves) ==
    fan' = IF leaves /\ Walking(l) /\ fan.frozen = Shared
           THEN [fan EXCEPT !.frozen = cells] ELSE fan

\* A critical section of the manager: the list changes and the count is taken.
AddTo(l, s) ==
    /\ arr' = [arr EXCEPT ![l] = Appended(@, s)]
    /\ Detach(l, arr[l].cells, arr[l].len = arr[l].cap)
    /\ emit' = [emit EXCEPT ![s] = Total(ChannelOf[s], arr')]
    /\ Computed(ChannelOf[s])
    /\ at' = [at EXCEPT ![s] = "adding"]

\* Mutant: the count is taken before the entry is out.
RemoveCountedBefore(l, s) ==
    /\ arr' = [arr EXCEPT ![l] = Without(@, s)]
    /\ Detach(l, ShiftedCells(arr[l], s), arr[l].len = 1)
    /\ emit' = [emit EXCEPT ![s] = Total(ChannelOf[s], arr)]
    /\ Computed(ChannelOf[s])

RemoveFrom(l, s) ==
    /\ arr' = [arr EXCEPT ![l] = Without(@, s)]
    /\ Detach(l, ShiftedCells(arr[l], s), arr[l].len = 1)
    /\ emit' = [emit EXCEPT ![s] = Total(ChannelOf[s], arr')]
    /\ Computed(ChannelOf[s])

----------------------------------------------------------------------------
(* A subscription.                                                         *)

Move(s, to) == at' = [at EXCEPT ![s] = to]

\* sseSubscribeHandler up to GetClient: 404 when the world is offline.
Resolve(s) ==
    /\ at[s] = "idle"
    /\ Move(s, IF online THEN "resolved" ELSE "gone")
    /\ UNCHANGED <<presence, counts, registered, cancelled, arr, late, fanout>>

\* RegisterSSECancel.
Arm(s) ==
    /\ at[s] = "resolved"
    /\ Move(s, "armed")
    /\ registered' = registered \cup {s}
    /\ UNCHANGED <<presence, counts, cancelled, arr, late, fanout>>

\* Mutant: a return unregisters everybody.
ReturnOfAll(s) ==
    /\ registered' = {}
    /\ cancelled' = IF s \in Streams THEN cancelled \cup {s} ELSE cancelled

Full(l) == arr[l].len >= Limit

\* The deferred calls of the handler, unregister and cancel.
Return(s) ==
    /\ registered' = registered \ {s}
    /\ cancelled' = IF s \in Streams THEN cancelled \cup {s} ELSE cancelled

\* 403 for a foreign key, "Too many SSE connections" at the limit, else AddXSSE.
Admit(s) ==
    /\ at[s] = "armed"
    /\ IF s \in Foreign \/ Full(ListOf(s))
       THEN Move(s, "gone") /\ Return(s) /\ UNCHANGED <<counts, arr, fan>>
       ELSE /\ AddTo(ListOf(s), s)
            /\ UNCHANGED <<told, sync, drops, registered, cancelled>>
    /\ UNCHANGED <<presence, late, writing, got, steady, shifted>>

\* handleWSSubscribe, which does not look whether the world is online.
Subscribe(s) ==
    /\ at[s] = "idle"
    /\ IF Full("wsEvents")
       THEN /\ Move(s, "gone")
            /\ UNCHANGED <<counts, arr, fan>>
       ELSE AddTo("wsEvents", s) /\ UNCHANGED <<told, sync, drops>>
    /\ UNCHANGED <<presence, registered, cancelled, late, writing, got, steady,
                   shifted>>

\* emitCountChanged, after the lock: by the goroutine that changed the list, which
\* then goes on, or is finished.
Emit(s) ==
    /\ at[s] \in {"adding", "removing"}
    /\ NotifyModule(ChannelOf[s], emit[s])
    /\ emit' = [emit EXCEPT ![s] = NoCount]
    /\ IF at[s] = "adding"
       THEN Move(s, "open") /\ UNCHANGED <<registered, cancelled>>
       ELSE Move(s, "gone") /\ Return(s)
    /\ UNCHANGED <<presence, sync, arr, late, fanout>>

\* The subscriber hangs up: its request context, or its socket's done channel.
\* (Earlier than this nobody looks.)
HangUp(s) ==
    /\ at[s] = "open" /\ s \notin cancelled
    /\ cancelled' = cancelled \cup {s}
    /\ steady' = steady \ {s}
    /\ UNCHANGED <<presence, counts, at, registered, arr, late, fan, writing,
                   got, shifted>>

Withdraw(s) ==
    /\ at[s] = "open"
    /\ RemoveFrom(ListOf(s), s)
    /\ Move(s, "removing")
    /\ steady' = steady \ {s}
    /\ shifted' = IF Walking(ListOf(s)) THEN shifted \cup {ListOf(s)} ELSE shifted
    /\ UNCHANGED <<presence, told, sync, drops, registered, cancelled, late,
                   writing, got>>

\* The stream's loop wakes up, or the closed socket's state is cleaned up.
Remove(s) == s \in cancelled /\ Withdraw(s)

\* handleWSUnsubscribe: the socket itself stays.
Unsubscribe(s) == s \notin cancelled /\ Withdraw(s)

----------------------------------------------------------------------------
(* The fan-out of one event, in the read pump of the module's connection.  *)

\* Mutant: on a lenient channel the filter is not looked at.
MatchesLoosely(s, e) == FilterOf[s] \in {Anything, e.tag} \/ e.ch \in Lenient

\* The chat and roll filters look at a field the event has; the others compare.
Matches(s, e) ==
    \/ FilterOf[s] = Anything
    \/ FilterOf[s] = e.tag
    \/ e.ch \in Lenient /\ e.tag = Anything

Wants(s, e) == ChannelOf[s] = e.ch /\ Matches(s, e)

\* GetXSSE, GetWSEvents: the slice as it is, not a copy of it.
TakeList(stage, e, l) ==
    /\ fan' = [stage |-> stage, ev |-> e, len |-> arr[l].len, next |-> 1,
               frozen |-> Shared]
    /\ steady' = steady \cup {s \in Listed(l, arr) \ cancelled : ChannelOf[s] = e.ch}

\* The module is online when it sends the event.
EventArrives(e) ==
    /\ e \in load.events /\ fan.stage = "idle"
    /\ online
    /\ TakeList("streams", e, e.ch)
    /\ UNCHANGED <<presence, counts, at, registered, cancelled, arr, late,
                   writing, got, shifted>>

Cell == IF fan.frozen = Shared
        THEN arr[IF fan.stage = "streams" THEN fan.ev.ch ELSE "wsEvents"].cells[fan.next]
        ELSE fan.frozen[fan.next]

\* A goroutine for each stream the filter passes.
FanToStream ==
    /\ fan.stage = "streams" /\ fan.next <= fan.len
    /\ writing' = IF Matches(Cell, fan.ev)
                  THEN [writing EXCEPT ![Cell] = @ + 1] ELSE writing
    /\ fan' = [fan EXCEPT !.next = @ + 1]
    /\ UNCHANGED <<presence, counts, at, registered, cancelled, arr, late, got,
                   steady, shifted>>

FanToSockets ==
    /\ fan.stage = "streams" /\ fan.next > fan.len
    /\ TakeList("sockets", fan.ev, "wsEvents")
    /\ UNCHANGED <<presence, counts, at, registered, cancelled, arr, late,
                   writing, got, shifted>>

\* SendFunc, in the read pump: sendSafe refuses when the socket is done.
FanToSocket ==
    /\ fan.stage = "sockets" /\ fan.next <= fan.len
    /\ got' = IF Wants(Cell, fan.ev) /\ Cell \notin cancelled
              THEN [got EXCEPT ![Cell] = @ + 1] ELSE got
    /\ fan' = [fan EXCEPT !.next = @ + 1]
    /\ UNCHANGED <<presence, counts, at, registered, cancelled, arr, late,
                   writing, steady, shifted>>

FanDone ==
    /\ fan.stage = "sockets" /\ fan.next > fan.len
    /\ fan' = [stage |-> "over", ev |-> fan.ev]
    /\ UNCHANGED <<presence, counts, at, registered, cancelled, arr, late,
                   writing, got, steady, shifted>>

\* The goroutine of a stream: nothing when the stream is done, else the write.
Write(s) ==
    /\ writing[s] > 0
    /\ writing' = [writing EXCEPT ![s] = @ - 1]
    /\ got' = IF s \in cancelled THEN got ELSE [got EXCEPT ![s] = @ + 1]
    /\ UNCHANGED <<presence, counts, at, registered, cancelled, arr, late, fan,
                   steady, shifted>>

SubsNext ==
    \/ Connect \/ Disconnect \/ PeerClose \/ CloseForClientID
    \/ \E n \in 1 .. connects, c \in Channels : SyncRead(n, c) \/ SyncSend(n, c)
    \/ \E s \in Streams : Resolve(s) \/ Arm(s) \/ Admit(s) \/ Write(s)
    \/ \E s \in Sockets : Subscribe(s) \/ Unsubscribe(s)
    \/ \E s \in Subs : Emit(s) \/ HangUp(s) \/ Remove(s)
    \/ \E e \in Events : EventArrives(e)
    \/ FanToStream \/ FanToSockets \/ FanToSocket \/ FanDone

SubsSpec == SubsInit /\ [][SubsNext]_subsVars

----------------------------------------------------------------------------
(* Properties.                                                             *)

Quiet(c) == ~InFlight(c) /\ \A n \in 1 .. connects : sync[n][c] # Due

\* With no count on its way, the connected module has been told how many
\* subscribers the channel has (so its hooks are on exactly when somebody
\* listens) - unless two counts overlapped on their way, or one was dropped, and
\* no later count went alone.  Add, Remove, OnClientConnected.
CountsReachTheModule ==
    \A c \in Channels : online /\ Quiet(c) /\ ~doubt[c] => told[c] = Total(c, arr)

\* What server.go says of the callback: the module is told whenever the counts
\* change, so that it can enable its hooks on demand.  A channel with subscribers
\* is not left disabled, provided no message is dropped.
ListenedChannelIsOn ==
    \A c \in Channels :
        online /\ Quiet(c) /\ Total(c, arr) > 0 => told[c] > 0

\* Once the world is offline and its OnSSEClose has run, the streams of the world
\* are cancelled, but for those that had looked the world up and not yet
\* registered.  CloseForClientID against the start of a handler.
StreamsAreCut ==
    ~online /\ closes = 0 =>
        \A s \in Streams : at[s] \in {"armed", "adding", "open"}
                              => s \in cancelled \cup late

\* The lists hold the subscriptions that are open, once each, never more than the
\* limit; so no subscription outlives its handler.  Add, Remove, Limit.
ListsHoldTheOpen ==
    \A l \in Lists :
        /\ Listed(l, arr) = {s \in Subs : ListOf(s) = l /\ at[s] \in {"adding", "open"}}
        /\ arr[l].len = Cardinality(Listed(l, arr)) /\ arr[l].len <= Limit

Copies(s) == got[s] + (IF s \in Streams THEN writing[s] ELSE 0)

AsksFor(s, e) == ChannelOf[s] = e.ch /\ FilterOf[s] \in {Anything, e.tag}
Declines(s, e) ==
    \/ ChannelOf[s] # e.ch
    \/ FilterOf[s] \notin {Anything, e.tag} /\ e.tag # Anything

\* A subscriber that is there for the whole fan-out and asks for the event is served
\* exactly once, and nobody twice, unless somebody else left that list during the
\* walk; an event that it declines never reaches a subscriber.  The fan-out against
\* the in-place removal.
SteadyAreServedOnce ==
    /\ \A s \in Subs : Copies(s) > 0 =>
          ~Declines(s, fan.ev) /\ (Copies(s) = 1 \/ ListOf(s) \in shifted)
    /\ fan.stage = "over" =>
          \A s \in steady :
              AsksFor(s, fan.ev) /\ ListOf(s) \notin shifted => Copies(s) = 1
=============================================================================
