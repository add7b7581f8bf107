----------------------------- MODULE Directory -----------------------------
(***************************************************************************)
(* Who is online, and where: the Redis entries that AddClient and the      *)
(* removals of internal/ws/manager.go write after they released the lock,  *)
(* the isOnline flag that the goroutines of server.go write when a module  *)
(* connects or goes, and their readers: the forwarder of REST requests     *)
(* (middleware/forwarder.go), the forwarded actions, the probes.           *)
(*                                                                         *)
(* The apikey:* keys are left out: they are stored under the hash of the   *)
(* key, the forwarder reads them under the key itself and so never finds   *)
(* one, and GetInstanceForAPIKey has no caller.                            *)
(*                                                                         *)
(* Every call of Redis and of the database may fail: the code logs it or   *)
(* drops it, and goes on.  IsConnected is fixed when an instance starts.   *)
(***************************************************************************)
EXTENDS Integers, FiniteSets

CONSTANTS
    Clients,    \* client ids of one account's worlds
    Instances,  \* relay instances
    Conns,      \* connections a module makes, each used once
    WorldOf,    \* the client id each of them is for
    Hosts,      \* addresses it connects from
    Requests,   \* REST requests that name a client id
    None,       \* no instance, no connection
    Solo,       \* the only instance of a deployment without Redis
    Loads       \* bounds: how many connections, requests and upsets (crashes, failed
                \*   calls, writes of others) occur in one behaviour

ASSUME ConstantsAssumption ==
    /\ Solo \in Instances /\ None \notin Instances /\ None \notin Conns
    /\ IsFiniteSet(Conns) /\ WorldOf \in [Conns -> Clients]
    /\ \A l \in Loads : {l.conns, l.requests, l.upsets} \subseteq Nat

VARIABLES
    load,     \* the load of this behaviour
    redis,    \* whether the deployment has Redis
    forwards, \* ... and an AppName, without which no request is forwarded
    local,    \* ClientManager.clients of each instance
    entry,    \* client:<id>:instance in Redis
    known,    \* KnownClients: the row of each client id
    conn,     \* connections: where, from which host, AddClient's progress
    joins,    \* OnClientConnected goroutines, by connection: not begun, looked up
    leaves,   \* OnClientRemoved goroutines, by connection
    clearing, \* removals that are still to delete the entry
    greeted,  \* "new world" notices sent for each client id
    request,  \* REST requests on their way
    upsets,   \* crashes, failed calls and writes of others so far
    crossed,  \* history: clients with two connections in flight at once
    stale,    \* history: clients whose entry a crash or a failed DEL left behind
    unnamed,  \* history: clients whose host a failed SET or EXPIRE left without entry
    mixed,    \* history: clients whose goroutines were in flight at once
    wrong,    \* history: clients whose flag a failed call or another writer left wrong
    retold    \* history: clients whose row was deleted, not found or not written

jobs == <<joins, leaves, clearing>>
routes == <<crossed, stale, unnamed>>
flags == <<mixed, wrong, retold>>
history == <<routes, flags>>
setting == <<load, redis, forwards>>
vars == <<setting, local, entry, known, conn, jobs, greeted, request, upsets, history>>

NoConn == [at |-> "new", i |-> None, host |-> None]
Gone == [at |-> "gone", i |-> None, host |-> None]
NoRequest == [at |-> "new", c |-> None, i |-> None, hops |-> 0, steady |-> FALSE]

Answer(at, steady) == [NoRequest EXCEPT !.at = at, !.steady = steady]

TypeOK ==
    /\ load \in Loads /\ redis \in BOOLEAN /\ forwards \in {redis, FALSE}
    /\ local \in [Instances -> [Clients -> Conns \cup {None}]]
    /\ entry \in [Clients -> Instances \cup {None}]
    /\ known \in [Clients -> {"absent", "offline", "online"}]
    /\ \A k \in Conns :
        \/ conn[k] \in {NoConn, Gone}
        \/ /\ conn[k].at \in {"adding", "added"}
           /\ conn[k].i \in Instances /\ conn[k].host \in Hosts
    /\ joins \in [Conns -> {"none", "started", "first", "again"}]
    /\ leaves \subseteq Conns /\ clearing \subseteq Conns
    /\ greeted \in [Clients -> Nat]
    /\ \A q \in Requests :
        \/ /\ request[q].at \in {"routing", "here"}
           /\ request[q].c \in Clients /\ request[q].i \in Instances
        \/ request[q].at \in {"new", "reached", "missing", "gateway"}
    /\ upsets \in 0 .. load.upsets
    /\ crossed \subseteq Clients /\ stale \subseteq Clients /\ unnamed \subseteq Clients
    /\ mixed \subseteq Clients /\ wrong \subseteq Clients /\ retold \subseteq Clients

Init ==
    /\ load \in Loads /\ redis \in BOOLEAN /\ forwards \in {redis, FALSE}
    /\ local = [i \in Instances |-> [c \in Clients |-> None]]
    /\ entry = [c \in Clients |-> None]
    /\ known = [c \in Clients |-> "absent"]
    /\ conn = [k \in Conns |-> NoConn]
    /\ joins = [k \in Conns |-> "none"]
    /\ leaves = {}
    /\ clearing = {}
    /\ greeted = [c \in Clients |-> 0]
    /\ request = [q \in Requests |-> NoRequest]
    /\ upsets = 0
    /\ crossed = {} /\ stale = {} /\ unnamed = {}
    /\ mixed = {} /\ wrong = {} /\ retold = {}

Running == IF redis THEN Instances ELSE {Solo}
Of(c, set) == {k \in set : WorldOf[k] = c}
Upset == upsets < load.upsets /\ upsets' = upsets + 1

----------------------------------------------------------------------------
(* What the other components ask (none of these changes anything).         *)

Hosting(c) == {i \in Instances : local[i][c] # None}

\* SafeGet of the entry: nothing without Redis, when the entry is not there, and
\* when the call fails, which every caller takes for the same.
GetClientInstanceID(c, ok) == IF redis /\ ok THEN entry[c] ELSE None

\* IsClientOnlineAnywhere, asked on instance i.
IsClientOnlineAnywhere(i, c, ok) == local[i][c] # None \/ GetClientInstanceID(c, ok) # None

\* GetClientRemoteInstance: a stale entry that points at the asking instance is none.
GetClientRemoteInstance(i, c, ok) ==
    IF local[i][c] # None \/ GetClientInstanceID(c, ok) = i THEN None
    ELSE GetClientInstanceID(c, ok)

\* InternalForwardActionHandler on instance j: an error if the client is not there.
InternalForward(j, c) == local[j][c] # None

\* ClientActiveHandler: 404 for an id that no row has.
ClientActive(i, c, ok) ==
    IF known[c] = "absent" THEN "unknown"
    ELSE IF IsClientOnlineAnywhere(i, c, ok) THEN "active" ELSE "inactive"

\* The world of c is where it is, and nothing about it is in flight.
InFlight(c) ==
    \/ Of(c, clearing) # {}
    \/ \E k \in Conns : WorldOf[k] = c /\ conn[k].at = "adding"
Settled(c) == ~InFlight(c) /\ c \notin crossed

----------------------------------------------------------------------------
(* A connection joins.                                                     *)

Disturbed(c) == [q \in Requests |->
    IF request[q].c = c THEN [request[q] EXCEPT !.steady = FALSE] ELSE request[q]]

Refuses(i, c, h) == local[i][c] # None /\ conn[local[i][c]].host # h

\* AddClient up to the unlock: a connection from the same host takes the place
\* of the registered one, whose own removal will match nothing any more; from
\* another host it is turned away.  There is no look at the other instances.
Register(k, i, h) ==
    LET c == WorldOf[k] IN
    /\ conn[k] = NoConn
    /\ Cardinality({l \in Conns : conn[l] # NoConn}) < load.conns
    /\ i \in Running
    /\ \/ /\ Refuses(i, c, h)
          /\ conn' = [conn EXCEPT ![k] = Gone]
          /\ UNCHANGED <<local, request, history>>
       \/ /\ ~Refuses(i, c, h)
          /\ conn' = [conn EXCEPT ![k] = [at |-> "adding", i |-> i, host |-> h]]
          /\ local' = [local EXCEPT ![i][c] = k]
          /\ request' = Disturbed(c)
          /\ crossed' = IF Hosting(c) \ {i} # {} \/ Of(c, clearing) # {}
                        THEN crossed \cup {c} ELSE crossed
          /\ mixed' = IF Hosting(c) \ {i} # {} \/ Of(c, leaves) # {}
                      THEN mixed \cup {c} ELSE mixed
          /\ UNCHANGED <<stale, unnamed, wrong, retold>>
    /\ UNCHANGED <<setting, entry, known, jobs, greeted, upsets>>

\* Mutant: the pipeline keeps an entry that is already there (SETNX).
SetEntryIfNew(k) ==
    LET c == WorldOf[k] IN
    \/ /\ entry' = IF redis /\ entry[c] = None THEN [entry EXCEPT ![c] = conn[k].i] ELSE entry
       /\ stale' = stale \ {c}
       /\ unnamed' = unnamed \ {c}
       /\ UNCHANGED upsets
    \/ /\ redis
       /\ Upset
       /\ unnamed' = IF entry[c] = conn[k].i THEN unnamed ELSE unnamed \cup {c}
       /\ UNCHANGED <<entry, stale>>

\* The pipeline of SETs, whose failure is logged and leaves the entry as it was (a
\* failure that is reported after Redis ran it does what a success does).
SetEntry(k) ==
    LET c == WorldOf[k] IN
    \/ /\ entry' = IF redis THEN [entry EXCEPT ![c] = conn[k].i] ELSE entry
       /\ stale' = stale \ {c}
       /\ unnamed' = unnamed \ {c}
       /\ UNCHANGED upsets
    \/ /\ redis
       /\ Upset
       /\ unnamed' = IF entry[c] = conn[k].i THEN unnamed ELSE unnamed \cup {c}
       /\ UNCHANGED <<entry, stale>>

\* AddClient after the unlock: the entry, then OnClientConnected, which starts a
\* goroutine.
Announce(k) ==
    LET c == WorldOf[k] IN
    /\ conn[k].at = "adding"
    /\ conn' = [conn EXCEPT ![k].at = "added"]
    /\ SetEntry(k)
    /\ joins' = [joins EXCEPT ![k] = "started"]
    /\ mixed' = IF \E l \in Of(c, Conns) : joins[l] # "none" THEN mixed \cup {c} ELSE mixed
    /\ UNCHANGED <<setting, local, known, leaves, clearing, greeted, request, crossed, wrong, retold>>

\* The goroutine of OnClientConnected: FindByClientID, to tell a new world; a
\* look-up that fails tells one as well.  Without the account (its own look-up
\* may fail too) the goroutine ends there.
LookUp(k) ==
    LET c == WorldOf[k] IN
    /\ joins[k] = "started"
    /\ \/ /\ joins' = [joins EXCEPT ![k] = IF known[c] = "absent" THEN "first" ELSE "again"]
          /\ UNCHANGED <<upsets, flags>>
       \/ /\ Upset
          /\ joins' = [joins EXCEPT ![k] = "first"]
          /\ retold' = retold \cup {c}
          /\ UNCHANGED <<mixed, wrong>>
       \/ /\ Upset
          /\ joins' = [joins EXCEPT ![k] = "none"]
          /\ wrong' = wrong \cup {c}
          /\ UNCHANGED <<mixed, retold>>
    /\ UNCHANGED <<setting, local, entry, known, conn, leaves, clearing, greeted, request, routes>>

\* Mutant: is_online is among the columns that an upsert does not overwrite.
UpsertKeepingFlag(c) == [known EXCEPT ![c] = IF @ = "absent" THEN "online" ELSE @]

\* The row of the ON CONFLICT upsert with IsOnline: true.
Upsert(c) == [known EXCEPT ![c] = "online"]

\* ... then Upsert, whose failure is logged, and the connection log and the
\* notices, which go out in any case.
Greet(k) ==
    LET c == WorldOf[k] IN
    /\ joins[k] \in {"first", "again"}
    /\ \/ /\ known' = Upsert(c)
          /\ wrong' = wrong \ {c}
          /\ UNCHANGED <<upsets, retold>>
       \/ /\ Upset
          /\ wrong' = wrong \cup {c}
          /\ retold' = retold \cup {c}
          /\ UNCHANGED known
    /\ greeted' = IF joins[k] = "first" THEN [greeted EXCEPT ![c] = @ + 1] ELSE greeted
    /\ joins' = [joins EXCEPT ![k] = "none"]
    /\ UNCHANGED <<setting, local, entry, conn, leaves, clearing, request, routes, mixed>>

\* POST /auth/pair exchanges a code for a world: its upsert of the row, for a
\* first pairing and for one more browser alike, leaves IsOnline unset and so
\* clears the flag of a world that is connected.
Pair(c) ==
    /\ Upset
    /\ known' = [known EXCEPT ![c] = "offline"]
    /\ wrong' = IF Hosting(c) # {} THEN wrong \cup {c} ELSE wrong
    /\ UNCHANGED <<setting, local, entry, conn, jobs, greeted, request, routes, mixed, retold>>

\* DELETE of a known client takes the row (what it broadcasts ends the
\* connection later, by Unlink).
DeleteRow(c) ==
    /\ known[c] # "absent"
    /\ Upset
    /\ known' = [known EXCEPT ![c] = "absent"]
    /\ wrong' = IF Hosting(c) # {} THEN wrong \cup {c} ELSE wrong
    /\ retold' = retold \cup {c}
    /\ UNCHANGED <<setting, local, entry, conn, jobs, greeted, request, routes, mixed>>

----------------------------------------------------------------------------
(* A connection leaves.                                                    *)

\* RemoveClientIfMatch by the read pump of the registered connection, or
\* RemoveClient by a revocation, up to the unlock; OnClientRemoved starts a
\* goroutine.  A connection that was replaced removes nothing.
Unlink(k) ==
    LET c == WorldOf[k]  i == conn[k].i IN
    /\ conn[k].at \in {"adding", "added"}
    /\ local[i][c] = k
    /\ local' = [local EXCEPT ![i][c] = None]
    /\ clearing' = IF redis THEN clearing \cup {k} ELSE clearing
    /\ leaves' = leaves \cup {k}
    /\ request' = Disturbed(c)
    /\ crossed' = IF InFlight(c) \/ Hosting(c) # {i} THEN crossed \cup {c} ELSE crossed
    /\ mixed' = IF \/ Hosting(c) # {i} \/ conn[k].at = "adding"
                   \/ \E l \in Of(c, Conns) : joins[l] # "none" \/ conn[l].at = "adding"
                THEN mixed \cup {c} ELSE mixed
    /\ UNCHANGED <<setting, entry, known, conn, joins, greeted, upsets, stale, unnamed, wrong, retold>>

\* DEL client:<id>:instance, whichever instance it names; nobody looks whether it
\* failed.
ClearEntry(k) ==
    LET c == WorldOf[k] IN
    /\ k \in clearing
    /\ clearing' = clearing \ {k}
    /\ \/ /\ entry' = [entry EXCEPT ![c] = None]
          /\ stale' = stale \ {c}
          /\ UNCHANGED upsets
       \/ /\ Upset
          /\ stale' = stale \cup {c}
          /\ UNCHANGED entry
    /\ UNCHANGED <<setting, local, known, conn, joins, leaves, greeted, request, crossed, unnamed,
                   flags>>

\* The goroutine of OnClientRemoved: SetOffline, an UPDATE that adds no row and may
\* fail, as the look-up of the account before it may.
SetOffline(k) ==
    LET c == WorldOf[k] IN
    /\ k \in leaves
    /\ leaves' = leaves \ {k}
    /\ \/ /\ known' = [known EXCEPT ![c] = IF @ = "online" THEN "offline" ELSE @]
          /\ wrong' = wrong \ {c}
          /\ UNCHANGED upsets
       \/ /\ Upset
          /\ wrong' = wrong \cup {c}
          /\ UNCHANGED known
    /\ UNCHANGED <<setting, local, entry, conn, joins, clearing, greeted, request, routes, mixed, retold>>

\* Two hours pass: an entry that no pong refreshes expires, because the world is
\* gone or because no refresh got through to Redis.  The pong of any registered
\* connection of the id refreshes it (UpdateClientLastSeen), and whatever was in
\* flight is over long before.
Expire(c) ==
    /\ entry[c] # None
    /\ ~InFlight(c)
    /\ entry' = [entry EXCEPT ![c] = None]
    /\ stale' = stale \ {c}
    /\ request' = Disturbed(c)
    /\ \/ /\ Hosting(c) = {}
          /\ crossed' = crossed \ {c}
          /\ unnamed' = unnamed \ {c}
          /\ UNCHANGED upsets
       \/ /\ Hosting(c) # {}
          /\ Upset
          /\ unnamed' = unnamed \cup {c}
          /\ UNCHANGED crossed
    /\ UNCHANGED <<setting, local, known, conn, jobs, greeted, flags>>

\* What a start without Redis does to the rows: ResetAllOnline.
ResetAllOnline == [c \in Clients |-> IF known[c] = "online" THEN "offline" ELSE known[c]]

\* An instance dies with its connections and goroutines, and starts again.  The
\* entries stay; so do the flags, unless it starts without Redis: because the
\* deployment has none, or because it cannot reach it.
Crash(i) ==
    LET lost == {c \in Clients : \E k \in Conns : WorldOf[k] = c /\ conn[k].i = i
                                     /\ (local[i][c] # None \/ k \in clearing \cup leaves
                                         \/ joins[k] # "none")} IN
    /\ i \in Running
    /\ Upset
    /\ local' = [local EXCEPT ![i] = [c \in Clients |-> None]]
    /\ conn' = [k \in Conns |-> IF conn[k].i = i THEN Gone ELSE conn[k]]
    /\ joins' = [k \in Conns |-> IF conn[k].i = i THEN "none" ELSE joins[k]]
    /\ leaves' = {k \in leaves : conn[k].i # i}
    /\ clearing' = {k \in clearing : conn[k].i # i}
    /\ request' = [q \in Requests |->
          IF request[q].at \in {"routing", "here"} /\ request[q].i = i
          THEN Answer("gateway", FALSE)
          ELSE IF request[q].c \in lost THEN [request[q] EXCEPT !.steady = FALSE] ELSE request[q]]
    /\ stale' = stale \cup {c \in lost : redis}
    /\ \/ /\ known' = known
          /\ mixed' = mixed \cup lost
          /\ wrong' = wrong
       \/ /\ known' = ResetAllOnline
          /\ mixed' = IF redis THEN mixed \cup lost ELSE {c \in mixed : greeted[c] > 1}
          /\ wrong' = {c \in Clients : Hosting(c) \ {i} # {}}
    /\ UNCHANGED <<setting, entry, greeted, crossed, unnamed, retold>>

----------------------------------------------------------------------------
(* A request for a client id.                                              *)

\* steady: the world is where the directory has it, or at the instance that
\* forwards nothing; it is undone when the world moves or a call fails.
Arrive(q, c, i) ==
    /\ request[q] = NoRequest
    /\ Cardinality({p \in Requests : request[p] # NoRequest}) < load.requests
    /\ i \in Running
    /\ request' = [request EXCEPT ![q] =
          [at |-> "routing", c |-> c, i |-> i, hops |-> 0,
           steady |-> /\ Settled(c) /\ Cardinality(Hosting(c)) = 1
                      /\ IF forwards THEN c \notin unnamed ELSE Hosting(c) = {i}]]
    /\ UNCHANGED <<setting, local, entry, known, conn, jobs, greeted, upsets, history>>

\* Mutant: the instance does not look whether the entry names itself.
TargetOfEntry(i, c, ok) == IF forwards THEN GetClientInstanceID(c, ok) ELSE None

\* Where the middleware sends it: to the instance of the entry, if another, in a
\* deployment that has an AppName.
Target(i, c, ok) ==
    IF ~forwards \/ GetClientInstanceID(c, ok) = i THEN None ELSE GetClientInstanceID(c, ok)

\* RequestForwarder.Middleware, run again by each instance on the way (nothing
\* marks a request as forwarded).  The read of the entry may fail, and the
\* request is handled here; the forward may fail or time out.
Route(q) ==
    LET r == request[q] IN
    /\ r.at = "routing"
    /\ \/ LET to == Target(r.i, r.c, TRUE) IN
          /\ request' = [request EXCEPT ![q] =
                IF to = None THEN [r EXCEPT !.at = "here"]
                ELSE [r EXCEPT !.i = to, !.hops = IF @ < 2 THEN @ + 1 ELSE @]]
          /\ UNCHANGED upsets
       \/ /\ Target(r.i, r.c, TRUE) # None
          /\ Upset
          /\ \E at \in {"here", "gateway"} : request' = [request EXCEPT ![q] =
                IF at = "here" THEN [r EXCEPT !.at = at, !.steady = FALSE] ELSE Answer(at, FALSE)]
    /\ UNCHANGED <<setting, local, entry, known, conn, jobs, greeted, history>>

\* The handler of the instance it ended on: GetClient, or an error.
Handle(q) ==
    LET r == request[q] IN
    /\ r.at = "here"
    /\ request' = [request EXCEPT ![q] =
          Answer(IF local[r.i][r.c] # None THEN "reached" ELSE "missing", r.steady)]
    /\ UNCHANGED <<setting, local, entry, known, conn, jobs, greeted, upsets, history>>

Next ==
    \/ \E k \in Conns :
        \/ \E i \in Instances, h \in Hosts : Register(k, i, h)
        \/ Announce(k)
        \/ LookUp(k)
        \/ Greet(k)
        \/ Unlink(k)
        \/ ClearEntry(k)
        \/ SetOffline(k)
    \/ \E c \in Clients : Pair(c) \/ DeleteRow(c) \/ Expire(c)
    \/ \E i \in Instances : Crash(i)
    \/ \E q \in Requests :
        \/ \E c \in Clients, i \in Instances : Arrive(q, c, i)
        \/ Route(q)
        \/ Handle(q)

Spec == Init /\ [][Next]_vars

----------------------------------------------------------------------------
(* Properties.                                                             *)

\* Every instance gives the same, true answer about a world once the Redis calls
\* of its connections are over: one that can read the entry says online exactly if
\* the world is registered somewhere, and finds its host; one that cannot never
\* says online of a world that is nowhere.  Excepted are worlds of which two
\* connections crossed, a host whose SET or refreshes failed until the next SET,
\* and, until it comes back, a world whose entry a crash or a failed DEL left
\* behind (manager.go:147-184, 280-299, 632-665, 741-766).
InstancesAgree ==
    \A c \in Clients :
        /\ Settled(c) /\ Cardinality(Hosting(c)) <= 1
        /\ c \notin (IF Hosting(c) # {} THEN unnamed ELSE stale)
        => \A i \in Running, ok \in BOOLEAN :
            /\ IsClientOnlineAnywhere(i, c, ok) => Hosting(c) # {}
            /\ ClientActive(i, c, ok) = "active" => Hosting(c) # {}
            /\ ok => IsClientOnlineAnywhere(i, c, ok) \/ Hosting(c) = {}
            /\ \/ ~ok \/ Hosting(c) \subseteq {i}
               \/ LET host == GetClientRemoteInstance(i, c, ok) IN
                    host # None /\ InternalForward(host, c)

\* The isOnline flag of the dashboard is right when the goroutines are over,
\* unless a connect and a removal of the id, or two instances, overlapped, a crash
\* lost one of them, or, until the next write of them that succeeds, a goroutine
\* failed or a pairing or deletion wrote the row of a connected world
\* (server.go:130-145, 219-268; main.go:104-111; connection_tokens.go:420-438).
FlagFollowsPresence ==
    \A c \in Clients :
        /\ c \notin mixed \cup wrong /\ ~InFlight(c) /\ Of(c, leaves) = {}
        /\ \A k \in Of(c, Conns) : joins[k] = "none"
        => (known[c] = "online" <=> Hosting(c) # {})

\* A request for a world that stays where it is all along reaches it, over one hop
\* at most, from every instance of a deployment that forwards (from its host in
\* one that does not), if the host's entry was written and the request's own read
\* of it and forward get through (forwarder.go:57-121; manager.go:654).
SteadyIsReached ==
    \A q \in Requests : request[q].steady =>
        request[q].at \notin {"missing", "gateway"} /\ request[q].hops <= 1

\* A user is told of a new world once, unless two goroutines of the id looked
\* before either wrote, its row was deleted meanwhile, or the look-up or the
\* upsert of one of them failed (server.go:229, 252-268, 336).  A world whose
\* pairing made the row is not told at all.
NewWorldOnce == \A c \in Clients : greeted[c] <= 1 \/ c \in mixed \cup retold
=============================================================================
