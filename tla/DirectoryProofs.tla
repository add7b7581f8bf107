---------------------------- MODULE DirectoryProofs ----------------------------
(***************************************************************************)
(* Theorems about Directory, for any worlds, instances, connections, hosts *)
(* and requests.  RouteOK(c) is what holds of the entry of a world whose   *)
(* Redis calls did not cross, FlagOK(c) of the row of one whose goroutines *)
(* were not mixed, RequestOK(q) of a request for a world that stays.       *)
(***************************************************************************)
EXTENDS Directory, FiniteSetTheorems, TLAPS

ConnRecords == [at : {"new", "adding", "added", "gone"}, i : Instances \cup {None}, host : Hosts \cup {None}]
RequestRecords ==
    [at : {"new", "routing", "here", "reached", "missing", "gateway"}, c : Clients \cup {None},
     i : Instances \cup {None}, hops : 0 .. 2, steady : BOOLEAN]

Typed ==
    /\ load \in Loads /\ redis \in BOOLEAN /\ forwards \in {redis, FALSE}
    /\ local \in [Instances -> [Clients -> Conns \cup {None}]]
    /\ entry \in [Clients -> Instances \cup {None}]
    /\ known \in [Clients -> {"absent", "offline", "online"}]
    /\ conn \in [Conns -> ConnRecords]
    /\ joins \in [Conns -> {"none", "started", "first", "again"}]
    /\ leaves \subseteq Conns /\ clearing \subseteq Conns
    /\ greeted \in [Clients -> Nat]
    /\ request \in [Requests -> RequestRecords]
    /\ upsets \in 0 .. load.upsets
    /\ crossed \subseteq Clients /\ stale \subseteq Clients /\ unnamed \subseteq Clients
    /\ mixed \subseteq Clients /\ wrong \subseteq Clients /\ retold \subseteq Clients

Up(k) == conn[k].at \in {"adding", "added"}
\* Where a connection is, what is registered, and whose goroutines are about.
ConnOK(k) ==
    /\ Up(k) => conn[k].i \in Running /\ conn[k].host \in Hosts
    /\ ~Up(k) => conn[k] \in {NoConn, Gone}
    /\ joins[k] # "none" => conn[k].at = "added"
    /\ k \in leaves \cup clearing => Up(k)
LocalOK(i, c) ==
    local[i][c] # None => /\ Up(local[i][c]) /\ WorldOf[local[i][c]] = c
                          /\ conn[local[i][c]].i = i
RequestTyped(q) ==
    request[q].at \in {"routing", "here"} => request[q].c \in Clients /\ request[q].i \in Running
Placed ==
    /\ \A k \in Conns : ConnOK(k)
    /\ \A i \in Instances, c \in Clients : LocalOK(i, c)
    /\ \A q \in Requests : RequestTyped(q)

Consistent == Typed /\ Placed

\* A call that fails, a crash or the write of another counts once.
LEMMA UpsetsCounted ==
  ASSUME Typed, UNCHANGED load, UNCHANGED upsets \/ Upset PROVE upsets' \in 0 .. load'.upsets
BY ConstantsAssumption DEF Typed, Upset

\* Requests keep their shape.
LEMMA RequestShapes ==
  /\ NoRequest \in RequestRecords
  /\ \A r \in RequestRecords :
        /\ [r EXCEPT !.steady = FALSE] \in RequestRecords /\ [r EXCEPT !.at = "here"] \in RequestRecords
        /\ r.at = [r EXCEPT !.steady = FALSE].at /\ r.c = [r EXCEPT !.steady = FALSE].c
        /\ r.i = [r EXCEPT !.steady = FALSE].i
        /\ \A i \in Instances, n \in 0 .. 2 : [r EXCEPT !.i = i, !.hops = n] \in RequestRecords
  /\ \A at \in {"reached", "missing", "gateway"}, b \in BOOLEAN :
        Answer(at, b) \in RequestRecords /\ Answer(at, b).at = at /\ Answer(at, b).steady = b
  /\ \A c \in Clients, i \in Instances, b \in BOOLEAN :
        [at |-> "routing", c |-> c, i |-> i, hops |-> 0, steady |-> b] \in RequestRecords
<1>0. 0 \in 0 .. 2
  OBVIOUS
<1>1. NoRequest \in RequestRecords
  BY <1>0 DEF NoRequest, RequestRecords
<1>2. ASSUME NEW r \in RequestRecords
      PROVE  /\ [r EXCEPT !.steady = FALSE] \in RequestRecords
             /\ [r EXCEPT !.at = "here"] \in RequestRecords
             /\ r.at = [r EXCEPT !.steady = FALSE].at /\ r.c = [r EXCEPT !.steady = FALSE].c
             /\ r.i = [r EXCEPT !.steady = FALSE].i
             /\ \A i \in Instances, n \in 0 .. 2 : [r EXCEPT !.i = i, !.hops = n] \in RequestRecords
  BY DEF RequestRecords
<1>4. \A c \in Clients, i \in Instances, b \in BOOLEAN :
        [at |-> "routing", c |-> c, i |-> i, hops |-> 0, steady |-> b] \in RequestRecords
  BY <1>0, Zenon DEF RequestRecords
<1>5. \A at \in {"reached", "missing", "gateway"}, b \in BOOLEAN :
        Answer(at, b) \in RequestRecords /\ Answer(at, b).at = at /\ Answer(at, b).steady = b
  <2> SUFFICES ASSUME NEW at \in {"reached", "missing", "gateway"}, NEW b \in BOOLEAN
               PROVE  Answer(at, b) \in RequestRecords /\ Answer(at, b).at = at /\ Answer(at, b).steady = b
    BY Zenon
  <2>1. Answer(at, b) = [NoRequest EXCEPT !.at = at, !.steady = b]
    BY Zenon DEF Answer
  <2>2. /\ [NoRequest EXCEPT !.at = at, !.steady = b] \in RequestRecords
        /\ [NoRequest EXCEPT !.at = at, !.steady = b].at = at
        /\ [NoRequest EXCEPT !.at = at, !.steady = b].steady = b
    BY <1>1 DEF RequestRecords
  <2>3. QED BY <2>1, <2>2, Zenon
<1>6. QED BY <1>1, <1>2, <1>4, <1>5

LEMMA TypesFollow == Consistent => TypeOK
<1> SUFFICES ASSUME Consistent PROVE TypeOK
  OBVIOUS
<1>1. \A k \in Conns : \/ conn[k] \in {NoConn, Gone}
                       \/ /\ conn[k].at \in {"adding", "added"}
                          /\ conn[k].i \in Instances /\ conn[k].host \in Hosts
  BY ConstantsAssumption DEF Consistent, Placed, ConnOK, Up, Running
<1>2. \A q \in Requests :
        \/ /\ request[q].at \in {"routing", "here"}
           /\ request[q].c \in Clients /\ request[q].i \in Instances
        \/ request[q].at \in {"new", "reached", "missing", "gateway"}
  BY ConstantsAssumption DEF Consistent, Typed, Placed, RequestTyped, RequestRecords, Running
<1>3. QED BY <1>1, <1>2 DEF Consistent, Typed, TypeOK

LEMMA RunningAreInstances == Running \subseteq Instances
BY ConstantsAssumption DEF Running

LEMMA ConsistentInit == Init => Consistent
<1> SUFFICES ASSUME Init PROVE Consistent
  OBVIOUS
<1>1. NoConn \in ConnRecords /\ NoRequest \in RequestRecords
  BY DEF NoConn, NoRequest, ConnRecords, RequestRecords
<1>2. 0 \in 0 .. load.upsets
  BY ConstantsAssumption DEF Init
<1>3. Typed
  BY <1>1, <1>2 DEF Init, Typed
<1>4. Placed
  BY ConstantsAssumption DEF Init, Placed, ConnOK, LocalOK, RequestTyped, Up, NoConn, NoRequest
<1>5. QED BY <1>3, <1>4 DEF Consistent
----------------------------------------------------------------------------
(* What holds of a world, its row and a request.                           *)

Adding(c) == \E k \in Conns : WorldOf[k] = c /\ conn[k].at = "adding"

\* A world whose Redis calls did not cross is on one instance, and a connection
\* that is being added is, too; a removal that is to delete the entry is followed
\* by no registration.  So the entry names the host, or is about to, or a failed
\* call left the host without; and without a host there is none, or it is about to
\* go, or it was left behind.
RouteOK(c) == c \notin crossed =>
    /\ \A i, j \in Instances : local[i][c] # None /\ local[j][c] # None => i = j
    /\ \A k \in Conns : WorldOf[k] = c /\ conn[k].at = "adding" => local[conn[k].i][c] # None
    /\ \A k \in Conns : k \in clearing /\ WorldOf[k] = c => \A i \in Instances : local[i][c] = None
    /\ redis => \A i \in Instances : local[i][c] # None => entry[c] = i \/ Adding(c) \/ c \in unnamed
    /\ redis /\ (\A i \in Instances : local[i][c] = None) =>
            entry[c] = None \/ c \in stale \/ \E k \in Conns : k \in clearing /\ WorldOf[k] = c

\* The goroutines of a world that were not mixed follow one another, and the last
\* of them left the flag right or is known to have left it wrong.
FlagOK(c) ==
    /\ greeted[c] # 0 => known[c] # "absent" \/ c \in retold
    /\ c \notin mixed =>
        /\ \A i, j \in Instances : local[i][c] # None /\ local[j][c] # None => i = j
        /\ \A k \in Conns : WorldOf[k] = c /\ (conn[k].at = "adding" \/ joins[k] # "none") =>
                \E i \in Instances : local[i][c] # None
        /\ \A k \in Conns : WorldOf[k] = c /\ conn[k].at = "adding" => local[conn[k].i][c] # None
        /\ \A k \in Conns : k \in leaves /\ WorldOf[k] = c => \A i \in Instances : local[i][c] = None
        /\ (\E i \in Instances : local[i][c] # None) =>
                \/ known[c] = "online" \/ Adding(c) \/ c \in wrong
                \/ \E k \in Conns : WorldOf[k] = c /\ joins[k] # "none"
        /\ (\A i \in Instances : local[i][c] = None) =>
                known[c] # "online" \/ c \in wrong \/ \E k \in Conns : k \in leaves /\ WorldOf[k] = c
        /\ \A k, l \in Conns : WorldOf[k] = c /\ WorldOf[l] = c /\ joins[k] # "none" /\ joins[l] # "none"
                => k = l
        /\ c \notin retold => /\ \A k \in Conns : WorldOf[k] = c /\ joins[k] = "first" => greeted[c] = 0
                              /\ greeted[c] <= 1

\* The world of a steady request stays on one instance, which the request is on
\* after one hop, or from the start where nothing is forwarded.
RequestOK(q) == request[q].steady =>
    /\ request[q].at \in {"routing", "here", "reached"} /\ request[q].hops <= 1
    /\ request[q].at \in {"routing", "here"} =>
        LET c == request[q].c IN
        /\ c \notin crossed /\ ~Adding(c) /\ Of(c, clearing) = {}
        /\ forwards => c \notin unnamed
        /\ \E j \in Instances :
            /\ local[j][c] # None
            /\ (forwards /\ request[q].hops = 0) \/ request[q].i = j
            /\ request[q].at = "here" => request[q].i = j

----------------------------------------------------------------------------
(* Every step keeps the types and the places.                              *)

LEMMA RegisterConsistent ==
  ASSUME Consistent, NEW k \in Conns, NEW i \in Instances, NEW h \in Hosts, Register(k, i, h)
  PROVE  Consistent'
<1> USE DEF Consistent
<1> DEFINE c == WorldOf[k]
<1>0. c \in Clients
  BY ConstantsAssumption
<1>1. CASE Refuses(i, c, h)
  <2>1. conn' = [conn EXCEPT ![k] = Gone] /\ UNCHANGED <<local, request, history>>
    BY <1>1 DEF Register
  <2>2. Gone \in ConnRecords /\ conn[k] = NoConn
    BY DEF Register, Gone, ConnRecords
  <2>3. Typed'
    BY <2>1, <2>2 DEF Register, Typed, setting, jobs, history, routes, flags
  <2>4. Placed'
    BY <2>1, <2>2 DEF Register, Typed, Placed, ConnOK, LocalOK, RequestTyped, Up, Running, setting, jobs, NoConn, Gone
  <2>5. QED BY <2>3, <2>4
<1>2. CASE ~Refuses(i, c, h)
  <2>1. /\ conn' = [conn EXCEPT ![k] = [at |-> "adding", i |-> i, host |-> h]]
        /\ local' = [local EXCEPT ![i][c] = k]
        /\ request' = Disturbed(c)
        /\ crossed' \subseteq crossed \cup {c} /\ mixed' \subseteq mixed \cup {c} /\ stale' = stale
    BY <1>2 DEF Register
  <2>2. [at |-> "adding", i |-> i, host |-> h] \in ConnRecords /\ conn[k] = NoConn
    BY DEF Register, ConnRecords
  <2>3. request' \in [Requests -> RequestRecords]
    BY <2>1, RequestShapes DEF Disturbed, Typed
  <2>4. Typed'
    BY <1>2, <2>1, <2>2, <2>3, <1>0 DEF Register, Typed, setting, jobs
  <2>5. \A l \in Conns : ConnOK(l)'
    BY <2>1, <2>2, ConstantsAssumption DEF Register, Typed, Placed, ConnOK, Up, Running, setting, jobs, NoConn, Gone
  <2>6. \A j \in Instances, d \in Clients : LocalOK(j, d)'
    BY <2>1, <2>2, <1>0, ConstantsAssumption DEF Typed, Placed, LocalOK, Up, NoConn
  <2>7. \A q \in Requests : RequestTyped(q)'
    BY <2>1 DEF Register, Typed, Placed, RequestTyped, Running, setting, Disturbed, RequestRecords
  <2>8. QED BY <2>4, <2>5, <2>6, <2>7 DEF Placed
<1>3. QED BY <1>1, <1>2

LEMMA AnnounceConsistent == ASSUME Consistent, NEW k \in Conns, Announce(k) PROVE Consistent'
<1> USE DEF Consistent
<1>0. WorldOf[k] \in Clients
  BY ConstantsAssumption
<1>1. /\ conn' = [conn EXCEPT ![k].at = "added"] /\ conn[k].at = "adding"
      /\ joins' = [joins EXCEPT ![k] = "started"]
      /\ mixed' \subseteq mixed \cup {WorldOf[k]} /\ stale' \subseteq stale
      /\ unnamed' \subseteq unnamed \cup {WorldOf[k]}
      /\ UNCHANGED <<setting, local, known, leaves, clearing, greeted, request, crossed, wrong, retold>>
      /\ UNCHANGED upsets \/ Upset
      /\ entry' = entry \/ entry' = [entry EXCEPT ![WorldOf[k]] = conn[k].i]
  BY DEF Announce, SetEntry
<1>2. conn[k].i \in Instances
  BY <1>1, RunningAreInstances DEF Placed, ConnOK, Up
<1>3. conn' \in [Conns -> ConnRecords]
  <2>1. conn \in [Conns -> ConnRecords] /\ conn[k] \in ConnRecords
    BY DEF Typed
  <2>2. [conn[k] EXCEPT !.at = "added"] \in ConnRecords
    BY <2>1 DEF ConnRecords
  <2>3. QED BY <1>1, <2>1, <2>2
<1>4. Typed'
  BY <1>0, <1>1, <1>2, <1>3, UpsetsCounted DEF Typed, setting
<1>5. Placed'
  BY <1>1 DEF Typed, Placed, ConnOK, LocalOK, RequestTyped, Up, Running, setting, NoConn, Gone, ConnRecords
<1>6. QED BY <1>4, <1>5

\* Steps that leave the connections, what is registered and the requests alone.
LEMMA GoroutineConsistent ==
  ASSUME Consistent, NEW k \in Conns, LookUp(k) \/ Greet(k) \/ ClearEntry(k) \/ SetOffline(k)
  PROVE  Consistent'
<1> USE DEF Consistent
<1>0. WorldOf[k] \in Clients
  BY ConstantsAssumption
<1>1. /\ UNCHANGED <<setting, local, conn, request, crossed, unnamed, mixed>>
      /\ stale' \subseteq stale \cup {WorldOf[k]} /\ wrong' \subseteq wrong \cup {WorldOf[k]}
      /\ retold' \subseteq retold \cup {WorldOf[k]}
      /\ UNCHANGED upsets \/ Upset
  BY DEF LookUp, Greet, ClearEntry, SetOffline, routes, flags
<1>2. known' \in [Clients -> {"absent", "offline", "online"}] /\ entry' \in [Clients -> Instances \cup {None}]
  BY <1>0 DEF LookUp, Greet, ClearEntry, SetOffline, Upsert, Typed
<1>3. greeted' \in [Clients -> Nat]
  <2>1. greeted[WorldOf[k]] + 1 \in Nat
    BY <1>0 DEF Typed
  <2>2. QED BY <1>0, <2>1 DEF LookUp, Greet, ClearEntry, SetOffline, Typed
<1>4. /\ joins' \in [Conns -> {"none", "started", "first", "again"}]
      /\ leaves' \subseteq leaves /\ clearing' \subseteq clearing
      /\ \A l \in Conns : joins'[l] # "none" => joins[l] # "none"
  BY DEF LookUp, Greet, ClearEntry, SetOffline, Typed
<1>5. Typed'
  BY <1>0, <1>1, <1>2, <1>3, <1>4, UpsetsCounted DEF Typed, setting
<1>6. Placed'
  BY <1>1, <1>4 DEF Typed, Placed, ConnOK, LocalOK, RequestTyped, Up, Running, setting
<1>7. QED BY <1>5, <1>6

\* The writes of others touch the row of a world and nothing else.
LEMMA RowConsistent == ASSUME Consistent, NEW c \in Clients, Pair(c) \/ DeleteRow(c) PROVE Consistent'
<1> USE DEF Consistent
<1>1. /\ UNCHANGED <<setting, local, entry, conn, jobs, greeted, request, routes, mixed>>
      /\ known' = [known EXCEPT ![c] = "offline"] \/ known' = [known EXCEPT ![c] = "absent"]
      /\ wrong' \subseteq wrong \cup {c} /\ retold' \subseteq retold \cup {c} /\ Upset
  BY DEF Pair, DeleteRow
<1>2. Typed'
  BY <1>1, UpsetsCounted DEF Typed, setting, jobs, routes
<1>3. Placed'
  BY <1>1 DEF Placed, ConnOK, LocalOK, RequestTyped, Up, Running, setting, jobs
<1>4. QED BY <1>2, <1>3

LEMMA UnlinkConsistent == ASSUME Consistent, NEW k \in Conns, Unlink(k) PROVE Consistent'
<1> USE DEF Consistent
<1> DEFINE c == WorldOf[k]
           i == conn[k].i
<1>0. c \in Clients
  BY ConstantsAssumption
<1>1. /\ Up(k) /\ local[i][c] = k
      /\ local' = [local EXCEPT ![i][c] = None]
      /\ clearing' \subseteq clearing \cup {k} /\ leaves' = leaves \cup {k}
      /\ request' = Disturbed(c)
      /\ crossed' \subseteq crossed \cup {c} /\ mixed' \subseteq mixed \cup {c}
      /\ UNCHANGED <<setting, entry, known, conn, joins, greeted, upsets, stale, unnamed, wrong, retold>>
  BY DEF Unlink, Up
<1>2. i \in Instances
  BY <1>1, RunningAreInstances DEF Placed, ConnOK
<1>3. request' \in [Requests -> RequestRecords]
  BY <1>1, RequestShapes DEF Disturbed, Typed
<1>4. Typed'
  BY <1>0, <1>1, <1>2, <1>3 DEF Typed, setting
<1>5. \A l \in Conns : ConnOK(l)'
  BY <1>1 DEF Placed, ConnOK, Up, Running, setting
<1>6. \A j \in Instances, d \in Clients : LocalOK(j, d)'
  BY <1>1, <1>0, <1>2 DEF Typed, Placed, LocalOK, Up
<1>7. \A q \in Requests : RequestTyped(q)'
  BY <1>1 DEF Typed, Placed, RequestTyped, Running, setting, Disturbed, RequestRecords
<1>8. QED BY <1>4, <1>5, <1>6, <1>7 DEF Placed

LEMMA ExpireConsistent == ASSUME Consistent, NEW c \in Clients, Expire(c) PROVE Consistent'
<1> USE DEF Consistent
<1>1. /\ entry' = [entry EXCEPT ![c] = None] /\ request' = Disturbed(c)
      /\ crossed' \subseteq crossed /\ stale' \subseteq stale /\ unnamed' \subseteq unnamed \cup {c}
      /\ UNCHANGED upsets \/ Upset
      /\ UNCHANGED <<setting, local, known, conn, jobs, greeted, flags>>
  BY DEF Expire
<1>2. request' \in [Requests -> RequestRecords]
  BY <1>1, RequestShapes DEF Disturbed, Typed
<1>3. Typed'
  BY <1>1, <1>2, UpsetsCounted DEF Typed, setting, jobs, flags
<1>4. \A q \in Requests : RequestTyped(q)'
  BY <1>1 DEF Typed, Placed, RequestTyped, Running, setting, Disturbed, RequestRecords
<1>5. Placed'
  BY <1>1, <1>4 DEF Placed, ConnOK, LocalOK, Up, Running, setting, jobs
<1>6. QED BY <1>3, <1>5

LEMMA CrashConsistent == ASSUME Consistent, NEW i \in Instances, Crash(i) PROVE Consistent'
<1> USE DEF Consistent
<1>1. /\ i \in Running /\ Upset
      /\ local' = [local EXCEPT ![i] = [c \in Clients |-> None]]
      /\ conn' = [k \in Conns |-> IF conn[k].i = i THEN Gone ELSE conn[k]]
      /\ joins' = [k \in Conns |-> IF conn[k].i = i THEN "none" ELSE joins[k]]
      /\ leaves' = {k \in leaves : conn[k].i # i}
      /\ clearing' = {k \in clearing : conn[k].i # i}
      /\ known' = known \/ known' = ResetAllOnline
      /\ UNCHANGED <<setting, entry, greeted, crossed, unnamed, retold>>
  BY DEF Crash
<1>2. mixed' \subseteq Clients /\ stale' \subseteq Clients /\ wrong' \subseteq Clients
  BY DEF Crash, Typed
<1>3. upsets' \in 0 .. load'.upsets
  BY <1>1, UpsetsCounted DEF setting
<1>4. known' \in [Clients -> {"absent", "offline", "online"}]
  BY <1>1 DEF Typed, ResetAllOnline
<1>5. \A q \in Requests : /\ request'[q] \in RequestRecords
                          /\ request'[q].at \in {"routing", "here"} =>
                                request[q].at = request'[q].at /\ request'[q].c = request[q].c /\ request'[q].i = request[q].i
  <2> SUFFICES ASSUME NEW q \in Requests
               PROVE  /\ request'[q] \in RequestRecords
                      /\ request'[q].at \in {"routing", "here"} =>
                            request[q].at = request'[q].at /\ request'[q].c = request[q].c /\ request'[q].i = request[q].i
    OBVIOUS
  <2>1. request[q] \in RequestRecords
    BY DEF Typed
  <2>2. \/ request'[q] = Answer("gateway", FALSE) \/ request'[q] = request[q]
        \/ request'[q] = [request[q] EXCEPT !.steady = FALSE]
    BY DEF Crash
  <2>3. CASE request'[q] = Answer("gateway", FALSE)
    BY <2>3, RequestShapes
  <2>4. CASE request'[q] = request[q]
    BY <2>1, <2>4
  <2>5. CASE request'[q] = [request[q] EXCEPT !.steady = FALSE]
    <3>1. LET r == request[q] IN
            /\ [r EXCEPT !.steady = FALSE] \in RequestRecords
            /\ r.at = [r EXCEPT !.steady = FALSE].at /\ r.c = [r EXCEPT !.steady = FALSE].c
            /\ r.i = [r EXCEPT !.steady = FALSE].i
      BY <2>1 DEF RequestRecords
    <3>2. QED BY <2>5, <3>1
  <2>6. QED BY <2>2, <2>3, <2>4, <2>5
<1>6. request' \in [Requests -> RequestRecords]
  <2>1. request' = [q \in Requests |-> request'[q]]
    BY DEF Crash
  <2>2. QED BY <2>1, <1>5
<1>7. local' \in [Instances -> [Clients -> Conns \cup {None}]]
  BY <1>1 DEF Typed
<1>8. conn' \in [Conns -> ConnRecords] /\ joins' \in [Conns -> {"none", "started", "first", "again"}]
  BY <1>1 DEF Typed, ConnRecords, Gone
<1>9. Typed'
  BY <1>1, <1>2, <1>3, <1>4, <1>6, <1>7, <1>8 DEF Typed, setting
<1>10. \A k \in Conns : ConnOK(k)'
  BY <1>1 DEF Typed, Placed, ConnOK, Up, Running, setting, Gone
<1>11. \A j \in Instances, c \in Clients : LocalOK(j, c)'
  BY <1>1, ConstantsAssumption DEF Typed, Placed, LocalOK, Up
<1>12. \A q \in Requests : RequestTyped(q)'
  BY <1>1, <1>5 DEF Placed, RequestTyped, Running, setting
<1>13. QED BY <1>9, <1>10, <1>11, <1>12 DEF Placed

LEMMA RequestConsistent ==
  ASSUME Consistent, NEW q \in Requests,
         (\E c \in Clients, i \in Instances : Arrive(q, c, i)) \/ Route(q) \/ Handle(q)
  PROVE  Consistent'
<1> USE DEF Consistent
<1>1. /\ UNCHANGED <<setting, local, entry, known, conn, jobs, greeted, history>>
      /\ UNCHANGED upsets \/ Upset
  BY DEF Arrive, Route, Handle
<1>2. \E r \in RequestRecords :
        /\ request' = [request EXCEPT ![q] = r]
        /\ r.at \in {"routing", "here"} => r.c \in Clients /\ r.i \in Running
  <2>1. CASE \E c \in Clients, i \in Instances : Arrive(q, c, i)
    <3>1. PICK c \in Clients, i \in Instances : Arrive(q, c, i)
      BY <2>1
    <3> DEFINE b == /\ Settled(c) /\ Cardinality(Hosting(c)) = 1
                    /\ IF forwards THEN c \notin unnamed ELSE Hosting(c) = {i}
               r == [at |-> "routing", c |-> c, i |-> i, hops |-> 0, steady |-> b]
    <3>2. b \in BOOLEAN
      OBVIOUS
    <3>3. r \in RequestRecords
      <4> HIDE DEF b
      <4>1. QED BY <3>2, RequestShapes, Zenon
    <3>4. request' = [request EXCEPT ![q] = r] /\ i \in Running
      BY <3>1 DEF Arrive
    <3>5. r.c = c /\ r.i = i
      OBVIOUS
    <3> HIDE DEF r
    <3>6. QED BY <3>3, <3>4, <3>5
  <2>2. CASE Route(q)
    <3> DEFINE r == request[q]
               to == Target(r.i, r.c, TRUE)
               h == [r EXCEPT !.at = "here"]
               failed == [r EXCEPT !.at = "here", !.steady = FALSE]
    <3>1. r \in RequestRecords /\ r.c \in Clients /\ r.i \in Running /\ r.at = "routing"
      BY <2>2 DEF Route, Typed, Placed, RequestTyped
    <3>2. CASE request' = [request EXCEPT ![q] = h]
      <4>1. h.c = r.c /\ h.i = r.i
        BY <3>1 DEF RequestRecords
      <4>2. h \in RequestRecords
        BY <3>1, RequestShapes
      <4> HIDE DEF h
      <4>3. QED BY <3>1, <3>2, <4>1, <4>2
    <3>3. ASSUME to # None, NEW n \in 0 .. 2, request' = [request EXCEPT ![q] = [r EXCEPT !.i = to, !.hops = n]]
          PROVE  \E rec \in RequestRecords : /\ request' = [request EXCEPT ![q] = rec]
                                             /\ rec.at \in {"routing", "here"} => rec.c \in Clients /\ rec.i \in Running
      <4>1. to \in Instances /\ redis /\ to \in Running
        BY <3>1, <3>3 DEF Target, GetClientInstanceID, Typed, Running
      <4>3. [r EXCEPT !.i = to, !.hops = n].c = r.c /\ [r EXCEPT !.i = to, !.hops = n].i = to
        BY <3>1 DEF RequestRecords
      <4>4. [r EXCEPT !.i = to, !.hops = n] \in RequestRecords
        BY <3>1, <4>1, RequestShapes
      <4>5. QED BY <3>1, <3>3, <4>1, <4>3, <4>4
    <3>4. CASE request' = [request EXCEPT ![q] = failed]
      <4>1. failed \in RequestRecords /\ failed.c = r.c /\ failed.i = r.i
        BY <3>1 DEF RequestRecords
      <4> HIDE DEF failed
      <4>2. QED BY <3>1, <3>4, <4>1
    <3>5. CASE request' = [request EXCEPT ![q] = Answer("gateway", FALSE)]
      BY <3>5, RequestShapes
    <3>6. (IF r.hops < 2 THEN r.hops + 1 ELSE r.hops) \in 0 .. 2
      BY <3>1 DEF RequestRecords
    <3>7. \/ request' = [request EXCEPT ![q] = h] \/ request' = [request EXCEPT ![q] = failed]
          \/ request' = [request EXCEPT ![q] = Answer("gateway", FALSE)]
          \/ /\ to # None
             /\ request' = [request EXCEPT ![q] =
                    [r EXCEPT !.i = to, !.hops = IF r.hops < 2 THEN r.hops + 1 ELSE r.hops]]
      <4>1. \/ request' = [request EXCEPT ![q] = IF to = None THEN h
                    ELSE [r EXCEPT !.i = to, !.hops = IF r.hops < 2 THEN r.hops + 1 ELSE r.hops]]
            \/ \E at \in {"here", "gateway"} : request' = [request EXCEPT ![q] =
                    IF at = "here" THEN [r EXCEPT !.at = at, !.steady = FALSE] ELSE Answer(at, FALSE)]
        BY <2>2, Zenon DEF Route
      <4>2. CASE request' = [request EXCEPT ![q] = IF to = None THEN h
                    ELSE [r EXCEPT !.i = to, !.hops = IF r.hops < 2 THEN r.hops + 1 ELSE r.hops]]
        BY <4>2, Zenon
      <4>3. CASE \E at \in {"here", "gateway"} : request' = [request EXCEPT ![q] =
                    IF at = "here" THEN [r EXCEPT !.at = at, !.steady = FALSE] ELSE Answer(at, FALSE)]
        BY <4>3
      <4>4. QED BY <4>1, <4>2, <4>3
    <3> HIDE DEF to, h, failed
    <3>8. QED BY <3>2, <3>3, <3>4, <3>5, <3>6, <3>7
  <2>3. CASE Handle(q)
    <3> DEFINE r == Answer(IF local[request[q].i][request[q].c] # None THEN "reached" ELSE "missing", request[q].steady)
    <3>1. request[q].steady \in BOOLEAN
      BY DEF Typed, RequestRecords
    <3>2. r \in RequestRecords /\ r.at \in {"reached", "missing"}
      BY <3>1, RequestShapes
    <3>3. QED BY <2>3, <3>2 DEF Handle
  <2>4. QED BY <2>1, <2>2, <2>3
<1>3. Typed'
  BY <1>1, <1>2, UpsetsCounted DEF Typed, setting, jobs, history, routes, flags
<1>4. Placed'
  BY <1>1, <1>2 DEF Typed, Placed, ConnOK, LocalOK, RequestTyped, Up, Running, setting, jobs
<1>5. QED BY <1>3, <1>4
LEMMA ConsistentStep == Consistent /\ [Next]_vars => Consistent'
<1> SUFFICES ASSUME Consistent, [Next]_vars PROVE Consistent'
  OBVIOUS
<1>1. ASSUME NEW k \in Conns, NEW i \in Instances, NEW h \in Hosts, Register(k, i, h) PROVE Consistent'
  BY <1>1, RegisterConsistent
<1>2. ASSUME NEW k \in Conns, Announce(k) PROVE Consistent'
  BY <1>2, AnnounceConsistent
<1>3. ASSUME NEW k \in Conns, LookUp(k) \/ Greet(k) \/ ClearEntry(k) \/ SetOffline(k) PROVE Consistent'
  BY <1>3, GoroutineConsistent
<1>4. ASSUME NEW k \in Conns, Unlink(k) PROVE Consistent'
  BY <1>4, UnlinkConsistent
<1>5. ASSUME NEW c \in Clients, Pair(c) \/ DeleteRow(c) \/ Expire(c) PROVE Consistent'
  BY <1>5, RowConsistent, ExpireConsistent
<1>6. ASSUME NEW i \in Instances, Crash(i) PROVE Consistent'
  BY <1>6, CrashConsistent
<1>7. ASSUME NEW q \in Requests,
             (\E c \in Clients, i \in Instances : Arrive(q, c, i)) \/ Route(q) \/ Handle(q)
      PROVE  Consistent'
  BY <1>7, RequestConsistent
<1>8. CASE UNCHANGED vars
  <2>1. Typed'
    BY <1>8 DEF vars, Consistent, Typed, setting, jobs, history, routes, flags
  <2>2. Placed'
    BY <1>8 DEF vars, Consistent, Placed, ConnOK, LocalOK, RequestTyped, Up, Running, setting, jobs
  <2>3. QED BY <2>1, <2>2 DEF Consistent
<1>9. QED BY <1>1, <1>2, <1>3, <1>4, <1>5, <1>6, <1>7, <1>8 DEF Next

\* TypeOK: every state has the types that the module gives for it, for any
\* connections, instances, worlds and requests.
THEOREM DirectoryTyped == Spec => []TypeOK
<1>1. Spec => []Consistent
  BY ConsistentInit, ConsistentStep, PTL DEF Spec
<1>2. QED BY <1>1, TypesFollow, PTL

----------------------------------------------------------------------------
(* The entry of a world.                                                   *)

\* What a step of connection k, a crash or an expiry of another world leaves of c.
RouteKept(c) ==
    /\ \A i \in Instances : local'[i][c] = local[i][c]
    /\ \A k \in Conns : WorldOf[k] = c => /\ conn'[k].at = "adding" <=> conn[k].at = "adding"
                                          /\ conn[k].at = "adding" => conn'[k].i = conn[k].i
                                          /\ k \in clearing' <=> k \in clearing
    /\ redis' = redis /\ entry'[c] = entry[c]
    /\ c \in crossed => c \in crossed'
    /\ c \in stale => c \in stale'
    /\ c \in unnamed => c \in unnamed'

LEMMA RouteKeeps ==
  ASSUME Consistent, NEW c \in Clients, RouteOK(c), RouteKept(c)
  PROVE  RouteOK(c)'
<1>1. clearing \subseteq Conns /\ \A k \in Conns : Up(k) => conn[k].i \in Instances
  BY RunningAreInstances DEF Consistent, Typed, Placed, ConnOK
<1> SUFFICES ASSUME c \notin crossed' PROVE RouteOK(c)'
  BY DEF RouteOK
<1>2. /\ c \notin crossed /\ (c \in stale => c \in stale') /\ (c \in unnamed => c \in unnamed')
      /\ redis' = redis /\ entry'[c] = entry[c]
  BY DEF RouteKept
<1>3. \A i \in Instances : local'[i][c] = local[i][c]
  BY DEF RouteKept
<1>4. /\ Adding(c)' <=> Adding(c)
      /\ \A k \in Conns : WorldOf[k] = c /\ conn'[k].at = "adding" =>
            conn[k].at = "adding" /\ conn'[k].i = conn[k].i /\ conn[k].i \in Instances
  BY <1>1 DEF RouteKept, Adding, Up
<1>5. /\ \A k \in clearing' : k \in Conns /\ WorldOf[k] = c => k \in clearing
      /\ \A k \in clearing : k \in Conns /\ WorldOf[k] = c => k \in clearing'
  BY DEF RouteKept
<1>6. QED BY <1>1, <1>2, <1>3, <1>4, <1>5 DEF RouteOK

LEMMA RegisterRoutes ==
  ASSUME Consistent, NEW k \in Conns, NEW i \in Instances, NEW h \in Hosts, Register(k, i, h),
         NEW c \in Clients, RouteOK(c)
  PROVE  RouteOK(c)'
<1> USE DEF Consistent
<1>0. WorldOf[k] \in Clients /\ conn[k] = NoConn /\ k # None
  BY ConstantsAssumption DEF Register
<1>1. CASE Refuses(i, WorldOf[k], h)
  <2>1. RouteKept(c)
    BY <1>0, <1>1 DEF Register, RouteKept, Typed, setting, jobs, history, routes, Up, NoConn, Gone
  <2>2. QED BY <2>1, RouteKeeps
<1>2. CASE ~Refuses(i, WorldOf[k], h) /\ c # WorldOf[k]
  <2>1. RouteKept(c)
    <3>1. /\ conn' = [conn EXCEPT ![k] = [at |-> "adding", i |-> i, host |-> h]]
          /\ local' = [local EXCEPT ![i][WorldOf[k]] = k]
          /\ crossed \subseteq crossed' /\ UNCHANGED <<redis, entry, clearing, stale, unnamed>>
      BY <1>2 DEF Register, jobs, setting
    <3>2. \A j \in Instances : local'[j][c] = local[j][c]
      BY <1>2, <3>1 DEF Typed
    <3>3. \A l \in Conns : l # k => conn'[l] = conn[l]
      BY <3>1 DEF Typed
    <3>4. QED BY <1>0, <1>2, <3>1, <3>2, <3>3 DEF RouteKept
  <2>2. QED BY <2>1, RouteKeeps
<1>3. CASE ~Refuses(i, WorldOf[k], h) /\ c = WorldOf[k]
  <2> SUFFICES ASSUME c \notin crossed' PROVE RouteOK(c)'
    BY DEF RouteOK
  <2>1. /\ c \notin crossed /\ Hosting(c) \ {i} = {} /\ Of(c, clearing) = {}
        /\ conn' = [conn EXCEPT ![k] = [at |-> "adding", i |-> i, host |-> h]]
        /\ local' = [local EXCEPT ![i][c] = k]
        /\ UNCHANGED <<clearing, redis>>
    BY <1>3 DEF Register, jobs, setting
  <2>2. local'[i][c] = k /\ \A j \in Instances : j # i => local'[j][c] = None
    BY <2>1 DEF Typed, Hosting
  <2>3. conn'[k].at = "adding" /\ conn'[k].i = i /\ \A l \in Conns : l # k => conn'[l] = conn[l]
    BY <2>1 DEF Typed
  <2>4. \A l \in Conns : WorldOf[l] = c /\ conn'[l].at = "adding" => conn'[l].i = i
    BY <1>0, <2>1, <2>3, RunningAreInstances DEF RouteOK, Typed, Placed, ConnOK, Up, Hosting
  <2>5. Adding(c)' /\ \A l \in clearing : l \in Conns => WorldOf[l] # c
    BY <1>3, <2>1, <2>3 DEF Adding, Of
  <2>6. clearing \subseteq Conns
    BY DEF Typed
  <2>7. QED BY <1>0, <2>1, <2>2, <2>4, <2>5, <2>6 DEF RouteOK
<1>4. QED BY <1>1, <1>2, <1>3

LEMMA AnnounceRoutes ==
  ASSUME Consistent, NEW k \in Conns, Announce(k), NEW c \in Clients, RouteOK(c)
  PROVE  RouteOK(c)'
<1> USE DEF Consistent
<1>0. WorldOf[k] \in Clients /\ conn[k].at = "adding" /\ conn[k].i \in Instances /\ k # None
  BY ConstantsAssumption, RunningAreInstances DEF Announce, Placed, ConnOK, Up
<1>1. /\ conn' = [conn EXCEPT ![k].at = "added"]
      /\ UNCHANGED <<redis, local, clearing, crossed>>
      /\ \/ /\ entry' = IF redis THEN [entry EXCEPT ![WorldOf[k]] = conn[k].i] ELSE entry
            /\ stale' = stale \ {WorldOf[k]} /\ unnamed' = unnamed \ {WorldOf[k]}
         \/ /\ entry' = entry /\ stale' = stale
            /\ unnamed' = IF entry[WorldOf[k]] = conn[k].i THEN unnamed ELSE unnamed \cup {WorldOf[k]}
  BY DEF Announce, SetEntry, setting
<1>2. conn'[k].at = "added" /\ conn'[k].i = conn[k].i /\ \A l \in Conns : l # k => conn'[l] = conn[l]
  BY <1>1 DEF Typed, ConnRecords
<1>3. CASE c # WorldOf[k]
  <2>1. RouteKept(c)
    BY <1>0, <1>1, <1>2, <1>3 DEF RouteKept, Typed
  <2>2. QED BY <2>1, RouteKeeps
<1>4. CASE c = WorldOf[k]
  <2> SUFFICES ASSUME c \notin crossed' PROVE RouteOK(c)'
    BY DEF RouteOK
  <2>1. c \notin crossed /\ local[conn[k].i][c] # None
    BY <1>0, <1>1, <1>4 DEF RouteOK
  <2>2. redis => entry'[c] = conn[k].i \/ c \in unnamed'
    BY <1>1, <1>4 DEF Typed
  <2>3. QED BY <1>0, <1>1, <1>2, <2>1, <2>2 DEF RouteOK
<1>5. QED BY <1>3, <1>4

LEMMA UnlinkRoutes ==
  ASSUME Consistent, NEW k \in Conns, Unlink(k), NEW c \in Clients, RouteOK(c)
  PROVE  RouteOK(c)'
<1> USE DEF Consistent
<1>0. WorldOf[k] \in Clients /\ Up(k) /\ conn[k].i \in Instances /\ local[conn[k].i][WorldOf[k]] = k
  BY ConstantsAssumption, RunningAreInstances DEF Unlink, Placed, ConnOK, Up
<1>1. /\ local' = [local EXCEPT ![conn[k].i][WorldOf[k]] = None]
      /\ clearing' = IF redis THEN clearing \cup {k} ELSE clearing
      /\ UNCHANGED <<redis, entry, conn, stale, unnamed>>
  BY DEF Unlink, setting
<1>3. CASE c # WorldOf[k]
  <2>1. RouteKept(c)
    BY <1>0, <1>1, <1>3 DEF Unlink, RouteKept, Typed
  <2>2. QED BY <2>1, RouteKeeps
<1>4. CASE c = WorldOf[k]
  <2> SUFFICES ASSUME c \notin crossed' PROVE RouteOK(c)'
    BY DEF RouteOK
  <2>1. c \notin crossed /\ Hosting(c) = {conn[k].i} /\ ~InFlight(c)
    BY <1>4 DEF Unlink
  <2>2. \A j \in Instances : local'[j][c] = None
    BY <1>0, <1>1, <1>4, <2>1 DEF Hosting, Typed
  <2>3. QED BY <1>0, <1>1, <1>4, <2>1, <2>2 DEF RouteOK, InFlight, Typed
<1>5. QED BY <1>3, <1>4

LEMMA ClearEntryRoutes ==
  ASSUME Consistent, NEW k \in Conns, ClearEntry(k), NEW c \in Clients, RouteOK(c)
  PROVE  RouteOK(c)'
<1> USE DEF Consistent
<1>0. k \in clearing /\ WorldOf[k] \in Clients
  BY ConstantsAssumption DEF ClearEntry
<1>1. /\ \/ entry' = [entry EXCEPT ![WorldOf[k]] = None] /\ stale' = stale \ {WorldOf[k]}
         \/ entry' = entry /\ stale' = stale \cup {WorldOf[k]}
      /\ clearing' = clearing \ {k}
      /\ UNCHANGED <<redis, local, conn, crossed, unnamed>>
  BY DEF ClearEntry, setting
<1>2. CASE c # WorldOf[k]
  <2>1. RouteKept(c)
    BY <1>1, <1>2 DEF RouteKept, Typed
  <2>2. QED BY <2>1, RouteKeeps
<1>3. CASE c = WorldOf[k]
  BY <1>0, <1>1, <1>3 DEF RouteOK, Typed, Adding
<1>4. QED BY <1>2, <1>3

LEMMA ExpireRoutes ==
  ASSUME Consistent, NEW d \in Clients, Expire(d), NEW c \in Clients, RouteOK(c)
  PROVE  RouteOK(c)'
<1> USE DEF Consistent
<1>1. CASE c # d
  <2>1. RouteKept(c)
    <3>1. /\ entry' = [entry EXCEPT ![d] = None] /\ stale' = stale \ {d}
          /\ crossed \subseteq crossed' \cup {d} /\ unnamed \subseteq unnamed' \cup {d}
          /\ UNCHANGED <<redis, local, conn, clearing>>
      BY DEF Expire, setting, jobs
    <3>2. QED BY <1>1, <3>1 DEF RouteKept, Typed
  <2>2. QED BY <2>1, RouteKeeps
<1>2. CASE c = d
  <2>1. /\ entry' = [entry EXCEPT ![c] = None] /\ ~InFlight(c)
        /\ UNCHANGED <<redis, local, conn, clearing>>
        /\ Hosting(c) = {} \/ (c \in unnamed' /\ crossed' = crossed)
    BY <1>2 DEF Expire, setting, jobs
  <2>2. CASE Hosting(c) = {}
    BY <1>2, <2>1, <2>2 DEF RouteOK, Typed, Hosting, InFlight, Of, Adding
  <2>3. CASE c \in unnamed' /\ crossed' = crossed
    BY <1>2, <2>1, <2>3 DEF RouteOK, Typed, Hosting, InFlight, Of, Adding
  <2>4. QED BY <2>1, <2>2, <2>3
<1>3. QED BY <1>1, <1>2
\* Who loses something when an instance crashes.
Loses(i, c) ==
    \E k \in Conns : /\ WorldOf[k] = c /\ conn[k].i = i
                     /\ local[i][c] # None \/ k \in clearing \cup leaves \/ joins[k] # "none"

LEMMA CrashEffects ==
  ASSUME Consistent, NEW i \in Instances, Crash(i), NEW c \in Clients
  PROVE  /\ local'[i][c] = None
         /\ \A j \in Instances : j # i => local'[j][c] = local[j][c]
         /\ \A k \in Conns :
                /\ conn'[k] = IF conn[k].i = i THEN Gone ELSE conn[k]
                /\ joins'[k] = IF conn[k].i = i THEN "none" ELSE joins[k]
                /\ k \in clearing' <=> k \in clearing /\ conn[k].i # i
                /\ k \in leaves' <=> k \in leaves /\ conn[k].i # i
         /\ redis' = redis /\ entry' = entry /\ crossed' = crossed /\ greeted' = greeted
         /\ unnamed' = unnamed /\ retold' = retold
         /\ c \in stale' <=> c \in stale \/ (redis /\ Loses(i, c))
         /\ \/ /\ known' = known /\ wrong' = wrong /\ (c \in mixed' <=> c \in mixed \/ Loses(i, c))
            \/ /\ known'[c] = IF known[c] = "online" THEN "offline" ELSE known[c]
               /\ c \in wrong' <=> \E j \in Instances : j # i /\ local[j][c] # None
               /\ IF redis THEN c \in mixed' <=> c \in mixed \/ Loses(i, c)
                  ELSE c \in mixed' <=> c \in mixed /\ greeted[c] > 1
         /\ local[i][c] # None => Loses(i, c)
<1> USE DEF Consistent
<1>1. /\ local'[i][c] = None
      /\ \A j \in Instances : j # i => local'[j][c] = local[j][c]
  BY DEF Crash, Typed
<1>2. \A k \in Conns :
                /\ conn'[k] = IF conn[k].i = i THEN Gone ELSE conn[k]
                /\ joins'[k] = IF conn[k].i = i THEN "none" ELSE joins[k]
                /\ k \in clearing' <=> k \in clearing /\ conn[k].i # i
                /\ k \in leaves' <=> k \in leaves /\ conn[k].i # i
  BY DEF Crash
<1>3. /\ redis' = redis /\ entry' = entry /\ crossed' = crossed /\ greeted' = greeted
      /\ unnamed' = unnamed /\ retold' = retold
  BY DEF Crash, setting
<1>4. c \in stale' <=> c \in stale \/ (redis /\ Loses(i, c))
  BY DEF Crash, Loses
<1>5. \/ /\ known' = known /\ wrong' = wrong /\ (c \in mixed' <=> c \in mixed \/ Loses(i, c))
      \/ /\ known' = ResetAllOnline
         /\ c \in wrong' <=> Hosting(c) \ {i} # {}
         /\ IF redis THEN c \in mixed' <=> c \in mixed \/ Loses(i, c)
            ELSE c \in mixed' <=> c \in mixed /\ greeted[c] > 1
  BY DEF Crash, Loses
<1>6. /\ ResetAllOnline[c] = IF known[c] = "online" THEN "offline" ELSE known[c]
      /\ Hosting(c) \ {i} # {} <=> \E j \in Instances : j # i /\ local[j][c] # None
  BY DEF ResetAllOnline, Hosting
<1>7. local[i][c] # None => Loses(i, c)
  BY DEF Loses, Placed, LocalOK, Typed
<1>8. QED BY <1>1, <1>2, <1>3, <1>4, <1>5, <1>6, <1>7

LEMMA CrashRoutes ==
  ASSUME Consistent, NEW i \in Instances, Crash(i), NEW c \in Clients, RouteOK(c)
  PROVE  RouteOK(c)'
<1> USE DEF Consistent
<1> SUFFICES ASSUME c \notin crossed' PROVE RouteOK(c)'
  BY DEF RouteOK
<1>1. c \notin crossed
  BY CrashEffects
<1>2. \A k \in Conns : WorldOf[k] = c /\ conn'[k].at = "adding" =>
            conn'[k] = conn[k] /\ conn[k].i \in Instances /\ conn[k].i # i /\ local'[conn[k].i][c] # None
  BY <1>1, CrashEffects, RunningAreInstances DEF RouteOK, Placed, ConnOK, Up, Gone
<1>3. \A j, l \in Instances : local'[j][c] # None /\ local'[l][c] # None => j = l
  BY <1>1, CrashEffects DEF RouteOK
<1>4. \A k \in Conns : k \in clearing' /\ WorldOf[k] = c => \A j \in Instances : local'[j][c] = None
  BY <1>1, CrashEffects DEF RouteOK
<1>5. ASSUME redis', NEW j \in Instances, local'[j][c] # None
      PROVE  entry'[c] = j \/ Adding(c)' \/ c \in unnamed'
  <2>0. redis /\ j # i /\ local[j][c] # None
    <3>1. redis' = redis /\ local'[i][c] = None /\ (j # i => local'[j][c] = local[j][c])
      BY CrashEffects
    <3>2. QED BY <1>5, <3>1
  <2>1. j # i /\ local[j][c] # None /\ (entry[c] = j \/ Adding(c) \/ c \in unnamed)
    BY <1>1, <2>0 DEF RouteOK
  <2>2. CASE Adding(c)
    <3>1. PICK k \in Conns : WorldOf[k] = c /\ conn[k].at = "adding"
      BY <2>2 DEF Adding
    <3>2. conn[k].i = j
      BY <1>1, <2>1, <3>1, RunningAreInstances DEF RouteOK, Placed, ConnOK, Up
    <3>3. QED BY <2>1, <3>1, <3>2, CrashEffects DEF Adding
  <2>3. QED BY <2>1, <2>2, CrashEffects
<1>6. ASSUME redis', \A j \in Instances : local'[j][c] = None
      PROVE  entry'[c] = None \/ c \in stale' \/ \E k \in Conns : k \in clearing' /\ WorldOf[k] = c
  <2>1. CASE Loses(i, c)
    BY <1>6, <2>1, CrashEffects
  <2>2. CASE ~Loses(i, c)
    <3>0. /\ \A j \in Instances : j # i => local'[j][c] = local[j][c]
          /\ local[i][c] # None => Loses(i, c)
      BY CrashEffects
    <3>1. \A j \in Instances : local[j][c] = None
      BY <1>6, <2>2, <3>0
    <3>2. \A k \in Conns : WorldOf[k] = c /\ k \in clearing => k \in clearing'
      BY <2>2, CrashEffects DEF Loses
    <3>3. QED BY <1>1, <1>6, <3>1, <3>2, CrashEffects DEF RouteOK
  <2>3. QED BY <2>1, <2>2
<1>7. QED BY <1>2, <1>3, <1>4, <1>5, <1>6 DEF RouteOK

LEMMA RoutesInit == Init => \A c \in Clients : RouteOK(c)
BY DEF Init, RouteOK, Adding, NoConn

LEMMA RoutesStep ==
  ASSUME Consistent, [Next]_vars, NEW c \in Clients, RouteOK(c) PROVE RouteOK(c)'
<1>1. ASSUME NEW k \in Conns, NEW i \in Instances, NEW h \in Hosts, Register(k, i, h) PROVE RouteOK(c)'
  BY <1>1, RegisterRoutes
<1>2. ASSUME NEW k \in Conns, Announce(k) \/ Unlink(k) \/ ClearEntry(k) PROVE RouteOK(c)'
  BY <1>2, AnnounceRoutes, UnlinkRoutes, ClearEntryRoutes
<1>3. ASSUME NEW d \in Clients, Expire(d) PROVE RouteOK(c)'
  BY <1>3, ExpireRoutes
<1>4. ASSUME NEW i \in Instances, Crash(i) PROVE RouteOK(c)'
  BY <1>4, CrashRoutes
<1>5. ASSUME UNCHANGED <<redis, local, entry, conn, clearing, crossed, stale, unnamed>> PROVE RouteOK(c)'
  <2>1. RouteKept(c)
    BY <1>5 DEF RouteKept
  <2>2. QED BY <2>1, RouteKeeps
<1>6. ASSUME NEW k \in Conns, LookUp(k) \/ Greet(k) \/ SetOffline(k) PROVE RouteOK(c)'
  BY <1>5, <1>6 DEF LookUp, Greet, SetOffline, setting, routes
<1>7. ASSUME NEW q \in Requests,
             (\E d \in Clients, i \in Instances : Arrive(q, d, i)) \/ Route(q) \/ Handle(q)
      PROVE  RouteOK(c)'
  BY <1>5, <1>7 DEF Arrive, Route, Handle, setting, jobs, history, routes
<1>8. ASSUME NEW d \in Clients, Pair(d) \/ DeleteRow(d) PROVE RouteOK(c)'
  BY <1>5, <1>8 DEF Pair, DeleteRow, setting, jobs, routes
<1>9. CASE UNCHANGED vars
  BY <1>5, <1>9 DEF vars, setting, jobs, history, routes
<1>10. QED BY <1>1, <1>2, <1>3, <1>4, <1>6, <1>7, <1>8, <1>9 DEF Next

RoutesInv == Consistent /\ \A c \in Clients : RouteOK(c)

\* Every instance that runs answers as the state is.
LEMMA RoutesAgree == RoutesInv => InstancesAgree
<1> USE DEF RoutesInv, Consistent
<1> SUFFICES ASSUME RoutesInv, NEW c \in Clients, Settled(c),
                    c \notin (IF Hosting(c) # {} THEN unnamed ELSE stale),
                    NEW i \in Running, NEW ok \in BOOLEAN
             PROVE  /\ IsClientOnlineAnywhere(i, c, ok) => Hosting(c) # {}
                    /\ ClientActive(i, c, ok) = "active" => Hosting(c) # {}
                    /\ ok => IsClientOnlineAnywhere(i, c, ok) \/ Hosting(c) = {}
                    /\ \/ ~ok \/ Hosting(c) \subseteq {i}
                       \/ LET host == GetClientRemoteInstance(i, c, ok) IN
                            host # None /\ InternalForward(host, c)
  BY DEF InstancesAgree
<1>1. c \notin crossed /\ ~Adding(c) /\ \A k \in Conns : ~(k \in clearing /\ WorldOf[k] = c)
  BY DEF Settled, InFlight, Of, Adding
<1>2. i \in Instances
  BY RunningAreInstances
<1>3. ~redis => Running = {Solo} /\ Hosting(c) \subseteq {Solo}
  BY DEF Running, Hosting, Placed, LocalOK, ConnOK, Up, Typed
<1>4. redis => \A j \in Instances : local[j][c] # None => entry[c] = j
  <2>1. ASSUME NEW j \in Instances, local[j][c] # None PROVE c \notin unnamed
    BY <2>1 DEF Hosting
  <2>2. QED BY <1>1, <2>1 DEF RouteOK
<1>5. redis /\ Hosting(c) = {} => entry[c] = None
  BY <1>1 DEF RouteOK, Hosting
<1>6. /\ IsClientOnlineAnywhere(i, c, ok) => Hosting(c) # {}
      /\ ok => IsClientOnlineAnywhere(i, c, ok) \/ Hosting(c) = {}
  BY <1>2, <1>3, <1>4, <1>5, ConstantsAssumption DEF IsClientOnlineAnywhere, GetClientInstanceID, Hosting
<1>7. ASSUME NEW j \in Hosting(c), j # i, ok
      PROVE  GetClientRemoteInstance(i, c, ok) = j /\ local[j][c] # None
  <2>1. redis /\ entry[c] = j /\ local[j][c] # None
    BY <1>2, <1>3, <1>4, <1>7 DEF Hosting
  <2>2. local[i][c] = None
    BY <1>1, <1>2, <1>7, <2>1 DEF RouteOK, Hosting
  <2>3. QED BY <1>7, <2>1, <2>2 DEF GetClientRemoteInstance, GetClientInstanceID
<1>8. QED BY <1>6, <1>7, ConstantsAssumption DEF ClientActive, InternalForward, Hosting

\* InstancesAgree: the probes of all instances that can read the entry say the
\* same and the truth of a world, and find its host, once the Redis calls of its
\* connections are over (AddClient's SETs and the removals' DELs after the unlock,
\* manager.go), except where two connections crossed, or a failed call or a crash
\* left the entry wrong and no later call has put it right.
THEOREM AllInstancesAgree == Spec => []InstancesAgree
<1>1. Init => RoutesInv
  BY ConsistentInit, RoutesInit DEF RoutesInv
<1>2. RoutesInv /\ [Next]_vars => RoutesInv'
  BY ConsistentStep, RoutesStep DEF RoutesInv
<1>3. QED BY <1>1, <1>2, RoutesAgree, PTL DEF Spec
----------------------------------------------------------------------------
(* The row of a world.                                                     *)

\* What a step leaves of c's goroutines and row.
FlagKept(c) ==
    /\ \A i \in Instances : local'[i][c] = local[i][c]
    /\ \A k \in Conns : WorldOf[k] = c => /\ conn'[k].at = "adding" <=> conn[k].at = "adding"
                                          /\ conn[k].at = "adding" => conn'[k].i = conn[k].i
                                          /\ k \in leaves' <=> k \in leaves
                                          /\ joins'[k] = joins[k]
    /\ known'[c] = known[c] /\ greeted'[c] = greeted[c]
    /\ c \in mixed => c \in mixed'
    /\ c \in wrong => c \in wrong'
    /\ c \in retold => c \in retold'

LEMMA FlagKeeps ==
  ASSUME Consistent, NEW c \in Clients, FlagOK(c), FlagKept(c)
  PROVE  FlagOK(c)'
<1> USE DEF Consistent
<1>1. /\ greeted'[c] # 0 => known'[c] # "absent" \/ c \in retold'
      /\ \A i \in Instances : local'[i][c] = local[i][c]
      /\ known'[c] = known[c] /\ greeted'[c] = greeted[c] /\ (c \in mixed => c \in mixed')
      /\ (c \in wrong => c \in wrong') /\ (c \in retold => c \in retold')
  BY DEF FlagKept, FlagOK
<1>2. /\ Adding(c)' <=> Adding(c)
      /\ \A k \in Conns : WorldOf[k] = c => /\ k \in leaves' <=> k \in leaves
                                            /\ joins'[k] = joins[k]
                                            /\ conn'[k].at = "adding" <=> conn[k].at = "adding"
      /\ \A k \in Conns : WorldOf[k] = c /\ conn'[k].at = "adding" =>
            conn[k].at = "adding" /\ conn'[k].i = conn[k].i /\ conn[k].i \in Instances
  BY RunningAreInstances DEF FlagKept, Adding, Placed, ConnOK, Up
<1>3. QED BY <1>1, <1>2 DEF FlagOK

LEMMA RegisterFlags ==
  ASSUME Consistent, NEW k \in Conns, NEW i \in Instances, NEW h \in Hosts, Register(k, i, h),
         NEW c \in Clients, FlagOK(c)
  PROVE  FlagOK(c)'
<1> USE DEF Consistent
<1>0. /\ WorldOf[k] \in Clients /\ conn[k] = NoConn /\ k # None
      /\ UNCHANGED <<known, joins, leaves, greeted, wrong, retold>>
  BY ConstantsAssumption DEF Register, jobs, history, flags
<1>1. CASE Refuses(i, WorldOf[k], h)
  <2>1. conn' = [conn EXCEPT ![k] = Gone] /\ UNCHANGED <<local, mixed>>
    BY <1>1 DEF Register, history, flags
  <2>2. FlagKept(c)
    BY <1>0, <2>1 DEF FlagKept, Typed, NoConn, Gone
  <2>3. QED BY <2>2, FlagKeeps
<1> SUFFICES ASSUME ~Refuses(i, WorldOf[k], h) PROVE FlagOK(c)'
  BY <1>1
<1>2. /\ conn' = [conn EXCEPT ![k] = [at |-> "adding", i |-> i, host |-> h]]
      /\ local' = [local EXCEPT ![i][WorldOf[k]] = k]
      /\ mixed' = IF Hosting(WorldOf[k]) \ {i} # {} \/ Of(WorldOf[k], leaves) # {}
                  THEN mixed \cup {WorldOf[k]} ELSE mixed
  BY DEF Register
<1>3. conn'[k].at = "adding" /\ conn'[k].i = i /\ \A l \in Conns : l # k => conn'[l] = conn[l]
  BY <1>2 DEF Typed
<1>4. CASE c # WorldOf[k]
  <2>1. \A j \in Instances : local'[j][c] = local[j][c]
    BY <1>2, <1>4 DEF Typed
  <2>2. FlagKept(c)
    BY <1>0, <1>2, <1>3, <1>4, <2>1 DEF FlagKept
  <2>3. QED BY <2>2, FlagKeeps
<1>5. CASE c = WorldOf[k]
  <2>1. greeted'[c] # 0 => known'[c] # "absent" \/ c \in retold'
    BY <1>0 DEF FlagOK
  <2> SUFFICES ASSUME c \notin mixed' PROVE FlagOK(c)'
    BY <2>1 DEF FlagOK
  <2>2. c \notin mixed /\ Hosting(c) \ {i} = {} /\ \A l \in Conns : ~(l \in leaves /\ WorldOf[l] = c)
    BY <1>2, <1>5 DEF Of
  <2>3. local'[i][c] = k /\ \A j \in Instances : j # i => local'[j][c] = None
    BY <1>2, <1>5, <2>2 DEF Typed, Hosting
  <2>4. \A l \in Conns : WorldOf[l] = c /\ conn'[l].at = "adding" => conn'[l].i = i
    BY <1>3, <2>2, RunningAreInstances DEF FlagOK, Placed, ConnOK, Up, Hosting
  <2>5. Adding(c)'
    BY <1>3, <1>5 DEF Adding
  <2>6. QED BY <1>0, <2>1, <2>2, <2>3, <2>4, <2>5 DEF FlagOK
<1>6. QED BY <1>4, <1>5

LEMMA AnnounceFlags ==
  ASSUME Consistent, NEW k \in Conns, Announce(k), NEW c \in Clients, FlagOK(c)
  PROVE  FlagOK(c)'
<1> USE DEF Consistent
<1>0. WorldOf[k] \in Clients /\ conn[k].at = "adding" /\ conn[k].i \in Instances /\ joins[k] = "none"
  BY ConstantsAssumption, RunningAreInstances DEF Announce, Placed, ConnOK, Up
<1>1. /\ conn' = [conn EXCEPT ![k].at = "added"]
      /\ joins' = [joins EXCEPT ![k] = "started"]
      /\ mixed' = IF \E l \in Of(WorldOf[k], Conns) : joins[l] # "none"
                  THEN mixed \cup {WorldOf[k]} ELSE mixed
      /\ UNCHANGED <<local, known, leaves, greeted, wrong, retold>>
  BY DEF Announce
<1>2. conn'[k].at = "added" /\ \A l \in Conns : l # k => conn'[l] = conn[l]
  BY <1>1 DEF Typed, ConnRecords
<1>3. joins'[k] = "started" /\ \A l \in Conns : l # k => joins'[l] = joins[l]
  BY <1>1 DEF Typed
<1>4. CASE c # WorldOf[k]
  <2>1. FlagKept(c)
    BY <1>0, <1>1, <1>2, <1>3, <1>4 DEF FlagKept
  <2>2. QED BY <2>1, FlagKeeps
<1>5. CASE c = WorldOf[k]
  <2>1. greeted'[c] # 0 => known'[c] # "absent" \/ c \in retold'
    BY <1>1 DEF FlagOK
  <2> SUFFICES ASSUME c \notin mixed' PROVE FlagOK(c)'
    BY <2>1 DEF FlagOK
  <2>2. c \notin mixed /\ \A l \in Conns : WorldOf[l] = c => joins[l] = "none"
    BY <1>1, <1>5 DEF Of
  <2>3. \E j \in Instances : local[j][c] # None
    BY <1>0, <1>5, <2>2 DEF FlagOK
  <2>4. \A l, m \in Conns : WorldOf[l] = c /\ WorldOf[m] = c /\ joins'[l] # "none" /\ joins'[m] # "none" => l = m
    BY <1>3, <2>2
  <2>5. \A l \in Conns : WorldOf[l] = c => joins'[l] # "first"
    BY <1>3, <2>2
  <2>6. \A l \in Conns : WorldOf[l] = c /\ conn'[l].at = "adding" => conn[l].at = "adding" /\ conn'[l].i = conn[l].i
    BY <1>2
  <2>7. QED BY <1>1, <1>0, <1>3, <1>5, <2>1, <2>2, <2>3, <2>4, <2>5, <2>6 DEF FlagOK
<1>6. QED BY <1>4, <1>5

LEMMA LookUpFlags ==
  ASSUME Consistent, NEW k \in Conns, LookUp(k), NEW c \in Clients, FlagOK(c)
  PROVE  FlagOK(c)'
<1> USE DEF Consistent
<1>1. /\ joins[k] = "started" /\ UNCHANGED <<local, known, conn, leaves, greeted, mixed>>
      /\ \/ /\ joins' = [joins EXCEPT ![k] = IF known[WorldOf[k]] = "absent" THEN "first" ELSE "again"]
            /\ UNCHANGED <<wrong, retold>>
         \/ /\ joins' = [joins EXCEPT ![k] = "first"]
            /\ retold' = retold \cup {WorldOf[k]} /\ wrong' = wrong
         \/ /\ joins' = [joins EXCEPT ![k] = "none"]
            /\ wrong' = wrong \cup {WorldOf[k]} /\ retold' = retold
  BY DEF LookUp, flags
<1>2. CASE joins' = [joins EXCEPT ![k] = IF known[WorldOf[k]] = "absent" THEN "first" ELSE "again"]
           /\ UNCHANGED <<wrong, retold>>
  <2>1. \A l \in Conns : /\ joins'[l] # "none" <=> joins[l] # "none"
                         /\ joins'[l] = "first" => joins[l] = "first" \/ known[WorldOf[l]] = "absent"
    BY <1>1, <1>2 DEF Typed
  <2>2. QED BY <1>1, <1>2, <2>1 DEF FlagOK, Adding
<1>3. CASE joins' = [joins EXCEPT ![k] = "first"] /\ retold' = retold \cup {WorldOf[k]} /\ wrong' = wrong
  <2>1. \A l \in Conns : /\ joins'[l] # "none" <=> joins[l] # "none"
                         /\ joins'[l] = "first" => joins[l] = "first" \/ WorldOf[l] \in retold'
    BY <1>1, <1>3 DEF Typed
  <2>2. QED BY <1>1, <1>3, <2>1 DEF FlagOK, Adding
<1>4. CASE joins' = [joins EXCEPT ![k] = "none"] /\ wrong' = wrong \cup {WorldOf[k]} /\ retold' = retold
  <2>1. \A l \in Conns : /\ joins'[l] # "none" => joins[l] = joins'[l]
                         /\ joins[l] # "none" => joins'[l] = joins[l] \/ WorldOf[l] \in wrong'
    BY <1>1, <1>4 DEF Typed
  <2>2. QED BY <1>1, <1>4, <2>1 DEF FlagOK, Adding
<1>5. QED BY <1>1, <1>2, <1>3, <1>4

LEMMA GreetFlags ==
  ASSUME Consistent, NEW k \in Conns, Greet(k), NEW c \in Clients, FlagOK(c)
  PROVE  FlagOK(c)'
<1> USE DEF Consistent
<1>0. WorldOf[k] \in Clients /\ joins[k] \in {"first", "again"}
  BY ConstantsAssumption DEF Greet
<1>1. /\ \/ /\ known' = [known EXCEPT ![WorldOf[k]] = "online"]
            /\ wrong' = wrong \ {WorldOf[k]} /\ retold' = retold
         \/ /\ known' = known
            /\ wrong' = wrong \cup {WorldOf[k]} /\ retold' = retold \cup {WorldOf[k]}
      /\ joins' = [joins EXCEPT ![k] = "none"]
      /\ UNCHANGED <<local, conn, leaves, mixed>>
      /\ greeted' = IF joins[k] = "first" THEN [greeted EXCEPT ![WorldOf[k]] = @ + 1] ELSE greeted
  BY DEF Greet, Upsert
<1>2. joins'[k] = "none" /\ \A l \in Conns : l # k => joins'[l] = joins[l]
  BY <1>1 DEF Typed
<1>3. CASE c # WorldOf[k]
  <2>1. FlagKept(c)
    BY <1>1, <1>2, <1>3 DEF FlagKept, Typed
  <2>2. QED BY <2>1, FlagKeeps
<1>4. CASE c = WorldOf[k]
  <2>1. known'[c] = "online" \/ (c \in wrong' /\ c \in retold')
    BY <1>1, <1>4 DEF Typed
  <2> SUFFICES ASSUME c \notin mixed' PROVE FlagOK(c)'
    BY <2>1 DEF FlagOK
  <2>2. c \notin mixed /\ (\E j \in Instances : local[j][c] # None)
    BY <1>0, <1>1, <1>4 DEF FlagOK
  <2>3. c \notin retold' => greeted'[c] <= 1
    <3>1. c \notin retold' => c \notin retold
      BY <1>1
    <3>2. c \notin retold => (joins[k] = "first" => greeted[c] = 0)
      BY <1>4, <2>2 DEF FlagOK
    <3>3. c \notin retold => greeted[c] <= 1
      BY <2>2 DEF FlagOK
    <3>4. QED BY <1>1, <1>4, <3>1, <3>2, <3>3 DEF Typed
  <2>4. \A l \in Conns : WorldOf[l] = c => joins'[l] = "none"
    BY <1>0, <1>2, <1>4, <2>2 DEF FlagOK
  <2>5. QED BY <1>1, <2>1, <2>2, <2>3, <2>4 DEF FlagOK
<1>5. QED BY <1>3, <1>4

\* The writes of others leave the flag wrong, or no connection has it right.
LEMMA RowFlags ==
  ASSUME Consistent, NEW d \in Clients, Pair(d) \/ DeleteRow(d), NEW c \in Clients, FlagOK(c)
  PROVE  FlagOK(c)'
<1> USE DEF Consistent
<1>1. /\ UNCHANGED <<local, conn, joins, leaves, greeted, mixed>>
      /\ wrong' = IF Hosting(d) # {} THEN wrong \cup {d} ELSE wrong
      /\ \/ known' = [known EXCEPT ![d] = "offline"] /\ retold' = retold
         \/ known' = [known EXCEPT ![d] = "absent"] /\ retold' = retold \cup {d}
  BY DEF Pair, DeleteRow, jobs
<1>2. CASE c # d
  <2>1. FlagKept(c)
    BY <1>1, <1>2 DEF FlagKept, Typed
  <2>2. QED BY <2>1, FlagKeeps
<1>3. CASE c = d
  <2>1. known'[c] # "online" /\ (known'[c] # "absent" \/ c \in retold') /\ (c \in retold => c \in retold')
    BY <1>1, <1>3 DEF Typed
  <2>2. (\E j \in Instances : local[j][c] # None) => c \in wrong'
    BY <1>1, <1>3 DEF Hosting
  <2>3. QED BY <1>1, <2>1, <2>2 DEF FlagOK, Adding
<1>4. QED BY <1>2, <1>3

LEMMA UnlinkFlags ==
  ASSUME Consistent, NEW k \in Conns, Unlink(k), NEW c \in Clients, FlagOK(c)
  PROVE  FlagOK(c)'
<1> USE DEF Consistent
<1>0. WorldOf[k] \in Clients /\ Up(k) /\ conn[k].i \in Instances /\ local[conn[k].i][WorldOf[k]] = k
  BY ConstantsAssumption, RunningAreInstances DEF Unlink, Placed, ConnOK, Up
<1>1. /\ local' = [local EXCEPT ![conn[k].i][WorldOf[k]] = None]
      /\ leaves' = leaves \cup {k}
      /\ UNCHANGED <<conn, joins, known, greeted, wrong, retold>>
  BY DEF Unlink
<1>2. CASE c # WorldOf[k]
  <2>1. FlagKept(c)
    BY <1>0, <1>1, <1>2 DEF Unlink, FlagKept, Typed
  <2>2. QED BY <2>1, FlagKeeps
<1>3. CASE c = WorldOf[k]
  <2>1. greeted'[c] # 0 => known'[c] # "absent" \/ c \in retold'
    BY <1>1 DEF FlagOK
  <2> SUFFICES ASSUME c \notin mixed' PROVE FlagOK(c)'
    BY <2>1 DEF FlagOK
  <2>2. /\ c \notin mixed /\ Hosting(c) = {conn[k].i}
        /\ \A l \in Conns : WorldOf[l] = c => joins[l] = "none" /\ conn[l].at # "adding"
    BY <1>3 DEF Unlink, Of
  <2>3. \A j \in Instances : local'[j][c] = None
    BY <1>0, <1>1, <1>3, <2>2 DEF Hosting, Typed
  <2>4. QED BY <1>0, <1>1, <1>3, <2>1, <2>2, <2>3 DEF FlagOK
<1>4. QED BY <1>2, <1>3

LEMMA SetOfflineFlags ==
  ASSUME Consistent, NEW k \in Conns, SetOffline(k), NEW c \in Clients, FlagOK(c)
  PROVE  FlagOK(c)'
<1> USE DEF Consistent
<1>0. WorldOf[k] \in Clients /\ k \in leaves
  BY ConstantsAssumption DEF SetOffline
<1>1. /\ \/ /\ known' = [known EXCEPT ![WorldOf[k]] = IF @ = "online" THEN "offline" ELSE @]
            /\ wrong' = wrong \ {WorldOf[k]}
         \/ known' = known /\ wrong' = wrong \cup {WorldOf[k]}
      /\ leaves' = leaves \ {k}
      /\ UNCHANGED <<local, conn, joins, greeted, mixed, retold>>
  BY DEF SetOffline
<1>2. CASE c # WorldOf[k]
  <2>1. FlagKept(c)
    BY <1>1, <1>2 DEF FlagKept, Typed
  <2>2. QED BY <2>1, FlagKeeps
<1>3. CASE c = WorldOf[k]
  <2>1. known'[c] # "online" \/ c \in wrong'
    BY <1>1, <1>3 DEF Typed
  <2>4. known'[c] = "absent" <=> known[c] = "absent"
    BY <1>1, <1>3 DEF Typed
  <2>2. c \notin mixed => \A i \in Instances : local[i][c] = None
    BY <1>0, <1>3 DEF FlagOK
  <2>3. QED BY <1>0, <1>1, <1>3, <2>1, <2>2, <2>4 DEF FlagOK, Adding
<1>4. QED BY <1>2, <1>3
LEMMA CrashFlags ==
  ASSUME Consistent, NEW i \in Instances, Crash(i), NEW c \in Clients, FlagOK(c)
  PROVE  FlagOK(c)'
<1> USE DEF Consistent
<1>0. /\ known'[c] = "absent" => known[c] = "absent"
      /\ greeted' = greeted /\ retold' = retold
  <2>1. known' = known \/ known'[c] = IF known[c] = "online" THEN "offline" ELSE known[c]
    BY CrashEffects
  <2>2. greeted' = greeted /\ retold' = retold
    BY CrashEffects
  <2>3. QED BY <2>1, <2>2
<1>1. greeted'[c] # 0 => known'[c] # "absent" \/ c \in retold'
  BY <1>0 DEF FlagOK
<1> SUFFICES ASSUME c \notin mixed' PROVE FlagOK(c)'
  BY <1>1 DEF FlagOK
<1>2. ASSUME ~Loses(i, c), c \notin mixed PROVE FlagOK(c)'
  <2>1. greeted' = greeted /\ retold' = retold /\ \A j \in Instances : local'[j][c] = local[j][c]
    BY <1>2, CrashEffects
  <2>2. \A k \in Conns : WorldOf[k] = c /\ conn[k].at = "adding" => conn[k].i # i
    BY <1>2, CrashEffects DEF FlagOK
  <2>3. \A k \in Conns : WorldOf[k] = c =>
            /\ conn'[k].at = "adding" <=> conn[k].at = "adding"
            /\ conn[k].at = "adding" => conn'[k].i = conn[k].i
            /\ k \in leaves' <=> k \in leaves
            /\ joins'[k] = joins[k]
    BY <1>2, <2>2, CrashEffects DEF Loses, Gone
  <2>4. CASE known' = known /\ wrong' = wrong
    <3>1. FlagKept(c)
      BY <1>2, <2>1, <2>3, <2>4 DEF FlagKept
    <3>2. QED BY <3>1, FlagKeeps
  <2>5. CASE /\ known'[c] = IF known[c] = "online" THEN "offline" ELSE known[c]
             /\ c \in wrong' <=> \E j \in Instances : j # i /\ local[j][c] # None
    <3>1. known'[c] # "online" /\ (known'[c] = "absent" <=> known[c] = "absent")
      BY <2>5 DEF Typed
    <3>2. (\E j \in Instances : local'[j][c] # None) => c \in wrong'
      BY <2>5, CrashEffects
    <3>3. \A k \in Conns : WorldOf[k] = c /\ conn'[k].at = "adding" =>
              conn[k].at = "adding" /\ conn'[k].i = conn[k].i /\ conn[k].i \in Instances
      BY <2>3, RunningAreInstances DEF Placed, ConnOK, Up
    <3>4. QED BY <1>1, <1>2, <2>1, <2>3, <3>1, <3>2, <3>3 DEF FlagOK
  <2>6. QED BY <2>4, <2>5, CrashEffects
<1>3. CASE ~redis /\ c \in mixed
  <2>0. /\ known'[c] = IF known[c] = "online" THEN "offline" ELSE known[c]
        /\ c \in mixed' <=> c \in mixed /\ greeted[c] > 1
    BY <1>3, CrashEffects
  <2>1. i = Solo /\ \A k \in Conns : Up(k) => conn[k].i = Solo
    BY <1>3 DEF Crash, Running, Placed, ConnOK
  <2>2. \A k \in Conns : joins'[k] = "none" /\ k \notin leaves' /\ conn'[k].at # "adding"
    BY <2>1, CrashEffects DEF Placed, ConnOK, Up, Gone
  <2>3. \A j \in Instances : local'[j][c] = None
    <3>1. /\ local'[i][c] = None /\ \A j \in Instances : j # i => local'[j][c] = local[j][c]
      BY CrashEffects
    <3>2. \A j \in Instances : j # i => local[j][c] = None
      BY <2>1 DEF Placed, LocalOK, Typed
    <3>3. QED BY <3>1, <3>2
  <2>4. known'[c] # "online" /\ greeted'[c] <= 1
    <3>1. greeted' = greeted /\ greeted[c] \in Nat
      BY CrashEffects DEF Typed
    <3>2. QED BY <1>3, <2>0, <3>1 DEF Typed
  <2>5. QED BY <1>1, <2>2, <2>3, <2>4 DEF FlagOK
<1>4. CASE ~redis /\ c \notin mixed /\ Loses(i, c)
  <2>0. /\ known'[c] = IF known[c] = "online" THEN "offline" ELSE known[c]
    BY <1>4, CrashEffects
  <2>1. i = Solo /\ \A k \in Conns : Up(k) => conn[k].i = Solo
    BY <1>4 DEF Crash, Running, Placed, ConnOK
  <2>2. \A k \in Conns : joins'[k] = "none" /\ k \notin leaves' /\ conn'[k].at # "adding"
    BY <2>1, CrashEffects DEF Placed, ConnOK, Up, Gone
  <2>3. \A j \in Instances : local'[j][c] = None
    <3>1. /\ local'[i][c] = None /\ \A j \in Instances : j # i => local'[j][c] = local[j][c]
      BY CrashEffects
    <3>2. \A j \in Instances : j # i => local[j][c] = None
      BY <2>1 DEF Placed, LocalOK, Typed
    <3>3. QED BY <3>1, <3>2
  <2>4. known'[c] # "online" /\ (c \notin retold' => greeted'[c] <= 1)
    BY <1>0, <1>4, <2>0 DEF FlagOK, Typed
  <2>5. QED BY <1>1, <2>2, <2>3, <2>4 DEF FlagOK
<1>5. CASE redis /\ (c \in mixed \/ Loses(i, c))
  BY <1>5, CrashEffects
<1>6. QED BY <1>2, <1>3, <1>4, <1>5

LEMMA FlagsInit == Init => \A c \in Clients : FlagOK(c)
BY DEF Init, FlagOK, Adding, NoConn

LEMMA FlagsStep ==
  ASSUME Consistent, [Next]_vars, NEW c \in Clients, FlagOK(c) PROVE FlagOK(c)'
<1>1. ASSUME NEW k \in Conns, NEW i \in Instances, NEW h \in Hosts, Register(k, i, h) PROVE FlagOK(c)'
  BY <1>1, RegisterFlags
<1>2. ASSUME NEW k \in Conns, Announce(k) \/ Unlink(k) PROVE FlagOK(c)'
  BY <1>2, AnnounceFlags, UnlinkFlags
<1>3. ASSUME NEW k \in Conns, LookUp(k) \/ Greet(k) \/ SetOffline(k) PROVE FlagOK(c)'
  BY <1>3, LookUpFlags, GreetFlags, SetOfflineFlags
<1>4. ASSUME NEW i \in Instances, Crash(i) PROVE FlagOK(c)'
  BY <1>4, CrashFlags
<1>5. ASSUME UNCHANGED <<local, conn, joins, leaves, known, greeted, flags>> PROVE FlagOK(c)'
  <2>1. FlagKept(c)
    BY <1>5 DEF FlagKept, flags
  <2>2. QED BY <2>1, FlagKeeps
<1>6. ASSUME NEW k \in Conns, ClearEntry(k) PROVE FlagOK(c)'
  BY <1>5, <1>6 DEF ClearEntry
<1>7. ASSUME NEW d \in Clients, Expire(d) PROVE FlagOK(c)'
  BY <1>5, <1>7 DEF Expire, jobs
<1>8. ASSUME NEW q \in Requests,
             (\E d \in Clients, i \in Instances : Arrive(q, d, i)) \/ Route(q) \/ Handle(q)
      PROVE  FlagOK(c)'
  BY <1>5, <1>8 DEF Arrive, Route, Handle, jobs, history
<1>9. ASSUME NEW d \in Clients, Pair(d) \/ DeleteRow(d) PROVE FlagOK(c)'
  BY <1>9, RowFlags
<1>10. CASE UNCHANGED vars
  BY <1>5, <1>10 DEF vars, jobs, history
<1>11. QED BY <1>1, <1>2, <1>3, <1>4, <1>6, <1>7, <1>8, <1>9, <1>10 DEF Next

FlagsInv == Consistent /\ \A c \in Clients : FlagOK(c)

LEMMA FlagsHold == Spec => []FlagsInv
<1>1. Init => FlagsInv
  BY ConsistentInit, FlagsInit DEF FlagsInv
<1>2. FlagsInv /\ [Next]_vars => FlagsInv'
  BY ConsistentStep, FlagsStep DEF FlagsInv
<1>3. QED BY <1>1, <1>2, PTL DEF Spec

\* FlagFollowsPresence: when the goroutines of a world are over, the dashboard
\* shows it as online exactly if it is registered somewhere (OnClientConnected,
\* OnClientRemoved and ResetAllOnline), unless they were in flight at once, or the
\* last of them failed, or a pairing or a deletion wrote the row after it.
THEOREM TheFlagIsRight == Spec => []FlagFollowsPresence
<1>1. ASSUME FlagsInv, NEW c \in Clients, c \notin mixed \cup wrong, ~InFlight(c), Of(c, leaves) = {},
             \A k \in Of(c, Conns) : joins[k] = "none"
      PROVE  known[c] = "online" <=> Hosting(c) # {}
  <2>1. ~Adding(c) /\ \A k \in Conns : WorldOf[k] = c => joins[k] = "none" /\ k \notin leaves
    BY <1>1 DEF InFlight, Of, Adding
  <2>2. QED BY <1>1, <2>1 DEF FlagsInv, FlagOK, Hosting
<1>2. FlagsInv => FlagFollowsPresence
  BY <1>1 DEF FlagFollowsPresence
<1>3. QED BY <1>2, FlagsHold, PTL

\* NewWorldOnce: the owner is told once of a new world, whatever its connections,
\* unless two goroutines of it looked the row up before either wrote, its row was
\* deleted, or a look-up or an upsert of it failed.
THEOREM NewWorldsAreToldOnce == Spec => []NewWorldOnce
<1>1. FlagsInv => NewWorldOnce
  BY DEF FlagsInv, FlagOK, NewWorldOnce
<1>2. QED BY <1>1, FlagsHold, PTL

----------------------------------------------------------------------------
(* A request for a world that stays.                                       *)

\* What a step leaves of a steady request's world: it disturbs no request of c,
\* or leaves c where it is.
LEMMA SteadyKeeps ==
  ASSUME Consistent, NEW q \in Requests, RequestOK(q),
         request'[q] = request[q] \/ (request'[q].steady = FALSE),
         request'[q].steady /\ request[q].at \in {"routing", "here"} =>
            LET c == request[q].c IN
                /\ c \in crossed' => c \in crossed
                /\ forwards' = forwards /\ (c \in unnamed' => c \in unnamed)
                /\ Adding(c)' => Adding(c)
                /\ Of(c, clearing)' \subseteq Of(c, clearing)
                /\ \A i \in Instances : local[i][c] # None => local'[i][c] # None
  PROVE  RequestOK(q)'
BY DEF RequestOK

LEMMA DisturbedOnes ==
  ASSUME Consistent, NEW d, request' = Disturbed(d), NEW q \in Requests
  PROVE  /\ request'[q] = request[q] \/ request'[q].steady = FALSE
         /\ request'[q].steady => request[q].c # d
<1>1. CASE request[q].c # d
  BY <1>1 DEF Disturbed
<1>2. CASE request[q].c = d
  <2>1. request'[q] = [request[q] EXCEPT !.steady = FALSE] /\ request[q] \in RequestRecords
    BY <1>2 DEF Disturbed, Consistent, Typed
  <2>2. [request[q] EXCEPT !.steady = FALSE].steady = FALSE
    BY <2>1 DEF RequestRecords
  <2>3. QED BY <2>1, <2>2, Zenon
<1>3. QED BY <1>1, <1>2

LEMMA RegisterSteady ==
  ASSUME Consistent, NEW k \in Conns, NEW i \in Instances, NEW h \in Hosts, Register(k, i, h),
         NEW q \in Requests, RequestOK(q)
  PROVE  RequestOK(q)'
<1> USE DEF Consistent
<1>0. /\ conn[k] = NoConn /\ clearing' = clearing /\ k # None /\ WorldOf[k] \in Clients
      /\ UNCHANGED <<forwards, unnamed>>
  BY ConstantsAssumption DEF Register, jobs, history, routes, setting
<1>1. CASE Refuses(i, WorldOf[k], h)
  <2>1. conn' = [conn EXCEPT ![k] = Gone] /\ UNCHANGED <<local, request, crossed>>
    BY <1>1 DEF Register, history, routes
  <2>2. \A d \in Clients : Adding(d)' => Adding(d)
    BY <2>1 DEF Adding, Typed, Gone
  <2>3. QED BY <1>0, <2>1, <2>2, SteadyKeeps DEF Placed, RequestTyped, Of
<1>2. CASE ~Refuses(i, WorldOf[k], h)
  <2>1. /\ request' = Disturbed(WorldOf[k])
        /\ crossed' \subseteq crossed \cup {WorldOf[k]}
        /\ conn' = [conn EXCEPT ![k] = [at |-> "adding", i |-> i, host |-> h]]
        /\ local' = [local EXCEPT ![i][WorldOf[k]] = k]
    BY <1>2 DEF Register
  <2>2. \A d \in Clients : d # WorldOf[k] /\ Adding(d)' => Adding(d)
    BY <2>1 DEF Adding, Typed
  <2>3. \A j \in Instances, d \in Clients : local[j][d] # None => local'[j][d] # None
    BY <1>0, <2>1 DEF Typed
  <2>4. /\ request'[q] = request[q] \/ request'[q].steady = FALSE
        /\ request'[q].steady => request[q].c # WorldOf[k]
    BY <2>1, DisturbedOnes
  <2>5. QED BY <1>0, <2>1, <2>2, <2>3, <2>4, SteadyKeeps DEF Placed, RequestTyped, Of
<1>3. QED BY <1>1, <1>2
LEMMA UnlinkSteady ==
  ASSUME Consistent, NEW k \in Conns, Unlink(k), NEW q \in Requests, RequestOK(q)
  PROVE  RequestOK(q)'
<1> USE DEF Consistent
<1>0. WorldOf[k] \in Clients /\ conn[k].i \in Instances
  BY ConstantsAssumption, RunningAreInstances DEF Unlink, Placed, ConnOK, Up
<1>1. /\ request' = Disturbed(WorldOf[k])
      /\ crossed' \subseteq crossed \cup {WorldOf[k]}
      /\ clearing' \subseteq clearing \cup {k}
      /\ local' = [local EXCEPT ![conn[k].i][WorldOf[k]] = None]
      /\ conn' = conn /\ UNCHANGED <<forwards, unnamed>>
  BY DEF Unlink, setting
<1>2. \A j \in Instances, d \in Clients : d # WorldOf[k] => local'[j][d] = local[j][d]
  BY <1>0, <1>1 DEF Typed
<1>3. /\ request'[q] = request[q] \/ request'[q].steady = FALSE
      /\ request'[q].steady => request[q].c # WorldOf[k]
  BY <1>1, DisturbedOnes
<1>4. QED BY <1>1, <1>2, <1>3, SteadyKeeps DEF Placed, RequestTyped, Of, Adding

\* The entry of a world that stays may expire, when no refresh gets through.
LEMMA ExpireSteady ==
  ASSUME Consistent, NEW c \in Clients, Expire(c), NEW q \in Requests, RequestOK(q)
  PROVE  RequestOK(q)'
<1>1. /\ request' = Disturbed(c) /\ crossed' \subseteq crossed /\ unnamed' \subseteq unnamed \cup {c}
      /\ UNCHANGED <<forwards, local, conn, clearing>>
  BY DEF Expire, setting, jobs
<1>2. /\ request'[q] = request[q] \/ request'[q].steady = FALSE
      /\ request'[q].steady => request[q].c # c
  BY <1>1, DisturbedOnes
<1>3. QED BY <1>1, <1>2, SteadyKeeps DEF Of, Adding

\* A world that stays announces nothing.
LEMMA AnnounceSteady ==
  ASSUME Consistent, NEW k \in Conns, Announce(k), NEW q \in Requests, RequestOK(q)
  PROVE  RequestOK(q)'
<1>1. /\ conn[k].at = "adding" /\ conn' = [conn EXCEPT ![k].at = "added"]
      /\ unnamed' \subseteq unnamed \cup {WorldOf[k]}
      /\ UNCHANGED <<forwards, local, clearing, crossed, request>>
  BY DEF Announce, SetEntry, setting
<1>2. \A l \in Conns : conn'[l].at = "adding" => conn[l].at = "adding"
  BY <1>1 DEF Consistent, Typed, ConnRecords
<1>3. request[q].steady /\ request[q].at \in {"routing", "here"} => request[q].c # WorldOf[k]
  BY <1>1 DEF RequestOK, Adding
<1>4. QED BY <1>1, <1>2, <1>3, SteadyKeeps DEF Of, Adding

LEMMA CrashLeaves ==
  ASSUME Consistent, NEW i \in Instances, Crash(i), NEW c \in Clients, ~Loses(i, c)
  PROVE  /\ crossed' = crossed /\ forwards' = forwards /\ unnamed' = unnamed /\ (Adding(c)' => Adding(c))
         /\ Of(c, clearing)' \subseteq Of(c, clearing)
         /\ \A j \in Instances : local[j][c] # None => local'[j][c] # None
<1>1. crossed' = crossed /\ forwards' = forwards /\ unnamed' = unnamed /\ local[i][c] = None
  BY CrashEffects DEF Crash, setting
<1>2. \A k \in Conns : conn'[k].at = "adding" => conn[k].at = "adding"
  BY CrashEffects DEF Gone
<1>3. clearing' \subseteq clearing
  BY DEF Crash
<1>4. \A j \in Instances : local[j][c] # None => local'[j][c] # None
  BY <1>1, CrashEffects
<1>5. QED BY <1>1, <1>2, <1>3, <1>4 DEF Adding, Of

LEMMA CrashSteady ==
  ASSUME Consistent, NEW i \in Instances, Crash(i), NEW q \in Requests, RequestOK(q)
  PROVE  RequestOK(q)'
<1> USE DEF Consistent
<1>0. request[q] \in RequestRecords
  BY DEF Typed
<1>1. \/ request'[q] = Answer("gateway", FALSE)
      \/ request'[q] = [request[q] EXCEPT !.steady = FALSE]
      \/ /\ request'[q] = request[q]
         /\ request[q].at \in {"routing", "here"} => ~Loses(i, request[q].c)
  BY DEF Crash, Loses, Placed, RequestTyped
<1>2. request'[q] = Answer("gateway", FALSE) => request'[q].steady = FALSE
  BY RequestShapes
<1>3. request'[q] = [request[q] EXCEPT !.steady = FALSE] => request'[q].steady = FALSE
  BY <1>0 DEF RequestRecords
<1>4. ASSUME request'[q] = request[q], request[q].at \in {"routing", "here"}, ~Loses(i, request[q].c)
      PROVE  RequestOK(q)'
  <2>1. request[q].c \in Clients
    BY <1>4 DEF Placed, RequestTyped
  <2>2. /\ crossed' = crossed /\ forwards' = forwards /\ unnamed' = unnamed
        /\ (Adding(request[q].c)' => Adding(request[q].c))
        /\ Of(request[q].c, clearing)' \subseteq Of(request[q].c, clearing)
        /\ \A j \in Instances : local[j][request[q].c] # None => local'[j][request[q].c] # None
    BY <1>4, <2>1, CrashLeaves
  <2>3. QED BY <1>4, <2>2, SteadyKeeps
<1>5. CASE request'[q].steady = FALSE
  BY <1>5 DEF RequestOK
<1>6. CASE request'[q] = request[q] /\ request[q].at \notin {"routing", "here"}
  BY <1>6 DEF RequestOK
<1>7. QED BY <1>1, <1>2, <1>3, <1>4, <1>5, <1>6

\* A steady request starts where its world is, goes there by the entry, and is handled.
LEMMA ArriveSteady ==
  ASSUME RoutesInv, NEW q \in Requests, NEW p \in Requests, NEW c \in Clients, NEW i \in Instances,
         Arrive(p, c, i), RequestOK(q)
  PROVE  RequestOK(q)'
<1> USE DEF RoutesInv, Consistent
<1> DEFINE b == /\ Settled(c) /\ Cardinality(Hosting(c)) = 1
                /\ IF forwards THEN c \notin unnamed ELSE Hosting(c) = {i}
           r == [at |-> "routing", c |-> c, i |-> i, hops |-> 0, steady |-> b]
<1>1. request' = [request EXCEPT ![p] = r] /\ UNCHANGED <<setting, local, entry, known, conn, jobs, history>>
  BY DEF Arrive
<1>2. r.at = "routing" /\ r.c = c /\ r.i = i /\ r.hops = 0 /\ (r.steady <=> b)
  OBVIOUS
<1>3. CASE q # p
  BY <1>1, <1>3, SteadyKeeps DEF Typed, setting, jobs, history, routes, Of, Adding
<1>4. CASE q = p
  <2> SUFFICES ASSUME request'[q].steady PROVE RequestOK(q)'
    BY DEF RequestOK
  <2>1. request'[q] = r
    BY <1>1, <1>4 DEF Typed
  <2>2. /\ Settled(c) /\ Cardinality(Hosting(c)) = 1
        /\ IF forwards THEN c \notin unnamed ELSE Hosting(c) = {i}
    BY <1>2, <2>1
  <2>3. PICK j \in Instances : local[j][c] # None /\ (forwards \/ i = j)
    <3>1. Hosting(c) # {}
      BY <2>2, FS_EmptySet
    <3>2. QED BY <2>2, <3>1 DEF Hosting
  <2>4. c \notin crossed /\ ~Adding(c) /\ Of(c, clearing) = {}
    BY <2>2 DEF Settled, InFlight, Adding
  <2> HIDE DEF r
  <2>5. QED BY <1>1, <1>2, <2>1, <2>2, <2>3, <2>4 DEF RequestOK, jobs, history, routes, setting, Adding, Of
<1>5. QED BY <1>3, <1>4

LEMMA RouteSteady ==
  ASSUME RoutesInv, NEW q \in Requests, NEW p \in Requests, Route(p), RequestOK(q)
  PROVE  RequestOK(q)'
<1> USE DEF RoutesInv, Consistent
<1> DEFINE r == request[p]
           to == Target(r.i, r.c, TRUE)
           sent == [r EXCEPT !.i = to, !.hops = IF r.hops < 2 THEN r.hops + 1 ELSE r.hops]
<1>1. UNCHANGED <<setting, local, entry, known, conn, jobs, history>>
  BY DEF Route
<1>2. CASE q # p
  <2>1. request'[q] = request[q]
    BY <1>2 DEF Route, Typed
  <2>2. QED BY <1>1, <2>1, SteadyKeeps DEF Typed, setting, jobs, history, routes, Of, Adding
<1>3. CASE q = p
  <2>0. r \in RequestRecords /\ r.c \in Clients /\ r.i \in Running /\ r.at = "routing" /\ r.i \in Instances
    BY RunningAreInstances DEF Route, Typed, Placed, RequestTyped
  <2> SUFFICES ASSUME request'[q].steady PROVE RequestOK(q)'
    BY DEF RequestOK
  <2>4. request'[q] = IF to = None THEN [r EXCEPT !.at = "here"] ELSE sent
    <3>1. \/ request' = [request EXCEPT ![p] = IF to = None THEN [r EXCEPT !.at = "here"] ELSE sent]
          \/ \E at \in {"here", "gateway"} : request' = [request EXCEPT ![p] =
                 IF at = "here" THEN [r EXCEPT !.at = at, !.steady = FALSE] ELSE Answer(at, FALSE)]
      BY Zenon DEF Route
    <3>2. CASE request' = [request EXCEPT ![p] = IF to = None THEN [r EXCEPT !.at = "here"] ELSE sent]
      <4> HIDE DEF to, sent
      <4>1. QED BY <1>3, <3>2 DEF Typed
    <3>3. CASE \E at \in {"here", "gateway"} : request' = [request EXCEPT ![p] =
                 IF at = "here" THEN [r EXCEPT !.at = at, !.steady = FALSE] ELSE Answer(at, FALSE)]
      <4>1. request'[q] = [r EXCEPT !.at = "here", !.steady = FALSE] \/ request'[q] = Answer("gateway", FALSE)
        BY <1>3, <3>3 DEF Typed
      <4>2. [r EXCEPT !.at = "here", !.steady = FALSE].steady = FALSE
        BY <2>0 DEF RequestRecords
      <4>3. Answer("gateway", FALSE).steady = FALSE
        BY RequestShapes
      <4>4. QED BY <4>1, <4>2, <4>3
    <3>4. QED BY <3>1, <3>2, <3>3
  <2>1. CASE to = None
    <3>1. request'[q] = [r EXCEPT !.at = "here"]
      BY <2>1, <2>4
    <3>2. /\ request'[q].at = "here" /\ request'[q].c = r.c /\ request'[q].i = r.i
          /\ request'[q].hops = r.hops /\ request'[q].steady = r.steady
      BY <2>0, <3>1 DEF RequestRecords
    <3>3. PICK j \in Instances : local[j][r.c] # None /\ ((forwards /\ r.hops = 0) \/ r.i = j)
      BY <1>3, <2>0, <3>2 DEF RequestOK
    <3>4. r.i = j
      <4>1. CASE forwards
        <5>1. redis /\ entry[r.c] = j
          <6>1. redis
            BY <4>1 DEF Typed
          <6>2. r.c \notin crossed /\ ~Adding(r.c) /\ r.c \notin unnamed
            BY <1>3, <2>0, <3>2, <4>1 DEF RequestOK
          <6>3. QED BY <2>0, <3>3, <6>1, <6>2 DEF RouteOK
        <5>2. QED BY <2>1, <4>1, <5>1, ConstantsAssumption DEF Target, GetClientInstanceID
      <4>2. QED BY <3>3, <4>1
    <3>5. QED BY <1>1, <1>3, <2>0, <3>2, <3>3, <3>4 DEF RequestOK, jobs, history, routes, setting, Adding, Of
  <2>2. CASE to # None
    <3>1. forwards /\ redis /\ to = entry[r.c] /\ to # r.i
      BY <2>2 DEF Target, GetClientInstanceID
    <3>2. PICK n \in 0 .. 2 : n = (IF r.hops < 2 THEN r.hops + 1 ELSE r.hops)
      BY <2>0 DEF RequestRecords
    <3>3. request'[q] = [r EXCEPT !.i = to, !.hops = n]
      BY <2>2, <2>4, <3>2, Zenon
    <3>4. /\ request'[q].at = "routing" /\ request'[q].c = r.c /\ request'[q].i = to
          /\ request'[q].hops = n /\ request'[q].steady = r.steady
      BY <2>0, <3>3 DEF RequestRecords
    <3>5. PICK j \in Instances : local[j][r.c] # None /\ (r.hops = 0 \/ r.i = j)
      BY <1>3, <2>0, <3>4 DEF RequestOK
    <3>6. to = j
      BY <1>3, <2>0, <3>1, <3>4, <3>5 DEF RequestOK, RouteOK
    <3>7. n <= 1
      <4>1. r.hops = 0
        BY <3>1, <3>5, <3>6
      <4>2. QED BY <3>2, <4>1
    <3>8. QED BY <1>1, <1>3, <2>0, <3>4, <3>5, <3>6, <3>7 DEF RequestOK, jobs, history, routes, setting, Adding, Of
  <2>3. QED BY <2>1, <2>2
<1>4. QED BY <1>2, <1>3

LEMMA HandleSteady ==
  ASSUME RoutesInv, NEW q \in Requests, NEW p \in Requests, Handle(p), RequestOK(q)
  PROVE  RequestOK(q)'
<1> USE DEF RoutesInv, Consistent
<1>1. UNCHANGED <<setting, local, entry, known, conn, jobs, history>> /\ request[p].at = "here"
  BY DEF Handle
<1>2. CASE q # p
  <2>1. request'[q] = request[q]
    BY <1>2 DEF Handle, Typed
  <2>2. QED BY <1>1, <2>1, SteadyKeeps DEF Typed, setting, jobs, history, routes, Of, Adding
<1>3. CASE q = p
  <2> DEFINE at == IF local[request[q].i][request[q].c] # None THEN "reached" ELSE "missing"
  <2>1. request'[q] = Answer(at, request[q].steady) /\ request[q].steady \in BOOLEAN
    BY <1>3 DEF Handle, Typed, RequestRecords
  <2>2. request'[q].at = at /\ request'[q].steady = request[q].steady /\ request'[q].hops = 0
    BY <2>1, RequestShapes DEF Answer, NoRequest
  <2>3. request[q].steady => at = "reached"
    BY <1>1, <1>3 DEF RequestOK
  <2>4. QED BY <2>2, <2>3 DEF RequestOK
<1>4. QED BY <1>2, <1>3

LEMMA SteadyStep ==
  ASSUME RoutesInv, [Next]_vars, NEW q \in Requests, RequestOK(q) PROVE RequestOK(q)'
<1>0. Consistent
  BY DEF RoutesInv
<1>1. ASSUME NEW k \in Conns, NEW i \in Instances, NEW h \in Hosts, Register(k, i, h) PROVE RequestOK(q)'
  BY <1>0, <1>1, RegisterSteady
<1>2. ASSUME NEW k \in Conns, Unlink(k) PROVE RequestOK(q)'
  BY <1>0, <1>2, UnlinkSteady
<1>3. ASSUME NEW i \in Instances, Crash(i) PROVE RequestOK(q)'
  BY <1>0, <1>3, CrashSteady
<1>4. ASSUME NEW p \in Requests,
             (\E c \in Clients, i \in Instances : Arrive(p, c, i)) \/ Route(p) \/ Handle(p)
      PROVE  RequestOK(q)'
  BY <1>4, ArriveSteady, RouteSteady, HandleSteady
<1>5. ASSUME UNCHANGED <<forwards, local, request, conn>>, crossed' = crossed, unnamed' = unnamed,
             clearing' \subseteq clearing
      PROVE  RequestOK(q)'
  BY <1>0, <1>5, SteadyKeeps DEF Adding, Of
<1>6. ASSUME NEW k \in Conns, Announce(k) PROVE RequestOK(q)'
  BY <1>0, <1>6, AnnounceSteady
<1>7. ASSUME NEW k \in Conns, LookUp(k) \/ Greet(k) \/ ClearEntry(k) \/ SetOffline(k) PROVE RequestOK(q)'
  BY <1>5, <1>7 DEF LookUp, Greet, ClearEntry, SetOffline, routes, setting
<1>8. ASSUME NEW c \in Clients, Expire(c) PROVE RequestOK(q)'
  BY <1>0, <1>8, ExpireSteady
<1>9. ASSUME NEW c \in Clients, Pair(c) \/ DeleteRow(c) PROVE RequestOK(q)'
  BY <1>5, <1>9 DEF Pair, DeleteRow, jobs, routes, setting
<1>10. CASE UNCHANGED vars
  BY <1>5, <1>10 DEF vars, jobs, history, routes, setting
<1>11. QED BY <1>1, <1>2, <1>3, <1>4, <1>6, <1>7, <1>8, <1>9, <1>10 DEF Next

\* SteadyIsReached: a request for a world that stays connected where it is, and
\* whose entry was written, finds it, over at most one forward
\* (RequestForwarder.Middleware marks nothing as forwarded, so that a wrong entry
\* could send it to and fro), if its own read of the entry and the forward get
\* through; where nothing is forwarded, if it comes to the host of the world.
THEOREM SteadyRequestsArrive == Spec => []SteadyIsReached
<1> DEFINE Inv == RoutesInv /\ \A q \in Requests : RequestOK(q)
<1>1. Init => Inv
  <2>1. ASSUME Init, NEW q \in Requests PROVE RequestOK(q)
    BY <2>1 DEF Init, RequestOK, NoRequest
  <2>2. QED BY <2>1, ConsistentInit, RoutesInit DEF RoutesInv
<1>2. Inv /\ [Next]_vars => Inv'
  BY ConsistentStep, RoutesStep, SteadyStep DEF RoutesInv
<1>3. Inv => SteadyIsReached
  BY DEF SteadyIsReached, RequestOK
<1> HIDE DEF Inv
<1>4. QED BY <1>1, <1>2, <1>3, PTL DEF Spec
=============================================================================
