--------------------------- MODULE ClientRegistry ---------------------------
(***************************************************************************)
(* The registry of Foundry modules connected to the relay: the             *)
(* ClientManager of internal/ws/manager.go, the connection handler and     *)
(* read pump of internal/ws/relay.go, and the shutdown path of a Client    *)
(* (internal/ws/client.go).                                                *)
(*                                                                         *)
(* A connection is one WebSocket that a module opened.  It has an identity *)
(* of its own because the code keys the registry by client ID while the    *)
(* goroutines of a connection hold the *Client pointer: everything hard    *)
(* here comes from a pointer, or an ID, that outlived what it named.       *)
(*                                                                         *)
(* One action is one critical section of ClientManager.mu, or the stretch  *)
(* of a goroutine after it that touches shared state.  Every instance of   *)
(* the relay has a registry of its own.                                    *)
(***************************************************************************)
EXTENDS Integers, FiniteSets

CONSTANTS
    Conns,      \* connections: each dials the relay once
    Instances,  \* relay processes
    ClientIDs,  \* the ids Foundry worlds present
    APIKeys,    \* (hashes of) master API keys: the groups of the registry
    Hosts,      \* remote hosts, the IP part of RemoteAddr
    TokenIDs,   \* database ids of connection tokens
    Requests,   \* the requests a connection may carry
    NoConn,     \* the nil *Client
    NoToken     \* the connection token id 0

ASSUME RequestsAssumption ==
    Requests \subseteq [inst : Instances, id : ClientIDs, key : APIKeys,
                        host : Hosts, tok : TokenIDs]
ASSUME NoConnAssumption == NoConn \notin Conns
ASSUME NoTokenAssumption == NoToken \notin TokenIDs

VARIABLES
    req,          \* the request each connection carries, fixed when it dials
    phase,        \* where the goroutines of a connection are
    socket,       \* the TCP connection under it
    connected,    \* Client.connected: what IsAlive returns
    tokenID,      \* Client.connectionTokenID
    clients,      \* per instance: ClientManager.clients
    tokenGroups,  \* per instance: ClientManager.tokenGroups; {} is an absent group
    gauge,        \* per instance: metrics.WSConnectionsActive
    evicting,     \* connections whose "go existing.DisconnectWithReason" has not run
    closing,      \* connections a disconnectLocalBy... collected and has not closed
    cleanup,      \* per instance: the local state of CleanupInactiveClients
    ending,       \* per instance: the local state of another caller of RemoveClient
    lost          \* history: connections RemoveClient took out while they were alive

vars == <<req, phase, socket, connected, tokenID, clients, tokenGroups, gauge,
          evicting, closing, cleanup, ending, lost>>

Phases == {
    "dialing",     \* upgraded, nothing validated
    "validated",   \* HandleRelayConnection accepted the credentials
    "registered",  \* AddClient released mu: Redis, OnClientConnected, gauge to come
    "counted",     \* AddClient returned: SetClientConnectionTokenID to come
    "reading",     \* the pumps run
    "removing",    \* RemoveClientIfMatch took it out: SSE, Redis, gauge to come
    "gone",        \* the read pump ended
    "refused" }    \* the handler closed it without registering it

Idle == [todo |-> {}, fin |-> NoConn]

TypeOK ==
    /\ req \in [Conns -> Requests]
    /\ phase \in [Conns -> Phases]
    /\ socket \in [Conns -> {"open", "closed"}]
    /\ connected \in [Conns -> BOOLEAN]
    /\ tokenID \in [Conns -> TokenIDs \cup {NoToken}]
    /\ clients \in [Instances -> [ClientIDs -> Conns \cup {NoConn}]]
    /\ tokenGroups \in [Instances -> [APIKeys -> SUBSET ClientIDs]]
    /\ gauge \in [Instances -> Int]
    /\ evicting \subseteq Conns
    /\ closing \subseteq Conns
    /\ cleanup \in [Instances -> [todo : SUBSET ClientIDs, fin : Conns \cup {NoConn}]]
    /\ ending \in [Instances -> [todo : SUBSET ClientIDs, fin : Conns \cup {NoConn}]]
    /\ lost \subseteq Conns

Init ==
    /\ req \in [Conns -> Requests]
    /\ phase = [c \in Conns |-> "dialing"]
    /\ socket = [c \in Conns |-> "open"]
    /\ connected = [c \in Conns |-> FALSE]
    /\ tokenID = [c \in Conns |-> NoToken]
    /\ clients = [n \in Instances |-> [id \in ClientIDs |-> NoConn]]
    /\ tokenGroups = [n \in Instances |-> [k \in APIKeys |-> {}]]
    /\ gauge = [n \in Instances |-> 0]
    /\ evicting = {}
    /\ closing = {}
    /\ cleanup = [n \in Instances |-> Idle]
    /\ ending = [n \in Instances |-> Idle]
    /\ lost = {}

----------------------------------------------------------------------------
(* Readings of the state.                                                  *)

\* The connection a registry holds for the client ID that c presented.
HolderOf(c) == clients[req[c].inst][req[c].id]

Registered(c) == HolderOf(c) = c

\* Connections AddClient accepted, and of them those whose read pump has not
\* deregistered itself or ended.
Accepted(c) == phase[c] \notin {"dialing", "validated", "refused"}

Running(c) == phase[c] \in {"registered", "counted", "reading"}

RegisteredAt(n) == {c \in Conns : \E id \in ClientIDs : clients[n][id] = c}

Goes(c, ph) == phase' = [phase EXCEPT ![c] = ph]

----------------------------------------------------------------------------
(* The connection handler: HandleRelayConnection, then startRelayClient.   *)

\* The first message is checked: token, IP allowlist, headless session.  The
\* verdict is the database's, so here it is free.  A refusal closes the socket.
Authenticate(c) ==
    /\ phase[c] = "dialing"
    /\ \/ /\ Goes(c, "validated")
          /\ UNCHANGED socket
       \/ /\ Goes(c, "refused")
          /\ socket' = [socket EXCEPT ![c] = "closed"]
    /\ UNCHANGED <<req, connected, tokenID, clients, tokenGroups, gauge,
                   evicting, closing, cleanup, ending, lost>>

\* What every accepted AddClient does before it releases mu.
Insert(c) ==
    LET r == req[c] IN
    /\ clients' = [clients EXCEPT ![r.inst][r.id] = c]
    /\ tokenGroups' = [tokenGroups EXCEPT ![r.inst][r.key] = @ \cup {r.id}]
    /\ connected' = [connected EXCEPT ![c] = TRUE]
    /\ Goes(c, "registered")
    /\ UNCHANGED <<req, socket, tokenID, closing, cleanup, ending, lost>>

\* AddClient, no other connection holds the client ID.
AddFresh(c) ==
    /\ phase[c] = "validated"
    /\ HolderOf(c) = NoConn
    /\ Insert(c)
    /\ UNCHANGED <<gauge, evicting>>

\* Mutant: the gauge is not decremented for the evicted connection.
AddEvictingUncounted(c) ==
    /\ phase[c] = "validated"
    /\ HolderOf(c) # NoConn
    /\ req[HolderOf(c)].host = req[c].host
    /\ Insert(c)
    /\ evicting' = evicting \cup {HolderOf(c)}
    /\ UNCHANGED gauge

\* Mutant: the evicted connection is left running.
AddEvictingSilently(c) ==
    /\ phase[c] = "validated"
    /\ HolderOf(c) # NoConn
    /\ req[HolderOf(c)].host = req[c].host
    /\ Insert(c)
    /\ gauge' = [gauge EXCEPT ![req[c].inst] = @ - 1]
    /\ UNCHANGED evicting

\* AddClient, the holder came from the same host: a reconnect after a network
\* drop.  The holder leaves the map and the group of the NEW connection's key,
\* the gauge goes down for it, and a goroutine is started to close it.
AddEvicting(c) ==
    LET n == req[c].inst IN
    /\ phase[c] = "validated"
    /\ HolderOf(c) # NoConn
    /\ req[HolderOf(c)].host = req[c].host
    /\ Insert(c)
    /\ gauge' = [gauge EXCEPT ![n] = @ - 1]
    /\ evicting' = evicting \cup {HolderOf(c)}

\* AddClient, the holder came from another host: the new connection is closed.
AddRejected(c) ==
    /\ phase[c] = "validated"
    /\ HolderOf(c) # NoConn
    /\ req[HolderOf(c)].host # req[c].host
    /\ Goes(c, "refused")
    /\ socket' = [socket EXCEPT ![c] = "closed"]
    /\ UNCHANGED <<req, connected, tokenID, clients, tokenGroups, gauge,
                   evicting, closing, cleanup, ending, lost>>

\* The rest of AddClient, after mu is released.
FinishAdd(c) ==
    /\ phase[c] = "registered"
    /\ gauge' = [gauge EXCEPT ![req[c].inst] = @ + 1]
    /\ Goes(c, "counted")
    /\ UNCHANGED <<req, socket, connected, tokenID, clients, tokenGroups,
                   evicting, closing, cleanup, ending, lost>>

\* SetClientConnectionTokenID looks the client up again BY ID: by now the holder
\* may be another connection, or none.  The pumps start afterwards.
SetClientConnectionTokenID(c) ==
    /\ phase[c] = "counted"
    /\ tokenID' = IF HolderOf(c) = NoConn THEN tokenID
                  ELSE [tokenID EXCEPT ![HolderOf(c)] = req[c].tok]
    /\ Goes(c, "reading")
    /\ UNCHANGED <<req, socket, connected, clients, tokenGroups, gauge,
                   evicting, closing, cleanup, ending, lost>>

----------------------------------------------------------------------------
(* The end of a connection.                                                *)

\* The module closes the socket, the network drops it, the read deadline
\* passes without a pong, or a write fails.  Client.connected stays TRUE.
SocketFails(c) ==
    /\ Running(c)
    /\ socket[c] = "open"
    /\ socket' = [socket EXCEPT ![c] = "closed"]
    /\ UNCHANGED <<req, phase, connected, tokenID, clients, tokenGroups, gauge,
                   evicting, closing, cleanup, ending, lost>>

\* The goroutine an eviction started: DisconnectWithReason marks the client
\* dead and closes done, but leaves the socket to writePump.
DisconnectWithReason(c) ==
    /\ c \in evicting
    /\ evicting' = evicting \ {c}
    /\ connected' = [connected EXCEPT ![c] = FALSE]
    /\ UNCHANGED <<req, phase, socket, tokenID, clients, tokenGroups, gauge,
                   closing, cleanup, ending, lost>>

\* writePump sees done, sends the parting frame and closes the socket.
WritePumpExits(c) ==
    /\ Accepted(c)
    /\ ~connected[c]
    /\ socket[c] = "open"
    /\ socket' = [socket EXCEPT ![c] = "closed"]
    /\ UNCHANGED <<req, phase, connected, tokenID, clients, tokenGroups, gauge,
                   evicting, closing, cleanup, ending, lost>>

\* The three lookups that select whom a disconnect command closes.  They hold
\* mu for reading; the closing itself happens after it is released.
Collect(S) ==
    /\ S # {}
    /\ closing' = closing \cup S
    /\ UNCHANGED <<req, phase, socket, connected, tokenID, clients, tokenGroups,
                   gauge, evicting, cleanup, ending, lost>>

DisconnectLocalByToken(n, t) == Collect({c \in RegisteredAt(n) : tokenID[c] = t})

DisconnectLocalByClientID(n, id) == Collect({c \in RegisteredAt(n) : clients[n][id] = c})

DisconnectLocalByAPIKey(n, k) ==
    Collect({c \in RegisteredAt(n) : \E id \in tokenGroups[n][k] : clients[n][id] = c})

\* closeClients, one client: the close frame, then Disconnect, which does
\* nothing more when the client was already marked dead.
CloseClient(c) ==
    /\ c \in closing
    /\ closing' = closing \ {c}
    /\ connected' = [connected EXCEPT ![c] = FALSE]
    /\ socket' = IF connected[c] THEN [socket EXCEPT ![c] = "closed"] ELSE socket
    /\ UNCHANGED <<req, phase, tokenID, clients, tokenGroups, gauge, evicting, cleanup, ending, lost>>

\* Mutant: the client stays in the group of its key.
DeregisterKeepsGroup(n, id) ==
    /\ clients' = [clients EXCEPT ![n][id] = NoConn]
    /\ UNCHANGED tokenGroups

\* Take what instance n holds for id out of its maps (both removals share it).
Deregister(n, id) ==
    LET k == req[clients[n][id]].key IN
    /\ clients' = [clients EXCEPT ![n][id] = NoConn]
    /\ tokenGroups' = [tokenGroups EXCEPT ![n][k] = @ \ {id}]

\* Mutant: the read pump removes by id, as it did before RemoveClientIfMatch.
ReadPumpRemovesById(c) ==
    /\ phase[c] = "reading"
    /\ socket[c] = "closed"
    /\ IF HolderOf(c) # NoConn
         THEN Deregister(req[c].inst, req[c].id) /\ Goes(c, "removing")
         ELSE UNCHANGED <<clients, tokenGroups>> /\ Goes(c, "gone")
    /\ UNCHANGED <<req, socket, connected, tokenID, gauge, evicting, closing, cleanup, ending, lost>>

\* Mutant: the read pump ends without the deferred removal.
ReadPumpLeavesEntry(c) ==
    /\ phase[c] = "reading"
    /\ socket[c] = "closed"
    /\ Goes(c, "gone")
    /\ UNCHANGED <<req, socket, connected, tokenID, clients, tokenGroups, gauge,
                   evicting, closing, cleanup, ending, lost>>

\* The deferred call of the read pump: RemoveClientIfMatch compares pointers,
\* so the registration of a replacement is left alone.
ReadPumpExits(c) ==
    /\ phase[c] = "reading"
    /\ socket[c] = "closed"
    /\ IF Registered(c)
         THEN Deregister(req[c].inst, req[c].id) /\ Goes(c, "removing")
         ELSE UNCHANGED <<clients, tokenGroups>> /\ Goes(c, "gone")
    /\ UNCHANGED <<req, socket, connected, tokenID, gauge, evicting, closing, cleanup, ending, lost>>

\* The rest of RemoveClientIfMatch, after mu is released.
FinishRemove(c) ==
    /\ phase[c] = "removing"
    /\ gauge' = [gauge EXCEPT ![req[c].inst] = @ - 1]
    /\ Goes(c, "gone")
    /\ UNCHANGED <<req, socket, connected, tokenID, clients, tokenGroups,
                   evicting, closing, cleanup, ending, lost>>

----------------------------------------------------------------------------
(* CleanupInactiveClients: collect the dead under RLock, then RemoveClient *)
(* for each of them BY ID.                                                 *)

Dead(n) == {id \in ClientIDs : clients[n][id] # NoConn /\ ~connected[clients[n][id]]}

CleanupScan(n) ==
    /\ cleanup[n] = Idle
    /\ Dead(n) # {}
    /\ cleanup' = [cleanup EXCEPT ![n].todo = Dead(n)]
    /\ UNCHANGED <<req, phase, socket, connected, tokenID, clients, tokenGroups,
                   gauge, evicting, closing, ending, lost>>

\* The critical section of RemoveClient.
TakeOut(n, id) ==
    /\ IF clients[n][id] = NoConn
         THEN UNCHANGED <<clients, tokenGroups>>
         ELSE Deregister(n, id)
    /\ lost' = lost \cup {c \in Conns : clients[n][id] = c /\ connected[c]}

RemoveClient(n, id) ==
    /\ id \in cleanup[n].todo
    /\ cleanup[n].fin = NoConn
    /\ cleanup' = [cleanup EXCEPT ![n] = [todo |-> cleanup[n].todo \ {id},
                                          fin |-> clients[n][id]]]
    /\ TakeOut(n, id)
    /\ UNCHANGED <<req, phase, socket, connected, tokenID, gauge, evicting, closing, ending>>

FinishRemoveClient(n) ==
    /\ cleanup[n].fin # NoConn
    /\ cleanup' = [cleanup EXCEPT ![n].fin = NoConn]
    /\ gauge' = [gauge EXCEPT ![n] = @ - 1]
    /\ UNCHANGED <<req, phase, socket, connected, tokenID, clients, tokenGroups,
                   evicting, closing, ending, lost>>

----------------------------------------------------------------------------
(* The other callers of RemoveClient: they end a connection, or a session, *)
(* and then remove whatever has its client ID.  (Bound: one of them at a   *)
(* time on an instance.)                                                   *)

\* EndSession deletes a headless session and closes its tab, which the registry does
\* not see: the module may still be alive when RemoveClient comes.
EndSession(n, id) ==
    /\ ending[n] = Idle
    /\ ending' = [ending EXCEPT ![n].todo = {id}]
    /\ UNCHANGED <<req, phase, socket, connected, tokenID, clients, tokenGroups,
                   gauge, evicting, closing, cleanup, lost>>

\* The administrator's disconnect handlers, with the client they looked up, and
\* reconcileConnections, with one of its snapshot: the connection may have been
\* displaced since.
ForceDisconnect(c) ==
    LET n == req[c].inst IN
    /\ Accepted(c)
    /\ ending[n] = Idle
    /\ ending' = [ending EXCEPT ![n].todo = {req[c].id}]
    /\ connected' = [connected EXCEPT ![c] = FALSE]
    /\ socket' = IF connected[c] THEN [socket EXCEPT ![c] = "closed"] ELSE socket
    /\ UNCHANGED <<req, phase, tokenID, clients, tokenGroups, gauge, evicting,
                   closing, cleanup, lost>>

RemoveEnded(n, id) ==
    /\ id \in ending[n].todo
    /\ ending[n].fin = NoConn
    /\ ending' = [ending EXCEPT ![n] = [todo |-> {}, fin |-> clients[n][id]]]
    /\ TakeOut(n, id)
    /\ UNCHANGED <<req, phase, socket, connected, tokenID, gauge, evicting, closing, cleanup>>

FinishRemoveEnded(n) ==
    /\ ending[n].fin # NoConn
    /\ ending' = [ending EXCEPT ![n].fin = NoConn]
    /\ gauge' = [gauge EXCEPT ![n] = @ - 1]
    /\ UNCHANGED <<req, phase, socket, connected, tokenID, clients, tokenGroups,
                   evicting, closing, cleanup, lost>>

----------------------------------------------------------------------------
ConnStep(c) ==
    \/ Authenticate(c) \/ AddFresh(c) \/ AddEvicting(c) \/ AddRejected(c)
    \/ FinishAdd(c) \/ SetClientConnectionTokenID(c)
    \/ SocketFails(c) \/ DisconnectWithReason(c) \/ WritePumpExits(c)
    \/ CloseClient(c) \/ ReadPumpExits(c) \/ FinishRemove(c)

CleanupStep(n) ==
    \/ CleanupScan(n)
    \/ \E id \in ClientIDs : RemoveClient(n, id)
    \/ FinishRemoveClient(n)

EndingStep(n) ==
    \/ \E id \in ClientIDs : EndSession(n, id) \/ RemoveEnded(n, id)
    \/ \E c \in Conns : req[c].inst = n /\ ForceDisconnect(c)
    \/ FinishRemoveEnded(n)

InstanceStep(n) ==
    \/ \E t \in TokenIDs : DisconnectLocalByToken(n, t)
    \/ \E id \in ClientIDs : DisconnectLocalByClientID(n, id)
    \/ \E k \in APIKeys : DisconnectLocalByAPIKey(n, k)
    \/ CleanupStep(n) \/ EndingStep(n)

Next == (\E c \in Conns : ConnStep(c)) \/ (\E n \in Instances : InstanceStep(n))

Spec == Init /\ [][Next]_vars

\* Goroutines that are ready keep being scheduled, and the cleanup ticker keeps
\* firing.  Nothing obliges a module to dial, a socket to fail or an operator to
\* send a disconnect command.
Fairness ==
    /\ \A c \in Conns :
         /\ WF_vars(FinishAdd(c)) /\ WF_vars(SetClientConnectionTokenID(c))
         /\ WF_vars(DisconnectWithReason(c)) /\ WF_vars(WritePumpExits(c))
         /\ WF_vars(CloseClient(c)) /\ WF_vars(ReadPumpExits(c)) /\ WF_vars(FinishRemove(c))
    /\ \A n \in Instances :
         /\ WF_vars(CleanupScan(n)) /\ WF_vars(FinishRemoveClient(n))
         /\ \A id \in ClientIDs : WF_vars(RemoveClient(n, id))

FairSpec == Spec /\ Fairness

----------------------------------------------------------------------------
(* Properties.                                                             *)

\* Every registered connection is in the group of its API key, so that a
\* disconnect by key and the client list of that key reach it.  AddClient and
\* the two removals maintain the two maps separately; an eviction deletes from a
\* group and AddClient adds to it again.
GroupsComplete ==
    \A n \in Instances : \A id \in ClientIDs :
        clients[n][id] # NoConn => id \in tokenGroups[n][req[clients[n][id]].key]

\* A group names only registered clients of its own key, as long as all the
\* connections that present one client ID use one key.  (An eviction deletes from
\* the group of the new connection's key, so a change of key between the two
\* leaves the old entry behind for good.)
GroupsSound ==
    \A n \in Instances : \A id \in ClientIDs :
        (\A c, d \in Conns : (req[c].id = id /\ req[d].id = id) => req[c].key = req[d].key)
        => \A k \in APIKeys :
             id \in tokenGroups[n][k] =>
                 clients[n][id] # NoConn /\ req[clients[n][id]].key = k

\* The groups of the keys and the map of the clients say the same.
GroupsMatchClients == GroupsComplete /\ GroupsSound

\* The gauge of open connections loses nothing: it is the number of registered
\* clients, short of the connections AddClient has not counted yet and ahead by
\* the removals that are not finished.  The increment of AddClient and the
\* decrements of every kind of removal all run outside the lock, in any order.
GaugeAccounts ==
    \A n \in Instances :
        gauge[n] + Cardinality({c \in Conns : req[c].inst = n /\ phase[c] = "registered"})
          = Cardinality(RegisteredAt(n))
            + Cardinality({c \in Conns : req[c].inst = n /\ phase[c] = "removing"})
            + (IF cleanup[n].fin = NoConn THEN 0 ELSE 1)
            + (IF ending[n].fin = NoConn THEN 0 ELSE 1)

\* The token recorded on a registered client, which revocation goes by, is its
\* own once its pumps run; the only other value it can hold is the token of an
\* earlier connection of the same client ID that was displaced between its
\* AddClient and its SetClientConnectionTokenID.
TokenIDTraced ==
    \A c \in Conns :
        (phase[c] = "reading" /\ Registered(c) /\ tokenID[c] # req[c].tok)
        => \E d \in Conns \ {c} :
             /\ req[d].inst = req[c].inst /\ req[d].id = req[c].id
             /\ tokenID[c] = req[d].tok
             /\ Accepted(d) /\ ~Registered(d)

\* A connection that lost its registration is being torn down: the goroutine
\* that will close it is pending, or it is already marked dead.  The exception is
\* a connection that RemoveClient took out while it was alive.
DisplacedIsClosed ==
    \A c \in Conns :
        (Running(c) /\ ~Registered(c)) => (c \in evicting \/ ~connected[c] \/ c \in lost)

\* A registration ends in three ways only: the read pump of that very connection
\* ends; a connection of the same client ID from the same host replaces it; or
\* RemoveClient is called for its client ID by somebody who named it before: the
\* cleanup loop, EndSession, an administrator's disconnect, the reconciliation.
\* (Those go by ID, and may hit a connection that took the ID after it was named.)
\* The deferred cleanup of an evicted connection ends nothing but its own.
RegistrationEndsByOwnerOrName ==
    [][\A n \in Instances : \A id \in ClientIDs :
         LET c == clients[n][id]
             d == clients'[n][id]
         IN  (c # NoConn /\ d # c) =>
                 \/ phase[c] = "reading" /\ socket[c] = "closed"
                 \/ d # NoConn /\ req[d].host = req[c].host
                 \/ id \in cleanup[n].todo \cup ending[n].todo
      ]_vars

\* A connection whose socket is dead, or that was displaced, ends: its goroutines
\* stop and it is out of the registry (writePump does not leak, the world can
\* come back).  A connection lost to a removal by ID is the exception again.
EveryConnectionEnds ==
    \A c \in Conns :
        (Running(c) /\ (socket[c] = "closed" \/ ~Registered(c)))
            ~> (c \in lost \/ (phase[c] = "gone" /\ socket[c] = "closed" /\ ~Registered(c)))

\* "CleanupInactiveClients removes clients that are no longer alive" (the comment
\* on it): it never takes out a client that is alive.
CleanupRemovesOnlyInactive ==
    [][\A n \in Instances : \A c \in Conns :
         (cleanup'[n].fin = c /\ cleanup[n].fin # c) => ~connected[c]]_vars
=============================================================================
