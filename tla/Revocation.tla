----------------------------- MODULE Revocation -----------------------------
(***************************************************************************)
(* How a revoked credential reaches the connections that were opened with  *)
(* it: the HTTP handlers that revoke, the disconnect channel of Redis      *)
(* (internal/ws/manager.go), and the reconciliation loop of server.go that *)
(* compares every local connection with the database.  It runs on top of   *)
(* the registries of ClientRegistry, one per instance.                     *)
(*                                                                         *)
(* A revocation handler does two things, in an order that depends on the   *)
(* handler: it deletes rows, and it broadcasts.  Between them, anything.   *)
(***************************************************************************)
EXTENDS ClientRegistry

CONSTANT MaxRevocations  \* bound: calls of the revocation handlers

ASSUME MaxRevocationsAssumption == MaxRevocations \in Nat

VARIABLES
    calls,    \* calls of the revocation handlers so far
    tokens,   \* rows of the ConnectionTokens table
    keys,     \* API key hashes that still belong to a user
    halves,   \* second halves of revocation handlers that have not run
    inbox,    \* per instance: commands of the disconnect channel
    recon     \* per instance: the local state of reconcileConnections

rvars == <<calls, tokens, keys, halves, inbox, recon>>
allvars == <<vars, rvars>>

\* What a disconnectCmd selects by.
ByToken(t)  == [kind |-> "token", arg |-> t]
ByClient(i) == [kind |-> "client", arg |-> i]
ByKey(k)    == [kind |-> "apikey", arg |-> k]

Commands == {ByToken(t) : t \in TokenIDs} \cup {ByClient(i) : i \in ClientIDs}
              \cup {ByKey(k) : k \in APIKeys}

TokensOf(id) == {r.tok : r \in {x \in Requests : x.id = id}}
TokensOfKey(k) == {r.tok : r \in {x \in Requests : x.key = k}}

\* A second half: the rows it deletes, or the command it broadcasts.
Broadcasts(n, m) == [inst |-> n, rows |-> {}, cmds |-> {m}]
Deletes(n, S)    == [inst |-> n, rows |-> S, cmds |-> {}]

Asleep == [todo |-> {}, out |-> {}, fin |-> FALSE]

RTypeOK ==
    /\ calls \in 0 .. MaxRevocations
    /\ tokens \subseteq TokenIDs
    /\ keys \subseteq APIKeys
    /\ halves \subseteq [inst : Instances, rows : SUBSET TokenIDs, cmds : SUBSET Commands]
    /\ inbox \in [Instances -> SUBSET Commands]
    /\ recon \in [Instances -> [todo : SUBSET Conns, out : SUBSET ClientIDs, fin : BOOLEAN]]

RInit ==
    /\ Init
    /\ calls = 0
    /\ tokens = TokenIDs
    /\ keys = APIKeys
    /\ halves = {}
    /\ inbox = [n \in Instances |-> {}]
    /\ recon = [n \in Instances |-> Asleep]

----------------------------------------------------------------------------
(* The registry: ValidateConnectionToken joins the token's row with its    *)
(* user's key.                                                             *)

Credentials(c) == req[c].tok \in tokens /\ req[c].key \in keys

Admits(c) == phase[c] = "dialing" /\ phase'[c] = "validated"

RegistryStep ==
    /\ \/ \E c \in Conns : ConnStep(c) /\ (Admits(c) => Credentials(c))
       \/ \E n \in Instances : CleanupStep(n)
    /\ UNCHANGED rvars

----------------------------------------------------------------------------
(* Revocation handlers.                                                    *)

\* disconnectLocalBy..., which may find nobody.
Selected(n, m) ==
    {c \in RegisteredAt(n) :
        CASE m.kind = "token"  -> tokenID[c] = m.arg
          [] m.kind = "client" -> clients[n][m.arg] = c
          [] m.kind = "apikey" -> \E id \in tokenGroups[n][m.arg] : clients[n][id] = c}

DisconnectLocal(n, m) ==
    /\ closing' = closing \cup Selected(n, m)
    /\ UNCHANGED <<req, phase, socket, connected, tokenID, clients, tokenGroups,
                   gauge, evicting, cleanup, ending, lost>>

\* BroadcastDisconnectBy...: here first, then on whatever instances the message
\* reaches.  Publishing can fail, and a subscriber that is reconnecting gets nothing.
Broadcast(n, m) ==
    /\ DisconnectLocal(n, m)
    /\ \E S \in SUBSET (Instances \ {n}) :
         inbox' = [i \in Instances |-> IF i \in S THEN inbox[i] \cup {m} ELSE inbox[i]]

Called == calls < MaxRevocations /\ calls' = calls + 1

\* DELETE /auth/connection-tokens/{id}: the row, then the broadcast.
RevokeToken(n, t) ==
    /\ Called
    /\ t \in tokens
    /\ tokens' = tokens \ {t}
    /\ halves' = halves \cup {Broadcasts(n, ByToken(t))}
    /\ UNCHANGED <<vars, keys, inbox, recon>>

\* Self-unpair: the broadcast, then the row.  The module may reconnect in between.
SelfUnpair(n, t) ==
    /\ Called
    /\ t \in tokens
    /\ Broadcast(n, ByToken(t))
    /\ halves' = halves \cup {Deletes(n, {t})}
    /\ UNCHANGED <<tokens, keys, recon>>

\* DELETE of a known client: one command, by the token that the local client or
\* Redis names for the client ID, else by the client ID; then all tokens of the
\* world.  What Redis remembers is free here.
DeleteKnownClient(n, id) ==
    /\ Called
    /\ TokensOf(id) \cap tokens # {}
    /\ \E m \in {ByClient(id)} \cup {ByToken(t) : t \in TokensOf(id)} :
         /\ LET c == clients[n][id] IN
              (c # NoConn /\ tokenID[c] # NoToken) => m = ByToken(tokenID[c])
         /\ Broadcast(n, m)
    /\ halves' = halves \cup {Deletes(n, TokensOf(id))}
    /\ UNCHANGED <<tokens, keys, recon>>

\* Regenerating the master key (or deleting the account): the key's hash and its
\* tokens go, then one broadcast by the old hash.
RegenerateKey(n, k) ==
    /\ Called
    /\ k \in keys
    /\ keys' = keys \ {k}
    /\ tokens' = tokens \ TokensOfKey(k)
    /\ halves' = halves \cup {Broadcasts(n, ByKey(k))}
    /\ UNCHANGED <<vars, inbox, recon>>

SecondHalf(h) ==
    /\ h \in halves
    /\ halves' = halves \ {h}
    /\ tokens' = tokens \ h.rows
    /\ IF h.cmds = {} THEN UNCHANGED <<vars, inbox>>
                      ELSE \E m \in h.cmds : Broadcast(h.inst, m)
    /\ UNCHANGED <<calls, keys, recon>>

HandleDisconnectCommand(n, m) ==
    /\ m \in inbox[n]
    /\ inbox' = [inbox EXCEPT ![n] = @ \ {m}]
    /\ DisconnectLocal(n, m)
    /\ UNCHANGED <<calls, tokens, keys, halves, recon>>

----------------------------------------------------------------------------
(* reconcileConnections: a snapshot of the local clients, then one by one. *)

SnapshotLocalClients(n) ==
    /\ recon[n] = Asleep
    /\ RegisteredAt(n) # {}
    /\ recon' = [recon EXCEPT ![n].todo = RegisteredAt(n)]
    /\ UNCHANGED <<vars, calls, tokens, keys, halves, inbox>>

AtWork(n, c) == c \in recon[n].todo /\ recon[n].out = {} /\ ~recon[n].fin

\* Mutant: the loop trusts the broadcast for connection tokens.
CondemnedByKeyOnly(c) == req[c].key \notin keys

\* What the database says against the connection.
Condemned(c) == req[c].key \notin keys \/ (tokenID[c] # NoToken /\ tokenID[c] \notin tokens)

\* The client is dead, nothing is wrong with it, or a query fails.
ReconcileSkips(n, c) ==
    /\ AtWork(n, c)
    /\ recon' = [recon EXCEPT ![n].todo = @ \ {c}]
    /\ UNCHANGED <<vars, calls, tokens, keys, halves, inbox>>

\* ForceDisconnectLocal closes that very connection; RemoveClient, next, goes by
\* its client ID.
ReconcileDisconnects(n, c) ==
    /\ AtWork(n, c)
    /\ connected[c]
    /\ Condemned(c)
    /\ connected' = [connected EXCEPT ![c] = FALSE]
    /\ socket' = [socket EXCEPT ![c] = "closed"]
    /\ recon' = [recon EXCEPT ![n] = [todo |-> recon[n].todo \ {c}, out |-> {req[c].id}, fin |-> FALSE]]
    /\ UNCHANGED <<req, phase, tokenID, clients, tokenGroups, gauge, evicting,
                   closing, cleanup, ending, lost, calls, tokens, keys, halves, inbox>>

ReconcileRemoves(n, id) ==
    /\ id \in recon[n].out
    /\ recon' = [recon EXCEPT ![n] = [todo |-> recon[n].todo, out |-> {},
                                      fin |-> clients[n][id] # NoConn]]
    /\ TakeOut(n, id)
    /\ UNCHANGED <<req, phase, socket, connected, tokenID, gauge, evicting, closing,
                   cleanup, ending, calls, tokens, keys, halves, inbox>>

ReconcileFinishes(n) ==
    /\ recon[n].fin
    /\ recon' = [recon EXCEPT ![n].fin = FALSE]
    /\ gauge' = [gauge EXCEPT ![n] = @ - 1]
    /\ UNCHANGED <<req, phase, socket, connected, tokenID, clients, tokenGroups,
                   evicting, closing, cleanup, ending, lost, calls, tokens, keys, halves, inbox>>

----------------------------------------------------------------------------
RevocationStep ==
    \/ \E n \in Instances :
         \/ \E t \in TokenIDs : RevokeToken(n, t) \/ SelfUnpair(n, t)
         \/ \E id \in ClientIDs : DeleteKnownClient(n, id)
         \/ \E k \in APIKeys : RegenerateKey(n, k)
    \/ \E h \in halves : SecondHalf(h)

ReconcileStep(n) ==
    \/ SnapshotLocalClients(n) \/ ReconcileFinishes(n)
    \/ \E c \in Conns : ReconcileSkips(n, c) \/ ReconcileDisconnects(n, c)
    \/ \E id \in ClientIDs : ReconcileRemoves(n, id)

RNext ==
    \/ RegistryStep
    \/ RevocationStep
    \/ \E n \in Instances : ReconcileStep(n) \/ \E m \in inbox[n] : HandleDisconnectCommand(n, m)

RSpec == RInit /\ [][RNext]_allvars

\* The goroutines of a connection, the cleanup and the reconciliation loop run; a
\* query of the loop does not fail for ever.  Nothing is assumed of the broadcast:
\* the handler may fail before it, and a command may never come.
Alone(A) == A /\ UNCHANGED rvars

RFairness ==
    /\ \A c \in Conns :
         /\ WF_allvars(Alone(FinishAdd(c))) /\ WF_allvars(Alone(SetClientConnectionTokenID(c)))
         /\ WF_allvars(Alone(DisconnectWithReason(c))) /\ WF_allvars(Alone(WritePumpExits(c)))
         /\ WF_allvars(Alone(CloseClient(c))) /\ WF_allvars(Alone(ReadPumpExits(c)))
         /\ WF_allvars(Alone(FinishRemove(c)))
    /\ \A n \in Instances :
         /\ WF_allvars(Alone(CleanupScan(n))) /\ WF_allvars(Alone(FinishRemoveClient(n)))
         /\ WF_allvars(SnapshotLocalClients(n)) /\ WF_allvars(ReconcileFinishes(n))
         /\ \A id \in ClientIDs :
              WF_allvars(Alone(RemoveClient(n, id))) /\ WF_allvars(ReconcileRemoves(n, id))
         /\ \A c \in Conns :
              /\ WF_allvars(ReconcileSkips(n, c))
              /\ SF_allvars(ReconcileDisconnects(n, c))

RFairSpec == RSpec /\ RFairness

----------------------------------------------------------------------------
(* Properties.                                                             *)

Revoked(c) == req[c].key \notin keys \/ req[c].tok \notin tokens

\* "The DB is the source of truth, so reconciliation catches anything the broadcast
\* missed": a connection whose credentials are revoked is closed in the end.
RevokedIsClosed == \A c \in Conns : (Running(c) /\ Revoked(c)) ~> ~(Running(c) /\ connected[c])

\* The same, with the two ways out that the code leaves: a connection that a removal
\* by client ID took out of the registry while it was alive, and one on which the
\* handler of another connection of its client ID recorded that one's token.
RevokedIsClosedUnlessLost ==
    \A c \in Conns :
        (Running(c) /\ Revoked(c))
            ~> (~(Running(c) /\ connected[c]) \/ c \in lost \/ tokenID[c] # req[c].tok)
=============================================================================
