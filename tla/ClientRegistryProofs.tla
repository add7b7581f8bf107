------------------------ MODULE ClientRegistryProofs ------------------------
(***************************************************************************)
(* Theorems about ClientRegistry, and about Revocation, which runs on top  *)
(* of it, for any connections, client IDs, keys, hosts, tokens and         *)
(* instances.                                                              *)
(***************************************************************************)
EXTENDS Revocation, FiniteSetTheorems, TLAPS

\* A step of the registry keeps the types.
LEMMA TypeStays == TypeOK /\ [Next]_vars => TypeOK'
<1> SUFFICES ASSUME TypeOK, [Next]_vars
             PROVE  TypeOK'
  OBVIOUS
<1> USE RequestsAssumption DEF TypeOK
<1>0. \A c \in Conns : /\ req[c].inst \in Instances /\ req[c].id \in ClientIDs
                       /\ req[c].key \in APIKeys /\ req[c].host \in Hosts
                       /\ req[c].tok \in TokenIDs
  OBVIOUS
<1>1. ASSUME NEW c \in Conns, Authenticate(c) PROVE TypeOK'
  BY <1>1 DEF Authenticate, Goes, Phases
<1>2. ASSUME NEW c \in Conns, Insert(c) PROVE
        /\ phase' \in [Conns -> Phases]
        /\ connected' \in [Conns -> BOOLEAN]
        /\ clients' \in [Instances -> [ClientIDs -> Conns \cup {NoConn}]]
        /\ tokenGroups' \in [Instances -> [APIKeys -> SUBSET ClientIDs]]
  BY <1>0, <1>2 DEF Insert, Goes, Phases
<1>3. ASSUME NEW c \in Conns, AddFresh(c) PROVE TypeOK'
  BY <1>2, <1>3 DEF AddFresh, Insert
<1>4. ASSUME NEW c \in Conns, AddEvicting(c) PROVE TypeOK'
  <2>1. HolderOf(c) \in Conns
    BY <1>0, <1>4 DEF AddEvicting, HolderOf
  <2>2. /\ gauge' \in [Instances -> Int]
        /\ evicting' \subseteq Conns
    BY <1>0, <1>4, <2>1 DEF AddEvicting
  <2>3. QED BY <1>2, <1>4, <2>2 DEF AddEvicting, Insert
<1>5. ASSUME NEW c \in Conns, AddRejected(c) PROVE TypeOK'
  BY <1>5 DEF AddRejected, Goes, Phases
<1>6. ASSUME NEW c \in Conns, FinishAdd(c) PROVE TypeOK'
  BY <1>6 DEF FinishAdd, Goes, Phases
<1>7. ASSUME NEW c \in Conns, SetClientConnectionTokenID(c) PROVE TypeOK'
  BY <1>7 DEF SetClientConnectionTokenID, Goes, Phases, HolderOf
<1>8. ASSUME NEW c \in Conns, SocketFails(c) PROVE TypeOK'
  BY <1>8 DEF SocketFails
<1>9. ASSUME NEW c \in Conns, DisconnectWithReason(c) PROVE TypeOK'
  BY <1>9 DEF DisconnectWithReason
<1>10. ASSUME NEW c \in Conns, WritePumpExits(c) PROVE TypeOK'
  BY <1>10 DEF WritePumpExits
<1>11. ASSUME NEW c \in Conns, CloseClient(c) PROVE TypeOK'
  BY <1>11 DEF CloseClient
<1>12. ASSUME NEW n \in Instances, NEW id \in ClientIDs, Deregister(n, id), clients[n][id] \in Conns
       PROVE  /\ clients' \in [Instances -> [ClientIDs -> Conns \cup {NoConn}]]
              /\ tokenGroups' \in [Instances -> [APIKeys -> SUBSET ClientIDs]]
  BY <1>12 DEF Deregister
<1>13. ASSUME NEW c \in Conns, ReadPumpExits(c) PROVE TypeOK'
  <2>1. /\ clients' \in [Instances -> [ClientIDs -> Conns \cup {NoConn}]]
        /\ tokenGroups' \in [Instances -> [APIKeys -> SUBSET ClientIDs]]
    BY <1>12, <1>13 DEF ReadPumpExits, Registered, HolderOf
  <2>2. phase' \in [Conns -> Phases]
    BY <1>13 DEF ReadPumpExits, Goes, Phases
  <2>3. QED BY <1>13, <2>1, <2>2 DEF ReadPumpExits
<1>14. ASSUME NEW c \in Conns, FinishRemove(c) PROVE TypeOK'
  BY <1>14 DEF FinishRemove, Goes, Phases
<1>15. ASSUME NEW n \in Instances, NEW t, DisconnectLocalByToken(n, t) PROVE TypeOK'
  BY <1>15 DEF DisconnectLocalByToken, Collect, RegisteredAt
<1>16. ASSUME NEW n \in Instances, NEW id, DisconnectLocalByClientID(n, id) PROVE TypeOK'
  BY <1>16 DEF DisconnectLocalByClientID, Collect, RegisteredAt
<1>17. ASSUME NEW n \in Instances, NEW k, DisconnectLocalByAPIKey(n, k) PROVE TypeOK'
  BY <1>17 DEF DisconnectLocalByAPIKey, Collect, RegisteredAt
<1>18. ASSUME NEW n \in Instances, CleanupScan(n) PROVE TypeOK'
  <2>1. cleanup' \in [Instances -> [todo : SUBSET ClientIDs, fin : Conns \cup {NoConn}]]
    BY <1>18 DEF CleanupScan, Dead
  <2>2. QED BY <1>18, <2>1 DEF CleanupScan
<1>19. ASSUME NEW n \in Instances, NEW id \in ClientIDs, RemoveClient(n, id) PROVE TypeOK'
  <2>1. /\ clients' \in [Instances -> [ClientIDs -> Conns \cup {NoConn}]]
        /\ tokenGroups' \in [Instances -> [APIKeys -> SUBSET ClientIDs]]
    BY <1>12, <1>19 DEF RemoveClient, TakeOut
  <2>2. cleanup' \in [Instances -> [todo : SUBSET ClientIDs, fin : Conns \cup {NoConn}]]
    BY <1>19 DEF RemoveClient, TakeOut
  <2>3. QED BY <1>19, <2>1, <2>2 DEF RemoveClient, TakeOut
<1>20. ASSUME NEW n \in Instances, FinishRemoveClient(n) PROVE TypeOK'
  <2>1. cleanup' \in [Instances -> [todo : SUBSET ClientIDs, fin : Conns \cup {NoConn}]]
    BY <1>20 DEF FinishRemoveClient
  <2>2. gauge' \in [Instances -> Int]
    BY <1>20 DEF FinishRemoveClient
  <2>3. QED BY <1>20, <2>1, <2>2 DEF FinishRemoveClient
<1>21. CASE UNCHANGED vars
  BY <1>21 DEF vars
<1>22. ASSUME NEW n \in Instances, NEW id \in ClientIDs, EndSession(n, id) PROVE TypeOK'
  <2>1. ending' \in [Instances -> [todo : SUBSET ClientIDs, fin : Conns \cup {NoConn}]]
    BY <1>22 DEF EndSession
  <2>2. QED BY <1>22, <2>1 DEF EndSession
<1>23. ASSUME NEW c \in Conns, ForceDisconnect(c) PROVE TypeOK'
  <2>1. ending' \in [Instances -> [todo : SUBSET ClientIDs, fin : Conns \cup {NoConn}]]
    <3> DEFINE n == req[c].inst
               S == {req[c].id}
    <3>1. n \in Instances /\ S \in SUBSET ClientIDs /\ ending' = [ending EXCEPT ![n].todo = S]
      BY <1>0, <1>23 DEF ForceDisconnect
    <3> HIDE DEF n, S
    <3>2. ending[n] \in [todo : SUBSET ClientIDs, fin : Conns \cup {NoConn}]
      BY <3>1
    <3> HIDE RequestsAssumption DEF TypeOK
    <3>3. [ending[n] EXCEPT !.todo = S] \in [todo : SUBSET ClientIDs, fin : Conns \cup {NoConn}]
      BY <3>1, <3>2
    <3>4. ending \in [Instances -> [todo : SUBSET ClientIDs, fin : Conns \cup {NoConn}]]
      BY DEF TypeOK
    <3>5. QED BY <3>1, <3>3, <3>4
  <2>2. QED BY <1>23, <2>1 DEF ForceDisconnect
<1>24. ASSUME NEW n \in Instances, NEW id \in ClientIDs, RemoveEnded(n, id) PROVE TypeOK'
  <2>1. /\ clients' \in [Instances -> [ClientIDs -> Conns \cup {NoConn}]]
        /\ tokenGroups' \in [Instances -> [APIKeys -> SUBSET ClientIDs]]
    BY <1>12, <1>24 DEF RemoveEnded, TakeOut
  <2>2. ending' \in [Instances -> [todo : SUBSET ClientIDs, fin : Conns \cup {NoConn}]]
    BY <1>24 DEF RemoveEnded, TakeOut
  <2>3. QED BY <1>24, <2>1, <2>2 DEF RemoveEnded, TakeOut
<1>25. ASSUME NEW n \in Instances, FinishRemoveEnded(n) PROVE TypeOK'
  <2>1. ending' \in [Instances -> [todo : SUBSET ClientIDs, fin : Conns \cup {NoConn}]]
    BY <1>25 DEF FinishRemoveEnded
  <2>2. gauge' \in [Instances -> Int]
    BY <1>25 DEF FinishRemoveEnded
  <2>3. QED BY <1>25, <2>1, <2>2 DEF FinishRemoveEnded
<1>26. ASSUME NEW n \in Instances, EndingStep(n) PROVE TypeOK'
  BY <1>22, <1>23, <1>24, <1>25, <1>26 DEF EndingStep
<1>27. QED
  BY <1>1, <1>3, <1>4, <1>5, <1>6, <1>7, <1>8, <1>9, <1>10, <1>11, <1>13, <1>14, <1>15,
     <1>16, <1>17, <1>18, <1>19, <1>20, <1>21, <1>26 DEF Next, ConnStep, InstanceStep, CleanupStep

\* Every variable of the registry has its type in every reachable state.
THEOREM TypeCorrect == Spec => []TypeOK
<1>1. Init => TypeOK
  BY RequestsAssumption DEF Init, TypeOK, Phases, Idle
<1>2. QED BY <1>1, TypeStays, PTL DEF Spec

----------------------------------------------------------------------------
(* What a step does to the registry: it inserts one connection, takes one   *)
(* out, or leaves the maps alone.                                           *)

AddStep(c) == AddFresh(c) \/ AddEvicting(c)

\* A step that neither registers nor deregisters: the maps stay, no connection
\* begins or stops running, and one that is being closed stays so.
QuietStep ==
    /\ UNCHANGED <<req, clients, tokenGroups, lost>>
    /\ \A c \in Conns : Running(c)' <=> Running(c)
    /\ \A c \in Conns : (c \in evicting \/ ~connected[c]) => (c \in evicting' \/ ~connected'[c])

\* The critical section of a removal by client ID, with what no such removal touches.
TakesOut(n, id) ==
    /\ TakeOut(n, id)
    /\ UNCHANGED <<req, phase, connected, tokenID, evicting>>

\* Every step is one of four kinds.
KindOfStep ==
    \/ \E c \in Conns : AddStep(c)
    \/ \E c \in Conns : ReadPumpExits(c)
    \/ \E n \in Instances, id \in ClientIDs : TakesOut(n, id)
    \/ QuietStep

LEMMA StepKinds ==
  ASSUME TypeOK, [Next]_vars
  PROVE  \/ \E c \in Conns : AddStep(c)
         \/ \E c \in Conns : ReadPumpExits(c)
         \/ \E n \in Instances, id \in ClientIDs : RemoveClient(n, id) \/ RemoveEnded(n, id)
         \/ QuietStep
<1> USE DEF TypeOK, QuietStep
<1>1. ASSUME NEW c \in Conns,
             Authenticate(c) \/ AddRejected(c) \/ FinishAdd(c)
               \/ SetClientConnectionTokenID(c) \/ FinishRemove(c)
      PROVE  QuietStep
  BY <1>1 DEF Authenticate, AddRejected, FinishAdd, SetClientConnectionTokenID, FinishRemove,
              Goes, Running, Phases
<1>2. ASSUME NEW c \in Conns, SocketFails(c) \/ WritePumpExits(c)
      PROVE  QuietStep
  BY <1>2 DEF SocketFails, WritePumpExits, Running
<1>3. ASSUME NEW c \in Conns, DisconnectWithReason(c) \/ CloseClient(c)
      PROVE  QuietStep
  BY <1>3 DEF DisconnectWithReason, CloseClient, Running
<1>4. ASSUME NEW n \in Instances,
             \/ \E t \in TokenIDs : DisconnectLocalByToken(n, t)
             \/ \E id \in ClientIDs : DisconnectLocalByClientID(n, id)
             \/ \E k \in APIKeys : DisconnectLocalByAPIKey(n, k)
      PROVE  QuietStep
  BY <1>4 DEF DisconnectLocalByToken, DisconnectLocalByClientID, DisconnectLocalByAPIKey,
              Collect, Running
<1>5. ASSUME NEW n \in Instances, CleanupScan(n) \/ FinishRemoveClient(n)
      PROVE  QuietStep
  BY <1>5 DEF CleanupScan, FinishRemoveClient, Running
<1>6. CASE UNCHANGED vars
  BY <1>6 DEF vars, Running
<1>7. ASSUME NEW n \in Instances,
             \/ \E id \in ClientIDs : EndSession(n, id)
             \/ \E c \in Conns : ForceDisconnect(c)
             \/ FinishRemoveEnded(n)
      PROVE  QuietStep
  BY <1>7 DEF EndSession, ForceDisconnect, FinishRemoveEnded, Running
<1>8. ASSUME NEW n \in Instances, EndingStep(n)
      PROVE  QuietStep \/ \E id \in ClientIDs : RemoveEnded(n, id)
  BY <1>7, <1>8 DEF EndingStep
<1>9. QED
  BY <1>1, <1>2, <1>3, <1>4, <1>5, <1>6, <1>8 DEF Next, ConnStep, InstanceStep, CleanupStep, AddStep

\* A removal by client ID is one kind of TakesOut, whoever calls it.
LEMMA KindsOfStep == TypeOK /\ [Next]_vars => KindOfStep
BY StepKinds DEF KindOfStep, TakesOut, RemoveClient, RemoveEnded

\* What a registration writes, entry by entry.
LEMMA InsertEffect ==
  ASSUME TypeOK, NEW c \in Conns, Insert(c)
  PROVE  /\ \A n \in Instances : \A id \in ClientIDs :
               clients'[n][id] = IF n = req[c].inst /\ id = req[c].id THEN c ELSE clients[n][id]
         /\ \A n \in Instances : \A k \in APIKeys : \A x \in ClientIDs :
               x \in tokenGroups'[n][k] <=>
                   \/ x \in tokenGroups[n][k]
                   \/ n = req[c].inst /\ k = req[c].key /\ x = req[c].id
<1>1. req[c].inst \in Instances /\ req[c].id \in ClientIDs /\ req[c].key \in APIKeys
  BY RequestsAssumption DEF TypeOK
<1>2. \A n \in Instances : clients[n] \in [ClientIDs -> Conns \cup {NoConn}]
                           /\ tokenGroups[n] \in [APIKeys -> SUBSET ClientIDs]
  BY DEF TypeOK
<1>3. clients' = [clients EXCEPT ![req[c].inst] = [clients[req[c].inst] EXCEPT ![req[c].id] = c]]
  BY DEF Insert
<1>4. tokenGroups' = [tokenGroups EXCEPT ![req[c].inst] =
                        [tokenGroups[req[c].inst] EXCEPT ![req[c].key] = @ \cup {req[c].id}]]
  BY DEF Insert
<1>5. DOMAIN clients = Instances /\ DOMAIN tokenGroups = Instances
  BY DEF TypeOK
<1>6. QED BY <1>1, <1>2, <1>3, <1>4, <1>5

\* What a removal writes, entry by entry.
LEMMA DeregisterEffect ==
  ASSUME TypeOK, NEW n \in Instances, NEW id \in ClientIDs, clients[n][id] \in Conns,
         Deregister(n, id)
  PROVE  /\ \A m \in Instances : \A x \in ClientIDs :
               clients'[m][x] = IF m = n /\ x = id THEN NoConn ELSE clients[m][x]
         /\ \A m \in Instances : \A k \in APIKeys : \A x \in ClientIDs :
               x \in tokenGroups'[m][k] <=>
                   /\ x \in tokenGroups[m][k]
                   /\ ~(m = n /\ k = req[clients[n][id]].key /\ x = id)
<1>1. req[clients[n][id]].key \in APIKeys
  BY RequestsAssumption DEF TypeOK
<1>2. \A m \in Instances : clients[m] \in [ClientIDs -> Conns \cup {NoConn}]
                           /\ tokenGroups[m] \in [APIKeys -> SUBSET ClientIDs]
  BY DEF TypeOK
<1>3. clients' = [clients EXCEPT ![n] = [clients[n] EXCEPT ![id] = NoConn]]
  BY DEF Deregister
<1>4. tokenGroups' = [tokenGroups EXCEPT ![n] =
                        [tokenGroups[n] EXCEPT ![req[clients[n][id]].key] = @ \ {id}]]
  BY DEF Deregister
<1>5. DOMAIN clients = Instances /\ DOMAIN tokenGroups = Instances
  BY DEF TypeOK
<1>6. QED BY <1>1, <1>2, <1>3, <1>4, <1>5

----------------------------------------------------------------------------
(* The inductive invariant behind the others: what a map holds for a client *)
(* ID is a running connection that presented that ID to that instance.      *)

SlotSound(n, id) ==
    clients[n][id] # NoConn =>
        /\ req[clients[n][id]].inst = n
        /\ req[clients[n][id]].id = id
        /\ Running(clients[n][id])

RegistrySound == \A n \in Instances : \A id \in ClientIDs : SlotSound(n, id)

\* No step of these kinds puts a connection under what is not its own, or keeps one
\* that has stopped.
LEMMA RegistryStays == TypeOK /\ RegistrySound /\ KindOfStep => RegistrySound'
<1> SUFFICES ASSUME TypeOK, RegistrySound, KindOfStep,
                    NEW n \in Instances, NEW id \in ClientIDs
             PROVE  SlotSound(n, id)'
  BY DEF RegistrySound
<1> USE RequestsAssumption, NoConnAssumption DEF TypeOK, SlotSound
<1>0. SlotSound(n, id)
  BY DEF RegistrySound
<1>1. CASE \E c \in Conns : AddStep(c)
  <2>1. PICK c \in Conns : AddStep(c)
    BY <1>1
  <2>2. Insert(c) /\ phase[c] = "validated" /\ req' = req
        /\ phase' = [phase EXCEPT ![c] = "registered"]
    BY <2>1 DEF AddStep, AddFresh, AddEvicting, Insert, Goes
  <2>3. clients'[n][id] = IF n = req[c].inst /\ id = req[c].id THEN c ELSE clients[n][id]
    BY <2>2, InsertEffect
  <2>4. CASE clients'[n][id] = c
    BY <1>0, <2>2, <2>3, <2>4 DEF Running
  <2>5. CASE clients'[n][id] = clients[n][id] /\ clients[n][id] # c
    BY <1>0, <2>2, <2>5 DEF Running
  <2>6. QED BY <2>3, <2>4, <2>5
<1>2. CASE \E c \in Conns : ReadPumpExits(c)
  <2>1. PICK c \in Conns : ReadPumpExits(c)
    BY <1>2
  <2>2. /\ req' = req
        /\ \A d \in Conns \ {c} : phase'[d] = phase[d]
    BY <2>1 DEF ReadPumpExits, Goes
  <2>3. req[c].inst \in Instances /\ req[c].id \in ClientIDs
    OBVIOUS
  <2>4. \/ clients'[n][id] = NoConn
        \/ clients'[n][id] = clients[n][id] /\ clients[n][id] # c
    <3>1. CASE Registered(c)
      <4>1. Deregister(req[c].inst, req[c].id) /\ clients[req[c].inst][req[c].id] = c
        BY <2>1, <3>1 DEF ReadPumpExits, Registered, HolderOf
      <4>2. clients'[n][id] = IF n = req[c].inst /\ id = req[c].id THEN NoConn ELSE clients[n][id]
        BY <2>3, <4>1, DeregisterEffect
      <4>3. QED BY <1>0, <4>1, <4>2
    <3>2. CASE ~Registered(c)
      BY <1>0, <2>1, <3>2 DEF ReadPumpExits, Registered, HolderOf
    <3>3. QED BY <3>1, <3>2
  <2>5. QED BY <1>0, <2>2, <2>4 DEF Running
<1>3. CASE \E m \in Instances, x \in ClientIDs : TakesOut(m, x)
  <2>1. PICK m \in Instances, x \in ClientIDs : TakesOut(m, x)
    BY <1>3
  <2>2. UNCHANGED clients \/ (clients[m][x] \in Conns /\ Deregister(m, x))
    BY <2>1 DEF TakesOut, TakeOut
  <2>3. clients'[n][id] \in {clients[n][id], NoConn}
    BY <2>2, DeregisterEffect
  <2>4. UNCHANGED <<req, phase>>
    BY <2>1 DEF TakesOut, TakeOut
  <2>5. QED BY <1>0, <2>3, <2>4 DEF Running
<1>4. CASE QuietStep
  BY <1>0, <1>4 DEF QuietStep
<1>5. QED
  BY <1>1, <1>2, <1>3, <1>4 DEF KindOfStep

\* The registry never holds a connection under a client ID or an instance that is
\* not its own, nor one whose read pump has ended.
THEOREM RegistryIsSound == Spec => []RegistrySound
<1>1. Init => RegistrySound
  BY DEF Init, RegistrySound, SlotSound
<1>2. TypeOK /\ RegistrySound /\ [Next]_vars => RegistrySound'
  BY KindsOfStep, RegistryStays
<1>3. QED BY <1>1, <1>2, TypeCorrect, PTL DEF Spec

----------------------------------------------------------------------------
(* The maps agree.                                                         *)

\* A removal takes the entry out of both maps or touches neither.
LEMMA RemovalMaps ==
  ASSUME TypeOK,
         \/ \E c \in Conns : ReadPumpExits(c)
         \/ \E n \in Instances, id \in ClientIDs : TakesOut(n, id)
  PROVE  /\ req' = req
         /\ \/ UNCHANGED <<clients, tokenGroups>>
            \/ \E n \in Instances, id \in ClientIDs : clients[n][id] \in Conns /\ Deregister(n, id)
<1>1. CASE \E c \in Conns : ReadPumpExits(c)
  <2>1. PICK c \in Conns : ReadPumpExits(c)
    BY <1>1
  <2>2. req[c].inst \in Instances /\ req[c].id \in ClientIDs
    BY RequestsAssumption DEF TypeOK
  <2>3. QED BY <2>1, <2>2 DEF ReadPumpExits, Registered, HolderOf
<1>2. CASE \E n \in Instances, id \in ClientIDs : TakesOut(n, id)
  <2>1. PICK n \in Instances, id \in ClientIDs : TakesOut(n, id)
    BY <1>2
  <2>2. QED BY <2>1 DEF TakesOut, TakeOut, TypeOK
<1>3. QED BY <1>1, <1>2

InGroup(n, id) == clients[n][id] # NoConn => id \in tokenGroups[n][req[clients[n][id]].key]

\* No step of these kinds drops from its group what it keeps registered.
LEMMA GroupsStay == TypeOK /\ GroupsComplete /\ KindOfStep => GroupsComplete'
<1> SUFFICES ASSUME TypeOK, GroupsComplete, KindOfStep,
                    NEW n \in Instances, NEW id \in ClientIDs
             PROVE  InGroup(n, id)'
  BY DEF GroupsComplete, InGroup
<1> USE RequestsAssumption, NoConnAssumption DEF TypeOK, InGroup
<1>0. InGroup(n, id)
  BY DEF GroupsComplete
<1>1. \A c \in Conns : req[c].inst \in Instances /\ req[c].id \in ClientIDs /\ req[c].key \in APIKeys
  OBVIOUS
<1>2. CASE \E c \in Conns : AddStep(c)
  <2>1. PICK c \in Conns : Insert(c) /\ req' = req
    BY <1>2 DEF AddStep, AddFresh, AddEvicting, Insert
  <2>2. clients'[n][id] = IF n = req[c].inst /\ id = req[c].id THEN c ELSE clients[n][id]
    BY <2>1, InsertEffect
  <2>3. \A k \in APIKeys :
          id \in tokenGroups'[n][k] <=>
              \/ id \in tokenGroups[n][k]
              \/ n = req[c].inst /\ k = req[c].key /\ id = req[c].id
    BY <2>1, InsertEffect
  <2>4. CASE n = req[c].inst /\ id = req[c].id
    <3>1. id \in tokenGroups'[n][req[c].key]
      BY <1>1, <2>3, <2>4
    <3>2. QED BY <2>1, <2>2, <2>4, <3>1
  <2>5. CASE ~(n = req[c].inst /\ id = req[c].id)
    <3>1. \A k \in APIKeys : id \in tokenGroups[n][k] => id \in tokenGroups'[n][k]
      BY <2>3
    <3>2. QED BY <1>0, <1>1, <2>1, <2>2, <2>5, <3>1
  <2>6. QED BY <2>4, <2>5
<1>3. CASE \/ \E c \in Conns : ReadPumpExits(c)
           \/ \E m \in Instances, x \in ClientIDs : TakesOut(m, x)
  <2>1. CASE UNCHANGED <<clients, tokenGroups, req>>
    BY <1>0, <2>1
  <2>2. CASE req' = req /\ \E m \in Instances, x \in ClientIDs : clients[m][x] \in Conns /\ Deregister(m, x)
    <3>1. PICK m \in Instances, x \in ClientIDs : clients[m][x] \in Conns /\ Deregister(m, x)
      BY <2>2
    <3>2. clients'[n][id] = IF n = m /\ id = x THEN NoConn ELSE clients[n][id]
      BY <3>1, DeregisterEffect
    <3>3. CASE n = m /\ id = x
      BY <3>2, <3>3
    <3>4. CASE ~(n = m /\ id = x)
      <4>1. \A k \in APIKeys : id \in tokenGroups[n][k] => id \in tokenGroups'[n][k]
        BY <3>1, <3>4, DeregisterEffect
      <4>2. QED BY <1>0, <1>1, <2>2, <3>2, <3>4, <4>1
    <3>5. QED BY <3>3, <3>4
  <2>3. QED BY <1>3, <2>1, <2>2, RemovalMaps
<1>4. CASE QuietStep
  BY <1>0, <1>4 DEF QuietStep
<1>5. QED BY <1>2, <1>3, <1>4 DEF KindOfStep

\* Whatever is registered is in the group of its API key: no removal and no
\* eviction ever drops a live entry from its group.
THEOREM GroupsAreComplete == Spec => []GroupsComplete
<1>1. Init => GroupsComplete
  BY DEF Init, GroupsComplete
<1>2. TypeOK /\ GroupsComplete /\ [Next]_vars => GroupsComplete'
  BY KindsOfStep, GroupsStay
<1>3. QED BY <1>1, <1>2, TypeCorrect, PTL DEF Spec

\* Who loses its registration to a step of these kinds is being closed or is lost.
LEMMA DisplacedStay == TypeOK /\ RegistrySound /\ DisplacedIsClosed /\ KindOfStep => DisplacedIsClosed'
<1> SUFFICES ASSUME TypeOK, RegistrySound, DisplacedIsClosed, KindOfStep,
                    NEW d \in Conns, Running(d)', ~Registered(d)'
             PROVE  (d \in evicting \/ ~connected[d] \/ d \in lost)'
  BY DEF DisplacedIsClosed
<1> USE RequestsAssumption, NoConnAssumption DEF TypeOK, Registered, HolderOf
<1>0. /\ \A c \in Conns : req[c].inst \in Instances /\ req[c].id \in ClientIDs
      /\ (Running(d) /\ ~Registered(d)) => (d \in evicting \/ ~connected[d] \/ d \in lost)
  BY DEF DisplacedIsClosed
<1>1. CASE \E c \in Conns : AddStep(c)
  <2>1. PICK c \in Conns : AddStep(c)
    BY <1>1
  <2>2. /\ Insert(c) /\ req' = req /\ lost' = lost
        /\ \A e \in Conns \ {c} : phase'[e] = phase[e] /\ connected'[e] = connected[e]
        /\ evicting \subseteq evicting'
        /\ HolderOf(c) # NoConn => HolderOf(c) \in evicting'
    BY <2>1 DEF AddStep, AddFresh, AddEvicting, Insert, Goes
  <2>3. clients'[req[d].inst][req[d].id]
          = IF req[d].inst = req[c].inst /\ req[d].id = req[c].id THEN c ELSE HolderOf(d)
    BY <1>0, <2>2, InsertEffect
  <2>4. d # c
    BY <2>2, <2>3
  <2>5. Running(d)
    BY <2>2, <2>4 DEF Running
  <2>6. CASE Registered(d)
    BY <2>2, <2>3, <2>4, <2>6
  <2>7. CASE ~Registered(d)
    BY <1>0, <2>2, <2>4, <2>5, <2>7
  <2>8. QED BY <2>6, <2>7
<1>2. CASE \E c \in Conns : ReadPumpExits(c)
  <2>1. PICK c \in Conns : ReadPumpExits(c)
    BY <1>2
  <2>2. /\ d # c /\ Running(d)
        /\ UNCHANGED <<req, evicting, connected, lost>>
    BY <2>1 DEF ReadPumpExits, Goes, Running
  <2>3. ~Registered(d)
    <3>1. CASE Registered(c)
      <4>1. Deregister(req[c].inst, req[c].id) /\ clients[req[c].inst][req[c].id] = c
        BY <2>1, <3>1 DEF ReadPumpExits
      <4>2. clients'[req[d].inst][req[d].id]
              = IF req[d].inst = req[c].inst /\ req[d].id = req[c].id THEN NoConn ELSE HolderOf(d)
        BY <1>0, <4>1, DeregisterEffect
      <4>3. QED BY <2>2, <4>1, <4>2
    <3>2. CASE ~Registered(c)
      BY <2>1, <2>2, <3>2 DEF ReadPumpExits
    <3>3. QED BY <3>1, <3>2
  <2>4. QED BY <1>0, <2>2, <2>3
<1>3. CASE \E n \in Instances, id \in ClientIDs : TakesOut(n, id)
  <2>1. PICK n \in Instances, id \in ClientIDs : TakesOut(n, id)
    BY <1>3
  <2>2. /\ Running(d)
        /\ UNCHANGED <<req, evicting, connected>>
        /\ lost' = lost \cup {c \in Conns : clients[n][id] = c /\ connected[c]}
    BY <2>1 DEF TakesOut, TakeOut, Running
  <2>3. CASE ~Registered(d)
    BY <1>0, <2>2, <2>3
  <2>4. CASE Registered(d)
    <3>1. clients[n][id] = d
      <4>1. clients[n][id] \in Conns /\ Deregister(n, id)
        BY <2>1, <2>2, <2>4 DEF TakesOut, TakeOut
      <4>2. clients'[req[d].inst][req[d].id]
              = IF req[d].inst = n /\ req[d].id = id THEN NoConn ELSE HolderOf(d)
        BY <1>0, <4>1, DeregisterEffect
      <4>3. QED BY <2>2, <2>4, <4>2
    <3>2. QED BY <2>2, <3>1
  <2>5. QED BY <2>3, <2>4
<1>4. CASE QuietStep
  BY <1>0, <1>4 DEF QuietStep
<1>5. QED BY <1>1, <1>2, <1>3, <1>4 DEF KindOfStep

\* A connection that lost its registration while it runs is being closed, unless
\* a removal by client ID took it out alive.
THEOREM DisplacedAreClosed == Spec => []DisplacedIsClosed
<1>1. Init => DisplacedIsClosed
  BY DEF Init, DisplacedIsClosed, Running
<1>2. TypeOK /\ RegistrySound /\ DisplacedIsClosed /\ [Next]_vars => DisplacedIsClosed'
  BY KindsOfStep, DisplacedStay
<1>3. QED BY <1>1, <1>2, TypeCorrect, RegistryIsSound, PTL DEF Spec

\* A registration is lost to its own read pump, to a reconnect from the same host
\* or to a removal by client ID that was called for its ID (by the cleanup loop,
\* EndSession, an administrator or the reconciliation), never to the late cleanup of
\* an evicted connection.
THEOREM RegistrationsEndByOwnerOrName == Spec => RegistrationEndsByOwnerOrName
<1> DEFINE ByOwner(n, id) ==
      (clients[n][id] # NoConn /\ clients'[n][id] # clients[n][id]) =>
          \/ phase[clients[n][id]] = "reading" /\ socket[clients[n][id]] = "closed"
          \/ clients'[n][id] # NoConn /\ req[clients'[n][id]].host = req[clients[n][id]].host
          \/ id \in cleanup[n].todo \cup ending[n].todo
<1>1. TypeOK /\ RegistrySound /\ [Next]_vars
        => [\A n \in Instances : \A id \in ClientIDs : ByOwner(n, id)]_vars
  <2> SUFFICES ASSUME TypeOK, RegistrySound, [Next]_vars,
                      NEW n \in Instances, NEW id \in ClientIDs
               PROVE  ByOwner(n, id)
    OBVIOUS
  <2> USE RequestsAssumption, NoConnAssumption DEF TypeOK, HolderOf, Registered
  <2>0. \A c \in Conns : req[c].inst \in Instances /\ req[c].id \in ClientIDs
    OBVIOUS
  <2>1. CASE \E c \in Conns : AddStep(c)
    <3>1. PICK c \in Conns : AddStep(c)
      BY <2>1
    <3>2. /\ Insert(c)
          /\ HolderOf(c) # NoConn => req[HolderOf(c)].host = req[c].host
      BY <3>1 DEF AddStep, AddFresh, AddEvicting
    <3>3. clients'[n][id] = IF n = req[c].inst /\ id = req[c].id THEN c ELSE clients[n][id]
      BY <3>2, InsertEffect
    <3>4. QED BY <3>2, <3>3
  <2>2. CASE \E c \in Conns : ReadPumpExits(c)
    <3>1. PICK c \in Conns : ReadPumpExits(c)
      BY <2>2
    <3>2. CASE Registered(c)
      <4>1. Deregister(req[c].inst, req[c].id) /\ clients[req[c].inst][req[c].id] = c
        BY <3>1, <3>2 DEF ReadPumpExits
      <4>2. clients'[n][id] = IF n = req[c].inst /\ id = req[c].id THEN NoConn ELSE clients[n][id]
        BY <2>0, <4>1, DeregisterEffect
      <4>3. QED BY <3>1, <4>1, <4>2 DEF ReadPumpExits
    <3>3. CASE ~Registered(c)
      BY <3>1, <3>3 DEF ReadPumpExits
    <3>4. QED BY <3>2, <3>3
  <2>3. CASE \E m \in Instances, x \in ClientIDs : RemoveClient(m, x) \/ RemoveEnded(m, x)
    <3>1. PICK m \in Instances, x \in ClientIDs : RemoveClient(m, x) \/ RemoveEnded(m, x)
      BY <2>3
    <3>2. x \in cleanup[m].todo \cup ending[m].todo
      BY <3>1 DEF RemoveClient, RemoveEnded
    <3>3. UNCHANGED clients \/ (clients[m][x] \in Conns /\ Deregister(m, x))
      BY <3>1 DEF RemoveClient, RemoveEnded, TakeOut
    <3>4. QED BY <3>2, <3>3, DeregisterEffect
  <2>4. CASE QuietStep
    BY <2>4 DEF QuietStep
  <2>5. QED BY <2>1, <2>2, <2>3, <2>4, StepKinds
<1>2. QED BY <1>1, TypeCorrect, RegistryIsSound, PTL DEF Spec, RegistrationEndsByOwnerOrName

----------------------------------------------------------------------------
(* The groups hold nothing else.                                           *)

\* All connections that present this client ID use one key.
OneKey(id) == \A c, d \in Conns : (req[c].id = id /\ req[d].id = id) => req[c].key = req[d].key

InItsGroupOnly(n, id) ==
    OneKey(id) => \A k \in APIKeys :
        id \in tokenGroups[n][k] => clients[n][id] # NoConn /\ req[clients[n][id]].key = k

\* A group names no client that is away or of another key, if a client ID does not
\* change its key: the eviction, which deletes from the group of the new key, and
\* both removals clean up what the registration had entered.
THEOREM GroupsAreSound == Spec => []GroupsSound
<1>1. Init => GroupsSound
  BY DEF Init, GroupsSound
<1>2. TypeOK /\ RegistrySound /\ GroupsSound /\ [Next]_vars => GroupsSound'
  <2> SUFFICES ASSUME TypeOK, RegistrySound, GroupsSound, [Next]_vars,
                      NEW n \in Instances, NEW id \in ClientIDs
               PROVE  InItsGroupOnly(n, id)'
    BY DEF GroupsSound, InItsGroupOnly, OneKey
  <2> USE RequestsAssumption, NoConnAssumption
  <2>0. InItsGroupOnly(n, id)
    BY DEF GroupsSound, InItsGroupOnly, OneKey
  <2>1. \A c \in Conns : req[c].inst \in Instances /\ req[c].id \in ClientIDs /\ req[c].key \in APIKeys
    BY DEF TypeOK
  <2>2. clients[n][id] # NoConn => clients[n][id] \in Conns /\ req[clients[n][id]].id = id
    BY DEF TypeOK, RegistrySound, SlotSound
  <2>3. CASE \E c \in Conns : AddStep(c)
    <3>1. PICK c \in Conns : Insert(c) /\ req' = req
      BY <2>3 DEF AddStep, AddFresh, AddEvicting, Insert
    <3>2. clients'[n][id] = IF n = req[c].inst /\ id = req[c].id THEN c ELSE clients[n][id]
      BY <3>1, InsertEffect
    <3>3. \A k \in APIKeys :
            id \in tokenGroups'[n][k] <=>
                \/ id \in tokenGroups[n][k]
                \/ n = req[c].inst /\ k = req[c].key /\ id = req[c].id
      BY <3>1, InsertEffect
    <3>4. c # NoConn
      OBVIOUS
    <3>5. SUFFICES ASSUME OneKey(id), NEW k \in APIKeys, id \in tokenGroups'[n][k]
                   PROVE  clients'[n][id] # NoConn /\ req[clients'[n][id]].key = k
      BY <3>1 DEF InItsGroupOnly, OneKey
    <3>6. CASE n = req[c].inst /\ id = req[c].id
      <4>1. clients'[n][id] = c
        BY <3>2, <3>6
      <4>2. CASE id \in tokenGroups[n][k]
        <5>1. clients[n][id] # NoConn /\ req[clients[n][id]].key = k
          BY <2>0, <3>5, <4>2 DEF InItsGroupOnly
        <5>2. req[clients[n][id]].key = req[c].key
          BY <2>2, <3>5, <3>6, <5>1 DEF OneKey
        <5>3. QED BY <3>4, <4>1, <5>1, <5>2
      <4>3. CASE id \notin tokenGroups[n][k]
        BY <3>3, <3>4, <3>5, <4>1, <4>3
      <4>4. QED BY <4>2, <4>3
    <3>7. CASE ~(n = req[c].inst /\ id = req[c].id)
      BY <2>0, <3>2, <3>3, <3>5, <3>7 DEF InItsGroupOnly
    <3>8. QED BY <3>6, <3>7
  <2>4. CASE \/ \E c \in Conns : ReadPumpExits(c)
             \/ \E m \in Instances, x \in ClientIDs : TakesOut(m, x)
    <3>1. CASE UNCHANGED <<clients, tokenGroups, req>>
      BY <2>0, <3>1 DEF InItsGroupOnly, OneKey
    <3>2. CASE req' = req /\ \E m \in Instances, x \in ClientIDs : clients[m][x] \in Conns /\ Deregister(m, x)
      <4>1. PICK m \in Instances, x \in ClientIDs : clients[m][x] \in Conns /\ Deregister(m, x)
        BY <3>2
      <4>2. clients'[n][id] = IF n = m /\ id = x THEN NoConn ELSE clients[n][id]
        BY <4>1, DeregisterEffect
      <4>3. \A k \in APIKeys :
              id \in tokenGroups'[n][k] <=>
                  /\ id \in tokenGroups[n][k]
                  /\ ~(n = m /\ k = req[clients[m][x]].key /\ id = x)
        BY <4>1, DeregisterEffect
      <4>4. QED BY <2>0, <3>2, <4>2, <4>3 DEF InItsGroupOnly, OneKey
    <3>3. QED BY <2>4, <3>1, <3>2, RemovalMaps
  <2>5. CASE QuietStep
    BY <2>0, <2>5 DEF QuietStep, InItsGroupOnly, OneKey
  <2>6. QED BY <2>3, <2>4, <2>5, KindsOfStep DEF KindOfStep
<1>3. QED BY <1>1, <1>2, TypeCorrect, RegistryIsSound, PTL DEF Spec

\* The two maps of a registry, which every addition and removal writes separately,
\* always say the same.
THEOREM GroupsMatch == Spec => []GroupsMatchClients
<1>1. GroupsComplete /\ GroupsSound => GroupsMatchClients
  BY DEF GroupsMatchClients
<1>2. QED BY <1>1, GroupsAreComplete, GroupsAreSound, PTL

----------------------------------------------------------------------------
(* The recorded token, which a second lookup by ID may write to a stranger. *)

Early(c) == phase[c] \in {"registered", "counted"}

\* A step that registers nobody, removes nobody and records no token.
KeepsRecords ==
    /\ UNCHANGED <<req, clients, tokenID>>
    /\ \A c \in Conns : (Accepted(c)' <=> Accepted(c)) /\ (Early(c) => Early(c)')

\* What a step does to the recorded tokens.
RecordStep ==
    \/ \E c \in Conns : AddStep(c)
    \/ \E c \in Conns : ReadPumpExits(c)
    \/ \E n \in Instances, id \in ClientIDs : TakesOut(n, id)
    \/ \E c \in Conns : SetClientConnectionTokenID(c)
    \/ KeepsRecords

LEMMA StepRecords == ASSUME TypeOK, [Next]_vars PROVE RecordStep
<1> USE DEF TypeOK, Early, KeepsRecords
<1>1. ASSUME NEW c \in Conns, Authenticate(c) \/ AddRejected(c) \/ FinishAdd(c) \/ FinishRemove(c)
      PROVE  /\ UNCHANGED <<req, clients, tokenID>>
             /\ \A d \in Conns : (Accepted(d)' <=> Accepted(d)) /\ (Early(d) => Early(d)')
  BY <1>1 DEF Authenticate, AddRejected, FinishAdd, FinishRemove, Goes, Accepted, Phases
<1>2. ASSUME NEW c \in Conns,
             \/ SocketFails(c) \/ WritePumpExits(c)
             \/ DisconnectWithReason(c) \/ CloseClient(c)
      PROVE  UNCHANGED <<req, clients, tokenID, phase>>
  BY <1>2 DEF SocketFails, WritePumpExits, DisconnectWithReason, CloseClient
<1>3. ASSUME NEW n \in Instances,
             \/ \E t \in TokenIDs : DisconnectLocalByToken(n, t)
             \/ \E id \in ClientIDs : DisconnectLocalByClientID(n, id)
             \/ \E k \in APIKeys : DisconnectLocalByAPIKey(n, k)
             \/ CleanupScan(n) \/ FinishRemoveClient(n)
             \/ \E id \in ClientIDs : EndSession(n, id)
             \/ \E c \in Conns : ForceDisconnect(c)
             \/ FinishRemoveEnded(n)
      PROVE  UNCHANGED <<req, clients, tokenID, phase>>
  BY <1>3 DEF DisconnectLocalByToken, DisconnectLocalByClientID, DisconnectLocalByAPIKey,
              Collect, CleanupScan, FinishRemoveClient, EndSession, ForceDisconnect, FinishRemoveEnded
<1>4. UNCHANGED <<req, clients, tokenID, phase>> =>
          /\ UNCHANGED <<req, clients, tokenID>>
          /\ \A c \in Conns : (Accepted(c)' <=> Accepted(c)) /\ (Early(c) => Early(c)')
  BY DEF Accepted
<1>5. CASE UNCHANGED vars
  BY <1>4, <1>5 DEF vars, RecordStep
<1>6. ASSUME NEW n \in Instances, NEW id \in ClientIDs, RemoveClient(n, id) \/ RemoveEnded(n, id)
      PROVE  TakesOut(n, id)
  BY <1>6 DEF RemoveClient, RemoveEnded, TakesOut
<1>7. QED
  BY <1>1, <1>2, <1>3, <1>4, <1>5, <1>6
     DEF RecordStep, Next, ConnStep, InstanceStep, CleanupStep, EndingStep, AddStep

\* d, which is no longer registered, recorded its token on c.
RecordedBy(d, c) ==
    /\ req[d].inst = req[c].inst /\ req[d].id = req[c].id
    /\ tokenID[c] = req[d].tok
    /\ Accepted(d) /\ ~Registered(d)

TokenTraced(c) ==
    /\ ~Accepted(c) => tokenID[c] = NoToken
    /\ Registered(c) =>
          \/ tokenID[c] = req[c].tok
          \/ tokenID[c] = NoToken /\ Early(c)
          \/ \E d \in Conns \ {c} : RecordedBy(d, c)

TokensTraced == \A c \in Conns : TokenTraced(c)

\* A trace is not lost when a step registers or removes somebody, if it records no
\* token: who is not registered does not come back.
LEMMA TracesLast ==
  ASSUME TypeOK, TokensTraced, UNCHANGED <<req, tokenID>>,
         \A c \in Conns : Accepted(c) => Accepted(c)',
         \A c \in Conns : (Accepted(c) /\ ~Registered(c)) => ~Registered(c)',
         NEW c \in Conns, Accepted(c)' => Accepted(c), Registered(c)' => Registered(c),
         (Registered(c)' /\ Early(c)) => Early(c)'
  PROVE  TokenTraced(c)'
<1>1. TokenTraced(c)
  BY DEF TokensTraced
<1>2. \A d \in Conns : RecordedBy(d, c) => RecordedBy(d, c)'
  BY DEF RecordedBy
<1>3. QED BY <1>1, <1>2 DEF TokenTraced

\* Only the handler of a connection with the same client ID records a token on another.
LEMMA TracesStay == TypeOK /\ RegistrySound /\ TokensTraced /\ RecordStep => TokensTraced'
<1> SUFFICES ASSUME TypeOK, RegistrySound, TokensTraced, RecordStep, NEW c \in Conns
             PROVE  TokenTraced(c)'
  BY DEF TokensTraced
<1>0. \A d \in Conns : d # NoConn /\ req[d].inst \in Instances /\ req[d].id \in ClientIDs
  BY RequestsAssumption, NoConnAssumption DEF TypeOK
<1>1. TokenTraced(c)
  BY DEF TokensTraced
<1>2. CASE \E e \in Conns : AddStep(e)
  <2>1. PICK e \in Conns : AddStep(e)
    BY <1>2
  <2>2. /\ Insert(e) /\ phase[e] = "validated" /\ UNCHANGED <<req, tokenID>>
        /\ phase' = [phase EXCEPT ![e] = "registered"]
    BY <2>1 DEF AddStep, AddFresh, AddEvicting, Insert, Goes
  <2>3. \A d \in Conns : Registered(d)' => d = e \/ Registered(d)
    BY <1>0, <2>2, InsertEffect DEF Registered, HolderOf
  <2>4. \A d \in Conns : /\ d # e => phase'[d] = phase[d]
                         /\ Accepted(d) => Accepted(d)' /\ d # e
    BY <2>2 DEF Accepted, TypeOK
  <2>5. CASE c = e
    BY <1>1, <2>2, <2>5 DEF TokenTraced, Accepted, Early, TypeOK
  <2>6. CASE c # e
    <3>1. (Accepted(c)' => Accepted(c)) /\ (Early(c) => Early(c)')
      BY <2>4, <2>6 DEF Accepted, Early
    <3>2. QED BY <2>2, <2>3, <2>4, <2>6, <3>1, TracesLast
  <2>7. QED BY <2>5, <2>6
<1>3. CASE \/ \E e \in Conns : ReadPumpExits(e)
           \/ \E m \in Instances, x \in ClientIDs : TakesOut(m, x)
  <2>1. UNCHANGED <<req, tokenID>>
    BY <1>3 DEF ReadPumpExits, TakesOut
  <2>2. \A d \in Conns : /\ Registered(d)' => Registered(d)
                         /\ (Registered(d)' /\ Early(d)) => Early(d)'
                         /\ Accepted(d)' <=> Accepted(d)
    <3>1. \A d \in Conns : Registered(d)' => Registered(d)
      <4>1. CASE UNCHANGED clients
        BY <2>1, <4>1 DEF Registered, HolderOf
      <4>2. CASE \E m \in Instances, x \in ClientIDs : clients[m][x] \in Conns /\ Deregister(m, x)
        BY <1>0, <2>1, <4>2, DeregisterEffect DEF Registered, HolderOf
      <4>3. QED BY <1>3, <4>1, <4>2, RemovalMaps
    <3>2. \A d \in Conns : (Early(d) => Early(d)') /\ (Accepted(d)' <=> Accepted(d))
      BY <1>3 DEF ReadPumpExits, TakesOut, Goes, Early, Accepted, TypeOK
    <3>3. QED BY <3>1, <3>2
  <2>3. QED BY <2>1, <2>2, TracesLast
<1>4. CASE \E e \in Conns : SetClientConnectionTokenID(e)
  <2>1. PICK e \in Conns : SetClientConnectionTokenID(e)
    BY <1>4
  <2>2. /\ phase[e] = "counted" /\ UNCHANGED <<req, clients>>
        /\ phase' = [phase EXCEPT ![e] = "reading"]
        /\ tokenID' = IF HolderOf(e) = NoConn THEN tokenID
                      ELSE [tokenID EXCEPT ![HolderOf(e)] = req[e].tok]
    BY <2>1 DEF SetClientConnectionTokenID, Goes
  <2>3. \A d \in Conns : /\ Registered(d)' <=> Registered(d)
                         /\ Accepted(d)' <=> Accepted(d)
                         /\ d # e => (Early(d)' <=> Early(d))
    BY <2>2 DEF Registered, HolderOf, Accepted, Early, TypeOK
  <2>4. CASE HolderOf(e) # c
    <3>1. tokenID'[c] = tokenID[c]
      BY <2>2, <2>4 DEF TypeOK
    <3>2. Registered(c) => c # e
      BY <2>4 DEF Registered
    <3>3. \A d \in Conns : RecordedBy(d, c) => RecordedBy(d, c)'
      BY <2>2, <2>3, <3>1 DEF RecordedBy
    <3>4. QED BY <1>1, <2>2, <2>3, <3>1, <3>2, <3>3 DEF TokenTraced
  <2>5. CASE HolderOf(e) = c
    <3>1. tokenID'[c] = req[e].tok
      BY <1>0, <2>2, <2>5 DEF TypeOK
    <3>2. req[c].inst = req[e].inst /\ req[c].id = req[e].id /\ Running(c)
      BY <1>0, <2>5 DEF RegistrySound, SlotSound, HolderOf
    <3>3. Accepted(c)'
      BY <2>3, <3>2 DEF Running, Accepted
    <3>4. CASE c = e
      BY <2>2, <3>1, <3>3, <3>4 DEF TokenTraced
    <3>5. CASE c # e
      <4>1. Accepted(e)' /\ ~Registered(e)'
        BY <2>2, <2>3, <2>5, <3>5 DEF Accepted, Registered
      <4>2. RecordedBy(e, c)'
        BY <2>2, <3>1, <3>2, <4>1 DEF RecordedBy
      <4>3. QED BY <3>3, <3>5, <4>2 DEF TokenTraced
    <3>6. QED BY <3>4, <3>5
  <2>6. QED BY <2>4, <2>5
<1>5. CASE KeepsRecords
  <2>1. \A d \in Conns : Registered(d)' <=> Registered(d)
    BY <1>5 DEF KeepsRecords, Registered, HolderOf
  <2>2. QED BY <1>5, <2>1, TracesLast DEF KeepsRecords
<1>6. QED BY <1>2, <1>3, <1>4, <1>5 DEF RecordStep

\* The token by which a revocation finds a registered connection is its own, or it
\* is that of a connection of the same client ID which was displaced before it
\* could record it.
THEOREM TokensAreTraced == Spec => []TokenIDTraced
<1>1. Init => TokensTraced
  BY RequestsAssumption, NoConnAssumption
     DEF Init, TokensTraced, TokenTraced, Registered, HolderOf, Accepted
<1>2. TypeOK /\ RegistrySound /\ TokensTraced /\ [Next]_vars => TokensTraced'
  BY StepRecords, TracesStay
<1>3. TokensTraced => TokenIDTraced
  BY DEF TokensTraced, TokenTraced, TokenIDTraced, RecordedBy, Early
<1>4. QED BY <1>1, <1>2, <1>3, TypeCorrect, RegistryIsSound, PTL DEF Spec

----------------------------------------------------------------------------
(* The gauge.  Connections need not be finite in number: those that count   *)
(* at one time are.                                                         *)

At(n, ph) == {c \in Conns : req[c].inst = n /\ phase[c] = ph}
Owed(removal) == IF removal.fin = NoConn THEN 0 ELSE 1
Leaving(n) == Owed(cleanup[n]) + Owed(ending[n])

CountsAreFinite(n) ==
    IsFiniteSet(RegisteredAt(n)) /\ IsFiniteSet(At(n, "registered")) /\ IsFiniteSet(At(n, "removing"))
GaugeSound(n) ==
    /\ CountsAreFinite(n)
    /\ gauge[n] + Cardinality(At(n, "registered"))
         = Cardinality(RegisteredAt(n)) + Cardinality(At(n, "removing")) + Leaving(n)

LEMMA OneMore ==
  ASSUME NEW S, IsFiniteSet(S), NEW x, x \notin S, NEW T, T = S \cup {x}
  PROVE  IsFiniteSet(T) /\ Cardinality(S) \in Nat /\ Cardinality(T) = Cardinality(S) + 1
<1>1. IsFiniteSet(T) /\ (Cardinality(T) = Cardinality(S) \/ Cardinality(T) = Cardinality(S) + 1)
  BY FS_AddElement, Zenon
<1>2. Cardinality(T) = Cardinality(S) + 1
  BY FS_AddElement, Zenon
<1>3. QED BY <1>1, <1>2, FS_CardinalityType

LEMMA OneLess ==
  ASSUME NEW S, IsFiniteSet(S), NEW x \in S, NEW T, T = S \ {x}
  PROVE  IsFiniteSet(T) /\ Cardinality(T) \in Nat /\ Cardinality(S) = Cardinality(T) + 1
<1>1. IsFiniteSet(T)
  BY FS_Subset
<1>2. S = T \cup {x} /\ x \notin T
  OBVIOUS
<1>3. QED BY <1>1, <1>2, OneMore, Zenon

\* What a step does to the counts of an instance.
Unmoved(n) ==
    /\ RegisteredAt(n)' = RegisteredAt(n) /\ At(n, "registered")' = At(n, "registered")
    /\ At(n, "removing")' = At(n, "removing")
    /\ gauge'[n] = gauge[n] /\ Leaving(n)' = Leaving(n)
Joins(n, c) ==
    /\ c \notin RegisteredAt(n) /\ c \notin At(n, "registered")
    /\ At(n, "registered")' = At(n, "registered") \cup {c}
    /\ At(n, "removing")' = At(n, "removing") /\ Leaving(n)' = Leaving(n)
    /\ \/ RegisteredAt(n)' = RegisteredAt(n) \cup {c} /\ gauge'[n] = gauge[n]
       \/ \E h \in RegisteredAt(n) : /\ RegisteredAt(n)' = (RegisteredAt(n) \ {h}) \cup {c}
                                     /\ gauge'[n] = gauge[n] - 1
Counted(n, c) ==
    /\ c \in At(n, "registered") /\ At(n, "registered")' = At(n, "registered") \ {c}
    /\ RegisteredAt(n)' = RegisteredAt(n) /\ At(n, "removing")' = At(n, "removing")
    /\ gauge'[n] = gauge[n] + 1 /\ Leaving(n)' = Leaving(n)
Quits(n, c) ==
    /\ c \in RegisteredAt(n) /\ RegisteredAt(n)' = RegisteredAt(n) \ {c}
    /\ At(n, "registered")' = At(n, "registered") /\ gauge'[n] = gauge[n]
    /\ \/ /\ c \notin At(n, "removing") /\ At(n, "removing")' = At(n, "removing") \cup {c}
          /\ Leaving(n)' = Leaving(n)
       \/ At(n, "removing")' = At(n, "removing") /\ Leaving(n)' = Leaving(n) + 1
Discounted(n) ==
    /\ RegisteredAt(n)' = RegisteredAt(n) /\ At(n, "registered")' = At(n, "registered")
    /\ gauge'[n] = gauge[n] - 1
    /\ \/ \E c \in At(n, "removing") : /\ At(n, "removing")' = At(n, "removing") \ {c}
                                       /\ Leaving(n)' = Leaving(n)
       \/ At(n, "removing")' = At(n, "removing") /\ Leaving(n)' = Leaving(n) - 1

GaugeMoves(n) ==
    \/ Unmoved(n) \/ Discounted(n)
    \/ \E c \in Conns : Joins(n, c) \/ Counted(n, c) \/ Quits(n, c)

LEMMA LeavingIsNatural == ASSUME NEW n PROVE Leaving(n) \in 0 .. 2 /\ Leaving(n)' \in 0 .. 2
BY DEF Leaving, Owed

\* Every move keeps the balance.
LEMMA MovesBalance ==
  ASSUME NEW n \in Instances, TypeOK, TypeOK', GaugeSound(n), GaugeMoves(n)
  PROVE  GaugeSound(n)'
<1> DEFINE R == RegisteredAt(n)
           P == At(n, "registered")
           M == At(n, "removing")
<1>0. /\ gauge[n] \in Int /\ gauge'[n] \in Int
      /\ Cardinality(R) \in Nat /\ Cardinality(P) \in Nat /\ Cardinality(M) \in Nat
      /\ IsFiniteSet(R) /\ IsFiniteSet(P) /\ IsFiniteSet(M)
      /\ gauge[n] + Cardinality(P) = Cardinality(R) + Cardinality(M) + Leaving(n)
  BY FS_CardinalityType DEF TypeOK, GaugeSound, CountsAreFinite
<1>1. CASE Unmoved(n)
  BY <1>0, <1>1 DEF Unmoved, GaugeSound, CountsAreFinite
<1>2. ASSUME NEW c \in Conns, Joins(n, c) PROVE GaugeSound(n)'
  <2>1. IsFiniteSet(P') /\ Cardinality(P') = Cardinality(P) + 1
    BY <1>0, <1>2, OneMore, Zenon DEF Joins
  <2>2. \/ IsFiniteSet(R') /\ Cardinality(R') = Cardinality(R) + 1 /\ gauge'[n] = gauge[n]
        \/ IsFiniteSet(R') /\ Cardinality(R') = Cardinality(R) /\ gauge'[n] = gauge[n] - 1
    <3>1. CASE R' = R \cup {c} /\ gauge'[n] = gauge[n]
      BY <1>0, <1>2, <3>1, OneMore, Zenon DEF Joins
    <3>2. ASSUME NEW h \in R, R' = (R \ {h}) \cup {c}, gauge'[n] = gauge[n] - 1
          PROVE  IsFiniteSet(R') /\ Cardinality(R') = Cardinality(R)
      <4>1. IsFiniteSet(R \ {h}) /\ Cardinality(R) = Cardinality(R \ {h}) + 1
        BY <1>0, <3>2, OneLess, Zenon
      <4>2. c \notin R \ {h}
        BY <1>2 DEF Joins
      <4>3. IsFiniteSet(R') /\ Cardinality(R') = Cardinality(R \ {h}) + 1
        BY <3>2, <4>1, <4>2, OneMore, Zenon
      <4>4. QED BY <4>1, <4>3
    <3>3. QED BY <1>2, <3>1, <3>2 DEF Joins
  <2>3. M' = M /\ Leaving(n)' = Leaving(n)
    BY <1>2 DEF Joins
  <2>4. QED BY <1>0, <2>1, <2>2, <2>3, LeavingIsNatural DEF GaugeSound, CountsAreFinite
<1>3. ASSUME NEW c \in Conns, Counted(n, c) PROVE GaugeSound(n)'
  <2>0. c \in P /\ P' = P \ {c}
    BY <1>3 DEF Counted
  <2>1. IsFiniteSet(P') /\ Cardinality(P') \in Nat /\ Cardinality(P) = Cardinality(P') + 1
    <3> HIDE DEF P
    <3>1. QED BY <1>0, <2>0, OneLess, Zenon
  <2>2. QED BY <1>0, <1>3, <2>1, LeavingIsNatural DEF GaugeSound, CountsAreFinite, Counted
<1>4. ASSUME NEW c \in Conns, Quits(n, c) PROVE GaugeSound(n)'
  <2>0. c \in R /\ R' = R \ {c}
    BY <1>4 DEF Quits
  <2>1. IsFiniteSet(R') /\ Cardinality(R') \in Nat /\ Cardinality(R) = Cardinality(R') + 1
    <3> HIDE DEF R
    <3>1. QED BY <1>0, <2>0, OneLess, Zenon
  <2>2. \/ /\ IsFiniteSet(M') /\ Cardinality(M') = Cardinality(M) + 1 /\ Leaving(n)' = Leaving(n)
        \/ M' = M /\ Leaving(n)' = Leaving(n) + 1
    BY <1>0, <1>4, OneMore, Zenon DEF Quits
  <2>3. QED BY <1>0, <1>4, <2>1, <2>2, LeavingIsNatural DEF GaugeSound, CountsAreFinite, Quits
<1>5. CASE Discounted(n)
  <2>1. \/ /\ IsFiniteSet(M') /\ Cardinality(M') \in Nat /\ Cardinality(M) = Cardinality(M') + 1
           /\ Leaving(n)' = Leaving(n)
        \/ M' = M /\ Leaving(n)' = Leaving(n) - 1
    <3>1. ASSUME NEW c \in M, M' = M \ {c}
          PROVE  IsFiniteSet(M') /\ Cardinality(M') \in Nat /\ Cardinality(M) = Cardinality(M') + 1
      <4> HIDE DEF M
      <4>1. QED BY <1>0, <3>1, OneLess, Zenon
    <3>2. QED BY <1>5, <3>1 DEF Discounted
  <2>2. QED BY <1>0, <1>5, <2>1, LeavingIsNatural DEF GaugeSound, CountsAreFinite, Discounted
<1>6. QED BY <1>1, <1>2, <1>3, <1>4, <1>5 DEF GaugeMoves

\* Every step is a move of every instance's counts.
LEMMA InsertMoves ==
  ASSUME TypeOK, RegistrySound, NEW c \in Conns, AddStep(c), NEW n \in Instances
  PROVE  GaugeMoves(n)
<1>1. Insert(c) /\ phase[c] = "validated" /\ req' = req /\ UNCHANGED <<cleanup, ending>>
      /\ phase' = [phase EXCEPT ![c] = "registered"]
  BY DEF AddStep, AddFresh, AddEvicting, Insert, Goes
<1>2. \A m \in Instances, id \in ClientIDs :
        clients'[m][id] = IF m = req[c].inst /\ id = req[c].id THEN c ELSE clients[m][id]
  BY <1>1, InsertEffect
<1>3. req[c].inst \in Instances /\ req[c].id \in ClientIDs
  BY RequestsAssumption DEF TypeOK
<1>4. \A m \in Instances : c \notin RegisteredAt(m)
  <2> SUFFICES ASSUME NEW m \in Instances, NEW id \in ClientIDs, clients[m][id] = c PROVE FALSE
    BY DEF RegisteredAt
  <2>1. SlotSound(m, id) /\ c # NoConn
    BY NoConnAssumption DEF RegistrySound
  <2>2. QED BY <1>1, <2>1 DEF SlotSound, Running
<1>5. At(n, "removing")' = At(n, "removing") /\ Leaving(n)' = Leaving(n)
  BY <1>1 DEF At, Leaving, Owed, TypeOK
<1>6. CASE n # req[c].inst
  <2>1. RegisteredAt(n)' = RegisteredAt(n)
    BY <1>2, <1>6 DEF RegisteredAt
  <2>2. At(n, "registered")' = At(n, "registered")
    BY <1>1, <1>6 DEF At, TypeOK
  <2>3. gauge'[n] = gauge[n]
    BY <1>3, <1>6 DEF AddStep, AddFresh, AddEvicting, TypeOK
  <2>4. QED BY <1>5, <2>1, <2>2, <2>3 DEF GaugeMoves, Unmoved
<1>7. CASE n = req[c].inst
  <2>1. At(n, "registered")' = At(n, "registered") \cup {c} /\ c \notin At(n, "registered")
    BY <1>1, <1>7 DEF At, TypeOK
  <2>2. CASE AddFresh(c)
    <3>1. RegisteredAt(n)' = RegisteredAt(n) \cup {c}
      <4>1. clients[n][req[c].id] = NoConn
        BY <1>7, <2>2 DEF AddFresh, HolderOf
      <4>2. \A d \in Conns : (\E id \in ClientIDs : clients'[n][id] = d) <=>
                                d = c \/ \E id \in ClientIDs : clients[n][id] = d
        BY <1>2, <1>3, <1>7, <4>1, NoConnAssumption
      <4>3. QED BY <4>2 DEF RegisteredAt
    <3>2. gauge'[n] = gauge[n]
      BY <2>2 DEF AddFresh
    <3>3. QED BY <1>4, <1>5, <2>1, <3>1, <3>2 DEF GaugeMoves, Joins
  <2>3. CASE AddEvicting(c)
    <3> DEFINE h == clients[n][req[c].id]
    <3>1. h \in Conns /\ h \in RegisteredAt(n)
      <4>1. h # NoConn
        BY <1>7, <2>3 DEF AddEvicting, HolderOf
      <4>2. h \in Conns \cup {NoConn}
        BY <1>3 DEF TypeOK
      <4>3. QED BY <1>3, <4>1, <4>2 DEF RegisteredAt
    <3>2. \A id \in ClientIDs : clients[n][id] = h => id = req[c].id
      BY <1>3, <3>1, NoConnAssumption DEF RegistrySound, SlotSound
    <3>3. RegisteredAt(n)' = (RegisteredAt(n) \ {h}) \cup {c}
      <4>1. \A d \in Conns : (\E id \in ClientIDs : clients'[n][id] = d) <=>
                                d = c \/ (d # h /\ \E id \in ClientIDs : clients[n][id] = d)
        BY <1>2, <1>3, <1>7, <3>1, <3>2
      <4>2. QED BY <4>1 DEF RegisteredAt
    <3>4. gauge'[n] = gauge[n] - 1
      BY <1>3, <1>7, <2>3 DEF AddEvicting, TypeOK
    <3>5. QED BY <1>4, <1>5, <2>1, <3>1, <3>3, <3>4 DEF GaugeMoves, Joins
  <2>4. QED BY <2>2, <2>3 DEF AddStep
<1>8. QED BY <1>6, <1>7

\* A removal takes out one connection.
LEMMA DeregisterTakesOne ==
  ASSUME TypeOK, RegistrySound, NEW m \in Instances, NEW id \in ClientIDs, clients[m][id] \in Conns,
         Deregister(m, id), NEW n \in Instances
  PROVE  /\ n # m => RegisteredAt(n)' = RegisteredAt(n)
         /\ clients[m][id] \in RegisteredAt(m)
         /\ n = m => RegisteredAt(n)' = RegisteredAt(n) \ {clients[m][id]}
<1>1. \A l \in Instances, x \in ClientIDs :
        clients'[l][x] = IF l = m /\ x = id THEN NoConn ELSE clients[l][x]
  BY DeregisterEffect
<1>2. \A x \in ClientIDs : clients[m][x] = clients[m][id] => x = id
  BY NoConnAssumption DEF RegistrySound, SlotSound
<1>3. QED BY <1>1, <1>2, NoConnAssumption DEF RegisteredAt

LEMMA QuitMoves ==
  ASSUME TypeOK, RegistrySound, NEW c \in Conns, ReadPumpExits(c), NEW n \in Instances
  PROVE  GaugeMoves(n)
<1> USE RequestsAssumption, NoConnAssumption DEF TypeOK
<1>1. /\ phase[c] = "reading" /\ req' = req /\ gauge' = gauge /\ Leaving(n)' = Leaving(n)
      /\ At(n, "registered")' = At(n, "registered")
  BY DEF ReadPumpExits, Goes, Leaving, Owed, At
<1>2. req[c].inst \in Instances /\ req[c].id \in ClientIDs
  OBVIOUS
<1>3. CASE Registered(c)
  <2>1. /\ Deregister(req[c].inst, req[c].id) /\ clients[req[c].inst][req[c].id] = c
        /\ phase' = [phase EXCEPT ![c] = "removing"]
    BY <1>3 DEF ReadPumpExits, Registered, HolderOf, Goes
  <2>2. CASE n = req[c].inst
    <3>1. c \in RegisteredAt(n) /\ RegisteredAt(n)' = RegisteredAt(n) \ {c}
      BY <1>2, <2>1, <2>2, DeregisterTakesOne
    <3>2. c \notin At(n, "removing") /\ At(n, "removing")' = At(n, "removing") \cup {c}
      BY <1>1, <2>1, <2>2 DEF At
    <3>3. QED BY <1>1, <3>1, <3>2 DEF GaugeMoves, Quits
  <2>3. CASE n # req[c].inst
    <3>1. RegisteredAt(n)' = RegisteredAt(n)
      BY <1>2, <2>1, <2>3, DeregisterTakesOne
    <3>2. At(n, "removing")' = At(n, "removing")
      BY <1>1, <2>1, <2>3 DEF At
    <3>3. QED BY <1>1, <3>1, <3>2 DEF GaugeMoves, Unmoved
  <2>4. QED BY <2>2, <2>3
<1>4. CASE ~Registered(c)
  <2>1. clients' = clients /\ phase' = [phase EXCEPT ![c] = "gone"]
    BY <1>4 DEF ReadPumpExits, Goes
  <2>2. RegisteredAt(n)' = RegisteredAt(n) /\ At(n, "removing")' = At(n, "removing")
    BY <1>1, <2>1 DEF RegisteredAt, At
  <2>3. QED BY <1>1, <2>2 DEF GaugeMoves, Unmoved
<1>5. QED BY <1>3, <1>4

\* RemoveClient, whoever calls it: the critical section, and the decrement after it.
LEMMA RemovalMoves ==
  ASSUME TypeOK, RegistrySound, NEW m \in Instances, NEW id \in ClientIDs, NEW n \in Instances,
         TakeOut(m, id), UNCHANGED <<req, phase, gauge>>,
         Leaving(n)' = Leaving(n) + (IF n = m /\ clients[m][id] # NoConn THEN 1 ELSE 0)
  PROVE  GaugeMoves(n)
<1> USE NoConnAssumption DEF TypeOK
<1>1. At(n, "registered")' = At(n, "registered") /\ At(n, "removing")' = At(n, "removing")
  BY DEF At
<1>2. CASE clients[m][id] = NoConn
  <2>1. clients' = clients
    BY <1>2 DEF TakeOut
  <2>2. Leaving(n)' = Leaving(n)
    <3>1. Leaving(n) \in 0 .. 2 /\ Leaving(n)' = Leaving(n) + 0
      BY <1>2, LeavingIsNatural
    <3>2. QED BY <3>1
  <2>3. QED BY <1>1, <2>1, <2>2 DEF GaugeMoves, Unmoved, RegisteredAt
<1>3. CASE clients[m][id] # NoConn
  <2>1. Deregister(m, id) /\ clients[m][id] \in Conns
    BY <1>3 DEF TakeOut
  <2>2. CASE n = m
    <3>1. /\ clients[m][id] \in RegisteredAt(n)
          /\ RegisteredAt(n)' = RegisteredAt(n) \ {clients[m][id]}
      BY <2>1, <2>2, DeregisterTakesOne
    <3>2. QED BY <1>1, <1>3, <2>1, <2>2, <3>1 DEF GaugeMoves, Quits
  <2>3. CASE n # m
    <3>1. RegisteredAt(n)' = RegisteredAt(n)
      BY <2>1, <2>3, DeregisterTakesOne
    <3>2. Leaving(n)' = Leaving(n)
      <4>1. Leaving(n) \in 0 .. 2 /\ Leaving(n)' = Leaving(n) + 0
        BY <2>3, LeavingIsNatural
      <4>2. QED BY <4>1
    <3>3. QED BY <1>1, <3>1, <3>2 DEF GaugeMoves, Unmoved
  <2>4. QED BY <2>2, <2>3
<1>4. QED BY <1>2, <1>3

LEMMA DecrementMoves ==
  ASSUME TypeOK, NEW m \in Instances, NEW n \in Instances,
         UNCHANGED <<req, phase, clients>>, gauge' = [gauge EXCEPT ![m] = @ - 1],
         Leaving(n)' = Leaving(n) - (IF n = m THEN 1 ELSE 0)
  PROVE  GaugeMoves(n)
<1>1. At(n, "registered")' = At(n, "registered") /\ At(n, "removing")' = At(n, "removing")
  BY DEF At
<1>2. RegisteredAt(n)' = RegisteredAt(n)
  BY DEF RegisteredAt
<1>3. CASE n = m
  <2>1. gauge'[n] = gauge[n] - 1
    BY <1>3 DEF TypeOK
  <2>2. QED BY <1>1, <1>2, <1>3, <2>1 DEF GaugeMoves, Discounted
<1>4. CASE n # m
  <2>1. gauge'[n] = gauge[n] /\ Leaving(n)' = Leaving(n)
    <3>1. Leaving(n) \in 0 .. 2 /\ Leaving(n)' = Leaving(n) - 0
      BY <1>4, LeavingIsNatural
    <3>2. QED BY <1>4, <3>1 DEF TypeOK
  <2>2. QED BY <1>1, <1>2, <2>1 DEF GaugeMoves, Unmoved
<1>5. QED BY <1>3, <1>4

LEMMA CleanupMoves ==
  ASSUME TypeOK, RegistrySound, NEW m \in Instances, NEW n \in Instances, CleanupStep(m)
  PROVE  GaugeMoves(n)
<1> USE NoConnAssumption DEF TypeOK
<1>1. ASSUME NEW id \in ClientIDs, RemoveClient(m, id) PROVE GaugeMoves(n)
  <2>1. /\ cleanup[m].fin = NoConn /\ UNCHANGED <<req, phase, gauge, ending>> /\ TakeOut(m, id)
        /\ cleanup' = [cleanup EXCEPT ![m] = [todo |-> cleanup[m].todo \ {id}, fin |-> clients[m][id]]]
    BY <1>1 DEF RemoveClient
  <2>2. Leaving(n)' = Leaving(n) + (IF n = m /\ clients[m][id] # NoConn THEN 1 ELSE 0)
    BY <2>1 DEF Leaving, Owed
  <2>3. QED BY <2>1, <2>2, RemovalMoves
<1>2. ASSUME FinishRemoveClient(m) PROVE GaugeMoves(n)
  <2>1. /\ cleanup[m].fin # NoConn /\ UNCHANGED <<req, phase, clients, ending>>
        /\ cleanup' = [cleanup EXCEPT ![m].fin = NoConn] /\ gauge' = [gauge EXCEPT ![m] = @ - 1]
    BY <1>2 DEF FinishRemoveClient
  <2>2. Leaving(n)' = Leaving(n) - (IF n = m THEN 1 ELSE 0)
    BY <2>1 DEF Leaving, Owed
  <2>3. QED BY <2>1, <2>2, DecrementMoves
<1>3. ASSUME CleanupScan(m) PROVE GaugeMoves(n)
  <2>1. cleanup'[n].fin = cleanup[n].fin /\ UNCHANGED <<req, phase, clients, gauge, ending>>
    BY <1>3 DEF CleanupScan
  <2>2. QED BY <2>1 DEF GaugeMoves, Unmoved, RegisteredAt, At, Leaving, Owed
<1>4. QED BY <1>1, <1>2, <1>3 DEF CleanupStep

LEMMA EndingMoves ==
  ASSUME TypeOK, RegistrySound, NEW m \in Instances, NEW n \in Instances, EndingStep(m)
  PROVE  GaugeMoves(n)
<1> USE NoConnAssumption DEF TypeOK
<1>1. ASSUME NEW id \in ClientIDs, RemoveEnded(m, id) PROVE GaugeMoves(n)
  <2>1. /\ ending[m].fin = NoConn /\ UNCHANGED <<req, phase, gauge, cleanup>> /\ TakeOut(m, id)
        /\ ending' = [ending EXCEPT ![m] = [todo |-> {}, fin |-> clients[m][id]]]
    BY <1>1 DEF RemoveEnded
  <2>2. Leaving(n)' = Leaving(n) + (IF n = m /\ clients[m][id] # NoConn THEN 1 ELSE 0)
    BY <2>1 DEF Leaving, Owed
  <2>3. QED BY <2>1, <2>2, RemovalMoves
<1>2. ASSUME FinishRemoveEnded(m) PROVE GaugeMoves(n)
  <2>1. /\ ending[m].fin # NoConn /\ UNCHANGED <<req, phase, clients, cleanup>>
        /\ ending' = [ending EXCEPT ![m].fin = NoConn] /\ gauge' = [gauge EXCEPT ![m] = @ - 1]
    BY <1>2 DEF FinishRemoveEnded
  <2>2. Leaving(n)' = Leaving(n) - (IF n = m THEN 1 ELSE 0)
    BY <2>1 DEF Leaving, Owed
  <2>3. QED BY <2>1, <2>2, DecrementMoves
<1>3. ASSUME (\E id \in ClientIDs : EndSession(m, id)) \/ \E c \in Conns : ForceDisconnect(c)
      PROVE  GaugeMoves(n)
  <2>1. UNCHANGED <<req, phase, clients, gauge, cleanup>>
    BY <1>3 DEF EndSession, ForceDisconnect
  <2>2. ending'[n].fin = ending[n].fin
    <3>1. \E i, S : ending' = [ending EXCEPT ![i].todo = S]
      BY <1>3 DEF EndSession, ForceDisconnect
    <3>2. QED BY <3>1
  <2>3. QED BY <2>1, <2>2 DEF GaugeMoves, Unmoved, RegisteredAt, At, Leaving, Owed
<1>4. QED BY <1>1, <1>2, <1>3 DEF EndingStep

LEMMA FinishMoves ==
  ASSUME TypeOK, NEW c \in Conns, FinishAdd(c) \/ FinishRemove(c), NEW n \in Instances
  PROVE  GaugeMoves(n)
<1> USE RequestsAssumption DEF TypeOK
<1>1. /\ RegisteredAt(n)' = RegisteredAt(n) /\ Leaving(n)' = Leaving(n) /\ req' = req
      /\ req[c].inst \in Instances
  BY DEF FinishAdd, FinishRemove, RegisteredAt, Leaving, Owed
<1>2. CASE FinishAdd(c)
  <2>1. /\ phase[c] = "registered" /\ phase' = [phase EXCEPT ![c] = "counted"]
        /\ gauge' = [gauge EXCEPT ![req[c].inst] = @ + 1]
    BY <1>2 DEF FinishAdd, Goes
  <2>2. At(n, "removing")' = At(n, "removing")
    BY <1>1, <2>1 DEF At
  <2>3. CASE n = req[c].inst
    <3>1. c \in At(n, "registered") /\ At(n, "registered")' = At(n, "registered") \ {c}
      BY <1>1, <2>1, <2>3 DEF At
    <3>2. QED BY <1>1, <2>1, <2>2, <2>3, <3>1 DEF GaugeMoves, Counted
  <2>4. CASE n # req[c].inst
    <3>1. At(n, "registered")' = At(n, "registered") /\ gauge'[n] = gauge[n]
      BY <1>1, <2>1, <2>4 DEF At
    <3>2. QED BY <1>1, <2>2, <3>1 DEF GaugeMoves, Unmoved
  <2>5. QED BY <2>3, <2>4
<1>3. CASE FinishRemove(c)
  <2>1. /\ phase[c] = "removing" /\ phase' = [phase EXCEPT ![c] = "gone"]
        /\ gauge' = [gauge EXCEPT ![req[c].inst] = @ - 1]
    BY <1>3 DEF FinishRemove, Goes
  <2>2. At(n, "registered")' = At(n, "registered")
    BY <1>1, <2>1 DEF At
  <2>3. CASE n = req[c].inst
    <3>1. c \in At(n, "removing") /\ At(n, "removing")' = At(n, "removing") \ {c}
      BY <1>1, <2>1, <2>3 DEF At
    <3>2. QED BY <1>1, <2>1, <2>2, <2>3, <3>1 DEF GaugeMoves, Discounted
  <2>4. CASE n # req[c].inst
    <3>1. At(n, "removing")' = At(n, "removing") /\ gauge'[n] = gauge[n]
      BY <1>1, <2>1, <2>4 DEF At
    <3>2. QED BY <1>1, <2>2, <3>1 DEF GaugeMoves, Unmoved
  <2>5. QED BY <2>3, <2>4
<1>4. QED BY <1>2, <1>3

LEMMA OtherMoves ==
  ASSUME TypeOK, UNCHANGED <<req, clients, gauge, cleanup, ending>>, NEW n \in Instances,
         \A c \in Conns : /\ phase'[c] = "registered" <=> phase[c] = "registered"
                          /\ phase'[c] = "removing" <=> phase[c] = "removing"
  PROVE  GaugeMoves(n)
<1>1. RegisteredAt(n)' = RegisteredAt(n) /\ Leaving(n)' = Leaving(n)
  BY DEF RegisteredAt, Leaving, Owed
<1>2. At(n, "registered")' = At(n, "registered") /\ At(n, "removing")' = At(n, "removing")
  BY DEF At
<1>3. QED BY <1>1, <1>2 DEF GaugeMoves, Unmoved

LEMMA StepMoves ==
  ASSUME TypeOK, RegistrySound, [Next]_vars, NEW n \in Instances PROVE GaugeMoves(n)
<1>1. ASSUME NEW c \in Conns, AddStep(c) \/ ReadPumpExits(c) \/ FinishAdd(c) \/ FinishRemove(c)
      PROVE  GaugeMoves(n)
  BY <1>1, InsertMoves, QuitMoves, FinishMoves
<1>2. ASSUME NEW m \in Instances, CleanupStep(m) PROVE GaugeMoves(n)
  BY <1>2, CleanupMoves
<1>3. ASSUME NEW c \in Conns, Authenticate(c) \/ AddRejected(c) \/ SetClientConnectionTokenID(c)
      PROVE  GaugeMoves(n)
  BY <1>3, OtherMoves DEF TypeOK, Authenticate, AddRejected, SetClientConnectionTokenID, Goes
<1>4. ASSUME NEW c \in Conns,
             SocketFails(c) \/ DisconnectWithReason(c) \/ WritePumpExits(c) \/ CloseClient(c)
      PROVE  GaugeMoves(n)
  BY <1>4, OtherMoves DEF SocketFails, DisconnectWithReason, WritePumpExits, CloseClient
<1>5. ASSUME NEW m \in Instances,
             \/ \E t \in TokenIDs : DisconnectLocalByToken(m, t)
             \/ \E id \in ClientIDs : DisconnectLocalByClientID(m, id)
             \/ \E k \in APIKeys : DisconnectLocalByAPIKey(m, k)
      PROVE  GaugeMoves(n)
  BY <1>5, OtherMoves DEF DisconnectLocalByToken, DisconnectLocalByClientID,
       DisconnectLocalByAPIKey, Collect
<1>6. CASE UNCHANGED vars
  BY <1>6, OtherMoves DEF vars
<1>7. ASSUME NEW m \in Instances, EndingStep(m) PROVE GaugeMoves(n)
  BY <1>7, EndingMoves
<1>8. QED
  BY <1>1, <1>2, <1>3, <1>4, <1>5, <1>6, <1>7 DEF Next, ConnStep, InstanceStep, AddStep

\* GaugeAccounts: the gauge of open connections is the number of registered
\* clients, short of those AddClient has not counted yet and ahead by the
\* removals that are not finished, in whatever order the increments and the
\* decrements run outside the lock: nothing is counted twice or for ever.
THEOREM GaugeIsRight == Spec => []GaugeAccounts
<1> DEFINE Inv == \A n \in Instances : GaugeSound(n)
<1>1. Init => Inv
  <2> SUFFICES ASSUME Init, NEW n \in Instances PROVE GaugeSound(n)
    OBVIOUS
  <2>1. RegisteredAt(n) = {} /\ At(n, "registered") = {} /\ At(n, "removing") = {}
    BY NoConnAssumption DEF Init, RegisteredAt, At
  <2>2. gauge[n] = 0 /\ Leaving(n) = 0
    BY DEF Init, Leaving, Owed, Idle
  <2>3. QED BY <2>1, <2>2, FS_EmptySet DEF GaugeSound, CountsAreFinite
<1>2. TypeOK /\ TypeOK' /\ RegistrySound /\ Inv /\ [Next]_vars => Inv'
  BY StepMoves, MovesBalance
<1>3. Inv => GaugeAccounts
  <2> SUFFICES ASSUME Inv, NEW n \in Instances
               PROVE  gauge[n] + Cardinality(At(n, "registered"))
                        = Cardinality(RegisteredAt(n)) + Cardinality(At(n, "removing"))
                            + Owed(cleanup[n]) + Owed(ending[n])
    BY DEF GaugeAccounts, At, Owed
  <2>1. GaugeSound(n)
    OBVIOUS
  <2>2. Cardinality(RegisteredAt(n)) \in Nat /\ Cardinality(At(n, "removing")) \in Nat
    BY <2>1, FS_CardinalityType DEF GaugeSound, CountsAreFinite
  <2>3. QED BY <2>1, <2>2 DEF GaugeSound, Leaving, Owed
<1> HIDE DEF Inv
<1>4. QED BY <1>1, <1>2, <1>3, TypeCorrect, RegistryIsSound, PTL DEF Spec

----------------------------------------------------------------------------
(* Revocation, on top of the registries: its own steps close connections    *)
(* and take out client IDs, and write nothing else of a registry.           *)

\* A step of the disconnect channel or of the reconciliation, as the registries
\* see it.
Marks ==
    /\ closing' \subseteq Conns
    /\ UNCHANGED <<req, phase, socket, connected, tokenID, clients, tokenGroups,
                   gauge, evicting, cleanup, ending, lost>>
Cuts(c) ==
    /\ connected' = [connected EXCEPT ![c] = FALSE]
    /\ socket' = [socket EXCEPT ![c] = "closed"]
    /\ UNCHANGED <<req, phase, tokenID, clients, tokenGroups, gauge, evicting,
                   closing, cleanup, ending, lost>>
Uncounts(n) ==
    /\ gauge' = [gauge EXCEPT ![n] = @ - 1]
    /\ UNCHANGED <<req, phase, socket, connected, tokenID, clients, tokenGroups,
                   evicting, closing, cleanup, ending, lost>>
Drops(n, id) ==
    /\ TakeOut(n, id)
    /\ UNCHANGED <<req, phase, socket, connected, tokenID, gauge, evicting, closing, cleanup, ending>>

\* Every step of Revocation is one of the registry, or one of these four.
LEMMA RevocationKinds ==
  ASSUME TypeOK, [RNext]_allvars
  PROVE  \/ [Next]_vars
         \/ Marks
         \/ \E c \in Conns : Cuts(c)
         \/ \E n \in Instances : Uncounts(n)
         \/ \E n \in Instances, id \in ClientIDs : Drops(n, id)
<1>1. CASE RegistryStep
  BY <1>1 DEF RegistryStep, Next, InstanceStep
<1>2. ASSUME NEW n, NEW m, DisconnectLocal(n, m)
      PROVE  Marks
  BY <1>2 DEF DisconnectLocal, Selected, RegisteredAt, Marks, TypeOK
<1>3. CASE RevocationStep
  <2>1. ASSUME NEW n \in Instances, NEW t \in TokenIDs, RevokeToken(n, t) \/ SelfUnpair(n, t)
        PROVE  Marks \/ UNCHANGED vars
    BY <1>2, <2>1 DEF RevokeToken, SelfUnpair, Broadcast
  <2>2. ASSUME NEW n \in Instances, NEW id \in ClientIDs, DeleteKnownClient(n, id)
        PROVE  Marks
    BY <1>2, <2>2 DEF DeleteKnownClient, Broadcast
  <2>3. ASSUME NEW n \in Instances, NEW k \in APIKeys, RegenerateKey(n, k)
        PROVE  UNCHANGED vars
    BY <2>3 DEF RegenerateKey
  <2>4. ASSUME NEW h \in halves, SecondHalf(h)
        PROVE  Marks \/ UNCHANGED vars
    BY <1>2, <2>4 DEF SecondHalf, Broadcast
  <2>5. QED BY <1>3, <2>1, <2>2, <2>3, <2>4 DEF RevocationStep
<1>4. ASSUME NEW n \in Instances, ReconcileStep(n)
      PROVE  \/ UNCHANGED vars
             \/ \E c \in Conns : Cuts(c)
             \/ Uncounts(n)
             \/ \E id \in ClientIDs : Drops(n, id)
  <2>1. CASE SnapshotLocalClients(n) \/ \E c \in Conns : ReconcileSkips(n, c)
    BY <2>1 DEF SnapshotLocalClients, ReconcileSkips
  <2>2. CASE ReconcileFinishes(n)
    BY <2>2 DEF ReconcileFinishes, Uncounts
  <2>3. ASSUME NEW c \in Conns, ReconcileDisconnects(n, c)
        PROVE  Cuts(c)
    BY <2>3 DEF ReconcileDisconnects, Cuts
  <2>4. ASSUME NEW id \in ClientIDs, ReconcileRemoves(n, id)
        PROVE  Drops(n, id)
    BY <2>4 DEF ReconcileRemoves, Drops
  <2>5. QED BY <1>4, <2>1, <2>2, <2>3, <2>4 DEF ReconcileStep
<1>5. ASSUME NEW n \in Instances, NEW m, HandleDisconnectCommand(n, m)
      PROVE  Marks
  BY <1>2, <1>5 DEF HandleDisconnectCommand
<1>6. CASE UNCHANGED allvars
  BY <1>6 DEF allvars
<1>7. QED BY <1>1, <1>3, <1>4, <1>5, <1>6 DEF RNext

\* They keep the types.
LEMMA RevocationTypes == TypeOK /\ [RNext]_allvars => TypeOK'
<1> SUFFICES ASSUME TypeOK, [RNext]_allvars
             PROVE  TypeOK'
  OBVIOUS
<1>1. CASE Marks
  BY <1>1 DEF Marks, TypeOK
<1>2. ASSUME NEW c \in Conns, Cuts(c) PROVE TypeOK'
  BY <1>2 DEF Cuts, TypeOK
<1>3. ASSUME NEW n \in Instances, Uncounts(n) PROVE TypeOK'
  <2>1. gauge' \in [Instances -> Int]
    BY <1>3 DEF Uncounts, TypeOK
  <2>2. QED BY <1>3, <2>1 DEF Uncounts, TypeOK
<1>4. ASSUME NEW n \in Instances, NEW id \in ClientIDs, Drops(n, id) PROVE TypeOK'
  <2>1. /\ clients' \in [Instances -> [ClientIDs -> Conns \cup {NoConn}]]
        /\ tokenGroups' \in [Instances -> [APIKeys -> SUBSET ClientIDs]]
        /\ lost' \subseteq Conns
    <3>1. TakeOut(n, id) /\ UNCHANGED req
      BY <1>4 DEF Drops
    <3>2. lost' \subseteq Conns
      BY <3>1 DEF TakeOut, TypeOK
    <3>3. CASE UNCHANGED <<clients, tokenGroups>>
      BY <3>2, <3>3 DEF TypeOK
    <3>4. CASE clients[n][id] # NoConn /\ Deregister(n, id)
      <4>1. req[clients[n][id]].key \in APIKeys
        BY <3>4, RequestsAssumption DEF TypeOK
      <4>2. clients' \in [Instances -> [ClientIDs -> Conns \cup {NoConn}]]
        BY <3>4 DEF Deregister, TypeOK
      <4>3. tokenGroups' \in [Instances -> [APIKeys -> SUBSET ClientIDs]]
        BY <3>4, <4>1 DEF Deregister, TypeOK
      <4>4. QED BY <3>2, <4>2, <4>3
    <3>5. QED BY <3>1, <3>3, <3>4 DEF TakeOut
  <2>2. QED BY <1>4, <2>1 DEF Drops, TypeOK
<1>5. QED BY <1>1, <1>2, <1>3, <1>4, RevocationKinds, TypeStays

\* So what a revocation does to a registry is a step of the kinds that the
\* invariants of a registry were proved for.
LEMMA RevocationIsOfAKind == TypeOK /\ [RNext]_allvars => KindOfStep /\ RecordStep
<1> SUFFICES ASSUME TypeOK, [RNext]_allvars
             PROVE  KindOfStep /\ RecordStep
  OBVIOUS
<1>1. CASE [Next]_vars
  BY <1>1, KindsOfStep, StepRecords
<1>2. CASE Marks \/ \E n \in Instances : Uncounts(n)
  <2>1. UNCHANGED <<req, phase, connected, tokenID, clients, tokenGroups, evicting, lost>>
    BY <1>2 DEF Marks, Uncounts
  <2>2. QuietStep
    BY <2>1 DEF QuietStep, Running
  <2>3. KeepsRecords
    BY <2>1 DEF KeepsRecords, Accepted, Early
  <2>4. QED BY <2>2, <2>3 DEF KindOfStep, RecordStep
<1>3. CASE \E c \in Conns : Cuts(c)
  <2>1. PICK c \in Conns : Cuts(c)
    BY <1>3
  <2>2. UNCHANGED <<req, phase, tokenID, clients, tokenGroups, evicting, lost>>
    BY <2>1 DEF Cuts
  <2>3. \A d \in Conns : ~connected[d] => ~connected'[d]
    BY <2>1 DEF Cuts, TypeOK
  <2>4. QuietStep
    BY <2>2, <2>3 DEF QuietStep, Running
  <2>5. KeepsRecords
    BY <2>2 DEF KeepsRecords, Accepted, Early
  <2>6. QED BY <2>4, <2>5 DEF KindOfStep, RecordStep
<1>4. CASE \E n \in Instances, id \in ClientIDs : Drops(n, id)
  BY <1>4 DEF Drops, TakesOut, KindOfStep, RecordStep
<1>5. QED BY <1>1, <1>2, <1>3, <1>4, RevocationKinds

\* Nobody is closing c, and no removal by client ID took it out alive.
Stands(c) == Running(c) /\ connected[c] /\ c \notin evicting \cup lost

\* Every disconnect command that comes to the instance of a standing connection
\* selects it: by its client ID, by the key it was opened with and, once its pumps
\* run, by its own token, under which the reconciliation condemns it too when the
\* token is revoked.  Or a connection of the same client ID that was displaced has
\* recorded its token on it.
RevocationReaches ==
    \A c \in Conns : Stands(c) =>
        /\ c \in RegisteredAt(req[c].inst)
        /\ c \in Selected(req[c].inst, ByClient(req[c].id))
        /\ c \in Selected(req[c].inst, ByKey(req[c].key))
        /\ \/ Early(c)
           \/ c \in Selected(req[c].inst, ByToken(req[c].tok)) /\ (Revoked(c) => Condemned(c))
           \/ \E d \in Conns \ {c} : RecordedBy(d, c)

\* An open connection that nobody is closing never gets out of the reach of the
\* revocation handlers and of reconcileConnections, whatever they, the evictions
\* and the cleanup do to the registry in between.
THEOREM StandingAreReached == RSpec => []RevocationReaches
<1> DEFINE Inv == TypeOK /\ RegistrySound /\ GroupsComplete /\ DisplacedIsClosed /\ TokensTraced
<1>1. RInit => Inv
  <2>1. Init => TypeOK
    BY RequestsAssumption DEF Init, TypeOK, Phases, Idle
  <2>2. Init => RegistrySound /\ GroupsComplete
    BY DEF Init, RegistrySound, SlotSound, GroupsComplete
  <2>3. Init => DisplacedIsClosed
    BY DEF Init, DisplacedIsClosed, Running
  <2>4. Init => TokensTraced
    BY RequestsAssumption, NoConnAssumption
       DEF Init, TokensTraced, TokenTraced, Registered, HolderOf, Accepted
  <2>5. QED BY <2>1, <2>2, <2>3, <2>4 DEF RInit
<1>2. Inv /\ [RNext]_allvars => Inv'
  BY RevocationTypes, RevocationIsOfAKind, RegistryStays, GroupsStay, DisplacedStay, TracesStay
<1>3. Inv => RevocationReaches
  <2> SUFFICES ASSUME Inv, NEW c \in Conns, Stands(c)
               PROVE  /\ c \in RegisteredAt(req[c].inst)
                      /\ c \in Selected(req[c].inst, ByClient(req[c].id))
                      /\ c \in Selected(req[c].inst, ByKey(req[c].key))
                      /\ \/ Early(c)
                         \/ /\ c \in Selected(req[c].inst, ByToken(req[c].tok))
                            /\ Revoked(c) => Condemned(c)
                         \/ \E d \in Conns \ {c} : RecordedBy(d, c)
    BY DEF RevocationReaches
  <2>1. /\ req[c].inst \in Instances /\ req[c].id \in ClientIDs
        /\ req[c].key \in APIKeys /\ req[c].tok \in TokenIDs
    BY RequestsAssumption DEF TypeOK
  <2>2. Registered(c) /\ clients[req[c].inst][req[c].id] = c
    BY DEF DisplacedIsClosed, Stands, Registered, HolderOf
  <2>3. c \in RegisteredAt(req[c].inst)
    BY <2>1, <2>2 DEF RegisteredAt
  <2>4. c \in Selected(req[c].inst, ByClient(req[c].id))
    BY <2>2, <2>3 DEF Selected, ByClient
  <2>5. req[c].id \in tokenGroups[req[c].inst][req[c].key]
    BY <2>1, <2>2, NoConnAssumption DEF GroupsComplete
  <2>6. c \in Selected(req[c].inst, ByKey(req[c].key))
    BY <2>2, <2>3, <2>5 DEF Selected, ByKey
  <2>7. CASE tokenID[c] = req[c].tok
    <3>1. c \in Selected(req[c].inst, ByToken(req[c].tok))
      BY <2>3, <2>7 DEF Selected, ByToken
    <3>2. Revoked(c) => Condemned(c)
      BY <2>1, <2>7, NoTokenAssumption DEF Revoked, Condemned
    <3>3. QED BY <2>3, <2>4, <2>6, <3>1, <3>2
  <2>8. CASE Early(c) \/ \E d \in Conns \ {c} : RecordedBy(d, c)
    BY <2>3, <2>4, <2>6, <2>8
  <2>9. QED BY <2>2, <2>7, <2>8 DEF TokensTraced, TokenTraced
<1> HIDE DEF Inv
<1>4. QED BY <1>1, <1>2, <1>3, PTL DEF RSpec
=============================================================================
