---------------------------- MODULE CallerProofs ----------------------------
(***************************************************************************)
(* Theorems about what the callers of the relay wait for: the answers to   *)
(* their requests (PendingRequests, for any callers of the three kinds,    *)
(* any capacity of the semaphore and any bound of the clock) and the       *)
(* events they subscribe to (Subscriptions, for any streams, sockets,      *)
(* channels, filters, limit, loads and bounds).                            *)
(***************************************************************************)
EXTENDS PendingRequests, Subscriptions, FiniteSetTheorems, SequenceTheorems, TLAPS

----------------------------------------------------------------------------
(* PendingRequests: the semaphore.                                         *)

\* The goroutines of the WebSocket client that hold a slot.
Waiting == {c \in WSCallers : pc[c] = "waiting"}

\* The semaphore counts them, so its release never finds it at zero.
SlotsCounted ==
    /\ \A c \in Callers : pc[c] = "sent" => c \in WSCallers
    /\ IsFiniteSet(Waiting)
    /\ semaphore = Cardinality(Waiting)

\* A step in which nobody takes or gives back a slot.
LEMMA SlotsKept ==
    ASSUME SlotsCounted, Waiting' = Waiting, semaphore' = semaphore,
           \A c \in Callers : pc'[c] = "sent" => c \in WSCallers
    PROVE  SlotsCounted'
BY DEF SlotsCounted

\* A call that ends without having waited holds no slot; one that waited gives its
\* own back, if it is of the WebSocket client.
LEMMA EndsEffect ==
    ASSUME TypeOK, SlotsCounted, NEW c \in Callers, NEW o,
           o \in Responses \cup Verdicts, Ends(c, o),
           \/ pc[c] # "waiting" /\ semaphore' = semaphore
           \/ pc[c] = "waiting" /\ Release(c)
    PROVE  /\ pc' \in [Callers -> {"new", "stored", "sent", "waiting", "done"}]
           /\ outcome' \in [Callers -> Responses \cup Verdicts \cup {None}]
           /\ semaphore' \in 0 .. Slots
           /\ SlotsCounted'
<1> USE BoundsAssumption
<1>1. /\ pc' = [pc EXCEPT ![c] = "done"]
      /\ outcome' = [outcome EXCEPT ![c] = o]
  BY DEF Ends
<1>2. /\ pc' \in [Callers -> {"new", "stored", "sent", "waiting", "done"}]
      /\ outcome' \in [Callers -> Responses \cup Verdicts \cup {None}]
      /\ \A d \in Callers : pc'[d] = "sent" => d \in WSCallers
  BY <1>1 DEF TypeOK, SlotsCounted
<1>3. CASE c \in Waiting
  <2>1. Waiting' = Waiting \ {c}
    BY <1>1, <1>3 DEF Waiting, TypeOK, Callers
  <2>2. semaphore' = semaphore - 1
    BY <1>3 DEF Waiting, Release
  <2>3. IsFiniteSet(Waiting \ {c}) /\ Cardinality(Waiting \ {c}) = Cardinality(Waiting) - 1
    BY <1>3, FS_RemoveElement DEF SlotsCounted
  <2>4. Cardinality(Waiting \ {c}) \in Nat
    BY <2>3, FS_CardinalityType
  <2>5. semaphore' \in 0 .. Slots
    BY <2>2, <2>3, <2>4 DEF SlotsCounted, TypeOK
  <2>6. QED BY <1>2, <2>1, <2>2, <2>3, <2>5 DEF SlotsCounted
<1>4. CASE c \notin Waiting
  <2>1. Waiting' = Waiting
    BY <1>1, <1>4 DEF Waiting, TypeOK, Callers
  <2>2. semaphore' = semaphore
    BY <1>4 DEF Waiting, Release
  <2>3. QED BY <1>2, <2>1, <2>2, SlotsKept DEF TypeOK
<1>5. QED BY <1>3, <1>4

\* Every variable has its type in every reachable state, and the semaphore counts
\* the goroutines that wait: no path out of the wait keeps a slot.
THEOREM TypeAndSlots == Spec => [](TypeOK /\ SlotsCounted)
<1>1. Init => TypeOK /\ SlotsCounted
  <2> SUFFICES ASSUME Init PROVE TypeOK /\ SlotsCounted
    OBVIOUS
  <2>1. 0 \in 0 .. MaxClock /\ 0 \in 0 .. Slots
    BY BoundsAssumption
  <2>2. reply \in [Callers -> [at : {"unasked", "asked", "loaded", "taken", "over"},
                              to : Callers \cup {None}]]
    BY DEF Init
  <2>3. TypeOK
    BY <2>1, <2>2 DEF Init, TypeOK
  <2>4. Waiting = {}
    BY DEF Init, Waiting, Callers
  <2>5. QED BY <2>3, <2>4, FS_EmptySet DEF SlotsCounted, Init
<1>2. TypeOK /\ SlotsCounted /\ [Next]_vars => (TypeOK /\ SlotsCounted)'
  <2> SUFFICES ASSUME TypeOK, SlotsCounted, [Next]_vars
               PROVE  TypeOK' /\ SlotsCounted'
    OBVIOUS
  <2> USE BoundsAssumption
  <2>0. \A c \in Callers, t \in 0 .. MaxClock : IdAt(c, t) \in Ids
    BY DEF IdAt, Ids
  <2>1. \A w \in {"offline", "failed", "busy", "timeout", "cancelled"} :
            Told(w) \in Responses \cup Verdicts
    BY DEF Verdicts
  <2>2. \A i : Delete(i) => requests' \in [Ids -> Callers \cup {None}]
    BY DEF Delete, TypeOK
  <2>3. \A c, r : r \in Responses /\ Offer(c, r) => ch' \in [Callers -> Responses \cup {None}]
    BY DEF Offer, TypeOK
  <2>4. ASSUME NEW c \in Callers, Offline(c) PROVE TypeOK' /\ SlotsCounted'
    BY <2>1, <2>4, EndsEffect DEF Offline, TypeOK
  <2>5. ASSUME NEW c \in Callers, Store(c) PROVE TypeOK' /\ SlotsCounted'
    <3>1. TypeOK'
      BY <2>0, <2>5 DEF Store, TypeOK
    <3>2. Waiting' = Waiting
      BY <2>5 DEF Store, Waiting, TypeOK, Callers
    <3>3. \A d \in Callers : pc'[d] = "sent" => d \in WSCallers
      BY <2>5 DEF Store, SlotsCounted, TypeOK
    <3>4. QED BY <2>5, <3>1, <3>2, <3>3, SlotsKept DEF Store
  <2>6. ASSUME NEW c \in Callers, Send(c) PROVE TypeOK' /\ SlotsCounted'
    <3>1. TypeOK'
      BY <2>6 DEF Send, TypeOK
    <3>2. Waiting' = Waiting
      BY <2>6 DEF Send, Waiting, TypeOK, Callers
    <3>3. \A d \in Callers : pc'[d] = "sent" => d \in WSCallers
      BY <2>6 DEF Send, SlotsCounted, TypeOK
    <3>4. QED BY <2>6, <3>1, <3>2, <3>3, SlotsKept DEF Send
  <2>7. ASSUME NEW c \in Callers, SendFails(c) PROVE TypeOK' /\ SlotsCounted'
    BY <2>1, <2>2, <2>7, EndsEffect DEF SendFails, TypeOK
  <2>8. ASSUME NEW c \in Callers, Acquire(c) PROVE TypeOK' /\ SlotsCounted'
    <3>1. TypeOK'
      BY <2>8 DEF Acquire, TypeOK
    <3>2. c \in WSCallers /\ c \notin Waiting
      BY <2>8 DEF Acquire, SlotsCounted, Waiting
    <3>3. Waiting' = Waiting \cup {c}
      BY <2>8, <3>2 DEF Acquire, Waiting, TypeOK, Callers
    <3>4. IsFiniteSet(Waiting') /\ Cardinality(Waiting') = Cardinality(Waiting) + 1
      BY <3>2, <3>3, FS_AddElement DEF SlotsCounted
    <3>5. \A d \in Callers : pc'[d] = "sent" => d \in WSCallers
      BY <2>8 DEF Acquire, SlotsCounted, TypeOK
    <3>6. QED BY <2>8, <3>1, <3>4, <3>5 DEF Acquire, SlotsCounted
  <2>9. ASSUME NEW c \in Callers, Busy(c) PROVE TypeOK' /\ SlotsCounted'
    BY <2>1, <2>2, <2>9, EndsEffect DEF Busy, TypeOK
  <2>10. ASSUME NEW c \in Callers, Receive(c) PROVE TypeOK' /\ SlotsCounted'
    <3>1. ch[c] \in Responses \cup Verdicts /\ ch' \in [Callers -> Responses \cup {None}]
      BY <2>10 DEF Receive, TypeOK
    <3>2. QED BY <2>10, <3>1, EndsEffect DEF Receive, TypeOK
  <2>11. ASSUME NEW c \in Callers, Timeout(c) PROVE TypeOK' /\ SlotsCounted'
    BY <2>1, <2>2, <2>11, EndsEffect DEF Timeout, TypeOK
  <2>12. ASSUME NEW c \in Callers, Cancel(c) PROVE TypeOK' /\ SlotsCounted'
    BY <2>1, <2>2, <2>12, EndsEffect DEF Cancel, TypeOK
  <2>13. \A c \in Callers : IdOf(c) \in Ids /\ requests[IdOf(c)] \in Callers \cup {None}
    BY <2>0 DEF IdOf, TypeOK
  <2>14. UNCHANGED <<pc, semaphore>> => SlotsCounted'
    BY SlotsKept DEF Waiting, SlotsCounted
  <2>15. ASSUME NEW c \in Callers, ReplyStep(c) PROVE TypeOK' /\ SlotsCounted'
    <3>1. CASE Take(c)
      BY <2>2, <2>13, <2>14, <3>1 DEF Take, TypeOK
    <3>2. CASE Load(c)
      BY <2>13, <2>14, <3>2 DEF Load, TypeOK
    <3>3. CASE DeleteLoaded(c)
      BY <2>2, <2>14, <3>3 DEF DeleteLoaded, TypeOK
    <3>4. CASE Deliver(c)
      <4>1. Answer(c) \in Responses
        BY DEF Responses
      <4>2. QED BY <2>3, <2>14, <3>4, <4>1 DEF Deliver, TypeOK
    <3>5. QED BY <2>15, <3>1, <3>2, <3>3, <3>4 DEF ReplyStep
  <2>16. ASSUME NEW c \in Callers, TellStale(c) PROVE TypeOK' /\ SlotsCounted'
    <3>1. Stale \in Responses
      BY DEF Responses
    <3>2. QED BY <2>3, <2>14, <2>16, <3>1 DEF TellStale, TypeOK
  <2>17. ASSUME NEW S \in SUBSET Overdue, CleanupStale(S) PROVE TypeOK' /\ SlotsCounted'
    BY <2>14, <2>17 DEF CleanupStale, Overdue, TypeOK
  <2>18. CASE Tick
    BY <2>14, <2>18 DEF Tick, TypeOK
  <2>19. CASE CloseWS
    BY <2>14, <2>19 DEF CloseWS, TypeOK
  <2>20. CASE CleanupWS
    BY <2>14, <2>20 DEF CleanupWS, TypeOK
  <2>21. CASE UNCHANGED vars
    BY <2>14, <2>21 DEF vars, TypeOK
  <2>22. QED BY <2>4, <2>5, <2>6, <2>7, <2>8, <2>9, <2>10, <2>11, <2>12, <2>15, <2>16, <2>17,
               <2>18, <2>19, <2>20, <2>21 DEF Next, CallerStep
<1>3. QED BY <1>1, <1>2, PTL DEF Spec

\* Type correctness, and the semaphore of a WebSocket client never leaks a slot.
THEOREM SlotsNeverLeak == Spec => []SlotsAreHeld
<1>1. SlotsCounted => SlotsAreHeld
  BY DEF SlotsCounted, SlotsAreHeld, Waiting
<1>2. QED BY <1>1, TypeAndSlots, PTL

----------------------------------------------------------------------------
(* What one step can do to each part of the state.  The invariants below   *)
(* follow from these effects; only here is every action looked at.         *)

Active == {"stored", "sent", "waiting"}

\* A caller is never new again, keeps its instant, and leaves the table when it
\* ends, unless it ends because of what is in its channel.
CallerEffect(c) ==
    /\ pc[c] # "new" => pc'[c] # "new" /\ born'[c] = born[c]
    /\ pc[c] \in {"sent", "waiting", "done"} => pc'[c] \in {"sent", "waiting", "done"}
    /\ pc[c] = "done" => pc'[c] = "done"
    /\ pc[c] = "new" /\ pc'[c] \in Active => requests'[IdAt(c, born'[c])] = c
    /\ pc[c] \in Active /\ pc'[c] \notin Active => requests'[IdOf(c)] = None \/ ch[c] # None

\* An entry stays, goes, or is made by a caller that starts.
EntryEffect(i) ==
    \/ requests'[i] \in {requests[i], None}
    \/ \E c \in Callers : /\ requests'[i] = c
                          /\ pc[c] = "new" /\ pc'[c] = "stored"
                          /\ i = IdAt(c, born'[c])

\* A response comes from an answer that is taken or from the cleanup.
ChannelEffect(c) ==
    \/ ch'[c] \in {ch[c], None}
    \/ ch'[c] = Stale /\ c \in stale
    \/ \E v \in Callers : reply[v].at = "taken" /\ reply[v].to = c /\ ch'[c] = Answer(v)

\* A verdict is given once, when the caller ends.
OutcomeEffect(c) ==
    \/ outcome'[c] = outcome[c] /\ (pc'[c] = "done" => pc[c] = "done")
    \/ /\ pc[c] # "done" /\ pc'[c] = "done"
       /\ outcome'[c] \in Verdicts \/ (outcome'[c] = ch[c] /\ pc[c] = "waiting")

\* An answer is asked for, finds an entry, which goes at once or a step later, or
\* is over.
ReplyEffect(v) ==
    \/ reply'[v] = reply[v]
    \/ reply'[v].at = "asked" /\ pc'[v] \in {"sent", "waiting"}
    \/ /\ reply[v].at = "asked"
       /\ reply'[v].at \in {"loaded", "taken"}
       /\ reply'[v].to = requests[IdOf(v)] /\ requests[IdOf(v)] # None
       /\ reply'[v].at = "taken" => requests'[IdOf(v)] = None
    \/ /\ reply[v].at = "loaded" /\ reply'[v].at = "taken"
       /\ reply'[v].to = reply[v].to
       /\ requests'[IdOf(v)] = None
    \/ reply[v].at # "unasked" /\ reply'[v].at = "over"

\* The cleanup takes a caller out before it tells it.
StaleEffect(c) ==
    c \in stale' => c \in stale \/ (requests[IdOf(c)] = c /\ \A i \in Ids : requests'[i] # c)

\* An entry is taken out for its caller, by a caller or an answer of the same id,
\* or with the WebSocket client.
LossEffect(c) ==
    requests[IdOf(c)] = c =>
        \/ requests'[IdOf(c)] = c \/ pc'[c] \notin Active \/ c \in stale'
        \/ c \in WSCallers /\ wsDone
        \/ \E d \in Callers \ {c} : /\ IdAt(d, born'[d]) = IdOf(c)
                                    /\ pc'[d] # "new" \/ reply[d].at # "unasked"
        \/ reply'[c].at = "taken" /\ (reply'[c].to = c \/ reply[c].at = "loaded")

\* A response on its way arrives, unless another was first.
ArrivalEffect(c) ==
    /\ ch[c] # None => ch'[c] # None \/ pc'[c] = "done"
    /\ c \in stale => c \in stale' \/ ch'[c] # None
    /\ reply[c].at = "taken" /\ reply[c].to = c /\ pc[c] # "stored" =>
          (reply'[c].at = "taken" /\ reply'[c].to = c) \/ ch'[c] # None

Effects ==
    /\ \A c \in Callers : CallerEffect(c) /\ ChannelEffect(c) /\ OutcomeEffect(c)
                          /\ ReplyEffect(c) /\ StaleEffect(c)
                          /\ LossEffect(c) /\ ArrivalEffect(c)
    /\ \A i \in Ids : EntryEffect(i)
    /\ wsDone => wsDone'

\* Every id a caller can have is one of the table.
LEMMA IdsOfCallers ==
    ASSUME NEW c \in Callers, NEW t \in 0 .. MaxClock
    PROVE  IdAt(c, t) \in Ids
BY DEF IdAt, Ids

\* Store is the action that disturbs most: it may overwrite an entry.
LEMMA StoreEffects == ASSUME TypeOK, NEW c \in Callers, Store(c) PROVE Effects
<1>1. /\ pc' = [pc EXCEPT ![c] = "stored"]
      /\ requests' = [requests EXCEPT ![IdAt(c, clock)] = c]
      /\ pc[c] = "new" /\ clock \in 0 .. MaxClock
      /\ born'[c] = clock /\ \A d \in Callers \ {c} : born'[d] = born[d]
      /\ IdAt(c, clock) \in Ids
      /\ wsDone' = wsDone
  BY IdsOfCallers DEF Store, TypeOK
<1>2. \A d \in Callers : IdOf(d) \in Ids /\ IdOf(d) = IdAt(d, born[d])
  BY IdsOfCallers DEF IdOf, TypeOK
<1>3. \A i \in Ids : EntryEffect(i)
  BY <1>1 DEF EntryEffect, TypeOK
<1>4. ASSUME NEW d \in Callers PROVE CallerEffect(d)
  BY <1>1, <1>2, <1>4 DEF CallerEffect, Active, TypeOK
<1>5. ASSUME NEW d \in Callers PROVE LossEffect(d)
  <2>1. CASE IdAt(c, clock) # IdOf(d)
    BY <1>1, <1>2, <1>5, <2>1 DEF LossEffect, TypeOK
  <2>2. CASE IdAt(c, clock) = IdOf(d) /\ c # d
    BY <1>1, <1>5, <2>2 DEF LossEffect, TypeOK
  <2>3. CASE IdAt(c, clock) = IdOf(d) /\ c = d
    BY <1>1, <1>2, <1>5, <2>3 DEF LossEffect, TypeOK
  <2>4. QED BY <2>1, <2>2, <2>3
<1>6. ASSUME NEW d \in Callers
      PROVE  /\ ChannelEffect(d) /\ OutcomeEffect(d) /\ ReplyEffect(d)
             /\ StaleEffect(d) /\ ArrivalEffect(d)
  BY <1>1, <1>6 DEF Store, ChannelEffect, OutcomeEffect, ReplyEffect, StaleEffect,
                    ArrivalEffect, TypeOK
<1>7. QED BY <1>1, <1>3, <1>4, <1>5, <1>6 DEF Effects

\* Every step has these effects, looked at action by action.
LEMMA StepEffects == ASSUME TypeOK, Next PROVE Effects
<1> USE BoundsAssumption, CallersAssumption DEF Effects, CallerEffect, EntryEffect,
        ChannelEffect, OutcomeEffect, ReplyEffect, StaleEffect, LossEffect,
        ArrivalEffect, Active
<1>0. /\ \A c \in Callers : IdOf(c) \in Ids /\ IdOf(c) = IdAt(c, born[c])
      /\ \A c \in Callers : Answer(c) # None
      /\ Stale # None
      /\ \A c \in Callers : pc[c] \in {"new", "stored", "sent", "waiting", "done"}
  BY IdsOfCallers, NoneAssumption DEF IdOf, Responses, TypeOK
<1>1. ASSUME NEW c \in Callers, Offline(c) PROVE Effects
  BY <1>1 DEF Offline, Ends, Verdicts, TypeOK
<1>2. ASSUME NEW c \in Callers, Store(c) PROVE Effects
  BY <1>2, StoreEffects
<1>3. ASSUME NEW c \in Callers, Send(c) PROVE Effects
  BY <1>3 DEF Send, TypeOK
<1>4. ASSUME NEW c \in Callers, SendFails(c) PROVE Effects
  BY <1>0, <1>4 DEF SendFails, Delete, Ends, Verdicts, TypeOK
<1>5. ASSUME NEW c \in Callers, Acquire(c) PROVE Effects
  BY <1>5 DEF Acquire, TypeOK
<1>6. ASSUME NEW c \in Callers, Busy(c) PROVE Effects
  BY <1>0, <1>6 DEF Busy, Delete, Ends, Verdicts, TypeOK
<1>7. ASSUME NEW c \in Callers, Receive(c) PROVE Effects
  BY <1>0, <1>7 DEF Receive, Ends, TypeOK
<1>8. ASSUME NEW c \in Callers, Timeout(c) PROVE Effects
  BY <1>0, <1>8 DEF Timeout, Delete, Ends, Verdicts, TypeOK
<1>9. ASSUME NEW c \in Callers, Cancel(c) PROVE Effects
  BY <1>0, <1>9 DEF Cancel, Delete, Ends, Verdicts, TypeOK
<1>10. ASSUME NEW v \in Callers, Take(v) PROVE Effects
  BY <1>0, <1>10 DEF Take, Delete, TypeOK
<1>11. ASSUME NEW v \in Callers, Load(v) PROVE Effects
  BY <1>0, <1>11 DEF Load, TypeOK
<1>12. ASSUME NEW v \in Callers, DeleteLoaded(v) PROVE Effects
  BY <1>0, <1>12 DEF DeleteLoaded, Delete, TypeOK
<1>13. ASSUME NEW v \in Callers, Deliver(v) PROVE Effects
  BY <1>0, <1>13 DEF Deliver, Offer, TypeOK
<1>14. ASSUME NEW c \in Callers, TellStale(c) PROVE Effects
  BY <1>0, <1>14 DEF TellStale, Offer, TypeOK
<1>15. ASSUME NEW S \in SUBSET Overdue, CleanupStale(S) PROVE Effects
  BY <1>0, <1>15 DEF CleanupStale, Overdue, TypeOK
<1>16. CASE Tick
  BY <1>16 DEF Tick
<1>17. CASE CloseWS
  BY <1>17 DEF CloseWS
<1>18. CASE CleanupWS
  <2>1. \A c \in Callers : IdOf(c) \in tracked => c \in WSCallers
    BY DEF IdOf, IdAt, TypeOK, Callers
  <2>2. QED BY <1>0, <1>18, <2>1 DEF CleanupWS, TypeOK
<1>19. QED BY <1>1, <1>2, <1>3, <1>4, <1>5, <1>6, <1>7, <1>8, <1>9, <1>10, <1>11, <1>12,
              <1>13, <1>14, <1>15, <1>16, <1>17, <1>18 DEF Next, CallerStep, ReplyStep

----------------------------------------------------------------------------
(* The inductive invariant.                                                *)

\* An entry of the table is that of a caller of that id that has not ended.
EntrySound(i) ==
    \A c \in Callers : requests[i] = c => pc[c] \in Active /\ IdOf(c) = i

\* The module answers only what it was sent; an answer on its way is addressed to a
\* caller of the same id.
ReplySound(v) ==
    /\ reply[v].at # "unasked" => pc[v] \in {"sent", "waiting", "done"}
    /\ reply[v].at \in {"loaded", "taken"} =>
          \E c \in Callers : reply[v].to = c /\ pc[c] # "new" /\ Alike(c, v)

\* What a caller has heard, or was told, is an answer to a request of its id.
Heard(c, r) == \E v \in Callers :
    r = Answer(v) /\ pc[c] # "new" /\ Alike(c, v) /\ reply[v].at # "unasked"

ChannelSound(c) == ch[c] \in {None, Stale} \/ Heard(c, ch[c])

OutcomeSound(c) ==
    /\ outcome[c] \in Verdicts \cup {None, Stale} \/ Heard(c, outcome[c])
    /\ pc[c] # "done" => outcome[c] = None

\* A caller for which there is a response, or one on its way, left the table.
GoneSound(c) ==
    (ch[c] # None \/ c \in stale \/ \E v \in Callers : reply[v].at = "taken" /\ reply[v].to = c)
        => pc[c] # "new" /\ \A i \in Ids : requests[i] # c

Sound ==
    /\ \A i \in Ids : EntrySound(i)
    /\ \A c \in Callers : ReplySound(c) /\ ChannelSound(c) /\ OutcomeSound(c) /\ GoneSound(c)

\* Two callers have one id exactly if they are alike.
LEMMA AlikeById ==
    ASSUME TypeOK, NEW c \in Callers, NEW d \in Callers, pc[d] # "new"
    PROVE  Alike(c, d) <=> IdOf(c) = IdOf(d)
BY CallersAssumption DEF Alike, Shares, IdOf, IdAt, TypeOK

\* Who is alike stays so.
LEMMA AlikeStays ==
    ASSUME Effects, NEW c \in Callers, NEW d \in Callers, pc[c] # "new", Alike(c, d)
    PROVE  Alike(c, d)'
BY DEF Effects, CallerEffect, Alike, Shares

\* What was heard stays an answer to a request of the same id.
LEMMA HeardStays ==
    ASSUME Effects, NEW c \in Callers, NEW v \in Callers, pc[c] # "new", Alike(c, v),
           reply[v].at # "unasked"
    PROVE  pc'[c] # "new" /\ Alike(c, v)' /\ reply'[v].at # "unasked"
<1>1. pc'[c] # "new" /\ Alike(c, v)'
  BY AlikeStays DEF Effects, CallerEffect
<1>2. reply'[v].at # "unasked"
  BY DEF Effects, ReplyEffect
<1>3. QED BY <1>1, <1>2

\* A step with these effects keeps the table sound.
LEMMA SoundStays == ASSUME TypeOK, TypeOK', Sound, Effects PROVE Sound'
<1> USE CallersAssumption, NoneAssumption
<1>0. /\ \A c \in Callers : IdOf(c) \in Ids /\ (pc[c] # "new" => IdOf(c)' = IdOf(c))
      /\ \A c \in Callers : c # None
      /\ \A v \in Callers : Answer(v) # None /\ Answer(v) \in Responses
      /\ Stale # None
  BY IdsOfCallers DEF TypeOK, Effects, CallerEffect, IdOf, Responses
<1>1. ASSUME NEW i \in Ids PROVE EntrySound(i)'
  <2> SUFFICES ASSUME NEW c \in Callers, requests'[i] = c
               PROVE  pc'[c] \in Active /\ IdOf(c)' = i
    BY DEF EntrySound
  <2>1. CASE requests[i] = c
    <3>1. pc[c] \in Active /\ IdOf(c) = i
      BY <1>1, <2>1 DEF Sound, EntrySound
    <3>2. ch[c] = None
      BY <1>1, <2>1 DEF Sound, GoneSound
    <3>3. pc'[c] \in Active
      BY <1>0, <2>1, <3>1, <3>2 DEF Effects, CallerEffect
    <3>4. QED BY <1>0, <3>1, <3>3 DEF Active
  <2>2. CASE requests[i] # c
    <3>1. pc'[c] = "stored" /\ i = IdAt(c, born'[c])
      BY <1>0, <1>1, <2>2 DEF Effects, EntryEffect
    <3>2. QED BY <3>1 DEF Active, IdOf, IdAt
  <2>3. QED BY <2>1, <2>2
<1>2. ASSUME NEW v \in Callers PROVE ReplySound(v)'
  <2>1. reply'[v].at # "unasked" => pc'[v] \in {"sent", "waiting", "done"}
    BY <1>2 DEF Sound, ReplySound, Effects, ReplyEffect, CallerEffect
  <2>2. ASSUME reply'[v].at \in {"loaded", "taken"}
        PROVE  \E c \in Callers : reply'[v].to = c /\ pc[c] # "new" /\ Alike(c, v)
    <3>1. CASE reply'[v].to = reply[v].to /\ reply[v].at \in {"loaded", "taken"}
      BY <1>2, <3>1 DEF Sound, ReplySound
    <3>2. CASE /\ reply[v].at = "asked" /\ reply'[v].to = requests[IdOf(v)]
               /\ requests[IdOf(v)] # None
      <4>1. PICK c \in Callers : requests[IdOf(v)] = c
        BY <1>0, <1>2, <3>2 DEF TypeOK
      <4>2. pc[c] # "new" /\ IdOf(c) = IdOf(v)
        BY <1>0, <1>2, <4>1 DEF Sound, EntrySound, Active
      <4>3. pc[v] # "new"
        BY <1>2, <3>2 DEF Sound, ReplySound
      <4>4. QED BY <1>2, <3>2, <4>1, <4>2, <4>3, AlikeById
    <3>3. QED BY <1>2, <2>2, <3>1, <3>2 DEF Effects, ReplyEffect
  <2>3. \A c \in Callers : pc[c] # "new" /\ Alike(c, v) => pc'[c] # "new" /\ Alike(c, v)'
    BY <1>2, AlikeStays DEF Effects, CallerEffect
  <2>4. QED BY <2>1, <2>2, <2>3 DEF ReplySound
<1>3. ASSUME NEW c \in Callers PROVE ChannelSound(c)'
  <2>1. CASE ch'[c] \in {None, Stale}
    BY <2>1 DEF ChannelSound
  <2>2. CASE ch'[c] \notin {None, Stale} /\ ch'[c] = ch[c]
    <3>1. PICK v \in Callers : /\ ch[c] = Answer(v) /\ pc[c] # "new" /\ Alike(c, v)
                               /\ reply[v].at # "unasked"
      BY <1>3, <2>2 DEF Sound, ChannelSound, Heard
    <3>2. QED BY <1>3, <2>2, <3>1, HeardStays DEF ChannelSound, Heard
  <2>3. CASE ch'[c] \notin {None, Stale} /\ ch'[c] # ch[c]
    <3>1. PICK v \in Callers : /\ reply[v].at = "taken" /\ reply[v].to = c
                               /\ ch'[c] = Answer(v)
      BY <1>3, <2>3 DEF Effects, ChannelEffect
    <3>2. pc[c] # "new" /\ Alike(c, v) /\ reply[v].at # "unasked"
      BY <3>1 DEF Sound, ReplySound
    <3>3. QED BY <1>3, <3>1, <3>2, HeardStays DEF ChannelSound, Heard
  <2>4. QED BY <2>1, <2>2, <2>3
<1>4. ASSUME NEW c \in Callers PROVE OutcomeSound(c)'
  <2>1. pc'[c] # "done" => outcome'[c] = None
    BY <1>4 DEF Sound, OutcomeSound, Effects, OutcomeEffect, CallerEffect
  <2>2. CASE outcome'[c] \in Verdicts \cup {None, Stale}
    BY <2>1, <2>2 DEF OutcomeSound
  <2>3. CASE outcome'[c] \notin Verdicts \cup {None, Stale}
    <3>1. Heard(c, outcome'[c])
      BY <1>4, <2>3 DEF Sound, OutcomeSound, ChannelSound, Effects, OutcomeEffect
    <3>2. PICK v \in Callers : /\ outcome'[c] = Answer(v) /\ pc[c] # "new" /\ Alike(c, v)
                               /\ reply[v].at # "unasked"
      BY <3>1 DEF Heard
    <3>3. QED BY <1>4, <2>1, <3>2, HeardStays DEF OutcomeSound, Heard
  <2>4. QED BY <2>2, <2>3
<1>5. ASSUME NEW c \in Callers PROVE GoneSound(c)'
  <2>1. ASSUME pc[c] # "new", \A i \in Ids : requests[i] # c PROVE GoneSound(c)'
    BY <1>0, <1>5, <2>1 DEF GoneSound, Effects, EntryEffect, CallerEffect
  <2>2. CASE \/ ch[c] # None \/ c \in stale
             \/ \E v \in Callers : reply[v].at = "taken" /\ reply[v].to = c
    BY <1>5, <2>1, <2>2 DEF Sound, GoneSound
  <2>3. CASE ~ \/ ch[c] # None \/ c \in stale
               \/ \E v \in Callers : reply[v].at = "taken" /\ reply[v].to = c
    <3>1. ch'[c] = None
      BY <1>5, <2>3 DEF Effects, ChannelEffect
    <3>2. CASE c \in stale'
      <4>1. requests[IdOf(c)] = c /\ \A i \in Ids : requests'[i] # c
        BY <1>5, <2>3, <3>2 DEF Effects, StaleEffect
      <4>2. pc[c] # "new"
        BY <1>0, <1>5, <4>1 DEF Sound, EntrySound, Active
      <4>3. QED BY <1>5, <4>1, <4>2 DEF GoneSound, Effects, CallerEffect
    <3>3. ASSUME NEW v \in Callers, reply'[v].at = "taken", reply'[v].to = c
          PROVE  pc'[c] # "new" /\ \A i \in Ids : requests'[i] # c
      <4>1. /\ reply[v].at \in {"asked", "loaded"}
            /\ requests'[IdOf(v)] = None
            /\ c = requests[IdOf(v)] \/ (reply[v].at = "loaded" /\ c = reply[v].to)
        BY <2>3, <3>3 DEF Effects, ReplyEffect
      <4>2. pc[c] # "new" /\ IdOf(c) = IdOf(v) /\ pc[v] # "new"
        <5>1. pc[v] # "new"
          BY <3>3, <4>1 DEF Sound, ReplySound
        <5>2. CASE c = requests[IdOf(v)]
          BY <1>0, <1>5, <5>1, <5>2 DEF Sound, EntrySound, Active
        <5>3. CASE reply[v].at = "loaded" /\ c = reply[v].to
          BY <1>5, <3>3, <5>1, <5>3, AlikeById DEF Sound, ReplySound
        <5>4. QED BY <4>1, <5>1, <5>2, <5>3
      <4>3. \A i \in Ids : requests[i] = c => i = IdOf(v)
        BY <1>0, <1>5, <4>2 DEF Sound, EntrySound
      <4>4. QED BY <1>0, <1>5, <4>1, <4>2, <4>3 DEF Effects, EntryEffect, CallerEffect
    <3>4. QED BY <3>1, <3>2, <3>3 DEF GoneSound
  <2>4. QED BY <2>2, <2>3
<1>6. QED BY <1>1, <1>2, <1>3, <1>4, <1>5 DEF Sound

\* The table, the channels and what is on its way fit together: the inductive
\* invariant from which the next four theorems follow.
THEOREM TableIsSound == Spec => []Sound
<1>1. Init => Sound
  <2> SUFFICES ASSUME Init PROVE Sound
    OBVIOUS
  <2>1. \A i \in Ids : EntrySound(i)
    BY CallersAssumption DEF Init, EntrySound
  <2>2. ASSUME NEW c \in Callers
        PROVE  ReplySound(c) /\ ChannelSound(c) /\ OutcomeSound(c) /\ GoneSound(c)
    BY <2>2 DEF Init, ReplySound, ChannelSound, OutcomeSound, GoneSound
  <2>3. QED BY <2>1, <2>2 DEF Sound
<1>2. TypeOK /\ TypeOK' /\ Sound /\ [Next]_vars => Sound'
  <2>1. TypeOK /\ TypeOK' /\ Sound /\ Next => Sound'
    BY StepEffects, SoundStays
  <2>2. Sound /\ UNCHANGED vars => Sound'
    BY DEF Sound, EntrySound, ReplySound, ChannelSound, OutcomeSound, GoneSound, Heard,
           Alike, Shares, IdOf, vars
  <2>3. QED BY <2>1, <2>2
<1>3. QED BY <1>1, <1>2, TypeAndSlots, PTL DEF Spec

----------------------------------------------------------------------------
(* What follows.                                                           *)

\* An answer reaches a caller of the id that it was asked under, and none other.
THEOREM NoMixUp == Spec => []AnswersKeepToTheirId
<1>1. Sound => AnswersKeepToTheirId
  <2> SUFFICES ASSUME Sound, NEW c \in Callers, NEW r \in {ch[c], outcome[c]},
                      r # None, r.kind = "answer"
               PROVE  r.from \in Callers /\ Alike(c, r.from)
    BY DEF AnswersKeepToTheirId
  <2>1. r \notin Verdicts \cup {Stale}
    BY DEF Verdicts, Told, Stale
  <2>2. PICK v \in Callers : r = Answer(v) /\ Alike(c, v)
    BY <2>1 DEF Sound, ChannelSound, OutcomeSound, Heard
  <2>3. r.from = v
    BY <2>2 DEF Answer
  <2>4. QED BY <2>2, <2>3
<1>2. QED BY <1>1, TableIsSound, PTL

\* However a caller ends, nothing of it stays in the table.
THEOREM TableIsLeftClean == Spec => []NothingLeftBehind
<1>1. Sound => NothingLeftBehind
  BY DEF Sound, EntrySound, NothingLeftBehind, Active
<1>2. QED BY <1>1, TableIsSound, PTL

\* What NoOrphan says of one caller.
CanBeAnswered(c) ==
    \/ requests[IdOf(c)] = c
    \/ ch[c] # None
    \/ c \in stale
    \/ reply[c].at = "taken" /\ reply[c].to = c

Excused(c) ==
    \/ \E d \in Callers \ {c} : Alike(c, d)
    \/ c \in WSCallers /\ wsDone

NotForgotten(c) == pc[c] \in Active => CanBeAnswered(c) \/ Excused(c)

\* A step with these effects leaves no caller without an answer it could get.
LEMMA NotForgottenStays ==
    ASSUME TypeOK, TypeOK', Sound, Effects, NEW c \in Callers, NotForgotten(c)
    PROVE  NotForgotten(c)'
<1> SUFFICES ASSUME pc'[c] \in Active
             PROVE  CanBeAnswered(c)' \/ Excused(c)'
  BY DEF NotForgotten
<1>1. CASE pc[c] = "new"
  <2>1. requests'[IdAt(c, born'[c])] = c
    BY <1>1 DEF Effects, CallerEffect
  <2>2. QED BY <2>1 DEF CanBeAnswered, IdOf, IdAt
<1>2. ASSUME pc[c] # "new", Excused(c) PROVE Excused(c)'
  <2>1. \A d \in Callers : Alike(c, d) => Alike(c, d)'
    BY <1>2, AlikeStays
  <2>2. QED BY <1>2, <2>1 DEF Excused, Effects
<1>3. ASSUME pc[c] # "new", CanBeAnswered(c) PROVE CanBeAnswered(c)' \/ Excused(c)'
  <2>1. IdOf(c)' = IdOf(c)
    BY <1>3 DEF Effects, CallerEffect, IdOf, IdAt
  <2>2. CASE ch[c] # None \/ c \in stale \/ (reply[c].at = "taken" /\ reply[c].to = c)
    <3>1. reply[c].at = "taken" => pc[c] # "stored"
      BY DEF Sound, ReplySound
    <3>2. QED BY <2>2, <3>1 DEF Effects, ArrivalEffect, CanBeAnswered, Active
  <2>3. CASE requests[IdOf(c)] = c
    <3>1. CASE requests'[IdOf(c)] = c \/ c \in stale'
      BY <2>1, <3>1 DEF CanBeAnswered
    <3>2. CASE c \in WSCallers /\ wsDone
      BY <3>2 DEF Effects, Excused
    <3>3. CASE \E d \in Callers \ {c} : /\ IdAt(d, born'[d]) = IdOf(c)
                                        /\ pc'[d] # "new" \/ reply[d].at # "unasked"
      <4>1. PICK d \in Callers \ {c} : /\ IdAt(d, born'[d]) = IdOf(c)
                                       /\ pc'[d] # "new" \/ reply[d].at # "unasked"
        BY <3>3
      <4>2. pc'[d] # "new"
        BY <4>1 DEF Sound, ReplySound, Effects, CallerEffect
      <4>3. IdOf(d)' = IdOf(c)'
        BY <2>1, <4>1 DEF IdOf, IdAt
      <4>4. Alike(c, d)'
        BY <4>2, <4>3, CallersAssumption DEF Alike, Shares, IdOf, IdAt, TypeOK
      <4>5. QED BY <4>4 DEF Excused
    <3>4. CASE reply'[c].at = "taken" /\ (reply'[c].to = c \/ reply[c].at = "loaded")
      <4>1. CASE reply'[c].to = c
        BY <3>4, <4>1 DEF CanBeAnswered
      <4>2. CASE reply'[c].to # c
        <5>1. reply[c].at = "loaded" /\ reply'[c].to = reply[c].to
          BY <3>4, <4>2 DEF Effects, ReplyEffect
        <5>2. PICK d \in Callers : reply[c].to = d /\ pc[d] # "new" /\ Alike(d, c)
          BY <5>1 DEF Sound, ReplySound
        <5>3. Alike(c, d) /\ d # c
          BY <4>2, <5>1, <5>2 DEF Alike, Shares
        <5>4. QED BY <1>2, <1>3, <5>3 DEF Excused
      <4>3. QED BY <4>1, <4>2
    <3>5. LossEffect(c)
      BY DEF Effects
    <3>6. QED BY <2>3, <3>1, <3>2, <3>3, <3>4, <3>5 DEF LossEffect
  <2>4. QED BY <1>3, <2>2, <2>3 DEF CanBeAnswered
<1>4. pc[c] = "new" \/ pc[c] \in Active
  BY DEF Effects, CallerEffect, Active, TypeOK
<1>5. QED BY <1>1, <1>2, <1>3, <1>4 DEF NotForgotten, Active

\* A caller that waits can be answered, unless another of its id or the end of its
\* WebSocket client took its entry.
THEOREM NobodyIsForgotten == Spec => []NoOrphan
<1> DEFINE Inv == \A c \in Callers : NotForgotten(c)
<1>1. Init => Inv
  BY DEF Init, NotForgotten, Active
<1>2. TypeOK /\ TypeOK' /\ Sound /\ Inv /\ [Next]_vars => Inv'
  <2>1. TypeOK /\ TypeOK' /\ Sound /\ Inv /\ Next => Inv'
    BY StepEffects, NotForgottenStays
  <2>2. Inv /\ UNCHANGED vars => Inv'
    BY DEF NotForgotten, CanBeAnswered, Excused, Alike, Shares, IdOf, vars
  <2>3. QED BY <2>1, <2>2
<1>3. Inv => NoOrphan
  BY DEF NotForgotten, CanBeAnswered, Excused, NoOrphan, Active
<1>4. QED BY <1>1, <1>2, <1>3, TypeAndSlots, TableIsSound, PTL DEF Spec

\* The table and its callers agree: who waits can be answered, and who has ended has
\* left nothing.
THEOREM TableIsFaithful == Spec => []TableFollowsCallers
<1>1. NoOrphan /\ NothingLeftBehind => TableFollowsCallers
  BY DEF TableFollowsCallers
<1>2. QED BY <1>1, NobodyIsForgotten, TableIsLeftClean, PTL

----------------------------------------------------------------------------
(* The refinement.                                                         *)

\* The calls that wait, and those the module was sent.
Waits == {c \in Callers : pc[c] \in {"stored", "sent", "waiting"}}
Asked == {c \in Callers : reply[c].at # "unasked"}

\* A verdict that is no answer of the module.
LEMMA EndRefuses ==
    ASSUME TypeOK, Sound, NEW c \in Callers, NEW o \in Verdicts \cup {Stale},
           pc[c] # "done", Ends(c, o), UNCHANGED <<born, reply>>
    PROVE  Promise!Next
<1>1. outcome[c] = None
  BY DEF Sound, OutcomeSound
<1>2. Waits' = Waits \ {c}
  BY DEF Waits, Ends, TypeOK
<1>3. Asked' = Asked
  BY DEF Asked
<1>4. Promise!End(c, o)
  BY <1>1, <1>2, <1>3 DEF Promise!End, Waits, Asked, Ends
<1>5. QED BY <1>4 DEF Promise!Next, Promise!Refuse

\* The promise to the callers is kept: one verdict each, once, and an answer only to
\* a call that waits, of a call of the same id that the module was sent.
THEOREM PromiseIsKept == Spec => ImplementsRequestReply
<1>1. Init => Promise!Init
  <2> SUFFICES ASSUME Init PROVE Promise!Init
    OBVIOUS
  <2>1. born \in [Callers -> 0 .. MaxClock]
    BY BoundsAssumption DEF Init
  <2>2. Waits = {} /\ Asked = {}
    BY DEF Init, Waits, Asked
  <2>3. QED BY <2>1, <2>2 DEF Init, Promise!Init, Waits, Asked
<1>2. TypeOK /\ Sound /\ [Next]_vars => [Promise!Next]_Promise!vars
  <2> SUFFICES ASSUME TypeOK, Sound, [Next]_vars
               PROVE  Promise!Next \/ UNCHANGED Promise!vars
    OBVIOUS
  <2>1. ASSUME Waits' = Waits, Asked' = Asked, UNCHANGED <<born, outcome>>
        PROVE  UNCHANGED Promise!vars
    BY <2>1 DEF Promise!vars, Waits, Asked
  <2>2. \A w \in {"offline", "failed", "busy", "timeout", "cancelled"} : Told(w) \in Verdicts
    BY DEF Verdicts
  <2>3. ASSUME NEW c \in Callers, Offline(c) \/ SendFails(c) \/ Busy(c) \/ Timeout(c) \/ Cancel(c)
        PROVE  Promise!Next
    BY <2>2, <2>3, EndRefuses DEF Offline, SendFails, Busy, Timeout, Cancel
  <2>4. ASSUME NEW c \in Callers, Store(c) PROVE Promise!Next
    <3>1. PICK t \in 0 .. MaxClock : t = clock
      BY DEF TypeOK
    <3>2. outcome[c] = None /\ c \notin Waits
      BY <2>4 DEF Store, Sound, OutcomeSound, Waits
    <3>3. Waits' = Waits \cup {c} /\ Asked' = Asked
      BY <2>4 DEF Store, Waits, Asked, TypeOK
    <3>4. Promise!Open(c, t)
      BY <2>4, <3>1, <3>2, <3>3 DEF Store, Promise!Open, Waits, Asked
    <3>5. QED BY <3>4 DEF Promise!Next
  <2>5. ASSUME NEW c \in Callers, Send(c) PROVE Promise!Next
    <3>1. c \in Waits /\ Waits' = Waits
      BY <2>5 DEF Send, Waits, TypeOK
    <3>2. Asked' = Asked \cup {c}
      BY <2>5 DEF Send, Asked, TypeOK
    <3>3. Promise!Send(c)
      BY <2>5, <3>1, <3>2 DEF Send, Promise!Send, Waits, Asked
    <3>4. QED BY <3>3 DEF Promise!Next
  <2>6. ASSUME NEW c \in Callers, Receive(c) PROVE Promise!Next
    <3>1. CASE ch[c] = Stale
      BY <2>6, <3>1, EndRefuses DEF Receive
    <3>2. CASE ch[c] # Stale
      <4>1. PICK v \in Callers : ch[c] = Answer(v) /\ Alike(c, v) /\ v \in Asked
        <5>1. Heard(c, ch[c])
          BY <2>6, <3>2 DEF Sound, ChannelSound, Receive
        <5>2. QED BY <5>1 DEF Heard, Asked
      <4>2. outcome[c] = None /\ c \in Waits
        BY <2>6 DEF Receive, Sound, OutcomeSound, Waits
      <4>3. Waits' = Waits \ {c} /\ Asked' = Asked
        BY <2>6 DEF Receive, Ends, Waits, Asked, TypeOK
      <4>4. Promise!End(c, Answer(v))
        BY <2>6, <4>1, <4>2, <4>3 DEF Receive, Ends, Promise!End, Waits, Asked
      <4>5. v = c \/ (Shares(c, v) /\ born[c] = born[v])
        BY <4>1 DEF Alike
      <4>6. Promise!Reply(c)
        BY <4>1, <4>2, <4>4, <4>5 DEF Promise!Reply, Waits, Asked
      <4>7. QED BY <4>6 DEF Promise!Next
    <3>3. QED BY <3>1, <3>2
  <2>7. ASSUME NEW c \in Callers, Acquire(c) PROVE UNCHANGED Promise!vars
    <3>1. Waits' = Waits /\ Asked' = Asked
      BY <2>7 DEF Acquire, Waits, Asked, TypeOK
    <3>2. QED BY <2>1, <2>7, <3>1 DEF Acquire
  <2>8. ASSUME NEW v \in Callers, ReplyStep(v) PROVE UNCHANGED Promise!vars
    <3>1. UNCHANGED <<pc, born, outcome>>
      BY <2>8 DEF ReplyStep, Take, Load, DeleteLoaded, Deliver
    <3>2. Asked' = Asked
      BY <2>8 DEF ReplyStep, Take, Load, DeleteLoaded, Deliver, Asked, TypeOK
    <3>3. QED BY <2>1, <3>1, <3>2 DEF Waits
  <2>9. ASSUME UNCHANGED <<pc, born, outcome, reply>> PROVE UNCHANGED Promise!vars
    BY <2>1, <2>9 DEF Waits, Asked
  <2>10. ASSUME NEW c \in Callers, TellStale(c) PROVE UNCHANGED Promise!vars
    BY <2>9, <2>10 DEF TellStale
  <2>11. ASSUME NEW S \in SUBSET Overdue, CleanupStale(S) PROVE UNCHANGED Promise!vars
    BY <2>9, <2>11 DEF CleanupStale
  <2>12. CASE Tick \/ CloseWS \/ CleanupWS \/ UNCHANGED vars
    BY <2>9, <2>12 DEF Tick, CloseWS, CleanupWS, vars
  <2>13. QED BY <2>3, <2>4, <2>5, <2>6, <2>7, <2>8, <2>10, <2>11, <2>12 DEF Next, CallerStep
<1>3. QED BY <1>1, <1>2, TypeAndSlots, TableIsSound, PTL
          DEF Spec, ImplementsRequestReply, Promise!Spec

----------------------------------------------------------------------------
(* Subscriptions.                                                          *)
(* Slices.                                                                 *)

\* What a list can be: as much of its array is used as was written.
SliceSet == {v \in [cells : Seq(Subs), len : Nat, cap : Nat] :
                v.len <= Len(v.cells) /\ v.len <= v.cap}

\* append leaves the cells before the new one alone, and those after it if there is
\* room; an array that it makes anew holds what the list held.
LEMMA AppendedShape ==
    ASSUME NEW v \in SliceSet, NEW s \in Subs
    PROVE  /\ Appended(v, s) \in SliceSet
           /\ Appended(v, s).len = v.len + 1
           /\ Appended(v, s).cells[v.len + 1] = s
           /\ \A i \in 1 .. v.len : Appended(v, s).cells[i] = v.cells[i]
           /\ \A i \in 1 .. Len(Appended(v, s).cells) :
                  \/ Appended(v, s).cells[i] = s
                  \/ i \in 1 .. Len(v.cells) /\ Appended(v, s).cells[i] = v.cells[i]
           /\ v.len < v.cap => Len(v.cells) <= Len(Appended(v, s).cells)
<1> DEFINE n == v.len
           kept == SubSeq(v.cells, 1, n)
           rest == SubSeq(v.cells, n + 2, Len(v.cells))
           u == Appended(v, s)
<1>1. /\ v.cells \in Seq(Subs) /\ n \in Nat /\ v.cap \in Nat /\ n <= Len(v.cells)
      /\ Len(v.cells) \in Nat
  BY LenProperties DEF SliceSet
<1>2. \A i \in 1 .. Len(v.cells) : v.cells[i] \in Subs
  BY <1>1, ElementOfSeq
<1>3. /\ kept \in Seq(Subs) /\ Len(kept) = n
      /\ \A i \in 1 .. n : kept[i] = v.cells[i]
  BY <1>1, <1>2, SubSeqProperties
<1>4. /\ rest \in Seq(Subs)
      /\ Len(rest) = IF n + 2 <= Len(v.cells) THEN Len(v.cells) - n - 1 ELSE 0
      /\ \A i \in 1 .. Len(rest) : rest[i] = v.cells[n + 1 + i]
  <2>1. \A i \in n + 2 .. Len(v.cells) : v.cells[i] \in Subs
    BY <1>1, <1>2
  <2>2. /\ rest \in Seq(Subs)
        /\ Len(rest) = IF n + 2 <= Len(v.cells) THEN Len(v.cells) - (n + 2) + 1 ELSE 0
        /\ \A i \in 1 .. Len(v.cells) - (n + 2) + 1 : rest[i] = v.cells[n + 2 + i - 1]
    <3> DEFINE m == n + 2
               z == Len(v.cells)
    <3>1. m \in Int /\ z \in Int /\ \A i \in m .. z : v.cells[i] \in Subs
      BY <1>1, <2>1
    <3>2. /\ SubSeq(v.cells, m, z) \in Seq(Subs)
          /\ Len(SubSeq(v.cells, m, z)) = IF m <= z THEN z - m + 1 ELSE 0
          /\ \A i \in 1 .. z - m + 1 : SubSeq(v.cells, m, z)[i] = v.cells[m + i - 1]
      <4> HIDE DEF m, z
      <4>1. QED BY <3>1, SubSeqProperties
    <3>3. QED BY <3>2
  <2> DEFINE m == Len(v.cells)
             p == Len(rest)
  <2>3. /\ m \in Nat /\ n \in Nat /\ p = IF n + 2 <= m THEN m - (n + 2) + 1 ELSE 0
        /\ \A i \in 1 .. m - (n + 2) + 1 : rest[i] = v.cells[n + 2 + i - 1]
    BY <1>1, <2>2
  <2> HIDE DEF rest, n, m, p
  <2>4. p = IF n + 2 <= m THEN m - n - 1 ELSE 0
    BY <2>3
  <2>5. \A i \in 1 .. p : rest[i] = v.cells[n + 1 + i]
    <3> SUFFICES ASSUME NEW i \in 1 .. p PROVE rest[i] = v.cells[n + 1 + i]
      OBVIOUS
    <3>1. i \in 1 .. m - (n + 2) + 1 /\ n + 2 + i - 1 = n + 1 + i
      BY <2>3
    <3>2. QED BY <2>3, <3>1
  <2>6. QED BY <2>2, <2>4, <2>5 DEF m, p
<1> DEFINE one == <<s>>
<1>5. /\ one \in Seq(Subs) /\ Len(one) = 1 /\ one[1] = s
  OBVIOUS
<1> HIDE DEF kept, rest, n, one
<1> DEFINE front == kept \o one
<1>6. /\ front \in Seq(Subs) /\ Len(front) = n + 1 /\ front[n + 1] = s
      /\ \A i \in 1 .. n : front[i] = v.cells[i]
  <2>1. /\ front \in Seq(Subs) /\ Len(front) = Len(kept) + Len(one)
        /\ \A i \in 1 .. Len(kept) + Len(one) :
              front[i] = IF i <= Len(kept) THEN kept[i] ELSE one[i - Len(kept)]
    BY <1>3, <1>5, ConcatProperties
  <2> HIDE DEF front
  <2>2. front[n + 1] = one[1]
    BY <1>1, <1>3, <1>5, <2>1
  <2>3. QED BY <1>1, <1>3, <1>5, <2>1, <2>2
<1> HIDE DEF front
<1>7. CASE n < v.cap
  <2> DEFINE c == front \o rest
  <2>1. u = [v EXCEPT !.cells = c, !.len = n + 1]
    BY <1>7 DEF Appended, n, kept, rest, front, one, c, u
  <2>2. /\ c \in Seq(Subs) /\ Len(c) = Len(front) + Len(rest)
        /\ \A i \in 1 .. Len(front) + Len(rest) :
              c[i] = IF i <= Len(front) THEN front[i] ELSE rest[i - Len(front)]
    BY <1>4, <1>6, ConcatProperties
  <2> HIDE DEF c, u
  <2>3. /\ u.cells = c /\ u.len = n + 1 /\ u.cap = v.cap
        /\ u \in [cells : Seq(Subs), len : Nat, cap : Nat]
    <3>1. v \in [cells : Seq(Subs), len : Nat, cap : Nat] /\ c \in Seq(Subs) /\ n + 1 \in Nat
      BY <1>1, <2>2 DEF SliceSet
    <3>2. QED BY <2>1, <3>1
  <2>4. Len(c) = IF n + 2 <= Len(v.cells) THEN Len(v.cells) ELSE n + 1
    <3> DEFINE m == Len(v.cells)
               p == Len(rest)
    <3>1. Len(c) = n + 1 + p
      BY <1>6, <2>2
    <3>2. p = IF n + 2 <= m THEN m - n - 1 ELSE 0
      BY <1>4
    <3>3. m \in Nat /\ n \in Nat /\ n <= m
      BY <1>1
    <3> HIDE DEF m, p
    <3>4. n + 1 + p = IF n + 2 <= m THEN m ELSE n + 1
      BY <3>2, <3>3
    <3>5. QED BY <3>1, <3>4 DEF m
  <2>5. u \in SliceSet
    <3>1. n + 1 <= Len(c) /\ n + 1 <= v.cap
      BY <1>1, <1>7, <2>4
    <3>2. QED BY <2>3, <3>1 DEF SliceSet
  <2> DEFINE p == Len(rest)
             f == Len(front)
  <2>5a. p \in Nat /\ f = n + 1
    BY <1>4, <1>6, LenProperties
  <2>5b. \A i \in 1 .. f + p : c[i] = IF i <= f THEN front[i] ELSE rest[i - f]
    BY <2>2
  <2> HIDE DEF p, f
  <2>6. c[n + 1] = s /\ \A i \in 1 .. n : c[i] = v.cells[i]
    <3>1. \A i \in 1 .. n + 1 : c[i] = front[i]
      BY <1>1, <2>5a, <2>5b
    <3>2. QED BY <1>1, <1>6, <3>1
  <2>7. \A i \in 1 .. Len(c) : c[i] = s \/ (i \in 1 .. Len(v.cells) /\ c[i] = v.cells[i])
    <3> SUFFICES ASSUME NEW i \in 1 .. Len(c), i > n + 1
                 PROVE  i \in 1 .. Len(v.cells) /\ c[i] = v.cells[i]
      BY <1>1, <2>4, <2>6
    <3>1. n + 2 <= Len(v.cells) /\ i <= Len(v.cells) /\ Len(rest) = Len(v.cells) - n - 1
      BY <1>1, <1>4, <2>4
    <3>2. c[i] = rest[i - (n + 1)] /\ i - (n + 1) \in 1 .. Len(rest)
      <4>1. p = Len(v.cells) - n - 1 /\ Len(c) = Len(v.cells)
        BY <1>1, <2>4, <3>1 DEF p
      <4>2. i \in 1 .. f + p /\ ~(i <= f) /\ i - (n + 1) \in 1 .. p
        <5> DEFINE m == Len(v.cells)
        <5>1. i \in Int /\ i <= m /\ n + 1 < i /\ p = m - n - 1 /\ m \in Int
          BY <1>1, <3>1, <4>1
        <5> HIDE DEF m
        <5>2. QED BY <1>1, <2>5a, <5>1
      <4>3. QED BY <2>5a, <2>5b, <4>2 DEF p
    <3>3. rest[i - (n + 1)] = v.cells[n + 1 + (i - (n + 1))]
      BY <1>4, <3>2
    <3>4. QED BY <1>1, <3>1, <3>2, <3>3
  <2>8. QED BY <1>1, <2>3, <2>4, <2>5, <2>6, <2>7 DEF n, u
<1>8. CASE ~(n < v.cap)
  <2> DEFINE k == IF n = 0 THEN 1 ELSE 2 * n
  <2>1. u = [cells |-> front, len |-> n + 1, cap |-> k]
    BY <1>8 DEF Appended, n, kept, front, one
  <2>2. k \in Nat /\ n + 1 <= k
    BY <1>1
  <2> HIDE DEF k
  <2>3. u.cells = front /\ u.len = n + 1 /\ u \in SliceSet
    BY <1>1, <1>6, <2>1, <2>2 DEF SliceSet
  <2> HIDE DEF u
  <2>4. \A i \in 1 .. Len(front) :
           front[i] = s \/ (i \in 1 .. Len(v.cells) /\ front[i] = v.cells[i])
    BY <1>1, <1>6
  <2>5. QED BY <1>1, <1>6, <1>8, <2>3, <2>4 DEF n, u
<1>9. QED BY <1>7, <1>8

\* A removal moves the tail down.
LEMMA ShiftedShape ==
    ASSUME NEW v \in SliceSet, NEW s \in Subs, NEW k \in 1 .. v.len, v.cells[k] = s,
           \A i, j \in 1 .. v.len : v.cells[i] = v.cells[j] => i = j
    PROVE  /\ ShiftedCells(v, s) \in Seq(Subs) /\ Len(ShiftedCells(v, s)) = Len(v.cells)
           /\ \A i \in 1 .. Len(v.cells) :
                  ShiftedCells(v, s)[i] = IF k <= i /\ i < v.len THEN v.cells[i + 1] ELSE v.cells[i]
<1>1. /\ v.cells \in Seq(Subs) /\ v.len \in Nat /\ v.len <= Len(v.cells) /\ Len(v.cells) \in Nat
  BY LenProperties DEF SliceSet
<1>2. \A i \in 1 .. Len(v.cells) : v.cells[i] \in Subs
  BY <1>1, ElementOfSeq
<1>3. (CHOOSE j \in 1 .. v.len : v.cells[j] = s) = k
  BY <1>1
<1> DEFINE c == [i \in 1 .. Len(v.cells) |->
                    IF k <= i /\ i < v.len THEN v.cells[i + 1] ELSE v.cells[i]]
<1>4. ShiftedCells(v, s) = c
  BY <1>3 DEF ShiftedCells
<1>5. \A i \in 1 .. Len(v.cells) :
         (IF k <= i /\ i < v.len THEN v.cells[i + 1] ELSE v.cells[i]) \in Subs
  BY <1>1, <1>2
<1>6. c \in [1 .. Len(v.cells) -> Subs]
  BY <1>5
<1>7. c \in Seq(Subs) /\ Len(c) = Len(v.cells)
  BY <1>1, <1>6
<1>8. QED BY <1>4, <1>6, <1>7

\* A removed subscription leaves the list; the others keep their order.
LEMMA WithoutShape ==
    ASSUME NEW v \in SliceSet, NEW s \in Subs, NEW k \in 1 .. v.len, v.cells[k] = s,
           \A i, j \in 1 .. v.len : v.cells[i] = v.cells[j] => i = j
    PROVE  /\ Without(v, s) \in SliceSet /\ Without(v, s).len = v.len - 1
           /\ \A i \in 1 .. v.len - 1 :
                  Without(v, s).cells[i] = IF k <= i THEN v.cells[i + 1] ELSE v.cells[i]
           /\ \A i \in 1 .. Len(Without(v, s).cells) :
                  \E j \in 1 .. Len(v.cells) : Without(v, s).cells[i] = v.cells[j]
           /\ v.len # 1 => Without(v, s).cells = ShiftedCells(v, s)
<1> DEFINE c == ShiftedCells(v, s)
           u == Without(v, s)
<1>1. /\ v \in [cells : Seq(Subs), len : Nat, cap : Nat] /\ v.len \in Nat /\ v.len <= Len(v.cells)
      /\ Len(v.cells) \in Nat
  BY LenProperties DEF SliceSet
<1>2. /\ c \in Seq(Subs) /\ Len(c) = Len(v.cells)
      /\ \A i \in 1 .. Len(v.cells) :
            c[i] = IF k <= i /\ i < v.len THEN v.cells[i + 1] ELSE v.cells[i]
  BY ShiftedShape
<1>3. CASE v.len = 1
  <2>1. u = [cells |-> <<>>, len |-> 0, cap |-> 0]
    BY <1>3 DEF Without, EmptySlice
  <2>2. <<>> \in Seq(Subs) /\ Len(<<>>) = 0
    BY EmptySeq
  <2>3. u \in SliceSet /\ u.len = 0 /\ Len(u.cells) = 0
    BY <2>1, <2>2 DEF SliceSet
  <2> HIDE DEF u
  <2>4. QED BY <1>3, <2>3 DEF u
<1>4. CASE v.len # 1
  <2> HIDE DEF c
  <2> DEFINE n == v.len - 1
  <2>1. u = [v EXCEPT !.cells = c, !.len = n]
    BY <1>4 DEF Without, c
  <2>2. n \in Nat
    BY <1>1
  <2> HIDE DEF n, u
  <2>3. /\ u.cells = c /\ u.len = n /\ u.cap = v.cap
        /\ u \in [cells : Seq(Subs), len : Nat, cap : Nat]
    BY <1>1, <1>2, <2>1, <2>2
  <2>4. n <= Len(c) /\ n <= v.cap
    <3>1. v.cap \in Nat /\ v.len <= v.cap
      BY DEF SliceSet
    <3>2. QED BY <1>1, <1>2, <3>1 DEF n
  <2>5. u \in SliceSet
    BY <2>3, <2>4 DEF SliceSet
  <2>6. \A i \in 1 .. n : c[i] = IF k <= i THEN v.cells[i + 1] ELSE v.cells[i]
    BY <1>1, <1>2 DEF n
  <2>7. \A i \in 1 .. Len(c) : \E j \in 1 .. Len(v.cells) : c[i] = v.cells[j]
    <3> SUFFICES ASSUME NEW i \in 1 .. Len(v.cells)
                 PROVE  \E j \in 1 .. Len(v.cells) : c[i] = v.cells[j]
      BY <1>2
    <3>1. CASE k <= i /\ i < v.len
      <4>1. c[i] = v.cells[i + 1] /\ i + 1 \in 1 .. Len(v.cells)
        BY <1>1, <1>2, <3>1
      <4>2. QED BY <4>1
    <3>2. CASE ~(k <= i /\ i < v.len)
      BY <1>2, <3>2
    <3>3. QED BY <3>1, <3>2
  <2>8. QED BY <2>3, <2>5, <2>6, <2>7 DEF n, u, c
<1>5. QED BY <1>3, <1>4

----------------------------------------------------------------------------
(* The lists.                                                              *)

\* A subscription that is in a list.
Present(s) == at[s] \in {"adding", "open"}

\* The types the lists and the counts need.
SubsTyped ==
    /\ load \in Loads /\ connects \in 0 .. MaxConnects /\ online \in BOOLEAN /\ closes \in Nat
    /\ at \in [Subs -> Phases] /\ registered \subseteq Streams /\ cancelled \subseteq Subs
    /\ arr \in [Lists -> SliceSet] /\ emit \in [Subs -> Int]
    /\ told \in [Channels -> Int] /\ doubt \in [Channels -> BOOLEAN]
    /\ sync \in [1 .. MaxConnects -> [Channels -> Int]]

\* A list holds its open subscriptions once each; what is left in its array beyond
\* its end once was in this list.
ListSound(l) ==
    /\ \A i \in 1 .. Len(arr[l].cells) : ListOf(arr[l].cells[i]) = l
    /\ \A i, j \in 1 .. arr[l].len : arr[l].cells[i] = arr[l].cells[j] => i = j
    /\ \A s \in Subs : ListOf(s) = l =>
          (Present(s) <=> \E i \in 1 .. arr[l].len : arr[l].cells[i] = s)
    /\ arr[l].len <= Limit

ListsSound == \A l \in Lists : ListSound(l)

\* How many of the list v are of the channel d.
Of(d, v) == {i \in 1 .. v.len : ChannelOf[v.cells[i]] = d}

LEMMA OfIsFinite ==
    ASSUME NEW v \in SliceSet, NEW d
    PROVE  IsFiniteSet(Of(d, v)) /\ Cardinality(Of(d, v)) \in Nat
<1>1. v.len \in Nat
  BY DEF SliceSet
<1>2. IsFiniteSet(1 .. v.len) /\ Of(d, v) \subseteq 1 .. v.len
  BY <1>1, FS_Interval DEF Of
<1>3. QED BY <1>2, FS_Subset, FS_CardinalityType

\* Who leaves does not change how many of another channel there are.
LEMMA OthersStay ==
    ASSUME NEW v \in SliceSet, NEW s \in Subs, NEW k \in 1 .. v.len, v.cells[k] = s,
           \A i, j \in 1 .. v.len : v.cells[i] = v.cells[j] => i = j,
           NEW d, d # ChannelOf[s]
    PROVE  Cardinality(Of(d, Without(v, s))) = Cardinality(Of(d, v))
<1> DEFINE u == Without(v, s)
           S == Of(d, u)
           T == Of(d, v)
           f == [i \in S |-> IF k <= i THEN i + 1 ELSE i]
<1>1. /\ v.len \in Nat /\ u \in SliceSet /\ u.len = v.len - 1
      /\ \A i \in 1 .. v.len - 1 : u.cells[i] = IF k <= i THEN v.cells[i + 1] ELSE v.cells[i]
  <2>1. v.len \in Nat
    BY DEF SliceSet
  <2>2. QED BY <2>1, WithoutShape
<1> HIDE DEF u
<1>2. S \subseteq 1 .. v.len - 1 /\ T \subseteq 1 .. v.len /\ k \notin T
  BY <1>1 DEF Of
<1>3. \A i \in S : f[i] \in T
  <2> SUFFICES ASSUME NEW i \in S PROVE f[i] \in T
    OBVIOUS
  <2>1. i \in 1 .. v.len - 1 /\ ChannelOf[u.cells[i]] = d
    BY <1>1 DEF Of
  <2>2. CASE k <= i
    BY <1>1, <2>1, <2>2 DEF Of
  <2>3. CASE ~(k <= i)
    BY <1>1, <2>1, <2>3 DEF Of
  <2>4. QED BY <2>2, <2>3
<1>4. \A i, j \in S : f[i] = f[j] => i = j
  BY <1>1, <1>2
<1>5. \A t \in T : \E i \in S : f[i] = t
  <2> SUFFICES ASSUME NEW t \in T PROVE \E i \in S : f[i] = t
    OBVIOUS
  <2>1. t \in 1 .. v.len /\ ChannelOf[v.cells[t]] = d /\ t # k
    BY <1>2 DEF Of
  <2>2. CASE t < k
    <3>1. t \in 1 .. v.len - 1 /\ u.cells[t] = v.cells[t]
      BY <1>1, <2>1, <2>2
    <3>2. t \in S
      BY <1>1, <2>1, <3>1 DEF Of
    <3>3. QED BY <2>1, <2>2, <3>2
  <2>3. CASE t > k
    <3>1. t - 1 \in 1 .. v.len - 1 /\ u.cells[t - 1] = v.cells[t]
      BY <1>1, <2>1, <2>3
    <3>2. t - 1 \in S
      BY <1>1, <2>1, <3>1 DEF Of
    <3>3. f[t - 1] = t
      BY <2>1, <2>3, <3>2
    <3>4. QED BY <3>2, <3>3
  <2>4. QED BY <2>1, <2>2, <2>3
<1>6. f \in [S -> T]
  BY <1>3
<1>7. f \in Bijection(S, T)
  BY <1>4, <1>5, <1>6 DEF Bijection, Injection, Surjection, IsInjective
<1>8. IsFiniteSet(S)
  BY <1>1, OfIsFinite
<1>9. Cardinality(T) = Cardinality(S)
  BY <1>7, <1>8, FS_Bijection DEF ExistsBijection
<1>10. QED BY <1>9 DEF u

\* AddXSSE, AddWSEvent: a list takes one more of its own.
LEMMA AddedShape ==
    ASSUME SubsTyped, ListsSound, NEW s \in Subs, ~Present(s), NEW l \in Lists, l = ListOf(s),
           ~Full(l), AddTo(l, s)
    PROVE  /\ arr' \in [Lists -> SliceSet] /\ arr'[l] = Appended(arr[l], s)
           /\ \A m \in Lists \ {l} : arr'[m] = arr[m]
           /\ at' \in [Subs -> Phases] /\ at'[s] = "adding"
           /\ \A t \in Subs \ {s} : at'[t] = at[t]
           /\ ListsSound'
<1>1. /\ arr' = [arr EXCEPT ![l] = Appended(@, s)] /\ at' = [at EXCEPT ![s] = "adding"]
  BY DEF AddTo
<1> DEFINE v == arr[l]
           u == Appended(v, s)
<1>2. v \in SliceSet /\ v.len \in Nat /\ v.len < Limit
  <2>1. v \in SliceSet
    BY DEF SubsTyped
  <2>2. v.len \in Nat
    BY <2>1 DEF SliceSet
  <2>3. QED BY <2>1, <2>2, SubsBounds DEF Full
<1>3. /\ u \in SliceSet /\ u.len = v.len + 1 /\ u.cells[v.len + 1] = s
      /\ \A i \in 1 .. v.len : u.cells[i] = v.cells[i]
      /\ \A i \in 1 .. Len(u.cells) :
            \/ u.cells[i] = s
            \/ i \in 1 .. Len(v.cells) /\ u.cells[i] = v.cells[i]
  BY <1>2, AppendedShape
<1> HIDE DEF u
<1>4. arr' = [arr EXCEPT ![l] = u]
  BY <1>1 DEF u
<1>5. /\ arr' \in [Lists -> SliceSet] /\ arr'[l] = u
      /\ \A m \in Lists \ {l} : arr'[m] = arr[m]
  BY <1>3, <1>4 DEF SubsTyped
<1>6. /\ at' \in [Subs -> Phases] /\ at'[s] = "adding"
      /\ \A t \in Subs \ {s} : at'[t] = at[t]
  BY <1>1 DEF SubsTyped, Phases
<1>7. ListSound(l)
  BY DEF ListsSound
<1> HIDE DEF v
<1>8. \A i \in 1 .. Len(u.cells) : ListOf(u.cells[i]) = l
  BY <1>3, <1>7 DEF ListSound, v
<1>9. \A i \in 1 .. v.len : v.cells[i] # s
  BY <1>7 DEF ListSound, v
<1>10. \A i, j \in 1 .. u.len : u.cells[i] = u.cells[j] => i = j
  <2> SUFFICES ASSUME NEW i \in 1 .. u.len, NEW j \in 1 .. u.len, u.cells[i] = u.cells[j]
               PROVE  i = j
    OBVIOUS
  <2>1. \A a, b \in 1 .. v.len : v.cells[a] = v.cells[b] => a = b
    BY <1>7 DEF ListSound, v
  <2>2. \A a \in 1 .. u.len : a \in 1 .. v.len \/ a = v.len + 1
    BY <1>2, <1>3
  <2>3. i \in 1 .. v.len <=> j \in 1 .. v.len
    BY <1>3, <1>9, <2>2
  <2>4. QED BY <1>3, <2>1, <2>2, <2>3
<1>11. ASSUME NEW t \in Subs, ListOf(t) = l
       PROVE  Present(t)' <=> \E i \in 1 .. u.len : u.cells[i] = t
  <2>1. Present(t) <=> \E i \in 1 .. v.len : v.cells[i] = t
    BY <1>7, <1>11 DEF ListSound, v
  <2>2. \A i \in 1 .. v.len : i \in 1 .. u.len
    BY <1>2, <1>3
  <2>3. v.len + 1 \in 1 .. u.len
    BY <1>2, <1>3
  <2>4. \A i \in 1 .. u.len : i \in 1 .. v.len \/ i = v.len + 1
    BY <1>2, <1>3
  <2>5. CASE t = s
    BY <1>3, <1>6, <2>3, <2>5 DEF Present
  <2>6. CASE t # s
    <3>1. Present(t)' <=> Present(t)
      BY <1>6, <2>6 DEF Present
    <3>2. QED BY <1>3, <2>1, <2>2, <2>4, <2>6, <3>1
  <2>7. QED BY <2>5, <2>6
<1>12. u.len <= Limit
  BY <1>2, <1>3, SubsBounds
<1>13. ASSUME NEW m \in Lists PROVE ListSound(m)'
  <2>1. CASE m = l
    BY <1>5, <1>8, <1>10, <1>11, <1>12, <2>1 DEF ListSound
  <2>2. CASE m # l
    <3>1. arr'[m] = arr[m] /\ ListSound(m)
      BY <1>5, <2>2 DEF ListsSound
    <3>2. \A t \in Subs : ListOf(t) = m => (Present(t)' <=> Present(t))
      BY <1>6, <2>2 DEF Present
    <3>3. QED BY <3>1, <3>2 DEF ListSound
  <2>3. QED BY <2>1, <2>2
<1>14. QED BY <1>5, <1>6, <1>13 DEF ListsSound, u, v

\* RemoveXSSE, RemoveWSEvent: one leaves its list.
LEMMA RemovedShape ==
    ASSUME SubsTyped, ListsSound, NEW s \in Subs, Present(s), NEW l \in Lists, l = ListOf(s),
           RemoveFrom(l, s), Move(s, "removing")
    PROVE  /\ arr' \in [Lists -> SliceSet] /\ arr'[l] = Without(arr[l], s)
           /\ \A m \in Lists \ {l} : arr'[m] = arr[m]
           /\ at' \in [Subs -> Phases] /\ at'[s] = "removing"
           /\ \A t \in Subs \ {s} : at'[t] = at[t]
           /\ ListsSound'
           /\ \E k \in 1 .. arr[l].len : arr[l].cells[k] = s
<1>1. /\ arr' = [arr EXCEPT ![l] = Without(@, s)] /\ at' = [at EXCEPT ![s] = "removing"]
  BY DEF RemoveFrom, Move
<1> DEFINE v == arr[l]
           u == Without(v, s)
<1>2. v \in SliceSet /\ v.len \in Nat /\ v.len <= Len(v.cells) /\ Len(v.cells) \in Nat
  <2>1. v \in SliceSet
    BY DEF SubsTyped
  <2> HIDE DEF v
  <2>2. QED BY <2>1, LenProperties DEF SliceSet
<1>3. ListSound(l)
  BY DEF ListsSound
<1>4. PICK k \in 1 .. v.len : v.cells[k] = s
  BY <1>3 DEF ListSound
<1>5. \A i, j \in 1 .. v.len : v.cells[i] = v.cells[j] => i = j
  BY <1>3 DEF ListSound
<1>6. /\ u \in SliceSet /\ u.len = v.len - 1
      /\ \A i \in 1 .. v.len - 1 : u.cells[i] = IF k <= i THEN v.cells[i + 1] ELSE v.cells[i]
      /\ \A i \in 1 .. Len(u.cells) : \E j \in 1 .. Len(v.cells) : u.cells[i] = v.cells[j]
  <2>1. v \in SliceSet
    BY <1>2
  <2> HIDE DEF v
  <2>2. /\ u \in SliceSet /\ u.len = v.len - 1
        /\ \A i \in 1 .. v.len - 1 : u.cells[i] = IF k <= i THEN v.cells[i + 1] ELSE v.cells[i]
    BY <1>4, <1>5, <2>1, WithoutShape
  <2>3. \A i \in 1 .. Len(u.cells) : \E j \in 1 .. Len(v.cells) : u.cells[i] = v.cells[j]
    BY <1>4, <1>5, <2>1, WithoutShape
  <2>4. QED BY <2>2, <2>3
<1> HIDE DEF u
<1>7. arr' = [arr EXCEPT ![l] = u]
  BY <1>1 DEF u
<1>8. /\ arr' \in [Lists -> SliceSet] /\ arr'[l] = u
      /\ \A m \in Lists \ {l} : arr'[m] = arr[m]
  BY <1>6, <1>7 DEF SubsTyped
<1>9. /\ at' \in [Subs -> Phases] /\ at'[s] = "removing"
      /\ \A t \in Subs \ {s} : at'[t] = at[t]
  BY <1>1 DEF SubsTyped, Phases
<1>10. \A i \in 1 .. Len(v.cells) : ListOf(v.cells[i]) = l
  BY <1>3 DEF ListSound
<1>11. v.len <= Limit /\ \A t \in Subs : ListOf(t) = l =>
          (Present(t) <=> \E i \in 1 .. v.len : v.cells[i] = t)
  BY <1>3 DEF ListSound
<1> HIDE DEF v
<1>12. \A i \in 1 .. Len(u.cells) : ListOf(u.cells[i]) = l
  BY <1>6, <1>10
<1>13. \A i \in 1 .. u.len : /\ IF k <= i THEN i + 1 \in 1 .. v.len /\ u.cells[i] = v.cells[i + 1]
                                          ELSE i \in 1 .. v.len /\ u.cells[i] = v.cells[i]
  BY <1>2, <1>6
<1>14. \A i, j \in 1 .. u.len : u.cells[i] = u.cells[j] => i = j
  <2> SUFFICES ASSUME NEW i \in 1 .. u.len, NEW j \in 1 .. u.len, u.cells[i] = u.cells[j]
               PROVE  i = j
    OBVIOUS
  <2>1. CASE k <= i /\ k <= j
    BY <1>2, <1>5, <1>6, <1>13, <2>1
  <2>2. CASE ~(k <= i) /\ ~(k <= j)
    BY <1>5, <1>13, <2>2
  <2>3. CASE k <= i /\ ~(k <= j)
    BY <1>2, <1>5, <1>6, <1>13, <2>3
  <2>4. CASE ~(k <= i) /\ k <= j
    BY <1>2, <1>5, <1>6, <1>13, <2>4
  <2>5. QED BY <2>1, <2>2, <2>3, <2>4
<1>15. ASSUME NEW t \in Subs, ListOf(t) = l
       PROVE  Present(t)' <=> \E i \in 1 .. u.len : u.cells[i] = t
  <2>1. Present(t) <=> \E i \in 1 .. v.len : v.cells[i] = t
    BY <1>11, <1>15
  <2>2. CASE t = s
    <3>1. ~Present(t)'
      BY <1>9, <2>2 DEF Present
    <3>2. ASSUME NEW i \in 1 .. u.len, u.cells[i] = s PROVE FALSE
      <4>1. CASE k <= i
        BY <1>2, <1>4, <1>5, <1>6, <1>13, <3>2, <4>1
      <4>2. CASE ~(k <= i)
        BY <1>2, <1>4, <1>5, <1>6, <1>13, <3>2, <4>2
      <4>3. QED BY <4>1, <4>2
    <3>3. QED BY <2>2, <3>1, <3>2
  <2>3. CASE t # s
    <3>1. Present(t)' <=> Present(t)
      BY <1>9, <2>3 DEF Present
    <3>2. ASSUME NEW j \in 1 .. v.len, v.cells[j] = t PROVE \E i \in 1 .. u.len : u.cells[i] = t
      <4>1. CASE j < k
        <5>1. j \in 1 .. u.len /\ u.cells[j] = t
          BY <1>2, <1>6, <3>2, <4>1
        <5>2. QED BY <5>1
      <4>2. CASE j > k
        <5>1. j - 1 \in 1 .. u.len /\ u.cells[j - 1] = t
          BY <1>2, <1>6, <3>2, <4>2
        <5>2. QED BY <5>1
      <4>3. j # k
        BY <1>4, <2>3, <3>2
      <4>4. QED BY <1>2, <4>1, <4>2, <4>3
    <3>3. ASSUME NEW i \in 1 .. u.len, u.cells[i] = t PROVE \E j \in 1 .. v.len : v.cells[j] = t
      BY <1>13, <3>3
    <3>4. QED BY <2>1, <3>1, <3>2, <3>3
  <2>4. QED BY <2>2, <2>3
<1>16. u.len <= Limit
  BY <1>2, <1>6, <1>11, SubsBounds
<1>17. ASSUME NEW m \in Lists PROVE ListSound(m)'
  <2>1. CASE m = l
    BY <1>8, <1>12, <1>14, <1>15, <1>16, <2>1 DEF ListSound
  <2>2. CASE m # l
    <3>1. arr'[m] = arr[m] /\ ListSound(m)
      BY <1>8, <2>2 DEF ListsSound
    <3>2. \A t \in Subs : ListOf(t) = m => (Present(t)' <=> Present(t))
      BY <1>9, <2>2 DEF Present
    <3>3. QED BY <3>1, <3>2 DEF ListSound
  <2>3. QED BY <2>1, <2>2
<1>18. QED BY <1>4, <1>8, <1>9, <1>17 DEF ListsSound, u, v

\* A stream is in the list of its channel, a socket's subscription in wsEvents.
LEMMA ListNames ==
    /\ "wsEvents" \in Lists /\ Channels \subseteq Lists
    /\ \A s \in Subs : ListOf(s) \in Lists /\ ChannelOf[s] \in Channels
    /\ \A s \in Streams : s \in Subs /\ s \notin Sockets /\ ListOf(s) = ChannelOf[s]
    /\ \A s \in Sockets : s \in Subs /\ s \notin Streams /\ ListOf(s) = "wsEvents"
BY SubsAssumption DEF Lists, ListOf, Subs

\* totalForChannel.
LEMMA TotalIsNat ==
    ASSUME NEW a \in [Lists -> SliceSet], NEW c \in Channels
    PROVE  /\ Total(c, a) = a[c].len + Cardinality(Of(c, a["wsEvents"]))
           /\ Total(c, a) \in Nat
<1>1. a[c] \in SliceSet /\ a["wsEvents"] \in SliceSet
  BY ListNames
<1>2. a[c].len \in Nat
  BY <1>1 DEF SliceSet
<1>3. Cardinality(Of(c, a["wsEvents"])) \in Nat
  BY <1>1, OfIsFinite
<1>4. Total(c, a) = a[c].len + Cardinality(Of(c, a["wsEvents"]))
  BY DEF Total, Of
<1>5. QED BY <1>2, <1>3, <1>4

\* notifyModuleChannelCount: a count that is not lost is the one the module has.
LEMMA NotifyShape ==
    ASSUME SubsTyped, NEW c \in Channels, NEW n \in Int, NotifyModule(c, n)
    PROVE  /\ told' \in [Channels -> Int] /\ doubt' \in [Channels -> BOOLEAN]
           /\ \A d \in Channels \ {c} : told'[d] = told[d] /\ doubt'[d] = doubt[d]
           /\ ~doubt'[c] => ~doubt[c] /\ (online => told'[c] = n)
<1>1. told \in [Channels -> Int] /\ doubt \in [Channels -> BOOLEAN]
  BY DEF SubsTyped
<1>2. CASE ~online
  BY <1>1, <1>2 DEF NotifyModule
<1>3. CASE online /\ told' = [told EXCEPT ![c] = n] /\ doubt' = doubt
  BY <1>1, <1>3
<1>4. CASE doubt' = [doubt EXCEPT ![c] = TRUE] /\ told' = told
  BY <1>1, <1>4
<1>5. QED BY <1>2, <1>3, <1>4 DEF NotifyModule

LEMMA ComputedShape ==
    ASSUME SubsTyped, NEW c \in Channels, Computed(c)
    PROVE  /\ doubt' \in [Channels -> BOOLEAN]
           /\ doubt'[c] <=> InFlight(c)
           /\ \A d \in Channels \ {c} : doubt'[d] = doubt[d]
<1>1. PICK b \in BOOLEAN : b <=> InFlight(c)
  OBVIOUS
<1>2. InFlight(c) = b
  BY <1>1 DEF InFlight
<1>3. doubt' = [doubt EXCEPT ![c] = b]
  BY <1>2 DEF Computed
<1>4. QED BY <1>1, <1>3 DEF SubsTyped

\* What a connection holds of a channel is replaced.
Synced(n, c, x) == [sync EXCEPT ![n][c] = x]

LEMMA SyncShape ==
    ASSUME SubsTyped, NEW n \in 1 .. MaxConnects, NEW c \in Channels, NEW x \in Int,
           sync' = Synced(n, c, x)
    PROVE  /\ sync' \in [1 .. MaxConnects -> [Channels -> Int]] /\ sync'[n][c] = x
           /\ \A d \in Channels \ {c} : sync'[n][d] = sync[n][d]
           /\ \A m \in (1 .. MaxConnects) \ {n} : sync'[m] = sync[m]
<1>1. sync \in [1 .. MaxConnects -> [Channels -> Int]] /\ sync[n] \in [Channels -> Int]
  BY DEF SubsTyped
<1> DEFINE new == [sync[n] EXCEPT ![c] = x]
<1>2. new \in [Channels -> Int] /\ new[c] = x /\ \A d \in Channels \ {c} : new[d] = sync[n][d]
  BY <1>1
<1>3. sync' = [sync EXCEPT ![n] = new]
  BY DEF Synced
<1> HIDE DEF new
<1>4. QED BY <1>1, <1>2, <1>3

\* What an entry or an exit counts.
LEMMA EmittedShape ==
    ASSUME SubsTyped, NEW s \in Subs, arr' \in [Lists -> SliceSet],
           emit' = [emit EXCEPT ![s] = Total(ChannelOf[s], arr')]
    PROVE  /\ emit' \in [Subs -> Int] /\ emit'[s] = Total(ChannelOf[s], arr')
           /\ emit'[s] # NoCount
           /\ \A t \in Subs \ {s} : emit'[t] = emit[t]
<1> DEFINE n == Total(ChannelOf[s], arr')
<1>1. n \in Nat
  BY ListNames, TotalIsNat
<1> HIDE DEF n
<1>2. emit' = [emit EXCEPT ![s] = n]
  BY DEF n
<1>3. QED BY <1>1, <1>2 DEF SubsTyped, n, NoCount

LEMMA MovedShape ==
    ASSUME SubsTyped, NEW s \in Subs, NEW to \in Phases, Move(s, to)
    PROVE  /\ at' \in [Subs -> Phases] /\ at'[s] = to
           /\ \A t \in Subs \ {s} : at'[t] = at[t]
BY DEF SubsTyped, Move

LEMMA ListsUnmoved ==
    ASSUME ListsSound, arr' = arr, \A s \in Subs : Present(s)' <=> Present(s)
    PROVE  ListsSound'
<1>1. ASSUME NEW l \in Lists PROVE ListSound(l)'
  BY DEF ListsSound, ListSound
<1>2. QED BY <1>1 DEF ListsSound

LEMMA LoadBounds ==
    ASSUME SubsTyped
    PROVE  load.connects <= MaxConnects /\ load.connects \in Int /\ connects \in Nat
<1>1. load \in [subs : SUBSET Subs, events : SUBSET Events,
                connects : 0 .. MaxConnects, faults : 0 .. MaxFaults]
  BY SubsAssumption DEF SubsTyped
<1>2. QED BY <1>1, SubsBounds DEF SubsTyped

\* The module comes and goes.
LEMMA PresenceTyped ==
    ASSUME SubsTyped, Connect \/ Disconnect \/ PeerClose \/ CloseForClientID PROVE SubsTyped'
<1>1. CASE Connect
  <2>1. connects + 1 \in 1 .. MaxConnects /\ connects + 1 \in 0 .. MaxConnects
    BY <1>1, LoadBounds, SubsBounds DEF Connect
  <2> DEFINE n == connects + 1
             due == [c \in Channels |-> Due]
  <2>2. /\ online' = TRUE /\ connects' = n /\ told' = [c \in Channels |-> 0]
        /\ sync' = [sync EXCEPT ![n] = due]
        /\ doubt' = [c \in Channels |-> doubt[c] /\ InFlight(c)]
        /\ UNCHANGED <<load, closes, emit, at, registered, cancelled, arr>>
    BY <1>1 DEF Connect
  <2>3. due \in [Channels -> Int]
    BY DEF Due
  <2>4. doubt' \in [Channels -> BOOLEAN]
    <3>1. \A c \in Channels : (doubt[c] /\ InFlight(c)) \in BOOLEAN
      OBVIOUS
    <3>2. QED BY <2>2, <3>1
  <2> HIDE DEF n, due
  <2>5. sync' \in [1 .. MaxConnects -> [Channels -> Int]]
    BY <2>2, <2>3 DEF SubsTyped
  <2>6. QED BY <2>1, <2>2, <2>4, <2>5 DEF SubsTyped, n
<1>2. CASE Disconnect
  <2>1. /\ online' = FALSE /\ closes' = closes + 1
        /\ UNCHANGED <<load, connects, counts, at, registered, cancelled, arr>>
    BY <1>2 DEF Disconnect
  <2>2. closes' \in Nat
    BY <2>1 DEF SubsTyped
  <2>3. QED BY <2>1, <2>2 DEF SubsTyped, counts
<1>3. CASE PeerClose
  <2>1. /\ closes' = closes + 1
        /\ UNCHANGED <<load, online, connects, counts, at, registered, cancelled, arr>>
    BY <1>3 DEF PeerClose
  <2>2. closes' \in Nat
    BY <2>1 DEF SubsTyped
  <2>3. QED BY <2>1, <2>2 DEF SubsTyped, counts
<1>4. CASE CloseForClientID
  <2>1. registered \subseteq Subs
    BY ListNames DEF SubsTyped
  <2>2. /\ closes > 0 /\ closes' = closes - 1 /\ cancelled' = cancelled \cup registered
        /\ registered' = {} /\ UNCHANGED <<load, online, connects, counts, at, arr>>
    BY <1>4 DEF CloseForClientID
  <2>3. closes' \in Nat
    BY <2>2 DEF SubsTyped
  <2>4. QED BY <2>1, <2>2, <2>3 DEF SubsTyped, counts
<1>5. QED BY <1>1, <1>2, <1>3, <1>4

LEMMA SyncTyped ==
    ASSUME SubsTyped, NEW n \in 1 .. connects, NEW c \in Channels, SyncRead(n, c) \/ SyncSend(n, c)
    PROVE  SubsTyped' /\ UNCHANGED <<arr, at>>
<1>1. n \in 1 .. MaxConnects
  BY SubsBounds DEF SubsTyped
<1>2. CASE SyncRead(n, c)
  <2> DEFINE x == Total(c, arr)
  <2>1. /\ sync' = Synced(n, c, x)
        /\ doubt' = doubt \/ Computed(c)
        /\ UNCHANGED <<load, connects, online, closes, at, registered, cancelled, arr, emit, told>>
    BY <1>2 DEF SyncRead, Synced, presence
  <2>2. x \in Int
    <3>1. arr \in [Lists -> SliceSet]
      BY DEF SubsTyped
    <3>2. QED BY <3>1, TotalIsNat
  <2> HIDE DEF x
  <2>3. sync' \in [1 .. MaxConnects -> [Channels -> Int]]
    BY <1>1, <2>1, <2>2, SyncShape
  <2>4. doubt' \in [Channels -> BOOLEAN]
    BY <2>1, ComputedShape DEF SubsTyped
  <2>5. QED BY <2>1, <2>3, <2>4 DEF SubsTyped
<1>3. CASE SyncSend(n, c)
  <2>1. /\ sync' = Synced(n, c, Off) /\ NotifyModule(c, sync[n][c])
        /\ UNCHANGED <<load, connects, online, closes, at, registered, cancelled, arr, emit>>
    BY <1>3 DEF SyncSend, Synced, presence
  <2>2. Off \in Int /\ sync[n][c] \in Int
    <3>1. sync \in [1 .. MaxConnects -> [Channels -> Int]]
      BY DEF SubsTyped
    <3>2. sync[n] \in [Channels -> Int]
      BY <1>1, <3>1
    <3>3. QED BY <3>2 DEF Off
  <2>3. sync' \in [1 .. MaxConnects -> [Channels -> Int]]
    BY <1>1, <2>1, <2>2, SyncShape
  <2>4. told' \in [Channels -> Int] /\ doubt' \in [Channels -> BOOLEAN]
    BY <2>1, <2>2, NotifyShape
  <2>5. QED BY <2>1, <2>3, <2>4 DEF SubsTyped
<1>4. QED BY <1>2, <1>3

LEMMA AddedTyped ==
    ASSUME SubsTyped, ListsSound, NEW s \in Subs, ~Present(s), NEW l \in Lists, l = ListOf(s),
           ~Full(l), AddTo(l, s), UNCHANGED <<presence, told, sync, drops, registered, cancelled>>
    PROVE  SubsTyped' /\ ListsSound'
<1>1. arr' \in [Lists -> SliceSet] /\ at' \in [Subs -> Phases] /\ ListsSound'
  BY AddedShape
<1>2. emit' = [emit EXCEPT ![s] = Total(ChannelOf[s], arr')] /\ Computed(ChannelOf[s])
  BY DEF AddTo
<1>3. emit' \in [Subs -> Int] /\ doubt' \in [Channels -> BOOLEAN]
  BY <1>1, <1>2, EmittedShape, ComputedShape, ListNames
<1>4. QED BY <1>1, <1>3 DEF SubsTyped, presence

\* Returns: the deferred calls of a handler.
LEMMA ReturnTyped ==
    ASSUME SubsTyped, NEW s \in Subs, Return(s)
    PROVE  /\ registered' \subseteq Streams /\ cancelled' \subseteq Subs
           /\ \A t \in Subs \ {s} : /\ t \in registered' <=> t \in registered
                                    /\ t \in cancelled' <=> t \in cancelled
           /\ cancelled \subseteq cancelled'
BY DEF SubsTyped, Return

LEMMA AdmitTyped ==
    ASSUME SubsTyped, ListsSound, NEW s \in Streams, Admit(s) PROVE SubsTyped' /\ ListsSound'
<1>1. s \in Subs /\ ListOf(s) \in Lists /\ at[s] = "armed"
  BY ListNames DEF Admit
<1>2. CASE s \in Foreign \/ Full(ListOf(s))
  <2>1. /\ Move(s, "gone") /\ Return(s) /\ "gone" \in Phases
        /\ UNCHANGED <<arr, told, sync, emit, doubt, presence>>
    BY <1>2 DEF Admit, counts, Phases
  <2>2. at' \in [Subs -> Phases] /\ at'[s] = "gone" /\ \A t \in Subs \ {s} : at'[t] = at[t]
    BY <1>1, <2>1, MovedShape
  <2>3. registered' \subseteq Streams /\ cancelled' \subseteq Subs
    BY <1>1, <2>1, ReturnTyped
  <2>4. SubsTyped'
    BY <2>1, <2>2, <2>3 DEF SubsTyped, presence
  <2>5. ListsSound'
    BY <1>1, <2>1, <2>2, ListsUnmoved DEF Present
  <2>6. QED BY <2>4, <2>5
<1>3. CASE ~(s \in Foreign \/ Full(ListOf(s)))
  <2>1. AddTo(ListOf(s), s) /\ UNCHANGED <<presence, told, sync, drops, registered, cancelled>>
    BY <1>3 DEF Admit
  <2>2. ~Present(s)
    BY <1>1 DEF Present
  <2>3. QED BY <1>1, <1>3, <2>1, <2>2, AddedTyped
<1>4. QED BY <1>2, <1>3

LEMMA SubscribeTyped ==
    ASSUME SubsTyped, ListsSound, NEW s \in Sockets, Subscribe(s) PROVE SubsTyped' /\ ListsSound'
<1>1. s \in Subs /\ ListOf(s) = "wsEvents" /\ "wsEvents" \in Lists /\ at[s] = "idle"
  BY ListNames DEF Subscribe
<1>2. CASE Full("wsEvents")
  <2>1. /\ Move(s, "gone") /\ "gone" \in Phases
        /\ UNCHANGED <<arr, told, sync, emit, doubt, presence, registered, cancelled>>
    BY <1>2 DEF Subscribe, counts, Phases
  <2>2. at' \in [Subs -> Phases] /\ at'[s] = "gone" /\ \A t \in Subs \ {s} : at'[t] = at[t]
    BY <1>1, <2>1, MovedShape
  <2>3. SubsTyped'
    BY <2>1, <2>2 DEF SubsTyped, presence
  <2>4. ListsSound'
    BY <1>1, <2>1, <2>2, ListsUnmoved DEF Present
  <2>5. QED BY <2>3, <2>4
<1>3. CASE ~Full("wsEvents")
  <2>1. AddTo("wsEvents", s) /\ UNCHANGED <<presence, told, sync, drops, registered, cancelled>>
    BY <1>3 DEF Subscribe
  <2>2. ~Present(s)
    BY <1>1 DEF Present
  <2>3. QED BY <1>1, <1>3, <2>1, <2>2, AddedTyped
<1>4. QED BY <1>2, <1>3

LEMMA EmitTyped ==
    ASSUME SubsTyped, ListsSound, NEW s \in Subs, Emit(s) PROVE SubsTyped' /\ ListsSound'
<1>1. /\ at[s] \in {"adding", "removing"} /\ NotifyModule(ChannelOf[s], emit[s])
      /\ emit' = [emit EXCEPT ![s] = NoCount]
      /\ UNCHANGED <<load, online, connects, closes, sync, arr>>
  BY DEF Emit, presence
<1>2. ChannelOf[s] \in Channels /\ emit[s] \in Int /\ NoCount \in Int
  BY ListNames DEF SubsTyped, NoCount
<1>3. told' \in [Channels -> Int] /\ doubt' \in [Channels -> BOOLEAN]
  BY <1>1, <1>2, NotifyShape
<1>4. emit' \in [Subs -> Int]
  BY <1>1, <1>2 DEF SubsTyped
<1>5. \/ at[s] = "adding" /\ Move(s, "open") /\ UNCHANGED <<registered, cancelled>>
      \/ at[s] = "removing" /\ Move(s, "gone") /\ Return(s)
  BY <1>1 DEF Emit
<1>6. /\ at' \in [Subs -> Phases] /\ \A t \in Subs \ {s} : at'[t] = at[t]
      /\ \/ at[s] = "adding" /\ at'[s] = "open"
         \/ at[s] = "removing" /\ at'[s] = "gone"
  BY <1>5, MovedShape DEF Phases
<1>7. registered' \subseteq Streams /\ cancelled' \subseteq Subs
  BY <1>5, ReturnTyped DEF SubsTyped
<1>8. SubsTyped'
  BY <1>1, <1>3, <1>4, <1>6, <1>7 DEF SubsTyped
<1>9. ListsSound'
  BY <1>1, <1>6, ListsUnmoved DEF Present
<1>10. QED BY <1>8, <1>9

LEMMA WithdrawTyped ==
    ASSUME SubsTyped, ListsSound, NEW s \in Subs, Withdraw(s) PROVE SubsTyped' /\ ListsSound'
<1>1. /\ at[s] = "open" /\ RemoveFrom(ListOf(s), s) /\ Move(s, "removing")
      /\ UNCHANGED <<presence, told, sync, registered, cancelled>>
  BY DEF Withdraw
<1>2. Present(s) /\ ListOf(s) \in Lists
  BY <1>1, ListNames DEF Present
<1>3. arr' \in [Lists -> SliceSet] /\ at' \in [Subs -> Phases] /\ ListsSound'
  BY <1>1, <1>2, RemovedShape
<1>4. emit' = [emit EXCEPT ![s] = Total(ChannelOf[s], arr')] /\ Computed(ChannelOf[s])
  BY <1>1 DEF RemoveFrom
<1>5. emit' \in [Subs -> Int] /\ doubt' \in [Channels -> BOOLEAN]
  BY <1>3, <1>4, EmittedShape, ComputedShape, ListNames
<1>6. QED BY <1>1, <1>3, <1>5 DEF SubsTyped, presence

LEMMA OtherTyped ==
    ASSUME SubsTyped, ListsSound, NEW s \in Subs,
           Resolve(s) \/ (s \in Streams /\ Arm(s)) \/ HangUp(s)
    PROVE  SubsTyped' /\ ListsSound'
<1>1. CASE Resolve(s)
  <2>1. /\ \E to \in {"resolved", "gone"} : Move(s, to)
        /\ at[s] = "idle" /\ UNCHANGED <<presence, counts, registered, cancelled, arr>>
    BY <1>1 DEF Resolve
  <2>2. /\ at' \in [Subs -> Phases] /\ \A t \in Subs \ {s} : at'[t] = at[t]
        /\ at'[s] \in {"resolved", "gone"}
    BY <2>1, MovedShape DEF Phases
  <2>3. SubsTyped'
    BY <2>1, <2>2 DEF SubsTyped, presence, counts
  <2>4. ListsSound'
    BY <2>1, <2>2, ListsUnmoved DEF Present
  <2>5. QED BY <2>3, <2>4
<1>2. CASE s \in Streams /\ Arm(s)
  <2>1. /\ Move(s, "armed") /\ at[s] = "resolved" /\ registered' = registered \cup {s}
        /\ UNCHANGED <<presence, counts, cancelled, arr>>
    BY <1>2 DEF Arm
  <2>2. /\ at' \in [Subs -> Phases] /\ at'[s] = "armed"
        /\ \A t \in Subs \ {s} : at'[t] = at[t]
    BY <2>1, MovedShape DEF Phases
  <2>3. SubsTyped'
    BY <1>2, <2>1, <2>2 DEF SubsTyped, presence, counts
  <2>4. \A t \in Subs : Present(t)' <=> Present(t)
    BY <2>1, <2>2 DEF Present
  <2>5. ListsSound'
    BY <2>1, <2>4, ListsUnmoved
  <2>6. QED BY <2>3, <2>5
<1>3. CASE HangUp(s)
  <2>1. cancelled' = cancelled \cup {s} /\ UNCHANGED <<presence, counts, at, registered, arr>>
    BY <1>3 DEF HangUp
  <2>2. SubsTyped'
    BY <2>1 DEF SubsTyped, presence, counts
  <2>3. ListsSound'
    BY <2>1, ListsUnmoved DEF Present
  <2>4. QED BY <2>2, <2>3
<1>4. QED BY <1>1, <1>2, <1>3

\* The fan-out of an event changes no list.
FanStep ==
    \/ \E s \in Streams : Write(s)
    \/ \E e \in Events : EventArrives(e)
    \/ FanToStream \/ FanToSockets \/ FanToSocket \/ FanDone

LEMMA FanTouchesNoList ==
    ASSUME FanStep PROVE UNCHANGED <<presence, counts, at, registered, cancelled, arr, late>>
BY DEF FanStep, Write, EventArrives, FanToStream, FanToSockets, FanToSocket, FanDone

LEMMA SubsTypedStays ==
    ASSUME SubsTyped, ListsSound, [SubsNext]_subsVars PROVE SubsTyped' /\ ListsSound'
<1>1. CASE Connect \/ Disconnect \/ PeerClose \/ CloseForClientID
  <2>1. arr' = arr /\ at' = at
    BY <1>1 DEF Connect, Disconnect, PeerClose, CloseForClientID
  <2>2. ListsSound'
    BY <2>1, ListsUnmoved DEF Present
  <2>3. QED BY <1>1, <2>2, PresenceTyped
<1>2. CASE \E n \in 1 .. connects, c \in Channels : SyncRead(n, c) \/ SyncSend(n, c)
  <2>1. SubsTyped' /\ UNCHANGED <<arr, at>>
    BY <1>2, SyncTyped
  <2>2. QED BY <2>1, ListsUnmoved DEF Present
<1>3. CASE FanStep
  <2>1. UNCHANGED <<presence, counts, at, registered, cancelled, arr>>
    BY <1>3, FanTouchesNoList
  <2>2. SubsTyped'
    BY <2>1 DEF SubsTyped, presence, counts
  <2>3. QED BY <2>1, <2>2, ListsUnmoved DEF Present
<1>4. CASE UNCHANGED subsVars
  <2>1. UNCHANGED <<presence, counts, at, registered, cancelled, arr>>
    BY <1>4 DEF subsVars
  <2>2. SubsTyped'
    BY <2>1 DEF SubsTyped, presence, counts
  <2>3. QED BY <2>1, <2>2, ListsUnmoved DEF Present
<1>5. CASE \E s \in Streams : Resolve(s) \/ Arm(s) \/ Admit(s)
  BY <1>5, ListNames, OtherTyped, AdmitTyped
<1>6. CASE \E s \in Sockets : Subscribe(s) \/ Unsubscribe(s)
  BY <1>6, ListNames, SubscribeTyped, WithdrawTyped DEF Unsubscribe
<1>7. CASE \E s \in Subs : Emit(s) \/ HangUp(s) \/ Remove(s)
  BY <1>7, EmitTyped, OtherTyped, WithdrawTyped DEF Remove
<1>8. QED BY <1>1, <1>2, <1>3, <1>4, <1>5, <1>6, <1>7 DEF SubsNext, FanStep

LEMMA SubsStart == ASSUME SubsInit PROVE SubsTyped /\ ListsSound
<1>1. /\ load \in Loads /\ online = FALSE /\ connects = 0 /\ closes = 0
      /\ told = [c \in Channels |-> 0] /\ doubt = [c \in Channels |-> FALSE]
      /\ sync = [n \in 1 .. MaxConnects |-> [c \in Channels |-> Off]]
      /\ at = [s \in Subs |-> IF s \in load.subs THEN "idle" ELSE "gone"]
      /\ registered = {} /\ cancelled = {} /\ arr = [l \in Lists |-> EmptySlice]
      /\ emit = [s \in Subs |-> NoCount]
  BY DEF SubsInit
<1>2. EmptySlice \in SliceSet /\ EmptySlice.len = 0 /\ Len(EmptySlice.cells) = 0
  <2>1. <<>> \in Seq(Subs) /\ Len(<<>>) = 0
    BY EmptySeq
  <2>2. QED BY <2>1 DEF EmptySlice, SliceSet
<1>3. SubsTyped
  <2>0. connects \in 0 .. MaxConnects
    <3>1. MaxConnects \in Nat
      BY SubsBounds
    <3>2. QED BY <1>1, <3>1
  <2>1. closes \in Nat /\ online \in BOOLEAN
    BY <1>1
  <2>2. at \in [Subs -> Phases] /\ emit \in [Subs -> Int]
    BY <1>1 DEF Phases, NoCount
  <2>3. arr \in [Lists -> SliceSet]
    BY <1>1, <1>2
  <2>4. told \in [Channels -> Int] /\ doubt \in [Channels -> BOOLEAN]
    BY <1>1
  <2>5. sync \in [1 .. MaxConnects -> [Channels -> Int]]
    BY <1>1 DEF Off
  <2>6. QED BY <1>1, <2>0, <2>1, <2>2, <2>3, <2>4, <2>5 DEF SubsTyped
<1>4. ASSUME NEW l \in Lists PROVE ListSound(l)
  <2>1. arr[l].len = 0 /\ Len(arr[l].cells) = 0
    BY <1>1, <1>2
  <2>2. \A s \in Subs : ~Present(s)
    BY <1>1 DEF Present
  <2>3. QED BY <2>1, <2>2, SubsBounds DEF ListSound
<1>5. QED BY <1>3, <1>4 DEF ListsSound

\* The lists of subscribers stay what AddXSSE, RemoveXSSE and their kin take them
\* to be, through every append and every in-place removal.
THEOREM ListsAreTheOpen == SubsSpec => [](SubsTyped /\ ListsSound)
<1>1. SubsTyped /\ ListsSound /\ [SubsNext]_subsVars => (SubsTyped /\ ListsSound)'
  BY SubsTypedStays
<1>2. QED BY <1>1, SubsStart, PTL DEF SubsSpec

\* The lists hold the subscriptions that are open, once each, never more than the
\* limit: Add, Remove and the check of MaxSSEConnectionsPerClient.
THEOREM ListsHold == SubsSpec => []ListsHoldTheOpen
<1>1. ASSUME SubsTyped, ListsSound PROVE ListsHoldTheOpen
  <2> SUFFICES ASSUME NEW l \in Lists
               PROVE  /\ Listed(l, arr) = {s \in Subs : ListOf(s) = l /\ Present(s)}
                      /\ arr[l].len = Cardinality(Listed(l, arr)) /\ arr[l].len <= Limit
    BY <1>1 DEF ListsHoldTheOpen, Present
  <2> DEFINE v == arr[l]
             n == v.len
             S == Listed(l, arr)
             f == [i \in 1 .. n |-> v.cells[i]]
  <2>1. ListSound(l) /\ v \in SliceSet
    BY <1>1 DEF ListsSound, SubsTyped
  <2>2. n \in Nat /\ n <= Len(v.cells) /\ v.cells \in Seq(Subs) /\ Len(v.cells) \in Nat
    <3> HIDE DEF v
    <3>1. QED BY <2>1, LenProperties DEF SliceSet
  <2>3. /\ \A i \in 1 .. Len(v.cells) : ListOf(v.cells[i]) = l
        /\ \A i, j \in 1 .. n : v.cells[i] = v.cells[j] => i = j
        /\ \A s \in Subs : ListOf(s) = l => (Present(s) <=> \E i \in 1 .. n : v.cells[i] = s)
        /\ n <= Limit
    BY <2>1 DEF ListSound
  <2>4. S = {v.cells[i] : i \in 1 .. n}
    BY DEF Listed
  <2> HIDE DEF v, S
  <2>5. \A i \in 1 .. n : v.cells[i] \in Subs /\ ListOf(v.cells[i]) = l
    <3>1. \A i \in 1 .. Len(v.cells) : v.cells[i] \in Subs
      BY <2>2, ElementOfSeq
    <3>2. QED BY <2>2, <2>3, <3>1
  <2> HIDE DEF n
  <2>6. S = {s \in Subs : ListOf(s) = l /\ Present(s)}
    BY <2>3, <2>4, <2>5
  <2>7. f \in Bijection(1 .. n, S)
    BY <2>3, <2>4 DEF Bijection, Injection, Surjection, IsInjective
  <2>8. Cardinality(S) = n
    <3>1. IsFiniteSet(1 .. n) /\ Cardinality(1 .. n) = n
      BY <2>2, FS_Interval
    <3>2. QED BY <2>7, <3>1, FS_Bijection DEF ExistsBijection
  <2>9. QED BY <2>3, <2>6, <2>8 DEF n, v, S
<1>2. QED BY <1>1, ListsAreTheOpen, PTL

----------------------------------------------------------------------------
(* The streams are cut.                                                    *)

\* A handler past RegisterSSECancel is registered or cancelled; once the world is
\* offline and closed, only those that came too late are registered, or will be.
CutSound ==
    /\ \A s \in Streams : at[s] \in {"armed", "adding", "open"} => s \in registered \cup cancelled
    /\ ~online /\ closes = 0 =>
          registered \subseteq late /\ \A s \in Streams : at[s] = "resolved" => s \in late

LEMMA CutUnmoved ==
    ASSUME CutSound, UNCHANGED <<online, closes, at, registered, cancelled, late>>
    PROVE  CutSound'
BY DEF CutSound

\* Where one subscription goes, and its deferred calls.
LEMMA CutMoved ==
    ASSUME SubsTyped, CutSound, NEW s \in Subs, NEW to \in Phases \ {"resolved"},
           Move(s, to), UNCHANGED <<online, closes, late>>,
           \/ UNCHANGED <<registered, cancelled>> /\ to \in {"adding", "open"}
              /\ at[s] \in {"armed", "adding", "idle"} /\ (at[s] = "idle" => s \in Sockets)
           \/ UNCHANGED <<registered, cancelled>> /\ to \in {"removing", "gone"}
           \/ Return(s) /\ to = "gone"
    PROVE  CutSound'
<1>1. at' \in [Subs -> Phases] /\ at'[s] = to /\ \A t \in Subs \ {s} : at'[t] = at[t]
  BY MovedShape
<1>2. Streams \subseteq Subs /\ Streams \cap Sockets = {}
  BY ListNames
<1>3. registered' \subseteq registered
  BY DEF Return
<1>4. \A t \in Streams \ {s} : t \in registered \cup cancelled => (t \in registered \cup cancelled)'
  BY DEF Return
<1>5. s \in Streams /\ at'[s] \in {"armed", "adding", "open"} => s \in registered' \cup cancelled'
  <2>1. CASE UNCHANGED <<registered, cancelled>> /\ to \in {"adding", "open"}
             /\ at[s] \in {"armed", "adding", "idle"} /\ (at[s] = "idle" => s \in Sockets)
    BY <1>1, <1>2, <2>1 DEF CutSound
  <2>2. CASE to \in {"removing", "gone"}
    BY <1>1, <2>2
  <2>3. QED BY <2>1, <2>2
<1>6. \A t \in Streams : at'[t] \in {"armed", "adding", "open"} => t \in registered' \cup cancelled'
  BY <1>1, <1>2, <1>4, <1>5 DEF CutSound
<1>7. \A t \in Streams : at'[t] = "resolved" => at[t] = "resolved"
  BY <1>1, <1>2
<1>8. QED BY <1>3, <1>6, <1>7 DEF CutSound

LEMMA CutStays ==
    ASSUME SubsTyped, ListsSound, CutSound, [SubsNext]_subsVars PROVE CutSound'
<1> DEFINE Rest == UNCHANGED <<online, closes, late>>
<1>1. CASE Connect
  <2>1. online' = TRUE /\ UNCHANGED <<at, registered, cancelled>>
    BY <1>1 DEF Connect
  <2>2. QED BY <2>1 DEF CutSound
<1>2. CASE Disconnect \/ PeerClose
  <2>1. closes' = closes + 1 /\ closes \in Nat /\ UNCHANGED <<at, registered, cancelled>>
    BY <1>2 DEF Disconnect, PeerClose, SubsTyped
  <2>2. closes' # 0
    BY <2>1
  <2>3. QED BY <2>1, <2>2 DEF CutSound
<1>3. CASE CloseForClientID
  BY <1>3 DEF CloseForClientID, CutSound
<1>4. CASE \E n \in 1 .. connects, c \in Channels : SyncRead(n, c) \/ SyncSend(n, c)
  <2>1. UNCHANGED <<online, closes, at, registered, cancelled, late>>
    BY <1>4 DEF SyncRead, SyncSend, presence
  <2>2. QED BY <2>1, CutUnmoved
<1>5. CASE FanStep
  BY <1>5, FanTouchesNoList, CutUnmoved DEF presence
<1>6. CASE UNCHANGED subsVars
  BY <1>6, CutUnmoved DEF subsVars, presence
<1>7. ASSUME NEW s \in Streams, Resolve(s) PROVE CutSound'
  <2>1. /\ at[s] = "idle" /\ UNCHANGED <<online, closes, late, registered, cancelled>>
        /\ Move(s, IF online THEN "resolved" ELSE "gone")
    BY <1>7 DEF Resolve, presence
  <2>2. s \in Subs
    BY ListNames
  <2>3. CASE online
    <3>1. at'[s] = "resolved" /\ \A t \in Subs \ {s} : at'[t] = at[t]
      BY <2>1, <2>2, <2>3, MovedShape DEF Phases
    <3>2. \A t \in Streams : t \in Subs
      BY ListNames
    <3>3. QED BY <2>1, <2>3, <3>1, <3>2 DEF CutSound
  <2>4. CASE ~online
    BY <2>1, <2>2, <2>4, CutMoved DEF Phases
  <2>5. QED BY <2>3, <2>4
<1>8. ASSUME NEW s \in Streams, Arm(s) PROVE CutSound'
  <2>1. /\ at[s] = "resolved" /\ UNCHANGED <<online, closes, late, cancelled>>
        /\ registered' = registered \cup {s} /\ Move(s, "armed")
    BY <1>8 DEF Arm, presence
  <2>2. \A t \in Streams : t \in Subs
    BY ListNames
  <2>3. at'[s] = "armed" /\ \A t \in Subs \ {s} : at'[t] = at[t]
    BY <2>1, <2>2, MovedShape DEF Phases
  <2>4. QED BY <2>1, <2>2, <2>3 DEF CutSound
<1>9. ASSUME NEW s \in Streams, Admit(s) PROVE CutSound'
  <2>1. s \in Subs /\ at[s] = "armed" /\ Rest
    BY <1>9, ListNames DEF Admit, presence
  <2>2. CASE s \in Foreign \/ Full(ListOf(s))
    <3>1. Move(s, "gone") /\ Return(s)
      BY <1>9, <2>2 DEF Admit
    <3>2. QED BY <2>1, <3>1, CutMoved DEF Phases
  <2>3. CASE ~(s \in Foreign \/ Full(ListOf(s)))
    <3>1. Move(s, "adding") /\ UNCHANGED <<registered, cancelled>>
      BY <1>9, <2>3 DEF Admit, AddTo, Move
    <3>2. QED BY <2>1, <3>1, CutMoved DEF Phases
  <2>4. QED BY <2>2, <2>3
<1>10. ASSUME NEW s \in Sockets, Subscribe(s) PROVE CutSound'
  <2>1. s \in Subs /\ at[s] = "idle" /\ Rest /\ UNCHANGED <<registered, cancelled>>
    BY <1>10, ListNames DEF Subscribe, presence
  <2>2. Move(s, "gone") \/ Move(s, "adding")
    BY <1>10 DEF Subscribe, AddTo, Move
  <2>3. QED BY <2>1, <2>2, CutMoved DEF Phases
<1>11. ASSUME NEW s \in Subs, Withdraw(s) PROVE CutSound'
  <2>1. Move(s, "removing") /\ Rest /\ UNCHANGED <<registered, cancelled>>
    BY <1>11 DEF Withdraw, presence
  <2>2. QED BY <2>1, CutMoved DEF Phases
<1>12. ASSUME NEW s \in Subs, Emit(s) PROVE CutSound'
  <2>1. Rest /\ \/ at[s] = "adding" /\ Move(s, "open") /\ UNCHANGED <<registered, cancelled>>
                \/ Move(s, "gone") /\ Return(s)
    BY <1>12 DEF Emit, presence
  <2>2. QED BY <2>1, CutMoved DEF Phases
<1>13. ASSUME NEW s \in Subs, HangUp(s) PROVE CutSound'
  <2>1. cancelled' = cancelled \cup {s} /\ Rest /\ UNCHANGED <<at, registered>>
    BY <1>13 DEF HangUp, presence
  <2>2. QED BY <2>1 DEF CutSound
<1>14. CASE \E s \in Streams : Resolve(s) \/ Arm(s) \/ Admit(s)
  BY <1>7, <1>8, <1>9, <1>14
<1>15. CASE \E s \in Sockets : Subscribe(s) \/ Unsubscribe(s)
  BY <1>10, <1>11, <1>15, ListNames DEF Unsubscribe
<1>16. CASE \E s \in Subs : Emit(s) \/ HangUp(s) \/ Remove(s)
  BY <1>11, <1>12, <1>13, <1>16 DEF Remove
<1>17. QED
  BY <1>1, <1>2, <1>3, <1>4, <1>5, <1>6, <1>14, <1>15, <1>16 DEF SubsNext, FanStep

\* Once the world is offline and its OnSSEClose has run, its streams are cancelled,
\* but for those that had looked it up and not yet registered: CloseForClientID
\* against every interleaving with the start of a handler.
THEOREM CutsReach == SubsSpec => []StreamsAreCut
<1>1. SubsInit => CutSound
  BY ListNames DEF SubsInit, CutSound
<1>2. SubsTyped /\ ListsSound /\ CutSound /\ [SubsNext]_subsVars => CutSound'
  BY CutStays
<1>3. CutSound => StreamsAreCut
  BY DEF CutSound, StreamsAreCut
<1>4. QED BY <1>1, <1>2, <1>3, ListsAreTheOpen, PTL DEF SubsSpec

----------------------------------------------------------------------------
(* The counts.                                                             *)

\* Counts that are on their way from the list to the module are right, unless two
\* overlapped; with none on its way the module knows, or a connection has yet to read.
CountSound(c) ==
    /\ ~doubt[c] =>
          /\ \A s \in Subs : ChannelOf[s] = c /\ emit[s] # NoCount => emit[s] = Total(c, arr)
          /\ \A n \in 1 .. connects : sync[n][c] > 0 => sync[n][c] = Total(c, arr)
    /\ online /\ ~doubt[c] /\ ~InFlight(c) =>
          \/ told[c] = Total(c, arr)
          \/ told[c] = 0 /\ \E n \in 1 .. connects : sync[n][c] = Due

\* A subscription that is to tell the module has a count to tell.
CountsSound ==
    /\ \A s \in Subs : at[s] \in {"adding", "removing"} => emit[s] # NoCount
    /\ \A c \in Channels : CountSound(c)

\* A step that is nothing to the channel c.
CountKept(c) ==
    /\ Total(c, arr)' = Total(c, arr)
    /\ \A s \in Subs : ChannelOf[s] = c => emit'[s] = emit[s]
    /\ connects' = connects /\ \A n \in 1 .. connects : sync'[n][c] = sync[n][c]
    /\ told'[c] = told[c] /\ doubt'[c] = doubt[c] /\ (online' => online)

LEMMA CountKeeps == ASSUME NEW c \in Channels, CountSound(c), CountKept(c) PROVE CountSound(c)'
<1>1. InFlight(c)' <=> InFlight(c)
  BY DEF InFlight, CountKept
<1>2. QED BY <1>1 DEF CountKept, CountSound

\* Whoever enters or leaves a list counts for the channel of the entry alone.
LEMMA AddedTotals ==
    ASSUME SubsTyped, ListsSound, NEW s \in Subs, ~Present(s), NEW l \in Lists, l = ListOf(s),
           ~Full(l), AddTo(l, s), NEW d \in Channels, d # ChannelOf[s]
    PROVE  Total(d, arr') = Total(d, arr)
<1>1. /\ arr \in [Lists -> SliceSet] /\ arr' \in [Lists -> SliceSet]
      /\ arr'[l] = Appended(arr[l], s) /\ \A m \in Lists \ {l} : arr'[m] = arr[m]
  BY AddedShape DEF SubsTyped
<1>2. "wsEvents" \in Lists /\ d \in Lists
  BY ListNames
<1>3. CASE s \in Streams
  <2>1. l = ChannelOf[s] /\ l # "wsEvents"
    BY <1>3, ListNames, SubsAssumption
  <2>2. arr'[d] = arr[d] /\ arr'["wsEvents"] = arr["wsEvents"]
    BY <1>1, <1>2, <2>1
  <2>3. QED BY <2>2 DEF Total
<1>4. CASE s \in Sockets
  <2>1. l = "wsEvents" /\ d # "wsEvents"
    BY <1>4, ListNames, SubsAssumption
  <2>2. arr'[d] = arr[d]
    BY <1>1, <1>2, <2>1
  <2> DEFINE v == arr["wsEvents"]
             u == Appended(v, s)
  <2>3. v \in SliceSet /\ arr'["wsEvents"] = u
    BY <1>1, <1>2, <2>1
  <2>4. /\ u.len = v.len + 1 /\ u.cells[v.len + 1] = s
        /\ \A i \in 1 .. v.len : u.cells[i] = v.cells[i]
    <3> HIDE DEF v
    <3>1. QED BY <2>3, AppendedShape
  <2>5. v.len \in Nat
    BY <2>3 DEF SliceSet
  <2> HIDE DEF u, v
  <2>6. Of(d, u) = Of(d, v)
    <3>1. \A i \in 1 .. u.len : i \in 1 .. v.len \/ i = v.len + 1
      BY <2>4, <2>5
    <3>2. \A i \in 1 .. v.len : i \in 1 .. u.len
      BY <2>4, <2>5
    <3>3. QED BY <2>4, <3>1, <3>2 DEF Of
  <2>7. Total(d, arr') = arr'[d].len + Cardinality(Of(d, u))
    BY <2>3 DEF Total, Of
  <2>8. Total(d, arr) = arr[d].len + Cardinality(Of(d, v))
    BY DEF Total, Of, v
  <2>9. QED BY <2>2, <2>6, <2>7, <2>8
<1>5. QED BY <1>3, <1>4 DEF Subs

LEMMA RemovedTotals ==
    ASSUME SubsTyped, ListsSound, NEW s \in Subs, Present(s), NEW l \in Lists, l = ListOf(s),
           RemoveFrom(l, s), Move(s, "removing"), NEW d \in Channels, d # ChannelOf[s]
    PROVE  Total(d, arr') = Total(d, arr)
<1>1. /\ arr \in [Lists -> SliceSet] /\ arr' \in [Lists -> SliceSet]
      /\ arr'[l] = Without(arr[l], s) /\ \A m \in Lists \ {l} : arr'[m] = arr[m]
      /\ \E k \in 1 .. arr[l].len : arr[l].cells[k] = s
  <2>1. arr \in [Lists -> SliceSet]
    BY DEF SubsTyped
  <2>2. QED BY <2>1, RemovedShape, Zenon
<1>2. "wsEvents" \in Lists /\ d \in Lists
  BY ListNames
<1>3. CASE s \in Streams
  <2>1. l = ChannelOf[s] /\ l # "wsEvents"
    BY <1>3, ListNames, SubsAssumption
  <2>2. arr'[d] = arr[d] /\ arr'["wsEvents"] = arr["wsEvents"]
    BY <1>1, <1>2, <2>1
  <2>3. QED BY <2>2 DEF Total
<1>4. CASE s \in Sockets
  <2>1. l = "wsEvents" /\ d # "wsEvents"
    BY <1>4, ListNames, SubsAssumption
  <2>2. arr'[d] = arr[d]
    BY <1>1, <1>2, <2>1
  <2> DEFINE v == arr["wsEvents"]
             u == Without(v, s)
  <2>3. v \in SliceSet /\ arr'["wsEvents"] = u
    BY <1>1, <1>2, <2>1
  <2>4. PICK k \in 1 .. v.len : v.cells[k] = s
    BY <1>1, <2>1
  <2>5. \A i, j \in 1 .. v.len : v.cells[i] = v.cells[j] => i = j
    BY <1>2 DEF ListsSound, ListSound
  <2>6. Cardinality(Of(d, u)) = Cardinality(Of(d, v))
    <3> HIDE DEF v
    <3>1. QED BY <2>3, <2>4, <2>5, OthersStay
  <2> HIDE DEF u, v
  <2>7. Total(d, arr') = arr'[d].len + Cardinality(Of(d, u))
    BY <2>3 DEF Total, Of
  <2>8. Total(d, arr) = arr[d].len + Cardinality(Of(d, v))
    BY DEF Total, Of, v
  <2>9. QED BY <2>2, <2>6, <2>7, <2>8
<1>5. QED BY <1>3, <1>4 DEF Subs

\* A list changes: the count that is taken is the only one on its way, or in doubt.
LEMMA TakenCounts ==
    ASSUME SubsTyped, CountsSound, NEW s \in Subs, arr' \in [Lists -> SliceSet],
           \A d \in Channels : d # ChannelOf[s] => Total(d, arr') = Total(d, arr),
           emit' = [emit EXCEPT ![s] = Total(ChannelOf[s], arr')], Computed(ChannelOf[s]),
           at' \in [Subs -> Phases], \A t \in Subs \ {s} : at'[t] = at[t],
           UNCHANGED <<presence, told, sync>>
    PROVE  CountsSound'
<1> DEFINE c == ChannelOf[s]
<1>1. /\ emit'[s] = Total(c, arr') /\ emit'[s] # NoCount
      /\ \A t \in Subs \ {s} : emit'[t] = emit[t]
  BY EmittedShape
<1>2. c \in Channels
  BY ListNames
<1>3. (doubt'[c] <=> InFlight(c)) /\ \A d \in Channels \ {c} : doubt'[d] = doubt[d]
  BY <1>2, ComputedShape
<1>4. connects' = connects /\ online' = online /\ told' = told /\ sync' = sync
  BY DEF presence
<1>5. \A t \in Subs : at'[t] \in {"adding", "removing"} => emit'[t] # NoCount
  BY <1>1 DEF CountsSound
<1>6. ASSUME NEW d \in Channels, d # c PROVE CountSound(d)'
  <2>1. CountKept(d)
    BY <1>1, <1>3, <1>4, <1>6 DEF CountKept
  <2>2. QED BY <2>1, CountKeeps DEF CountsSound
<1>7. CountSound(c)'
  <2>1. InFlight(c)'
    BY <1>1 DEF InFlight
  <2>2. ASSUME ~doubt'[c]
        PROVE  /\ \A t \in Subs :
                     ChannelOf[t] = c /\ emit'[t] # NoCount => emit'[t] = Total(c, arr')
               /\ \A n \in 1 .. connects : sync'[n][c] > 0 => sync'[n][c] = Total(c, arr')
    <3>1. ~InFlight(c)
      BY <1>3, <2>2
    <3>2. QED BY <1>1, <1>4, <3>1 DEF InFlight
  <2>3. QED BY <1>4, <2>1, <2>2 DEF CountSound
<1>8. QED BY <1>5, <1>6, <1>7 DEF CountsSound

\* A count reaches the module, or is lost; it is on its way no more.
LEMMA SentCounts ==
    ASSUME SubsTyped, NEW c \in Channels, CountSound(c), NEW x \in Int, NotifyModule(c, x),
           ~doubt[c] => x = Total(c, arr),
           arr' = arr, connects' = connects, online' = online,
           \A t \in Subs : ChannelOf[t] = c => emit'[t] \in {emit[t], NoCount},
           \A n \in 1 .. connects : sync'[n][c] = sync[n][c] \/ sync'[n][c] = Off
    PROVE  CountSound(c)'
<1>1. ~doubt'[c] => ~doubt[c] /\ (online => told'[c] = x)
  BY NotifyShape
<1>2. Total(c, arr)' = Total(c, arr)
  OBVIOUS
<1>3. ASSUME ~doubt'[c]
      PROVE  /\ \A t \in Subs : ChannelOf[t] = c /\ emit'[t] # NoCount => emit'[t] = Total(c, arr')
             /\ \A n \in 1 .. connects : sync'[n][c] > 0 => sync'[n][c] = Total(c, arr')
             /\ online => told'[c] = Total(c, arr')
  BY <1>1, <1>3 DEF CountSound, Off
<1>4. QED BY <1>3 DEF CountSound

LEMMA EmitCounts ==
    ASSUME SubsTyped, CountsSound, NEW s \in Subs, Emit(s) PROVE CountsSound'
<1> DEFINE c == ChannelOf[s]
           x == emit[s]
<1>1. /\ at[s] \in {"adding", "removing"} /\ NotifyModule(c, x)
      /\ emit' = [emit EXCEPT ![s] = NoCount]
      /\ UNCHANGED <<connects, online, sync, arr>>
  BY DEF Emit, presence
<1>2. c \in Channels /\ x \in Int /\ x # NoCount
  BY <1>1, ListNames DEF SubsTyped, CountsSound
<1>3. emit'[s] = NoCount /\ \A t \in Subs \ {s} : emit'[t] = emit[t]
  BY <1>1 DEF SubsTyped
<1>4. Move(s, "open") \/ Move(s, "gone")
  BY DEF Emit
<1>5. at'[s] \in {"open", "gone"} /\ \A t \in Subs \ {s} : at'[t] = at[t]
  BY <1>4, MovedShape DEF Phases
<1>6. \A t \in Subs : at'[t] \in {"adding", "removing"} => emit'[t] # NoCount
  BY <1>3, <1>5 DEF CountsSound
<1>7. ASSUME NEW d \in Channels, d # c PROVE CountSound(d)'
  <2>1. told'[d] = told[d] /\ doubt'[d] = doubt[d]
    BY <1>1, <1>2, <1>7, NotifyShape
  <2>2. CountKept(d)
    BY <1>1, <1>3, <1>7, <2>1 DEF CountKept
  <2>3. QED BY <2>2, CountKeeps DEF CountsSound
<1>8. CountSound(c)'
  <2>1. CountSound(c) /\ (~doubt[c] => x = Total(c, arr))
    BY <1>2 DEF CountsSound, CountSound
  <2> HIDE DEF x
  <2>2. QED BY <1>1, <1>2, <1>3, <2>1, SentCounts
<1>9. QED BY <1>6, <1>7, <1>8 DEF CountsSound

LEMMA ConnectCounts == ASSUME SubsTyped, CountsSound, Connect PROVE CountsSound'
<1> DEFINE n == connects + 1
           due == [c \in Channels |-> Due]
<1>1. /\ connects' = n /\ sync' = [sync EXCEPT ![n] = due]
      /\ told' = [c \in Channels |-> 0]
      /\ doubt' = [c \in Channels |-> doubt[c] /\ InFlight(c)]
      /\ UNCHANGED <<emit, at, arr>>
  BY DEF Connect
<1>2. connects \in Nat /\ n \in 1 .. MaxConnects
  BY LoadBounds, SubsBounds DEF Connect
<1>3. n \in 1 .. n /\ \A m \in 1 .. n : m = n \/ m \in 1 .. connects
  BY <1>2
<1>4. \A m \in 1 .. connects : m # n
  BY <1>2
<1> HIDE DEF n
<1>5. \A c \in Channels : sync'[n][c] = Due /\ \A m \in 1 .. connects : sync'[m] = sync[m]
  BY <1>1, <1>2, <1>4 DEF SubsTyped
<1>6. ASSUME NEW c \in Channels PROVE CountSound(c)'
  <2>1. told'[c] = 0 /\ sync'[n][c] = Due /\ ~(Due > 0)
    BY <1>1, <1>5 DEF Due
  <2>2. doubt'[c] <=> doubt[c] /\ InFlight(c)
    BY <1>1
  <2>3. ASSUME ~doubt'[c]
        PROVE  /\ \A s \in Subs : ChannelOf[s] = c /\ emit[s] # NoCount => emit[s] = Total(c, arr)
               /\ \A m \in 1 .. connects : sync[m][c] > 0 => sync[m][c] = Total(c, arr)
    <3>1. CASE ~doubt[c]
      BY <3>1 DEF CountsSound, CountSound
    <3>2. CASE ~InFlight(c)
      BY <3>2 DEF InFlight
    <3>3. QED BY <2>2, <2>3, <3>1, <3>2
  <2>4. ~doubt'[c] => \A m \in 1 .. n : sync'[m][c] > 0 => sync'[m][c] = Total(c, arr)
    BY <1>3, <1>5, <2>1, <2>3
  <2>5. QED BY <1>1, <1>3, <2>1, <2>3, <2>4 DEF CountSound
<1>7. QED BY <1>1, <1>6 DEF CountsSound

LEMMA SyncReadCounts ==
    ASSUME SubsTyped, CountsSound, NEW n \in 1 .. connects, NEW c \in Channels, SyncRead(n, c)
    PROVE  CountsSound'
<1> DEFINE x == Total(c, arr)
<1>1. /\ sync[n][c] = Due /\ sync' = Synced(n, c, x)
      /\ (x = 0 /\ doubt' = doubt) \/ (x # 0 /\ Computed(c))
      /\ UNCHANGED <<connects, online, told, emit, at, arr>>
  BY DEF SyncRead, Synced, presence
<1>2. x \in Nat
  <2>1. arr \in [Lists -> SliceSet]
    BY DEF SubsTyped
  <2>2. QED BY <2>1, TotalIsNat
<1>3. n \in 1 .. MaxConnects /\ \A m \in 1 .. connects : m \in 1 .. MaxConnects
  BY SubsBounds DEF SubsTyped
<1> HIDE DEF x
<1>4. /\ sync'[n][c] = x /\ \A d \in Channels \ {c} : sync'[n][d] = sync[n][d]
      /\ \A m \in 1 .. connects : m # n => sync'[m] = sync[m]
  <2>1. x \in Int /\ sync' = Synced(n, c, x)
    BY <1>1, <1>2
  <2>2. /\ sync'[n][c] = x /\ \A d \in Channels \ {c} : sync'[n][d] = sync[n][d]
        /\ \A m \in (1 .. MaxConnects) \ {n} : sync'[m] = sync[m]
    BY <1>3, <2>1, SyncShape
  <2>3. QED BY <1>3, <2>2
<1>5. ASSUME NEW d \in Channels, d # c PROVE CountSound(d)'
  <2>1. doubt'[d] = doubt[d]
    BY <1>1, <1>5, ComputedShape
  <2>2. \A m \in 1 .. connects : sync'[m][d] = sync[m][d]
    BY <1>4, <1>5
  <2>3. CountKept(d)
    BY <1>1, <2>1, <2>2 DEF CountKept
  <2>4. QED BY <2>3, CountKeeps DEF CountsSound
<1>6. CountSound(c)
  BY DEF CountsSound
<1>7. ASSUME x = 0 PROVE CountSound(c)'
  <2>1. doubt' = doubt
    BY <1>1, <1>7
  <2>2. \A m \in 1 .. connects : sync'[m][c] > 0 <=> m # n /\ sync[m][c] > 0
    BY <1>4, <1>7
  <2>3. ~(sync[n][c] > 0)
    BY <1>1 DEF Due
  <2>4. InFlight(c)' <=> InFlight(c)
    BY <1>1, <2>2, <2>3 DEF InFlight
  <2>5. Total(c, arr)' = x /\ Total(c, arr) = x
    BY <1>1 DEF x
  <2>6. \A m \in 1 .. connects : sync'[m][c] > 0 => sync[m][c] > 0 /\ sync'[m][c] = sync[m][c]
    BY <1>4, <2>2
  <2>7. ~doubt[c] => \A m \in 1 .. connects : sync'[m][c] > 0 => sync'[m][c] = x
    BY <1>6, <2>5, <2>6 DEF CountSound
  <2>8. online /\ ~doubt[c] /\ ~InFlight(c) => told[c] = x
    BY <1>6, <1>7, <2>5 DEF CountSound
  <2>9. /\ ~doubt'[c] =>
              /\ \A s \in Subs : ChannelOf[s] = c /\ emit'[s] # NoCount => emit'[s] = Total(c, arr)'
              /\ \A m \in 1 .. connects' : sync'[m][c] > 0 => sync'[m][c] = Total(c, arr)'
    BY <1>1, <1>6, <2>1, <2>5, <2>7 DEF CountSound
  <2>10. online' /\ ~doubt'[c] /\ ~InFlight(c)' => told'[c] = Total(c, arr)'
    BY <1>1, <2>1, <2>4, <2>5, <2>8
  <2>11. QED BY <2>9, <2>10 DEF CountSound
<1>8. ASSUME x # 0 PROVE CountSound(c)'
  <2>1. x > 0 /\ InFlight(c)'
    BY <1>1, <1>2, <1>4, <1>8 DEF InFlight
  <2>2. doubt'[c] <=> InFlight(c)
    BY <1>1, <1>8, ComputedShape
  <2>3. Total(c, arr)' = x
    BY <1>1 DEF x
  <2>4. ~doubt'[c] => /\ \A s \in Subs : ChannelOf[s] = c => emit'[s] = NoCount
                      /\ \A m \in 1 .. connects : m # n => ~(sync'[m][c] > 0)
    BY <1>1, <1>4, <2>2 DEF InFlight
  <2>5. ~doubt'[c] =>
           /\ \A s \in Subs : ChannelOf[s] = c /\ emit'[s] # NoCount => emit'[s] = Total(c, arr)'
           /\ \A m \in 1 .. connects' : sync'[m][c] > 0 => sync'[m][c] = Total(c, arr)'
    BY <1>1, <1>4, <2>3, <2>4
  <2>6. QED BY <2>1, <2>5 DEF CountSound
<1>9. QED BY <1>1, <1>5, <1>7, <1>8 DEF CountsSound

LEMMA SyncSendCounts ==
    ASSUME SubsTyped, CountsSound, NEW n \in 1 .. connects, NEW c \in Channels, SyncSend(n, c)
    PROVE  CountsSound'
<1> DEFINE x == sync[n][c]
<1>1. /\ x > 0 /\ sync' = Synced(n, c, Off) /\ NotifyModule(c, x)
      /\ UNCHANGED <<connects, online, emit, at, arr>>
  BY DEF SyncSend, Synced, presence
<1>2. n \in 1 .. MaxConnects /\ \A m \in 1 .. connects : m \in 1 .. MaxConnects
  BY SubsBounds DEF SubsTyped
<1>3. Off \in Int /\ x \in Int
  <2>1. sync \in [1 .. MaxConnects -> [Channels -> Int]]
    BY DEF SubsTyped
  <2>2. QED BY <1>2, <2>1 DEF Off
<1>4. /\ sync'[n][c] = Off /\ \A d \in Channels \ {c} : sync'[n][d] = sync[n][d]
      /\ \A m \in 1 .. connects : m # n => sync'[m] = sync[m]
  <2>1. sync' = Synced(n, c, Off)
    BY <1>1
  <2>2. /\ sync'[n][c] = Off /\ \A d \in Channels \ {c} : sync'[n][d] = sync[n][d]
        /\ \A m \in (1 .. MaxConnects) \ {n} : sync'[m] = sync[m]
    BY <1>2, <1>3, <2>1, SyncShape
  <2>3. QED BY <1>2, <2>2
<1>5. CountSound(c) /\ (~doubt[c] => x = Total(c, arr))
  BY <1>1 DEF CountsSound, CountSound
<1> HIDE DEF x
<1>6. ASSUME NEW d \in Channels, d # c PROVE CountSound(d)'
  <2>1. told'[d] = told[d] /\ doubt'[d] = doubt[d]
    BY <1>1, <1>3, <1>6, NotifyShape
  <2>2. \A m \in 1 .. connects : sync'[m][d] = sync[m][d]
    BY <1>4, <1>6
  <2>3. CountKept(d)
    BY <1>1, <2>1, <2>2 DEF CountKept
  <2>4. QED BY <2>3, CountKeeps DEF CountsSound
<1>7. CountSound(c)'
  <2>1. \A m \in 1 .. connects : sync'[m][c] = sync[m][c] \/ sync'[m][c] = Off
    BY <1>4
  <2>2. QED BY <1>1, <1>3, <1>5, <2>1, SentCounts
<1>8. QED BY <1>1, <1>6, <1>7 DEF CountsSound

LEMMA CountsUnmoved ==
    ASSUME CountsSound, UNCHANGED <<connects, told, sync, emit, doubt, arr>>, online' => online,
           \A s \in Subs : at'[s] \in {"adding", "removing"} => at[s] \in {"adding", "removing"}
    PROVE  CountsSound'
<1>1. ASSUME NEW c \in Channels PROVE CountSound(c)'
  <2>1. CountKept(c)
    BY DEF CountKept
  <2>2. QED BY <2>1, CountKeeps DEF CountsSound
<1>2. QED BY <1>1 DEF CountsSound

LEMMA AddToCounts ==
    ASSUME SubsTyped, ListsSound, CountsSound, NEW s \in Subs, ~Present(s), ~Full(ListOf(s)),
           AddTo(ListOf(s), s), UNCHANGED <<presence, told, sync>>
    PROVE  CountsSound'
<1>1. ListOf(s) \in Lists
  BY ListNames
<1>2. /\ arr' \in [Lists -> SliceSet] /\ at' \in [Subs -> Phases]
      /\ \A t \in Subs \ {s} : at'[t] = at[t]
  BY <1>1, AddedShape
<1>3. \A d \in Channels : d # ChannelOf[s] => Total(d, arr') = Total(d, arr)
  BY <1>1, AddedTotals
<1>4. emit' = [emit EXCEPT ![s] = Total(ChannelOf[s], arr')] /\ Computed(ChannelOf[s])
  BY DEF AddTo
<1>5. QED BY <1>2, <1>3, <1>4, TakenCounts

LEMMA WithdrawCounts ==
    ASSUME SubsTyped, ListsSound, CountsSound, NEW s \in Subs, Withdraw(s) PROVE CountsSound'
<1>1. /\ at[s] = "open" /\ RemoveFrom(ListOf(s), s) /\ Move(s, "removing")
      /\ UNCHANGED <<presence, told, sync>>
  BY DEF Withdraw
<1>2. Present(s) /\ ListOf(s) \in Lists
  BY <1>1, ListNames DEF Present
<1>3. /\ arr' \in [Lists -> SliceSet] /\ at' \in [Subs -> Phases]
      /\ \A t \in Subs \ {s} : at'[t] = at[t]
  BY <1>1, <1>2, RemovedShape
<1>4. \A d \in Channels : d # ChannelOf[s] => Total(d, arr') = Total(d, arr)
  BY <1>1, <1>2, RemovedTotals
<1>5. emit' = [emit EXCEPT ![s] = Total(ChannelOf[s], arr')] /\ Computed(ChannelOf[s])
  BY <1>1 DEF RemoveFrom
<1>6. QED BY <1>1, <1>3, <1>4, <1>5, TakenCounts

\* A subscription that moves past the lists.
LEMMA MovedCounts ==
    ASSUME SubsTyped, CountsSound, NEW s \in Subs, NEW to \in Phases \ {"adding", "removing"},
           Move(s, to), UNCHANGED <<presence, counts, arr>>
    PROVE  CountsSound'
<1>1. at'[s] = to /\ \A t \in Subs \ {s} : at'[t] = at[t]
  BY MovedShape
<1>2. QED BY <1>1, CountsUnmoved DEF presence, counts

LEMMA CountsStay ==
    ASSUME SubsTyped, ListsSound, CountsSound, [SubsNext]_subsVars PROVE CountsSound'
<1>1. CASE Connect
  BY <1>1, ConnectCounts
<1>2. CASE Disconnect \/ PeerClose \/ CloseForClientID
  <2>1. UNCHANGED <<connects, counts, at, arr>> /\ (online' => online)
    BY <1>2 DEF Disconnect, PeerClose, CloseForClientID
  <2>2. QED BY <2>1, CountsUnmoved DEF counts
<1>3. CASE \E n \in 1 .. connects, c \in Channels : SyncRead(n, c) \/ SyncSend(n, c)
  BY <1>3, SyncReadCounts, SyncSendCounts
<1>4. CASE FanStep
  BY <1>4, FanTouchesNoList, CountsUnmoved DEF presence, counts
<1>5. CASE UNCHANGED subsVars
  BY <1>5, CountsUnmoved DEF subsVars, presence, counts
<1>6. ASSUME NEW s \in Streams, Resolve(s) \/ Arm(s) PROVE CountsSound'
  <2>1. \E to \in Phases \ {"adding", "removing"} :
           Move(s, to) /\ UNCHANGED <<presence, counts, arr>>
    BY <1>6 DEF Resolve, Arm, Phases
  <2>2. QED BY <2>1, ListNames, MovedCounts
<1>7. ASSUME NEW s \in Streams, Admit(s) PROVE CountsSound'
  <2>1. s \in Subs /\ ~Present(s) /\ UNCHANGED presence
    BY <1>7, ListNames DEF Admit, Present
  <2>2. CASE s \in Foreign \/ Full(ListOf(s))
    <3>1. Move(s, "gone") /\ UNCHANGED <<counts, arr>>
      BY <1>7, <2>2 DEF Admit
    <3>2. QED BY <2>1, <3>1, MovedCounts DEF Phases
  <2>3. CASE ~(s \in Foreign \/ Full(ListOf(s)))
    <3>1. AddTo(ListOf(s), s) /\ UNCHANGED <<told, sync>>
      BY <1>7, <2>3 DEF Admit
    <3>2. QED BY <2>1, <2>3, <3>1, AddToCounts
  <2>4. QED BY <2>2, <2>3
<1>8. ASSUME NEW s \in Sockets, Subscribe(s) PROVE CountsSound'
  <2>1. s \in Subs /\ ~Present(s) /\ UNCHANGED presence /\ ListOf(s) = "wsEvents"
    BY <1>8, ListNames DEF Subscribe, Present
  <2>2. CASE Full("wsEvents")
    <3>1. Move(s, "gone") /\ UNCHANGED <<counts, arr>>
      BY <1>8, <2>2 DEF Subscribe
    <3>2. QED BY <2>1, <3>1, MovedCounts DEF Phases
  <2>3. CASE ~Full("wsEvents")
    <3>1. AddTo(ListOf(s), s) /\ UNCHANGED <<told, sync>>
      BY <1>8, <2>1, <2>3 DEF Subscribe
    <3>2. QED BY <2>1, <2>3, <3>1, AddToCounts
  <2>4. QED BY <2>2, <2>3
<1>9. ASSUME NEW s \in Subs, HangUp(s) PROVE CountsSound'
  <2>1. UNCHANGED <<presence, counts, at, arr>>
    BY <1>9 DEF HangUp
  <2>2. QED BY <2>1, CountsUnmoved DEF presence, counts
<1>10. CASE \E s \in Streams : Resolve(s) \/ Arm(s) \/ Admit(s)
  BY <1>6, <1>7, <1>10
<1>11. CASE \E s \in Sockets : Subscribe(s) \/ Unsubscribe(s)
  BY <1>8, <1>11, WithdrawCounts, ListNames DEF Unsubscribe
<1>12. CASE \E s \in Subs : Emit(s) \/ HangUp(s) \/ Remove(s)
  BY <1>9, <1>12, EmitCounts, WithdrawCounts DEF Remove
<1>13. QED
  BY <1>1, <1>2, <1>3, <1>4, <1>5, <1>10, <1>11, <1>12 DEF SubsNext, FanStep

\* The connected module has been told how many subscribers a channel has, whatever
\* the order in which counts are taken and sent, unless two overlapped or one was
\* dropped: emitCountChanged and OnClientConnected, which send outside the lock.
THEOREM CountsAreRight == SubsSpec => []CountsReachTheModule
<1>1. SubsInit => CountsSound
  <2> SUFFICES ASSUME SubsInit PROVE CountsSound
    OBVIOUS
  <2>1. /\ online = FALSE /\ connects = 0 /\ emit = [s \in Subs |-> NoCount]
        /\ at = [s \in Subs |-> IF s \in load.subs THEN "idle" ELSE "gone"]
    BY DEF SubsInit
  <2>2. \A c \in Channels : CountSound(c)
    BY <2>1 DEF CountSound
  <2>3. QED BY <2>1, <2>2 DEF CountsSound
<1>2. SubsTyped /\ ListsSound /\ CountsSound /\ [SubsNext]_subsVars => CountsSound'
  BY CountsStay
<1>3. CountsSound => CountsReachTheModule
  BY DEF CountsSound, CountSound, CountsReachTheModule, Quiet
<1>4. QED BY <1>1, <1>2, <1>3, ListsAreTheOpen, PTL DEF SubsSpec

----------------------------------------------------------------------------
(* The walk.                                                               *)

\* fanoutChatEvent, fanoutHookEvent, ... in a loop over a list; that list, and the
\* array the loop walks over.
InWalk == fan.stage \in {"streams", "sockets"}
WalkedList == IF fan.stage = "streams" THEN fan.ev.ch ELSE "wsEvents"
Walked == IF fan.frozen = Shared THEN arr[WalkedList].cells ELSE fan.frozen

WalkSet == [stage : {"streams", "sockets"}, ev : Events, len : Nat, next : Nat,
            frozen : Seq(Subs)]

\* The types the walk needs.
FanTyped ==
    /\ fan \in [stage : {"idle"}] \cup WalkSet \cup [stage : {"over"}, ev : Events]
    /\ writing \in [Streams -> Nat] /\ got \in [Subs -> Nat]
    /\ steady \subseteq Subs /\ shifted \subseteq Lists

\* The walk stays within its array, whose cells are all of its list; if nobody left
\* the list, they are distinct, and the list is at least as long as the walk.
WalkSound == InWalk =>
    /\ fan.next \in 1 .. fan.len + 1 /\ fan.len <= Len(Walked)
    /\ \A i \in 1 .. Len(Walked) : ListOf(Walked[i]) = WalkedList
    /\ WalkedList \notin shifted =>
          /\ \A i, j \in 1 .. fan.len : Walked[i] = Walked[j] => i = j
          /\ fan.frozen = Shared => fan.len <= arr[WalkedList].len

\* A subscriber in a cell the walk has still to visit.
ToVisit(s) == \E i \in fan.next .. fan.len : Walked[i] = s

\* Who has been served wanted it, and was served once unless its list was disturbed;
\* who is to be visited, and the sockets while the streams are served, have nothing.
ServedSound ==
    /\ \A s \in Subs : Copies(s) > 0 => fan.stage # "idle" /\ ~Declines(s, fan.ev)
    /\ \A s \in Subs : ListOf(s) \notin shifted => Copies(s) <= 1
    /\ InWalk /\ WalkedList \notin shifted => \A s \in Subs : ToVisit(s) => Copies(s) = 0
    /\ fan.stage = "streams" => \A s \in Sockets : Copies(s) = 0

\* Who is there from the start is served, or is to be visited.
SteadySound ==
    \A s \in steady :
        /\ Present(s) /\ s \notin cancelled /\ fan.stage # "idle"
        /\ AsksFor(s, fan.ev) /\ ListOf(s) \notin shifted =>
              Copies(s) = 1 \/ (InWalk /\ ListOf(s) = WalkedList /\ ToVisit(s))

WalkInv == FanTyped /\ WalkSound /\ ServedSound /\ SteadySound

LEMMA CopiesTyped == ASSUME FanTyped, NEW s \in Subs PROVE Copies(s) \in Nat
<1>1. got[s] \in Nat /\ (s \in Streams => writing[s] \in Nat)
  BY DEF FanTyped
<1>2. QED BY <1>1 DEF Copies

LEMMA WalkTyped ==
    ASSUME FanTyped, InWalk
    PROVE  /\ fan \in WalkSet /\ fan.ev \in Events /\ fan.len \in Nat /\ fan.next \in Nat
           /\ fan.frozen \in Seq(Subs) /\ WalkedList \in Lists
<1>1. fan \in WalkSet
  BY DEF FanTyped, InWalk
<1>2. fan.ev \in Events /\ fan.len \in Nat /\ fan.next \in Nat /\ fan.frozen \in Seq(Subs)
  BY <1>1 DEF WalkSet
<1>3. fan.ev.ch \in Lists /\ "wsEvents" \in Lists
  BY <1>2, EventsAssumption, ListNames
<1>4. QED BY <1>1, <1>2, <1>3 DEF WalkedList

LEMMA WalkedTyped ==
    ASSUME SubsTyped, FanTyped, InWalk
    PROVE  /\ Walked \in Seq(Subs) /\ Len(Walked) \in Nat
           /\ \A i \in 1 .. Len(Walked) : Walked[i] \in Subs
<1>1. arr[WalkedList] \in SliceSet /\ fan.frozen \in Seq(Subs)
  BY WalkTyped DEF SubsTyped
<1>2. arr[WalkedList].cells \in Seq(Subs)
  BY <1>1 DEF SliceSet
<1>3. Walked \in Seq(Subs)
  BY <1>1, <1>2 DEF Walked
<1>4. QED BY <1>3, ElementOfSeq, LenProperties

\* The lists may change under the walk: what counts is that its own array keeps
\* the cells it walks over, unless somebody left its list.
LEMMA WalkCarried ==
    ASSUME FanTyped, WalkSound, ServedSound, SteadySound,
           fan'.stage = fan.stage, fan'.ev = fan.ev,
           InWalk => fan'.len = fan.len /\ fan'.next = fan.next,
           writing' = writing, got' = got, shifted \subseteq shifted', steady' \subseteq steady,
           \A t \in steady' : Present(t)' /\ t \notin cancelled',
           InWalk => /\ fan.len <= Len(Walked')
                     /\ \A i \in 1 .. Len(Walked') : ListOf(Walked'[i]) = WalkedList,
           InWalk /\ WalkedList \notin shifted' =>
              /\ \A i \in 1 .. fan.len : Walked'[i] = Walked[i]
              /\ fan'.frozen = Shared => fan.len <= arr'[WalkedList].len
    PROVE  WalkSound' /\ ServedSound' /\ SteadySound'
<1>1. (InWalk' <=> InWalk) /\ WalkedList' = WalkedList
  BY DEF InWalk, WalkedList
<1>2. \A t : Copies(t)' = Copies(t)
  BY DEF Copies
<1>3. ASSUME InWalk, WalkedList \notin shifted' PROVE \A t : ToVisit(t)' <=> ToVisit(t)
  <2>1. fan.next \in 1 .. fan.len + 1 /\ fan.len \in Nat
    BY <1>3, WalkTyped DEF WalkSound
  <2>2. \A i \in fan.next .. fan.len : i \in 1 .. fan.len
    BY <2>1
  <2>3. \A i \in fan.next .. fan.len : Walked'[i] = Walked[i]
    BY <1>3, <2>2
  <2>4. fan'.next = fan.next /\ fan'.len = fan.len
    BY <1>3
  <2>5. QED BY <2>3, <2>4 DEF ToVisit
<1>4. WalkSound'
  <2> SUFFICES ASSUME InWalk' PROVE WalkSound'
    BY DEF WalkSound
  <2>1. InWalk /\ fan'.len = fan.len /\ fan'.next = fan.next
    BY <1>1
  <2>2. /\ fan.next \in 1 .. fan.len + 1
        /\ WalkedList \notin shifted' =>
              \A i, j \in 1 .. fan.len : Walked[i] = Walked[j] => i = j
    BY <2>1 DEF WalkSound
  <2>3. WalkedList \notin shifted' =>
           /\ \A i, j \in 1 .. fan.len : Walked'[i] = Walked'[j] => i = j
           /\ fan'.frozen = Shared => fan.len <= arr'[WalkedList].len
    BY <2>1, <2>2
  <2>4. QED BY <1>1, <2>1, <2>2, <2>3 DEF WalkSound
<1>5. ServedSound'
  <2>2. \A t \in Subs : Copies(t)' > 0 => fan'.stage # "idle" /\ ~Declines(t, fan'.ev)
    BY <1>2 DEF ServedSound
  <2>3. \A t \in Subs : ListOf(t) \notin shifted' => Copies(t)' <= 1
    BY <1>2 DEF ServedSound
  <2>4. InWalk /\ WalkedList \notin shifted' => \A t \in Subs : ToVisit(t)' => Copies(t)' = 0
    BY <1>2, <1>3 DEF ServedSound
  <2>5. fan'.stage = "streams" => \A t \in Sockets : Copies(t)' = 0
    BY <1>2 DEF ServedSound
  <2>6. QED BY <1>1, <2>2, <2>3, <2>4, <2>5 DEF ServedSound
<1>6. ASSUME NEW t \in steady'
      PROVE  /\ Present(t)' /\ t \notin cancelled' /\ fan'.stage # "idle"
             /\ AsksFor(t, fan'.ev) /\ ListOf(t) \notin shifted' =>
                   Copies(t)' = 1 \/ (InWalk' /\ ListOf(t) = WalkedList' /\ ToVisit(t)')
  <2>1. t \in steady
    OBVIOUS
  <2>2. AsksFor(t, fan'.ev) /\ ListOf(t) \notin shifted' =>
           Copies(t) = 1 \/ (InWalk /\ ListOf(t) = WalkedList /\ ToVisit(t))
    BY <2>1 DEF SteadySound
  <2>3. QED BY <1>1, <1>2, <1>3, <2>1, <2>2 DEF SteadySound
<1>7. SteadySound'
  BY <1>6 DEF SteadySound
<1>8. QED BY <1>4, <1>5, <1>7

\* Nothing the walk is about changes, but that subscribers leave or are cancelled.
LEMMA WalkUnmoved ==
    ASSUME WalkInv, UNCHANGED <<arr, fan, writing, got, shifted>>, steady' \subseteq steady,
           \A t \in steady' : Present(t)' /\ t \notin cancelled'
    PROVE  WalkInv'
<1>1. FanTyped'
  BY DEF WalkInv, FanTyped
<1>2. Walked' = Walked
  BY DEF Walked, WalkedList
<1>3. InWalk => /\ fan.len <= Len(Walked)
                /\ \A i \in 1 .. Len(Walked) : ListOf(Walked[i]) = WalkedList
  BY DEF WalkInv, WalkSound
<1>4. InWalk /\ WalkedList \notin shifted /\ fan.frozen = Shared => fan.len <= arr[WalkedList].len
  BY DEF WalkInv, WalkSound
<1>5. WalkSound' /\ ServedSound' /\ SteadySound'
  BY <1>2, <1>3, <1>4, WalkCarried DEF WalkInv
<1>6. QED BY <1>1, <1>5 DEF WalkInv

\* A walk either goes on over the array of its list, or keeps the one it has.
LEMMA DetachShape ==
    ASSUME FanTyped, NEW l, NEW cells \in Seq(Subs),
           \/ fan' = fan
           \/ Walking(l) /\ fan.frozen = Shared /\ fan' = [fan EXCEPT !.frozen = cells],
           UNCHANGED <<writing, got>>, steady' \subseteq steady, shifted' \subseteq Lists
    PROVE  /\ FanTyped' /\ fan'.stage = fan.stage /\ fan'.ev = fan.ev
           /\ fan'.len = fan.len /\ fan'.next = fan.next
<1>1. CASE fan' = fan
  BY <1>1 DEF FanTyped
<1>2. CASE Walking(l) /\ fan' = [fan EXCEPT !.frozen = cells]
  <2>1. fan \in WalkSet
    BY <1>2, WalkTyped DEF Walking, InWalk
  <2>2. /\ fan' \in WalkSet /\ fan'.stage = fan.stage /\ fan'.ev = fan.ev
        /\ fan'.len = fan.len /\ fan'.next = fan.next
    BY <1>2, <2>1 DEF WalkSet
  <2>3. FanTyped'
    BY <2>2 DEF FanTyped
  <2>4. QED BY <2>2, <2>3
<1>3. QED BY <1>1, <1>2

LEMMA WalkingIsHere ==
    ASSUME FanTyped, NEW l \in Lists
    PROVE  Walking(l) <=> InWalk /\ l = WalkedList
<1>1. InWalk => fan.ev \in Events
  BY WalkTyped
<1>2. QED BY <1>1 DEF Walking, InWalk, WalkedList

\* An entry does not disturb the walk: it goes behind what is walked, or elsewhere.
LEMMA AddedWalk ==
    ASSUME SubsTyped, ListsSound, WalkInv, NEW s \in Subs, ~Present(s), NEW l \in Lists,
           l = ListOf(s), ~Full(l), AddTo(l, s),
           UNCHANGED <<writing, got, steady, shifted, cancelled>>
    PROVE  WalkInv'
<1> DEFINE v == arr[l]
           u == Appended(v, s)
           Leaves == v.len = v.cap /\ Walking(l) /\ fan.frozen = Shared
<1>1. /\ arr'[l] = u /\ \A m \in Lists \ {l} : arr'[m] = arr[m]
      /\ at'[s] = "adding" /\ \A t \in Subs \ {s} : at'[t] = at[t]
  BY AddedShape
<1>2. \A i \in 1 .. Len(arr'[l].cells) : ListOf(arr'[l].cells[i]) = l
  <2>1. ListsSound'
    BY AddedShape
  <2>2. ListSound(l)'
    BY <2>1 DEF ListsSound
  <2>3. QED BY <2>2 DEF ListSound
<1>3. v \in SliceSet
  BY DEF SubsTyped
<1>4. fan' = IF Leaves THEN [fan EXCEPT !.frozen = v.cells] ELSE fan
  BY DEF AddTo, Detach
<1> HIDE DEF v
<1>5. /\ u.len = v.len + 1 /\ \A i \in 1 .. v.len : u.cells[i] = v.cells[i]
      /\ v.len < v.cap => Len(v.cells) <= Len(u.cells)
  BY <1>3, AppendedShape
<1>6. /\ v.cells \in Seq(Subs) /\ v.len \in Nat /\ v.cap \in Nat /\ v.len <= v.cap
      /\ v.len <= Len(v.cells) /\ Len(v.cells) \in Nat
  BY <1>3, LenProperties DEF SliceSet
<1> HIDE DEF u
<1>7. FanTyped /\ WalkSound /\ ServedSound /\ SteadySound
  BY DEF WalkInv
<1>8. shifted' \subseteq Lists /\ steady' \subseteq steady
  BY <1>7 DEF FanTyped
<1>9. /\ FanTyped' /\ fan'.stage = fan.stage /\ fan'.ev = fan.ev
      /\ fan'.len = fan.len /\ fan'.next = fan.next
  BY <1>4, <1>6, <1>7, <1>8, DetachShape
<1>10. \A t \in steady' : Present(t)' /\ t \notin cancelled'
  <2> SUFFICES ASSUME NEW t \in steady PROVE Present(t)' /\ t \notin cancelled'
    OBVIOUS
  <2>1. t \in Subs /\ Present(t) /\ t \notin cancelled
    BY <1>7 DEF FanTyped, SteadySound
  <2>2. t # s
    BY <2>1
  <2>3. QED BY <1>1, <2>1, <2>2 DEF Present
<1>11. ASSUME InWalk
       PROVE  /\ fan.len <= Len(Walked')
              /\ \A i \in 1 .. Len(Walked') : ListOf(Walked'[i]) = WalkedList
              /\ WalkedList \notin shifted =>
                    /\ \A i \in 1 .. fan.len : Walked'[i] = Walked[i]
                    /\ fan'.frozen = Shared => fan.len <= arr'[WalkedList].len
  <2>1. /\ fan.len \in Nat /\ WalkedList \in Lists /\ fan \in WalkSet
    BY <1>7, <1>11, WalkTyped
  <2>2. /\ fan.len <= Len(Walked) /\ \A i \in 1 .. Len(Walked) : ListOf(Walked[i]) = WalkedList
        /\ WalkedList \notin shifted /\ fan.frozen = Shared => fan.len <= arr[WalkedList].len
    BY <1>7, <1>11 DEF WalkSound
  <2>3. WalkedList' = WalkedList
    BY <1>9 DEF WalkedList
  <2>4. Walking(l) <=> l = WalkedList
    BY <1>7, <1>11, WalkingIsHere
  <2>5. CASE fan.frozen # Shared \/ l # WalkedList
    <3>1. fan' = fan
      BY <1>4, <2>4, <2>5
    <3>2. fan.frozen = Shared => arr'[WalkedList] = arr[WalkedList]
      BY <1>1, <2>1, <2>5
    <3>3. Walked' = Walked
      BY <2>3, <3>1, <3>2 DEF Walked
    <3>4. QED BY <2>2, <3>1, <3>2, <3>3
  <2>6. CASE fan.frozen = Shared /\ l = WalkedList /\ v.len # v.cap
    <3>1. fan' = fan /\ v.len < v.cap
      BY <1>4, <1>6, <2>6
    <3>2. Walked' = u.cells /\ Walked = v.cells
      BY <1>1, <2>3, <2>6, <3>1 DEF Walked, v
    <3>3. Len(v.cells) <= Len(u.cells) /\ fan.len <= Len(v.cells)
      BY <1>5, <2>2, <3>1, <3>2
    <3>4. fan.len <= Len(u.cells)
      <4>1. u.cells \in Seq(Subs)
        <5>1. u \in SliceSet
          BY <1>3, AppendedShape DEF u
        <5>2. QED BY <5>1 DEF SliceSet
      <4>2. Len(u.cells) \in Nat
        BY <4>1, LenProperties
      <4>3. QED BY <1>6, <2>1, <3>3, <4>2
    <3>5. \A i \in 1 .. Len(u.cells) : ListOf(u.cells[i]) = WalkedList
      BY <1>1, <1>2, <2>6
    <3>6. WalkedList \notin shifted => fan.len <= v.len
      BY <2>2, <2>6 DEF v
    <3>7. WalkedList \notin shifted => \A i \in 1 .. fan.len : u.cells[i] = v.cells[i]
      BY <1>5, <1>6, <2>1, <3>6
    <3>8. WalkedList \notin shifted => fan.len <= arr'[WalkedList].len
      <4>1. arr'[WalkedList].len = v.len + 1
        BY <1>1, <1>5, <2>6
      <4>2. QED BY <1>6, <2>1, <3>6, <4>1
    <3>9. QED BY <3>2, <3>4, <3>5, <3>7, <3>8
  <2>7. CASE fan.frozen = Shared /\ l = WalkedList /\ v.len = v.cap
    <3>1. fan' = [fan EXCEPT !.frozen = v.cells]
      BY <1>4, <2>4, <2>7
    <3>2. fan'.frozen = v.cells /\ Walked = v.cells
      BY <2>1, <2>7, <3>1 DEF WalkSet, Walked, v
    <3>3. CASE v.cells # Shared
      <4>1. Walked' = v.cells
        BY <3>2, <3>3 DEF Walked
      <4>2. QED BY <2>2, <3>2, <3>3, <4>1
    <3>4. CASE v.cells = Shared
      <4>1. Len(v.cells) = 0
        BY <3>4, EmptySeq DEF Shared
      <4>2. fan.len = 0
        BY <2>1, <2>2, <3>2, <4>1
      <4>3. Walked' = arr'[l].cells
        BY <2>3, <2>7, <3>2, <3>4 DEF Walked
      <4>4. Len(arr'[l].cells) \in Nat /\ arr'[l].len \in Nat
        <5>1. u \in SliceSet
          BY <1>3, AppendedShape DEF u
        <5>2. QED BY <1>1, <5>1, LenProperties DEF SliceSet
      <4>5. \A i \in 1 .. fan.len : FALSE
        BY <4>2
      <4>6. QED BY <1>2, <2>7, <4>2, <4>3, <4>4, <4>5
    <3>5. QED BY <3>3, <3>4
  <2>8. QED BY <2>5, <2>6, <2>7
<1>12. WalkSound' /\ ServedSound' /\ SteadySound'
  BY <1>7, <1>8, <1>9, <1>10, <1>11, WalkCarried
<1>13. QED BY <1>9, <1>12 DEF WalkInv

\* An exit from the list of the walk moves cells under it, and is remembered; an
\* exit from another list is nothing to it.
LEMMA RemovedWalk ==
    ASSUME SubsTyped, ListsSound, WalkInv, NEW s \in Subs, Withdraw(s)
    PROVE  WalkInv'
<1> DEFINE l == ListOf(s)
           v == arr[l]
           u == Without(v, s)
           c == ShiftedCells(v, s)
<1>1. /\ at[s] = "open" /\ RemoveFrom(l, s) /\ Move(s, "removing") /\ steady' = steady \ {s}
      /\ shifted' = (IF Walking(l) THEN shifted \cup {l} ELSE shifted)
      /\ UNCHANGED <<writing, got, cancelled>>
  BY DEF Withdraw
<1>2. Present(s) /\ l \in Lists
  BY <1>1, ListNames DEF Present
<1>3. /\ arr'[l] = u /\ \A m \in Lists \ {l} : arr'[m] = arr[m]
      /\ \A t \in Subs \ {s} : at'[t] = at[t]
      /\ \E k \in 1 .. v.len : v.cells[k] = s
  <2> HIDE DEF l
  <2>1. l = ListOf(s)
    BY DEF l
  <2>2. QED BY <1>1, <1>2, <2>1, RemovedShape
<1>4. ListSound(l) /\ v \in SliceSet
  BY <1>2 DEF ListsSound, SubsTyped
<1>5. fan' = IF v.len = 1 /\ Walking(l) /\ fan.frozen = Shared
             THEN [fan EXCEPT !.frozen = c] ELSE fan
  BY <1>1 DEF RemoveFrom, Detach
<1>6. PICK k \in 1 .. v.len : v.cells[k] = s
  BY <1>3
<1>7. \A i, j \in 1 .. v.len : v.cells[i] = v.cells[j] => i = j
  BY <1>4 DEF ListSound
<1>8. \A i \in 1 .. Len(v.cells) : ListOf(v.cells[i]) = l
  BY <1>4 DEF ListSound
<1> HIDE DEF v, l
<1>9. /\ c \in Seq(Subs) /\ Len(c) = Len(v.cells)
      /\ \A i \in 1 .. Len(v.cells) :
            c[i] = IF k <= i /\ i < v.len THEN v.cells[i + 1] ELSE v.cells[i]
  BY <1>4, <1>6, <1>7, ShiftedShape
<1>10. v.len # 1 => u.cells = c
  BY <1>4, <1>6, <1>7, WithoutShape
<1> HIDE DEF u, c
<1>11. v.len \in Nat /\ v.len >= 1 /\ v.len <= Len(v.cells) /\ Len(v.cells) \in Nat
  <2>1. v.len \in Nat /\ v.len <= Len(v.cells) /\ v.cells \in Seq(Subs)
    BY <1>4 DEF SliceSet
  <2>2. Len(v.cells) \in Nat
    BY <2>1, LenProperties
  <2>3. QED BY <1>6, <2>1, <2>2
<1>12. \A i \in 1 .. Len(c) : ListOf(c[i]) = l
  <2> SUFFICES ASSUME NEW i \in 1 .. Len(v.cells) PROVE ListOf(c[i]) = l
    BY <1>9
  <2>1. CASE k <= i /\ i < v.len
    <3>1. i + 1 \in 1 .. Len(v.cells) /\ c[i] = v.cells[i + 1]
      BY <1>9, <1>11, <2>1
    <3>2. QED BY <1>8, <3>1
  <2>2. CASE ~(k <= i /\ i < v.len)
    BY <1>8, <1>9, <2>2
  <2>3. QED BY <2>1, <2>2
<1>13. c # Shared
  BY <1>9, <1>11, EmptySeq DEF Shared
<1>14. FanTyped /\ WalkSound /\ ServedSound /\ SteadySound
  BY DEF WalkInv
<1>15. shifted' \subseteq Lists /\ steady' \subseteq steady /\ shifted \subseteq shifted'
  BY <1>1, <1>2, <1>14 DEF FanTyped
<1>16. /\ FanTyped' /\ fan'.stage = fan.stage /\ fan'.ev = fan.ev
       /\ fan'.len = fan.len /\ fan'.next = fan.next
  BY <1>1, <1>5, <1>9, <1>14, <1>15, DetachShape
<1>17. \A t \in steady' : Present(t)' /\ t \notin cancelled'
  <2> SUFFICES ASSUME NEW t \in steady, t # s PROVE Present(t)' /\ t \notin cancelled'
    BY <1>1
  <2>1. t \in Subs /\ Present(t) /\ t \notin cancelled
    BY <1>14 DEF FanTyped, SteadySound
  <2>2. QED BY <1>1, <1>3, <2>1 DEF Present
<1>18. ASSUME InWalk
       PROVE  /\ fan.len <= Len(Walked')
              /\ \A i \in 1 .. Len(Walked') : ListOf(Walked'[i]) = WalkedList
              /\ WalkedList \notin shifted' =>
                    /\ \A i \in 1 .. fan.len : Walked'[i] = Walked[i]
                    /\ fan'.frozen = Shared => fan.len <= arr'[WalkedList].len
  <2>1. /\ fan.len \in Nat /\ WalkedList \in Lists /\ fan \in WalkSet
    BY <1>14, <1>18, WalkTyped
  <2>2. /\ fan.len <= Len(Walked) /\ \A i \in 1 .. Len(Walked) : ListOf(Walked[i]) = WalkedList
        /\ WalkedList \notin shifted /\ fan.frozen = Shared => fan.len <= arr[WalkedList].len
    BY <1>14, <1>18 DEF WalkSound
  <2>3. WalkedList' = WalkedList
    BY <1>16 DEF WalkedList
  <2>4. Walking(l) <=> l = WalkedList
    BY <1>2, <1>14, <1>18, WalkingIsHere
  <2>5. CASE l # WalkedList
    <3>1. fan' = fan /\ shifted' = shifted
      BY <1>1, <1>5, <2>4, <2>5
    <3>2. arr'[WalkedList] = arr[WalkedList]
      BY <1>3, <2>1, <2>5
    <3>3. Walked' = Walked
      BY <2>3, <3>1, <3>2 DEF Walked
    <3>4. QED BY <2>2, <3>1, <3>2, <3>3
  <2>6. CASE l = WalkedList
    <3>1. WalkedList \in shifted'
      BY <1>1, <2>4, <2>6
    <3>2. CASE fan.frozen # Shared
      <4>1. fan' = fan
        BY <1>5, <3>2
      <4>2. Walked' = Walked
        BY <3>2, <4>1 DEF Walked
      <4>3. QED BY <2>2, <3>1, <4>2
    <3>3. CASE fan.frozen = Shared
      <4>1. Walked' = c
        <5>1. CASE v.len = 1
          <6>1. fan'.frozen = c
            BY <1>5, <2>1, <2>4, <2>6, <3>3, <5>1 DEF WalkSet
          <6>2. QED BY <1>13, <6>1 DEF Walked
        <5>2. CASE v.len # 1
          <6>1. fan' = fan
            BY <1>5, <5>2
          <6>2. QED BY <1>3, <1>10, <2>3, <2>6, <3>3, <5>2, <6>1 DEF Walked
        <5>3. QED BY <5>1, <5>2
      <4>2. Walked = v.cells
        BY <2>6, <3>3 DEF Walked, v
      <4>3. QED BY <1>9, <1>12, <2>2, <2>6, <3>1, <4>1, <4>2
    <3>4. QED BY <3>2, <3>3
  <2>7. QED BY <2>5, <2>6
<1>19. WalkSound' /\ ServedSound' /\ SteadySound'
  BY <1>1, <1>14, <1>15, <1>16, <1>17, <1>18, WalkCarried
<1>20. QED BY <1>16, <1>19 DEF WalkInv

\* One cell of the walk: its subscriber is served if the event is for it.
LEMMA VisitServes ==
    ASSUME SubsTyped, WalkInv, FanTyped', InWalk, fan.next <= fan.len,
           fan' = [fan EXCEPT !.next = @ + 1],
           UNCHANGED <<arr, at, cancelled, steady, shifted>>,
           NEW serves \in BOOLEAN, NEW c \in Subs, c = Walked[fan.next],
           \A t \in Subs : Copies(t)' = IF t = c /\ serves THEN Copies(t) + 1 ELSE Copies(t),
           serves => ~Declines(c, fan.ev),
           AsksFor(c, fan.ev) /\ c \notin cancelled => serves,
           fan.stage = "streams" => c \notin Sockets
    PROVE  WalkInv'
<1>1. FanTyped /\ WalkSound /\ ServedSound /\ SteadySound
  BY DEF WalkInv
<1>2. fan \in WalkSet /\ fan.len \in Nat /\ fan.next \in Nat
  BY <1>1, WalkTyped
<1> DEFINE n == fan.next + 1
<1>3. n \in Nat /\ fan' = [fan EXCEPT !.next = n]
  BY <1>2
<1> HIDE DEF n
<1>4. /\ fan'.stage = fan.stage /\ fan'.ev = fan.ev /\ fan'.len = fan.len
      /\ fan'.next = n /\ fan'.frozen = fan.frozen
  BY <1>2, <1>3 DEF WalkSet
<1>5. InWalk' /\ WalkedList' = WalkedList /\ Walked' = Walked
  BY <1>4 DEF InWalk, WalkedList, Walked
<1>6. /\ fan.next \in 1 .. fan.len + 1 /\ fan.len <= Len(Walked)
      /\ \A i \in 1 .. Len(Walked) : ListOf(Walked[i]) = WalkedList
      /\ WalkedList \notin shifted =>
            /\ \A i, j \in 1 .. fan.len : Walked[i] = Walked[j] => i = j
            /\ fan.frozen = Shared => fan.len <= arr[WalkedList].len
  BY <1>1 DEF WalkSound
<1>7. n \in 1 .. fan.len + 1 /\ fan.next \in 1 .. fan.len
  BY <1>2, <1>6 DEF n
<1>8. WalkSound'
  BY <1>4, <1>5, <1>6, <1>7 DEF WalkSound
<1>9. fan.next \in 1 .. Len(Walked)
  <2>1. Len(Walked) \in Nat
    BY <1>1, WalkedTyped
  <2>2. QED BY <1>2, <1>6, <1>7, <2>1
<1>10. ListOf(c) = WalkedList /\ ToVisit(c)
  <2>1. fan.next \in fan.next .. fan.len
    BY <1>2
  <2>2. QED BY <1>6, <1>9, <2>1 DEF ToVisit
<1>11. \A t \in Subs : ToVisit(t)' => ToVisit(t)
  <2>1. \A i \in n .. fan.len : i \in fan.next .. fan.len
    BY <1>2 DEF n
  <2>2. QED BY <1>4, <1>5, <2>1 DEF ToVisit
<1>12. ASSUME WalkedList \notin shifted PROVE ~ToVisit(c)'
  <2> SUFFICES ASSUME NEW i \in n .. fan.len, Walked[i] = c PROVE FALSE
    BY <1>4, <1>5 DEF ToVisit
  <2>1. i \in 1 .. fan.len /\ i # fan.next
    BY <1>2 DEF n
  <2>2. QED BY <1>6, <1>7, <1>12, <2>1
<1>13. \A t \in Subs : ToVisit(t) => t = c \/ ToVisit(t)'
  <2>1. \A i \in fan.next .. fan.len : i = fan.next \/ i \in n .. fan.len
    BY <1>2 DEF n
  <2>2. QED BY <1>4, <1>5, <2>1 DEF ToVisit
<1>14. WalkedList \notin shifted => Copies(c) = 0
  BY <1>1, <1>10 DEF ServedSound
<1>15. ServedSound'
  <2>1. \A t \in Subs : Copies(t)' > 0 => fan'.stage # "idle" /\ ~Declines(t, fan'.ev)
    <3> SUFFICES ASSUME NEW t \in Subs, Copies(t)' > 0
                 PROVE  fan'.stage # "idle" /\ ~Declines(t, fan'.ev)
      OBVIOUS
    <3>1. CASE t = c /\ serves
      BY <1>4, <3>1 DEF InWalk
    <3>2. CASE ~(t = c /\ serves)
      <4>1. Copies(t) > 0
        BY <3>2
      <4>2. QED BY <1>1, <1>4, <4>1 DEF ServedSound
    <3>3. QED BY <3>1, <3>2
  <2>2. \A t \in Subs : ListOf(t) \notin shifted' => Copies(t)' <= 1
    <3> SUFFICES ASSUME NEW t \in Subs, ListOf(t) \notin shifted PROVE Copies(t)' <= 1
      OBVIOUS
    <3>1. CASE t = c /\ serves
      BY <1>10, <1>14, <3>1
    <3>2. CASE ~(t = c /\ serves)
      BY <1>1, <3>2 DEF ServedSound
    <3>3. QED BY <3>1, <3>2
  <2>3. WalkedList \notin shifted => \A t \in Subs : ToVisit(t)' => Copies(t)' = 0
    BY <1>1, <1>11, <1>12 DEF ServedSound
  <2>4. fan.stage = "streams" => \A t \in Sockets : Copies(t)' = 0
    <3>1. \A t \in Sockets : t \in Subs
      BY ListNames
    <3>2. QED BY <1>1, <3>1 DEF ServedSound
  <2>5. QED BY <1>4, <1>5, <2>1, <2>2, <2>3, <2>4 DEF ServedSound
<1>16. SteadySound'
  <2> SUFFICES ASSUME NEW t \in steady
               PROVE  /\ Present(t)' /\ t \notin cancelled' /\ fan'.stage # "idle"
                      /\ AsksFor(t, fan'.ev) /\ ListOf(t) \notin shifted =>
                            Copies(t)' = 1 \/ (ListOf(t) = WalkedList /\ ToVisit(t)')
    BY <1>5 DEF SteadySound
  <2>1. t \in Subs /\ Present(t) /\ t \notin cancelled
    BY <1>1 DEF FanTyped, SteadySound
  <2>2. Present(t)' /\ t \notin cancelled' /\ fan'.stage # "idle"
    BY <1>4, <2>1 DEF Present, InWalk
  <2>3. ASSUME AsksFor(t, fan.ev), ListOf(t) \notin shifted
        PROVE  Copies(t)' = 1 \/ (ListOf(t) = WalkedList /\ ToVisit(t)')
    <3>1. Copies(t) = 1 \/ (ListOf(t) = WalkedList /\ ToVisit(t))
      BY <1>1, <2>3 DEF SteadySound
    <3>2. CASE t = c
      <4>1. serves /\ Copies(c) = 0
        BY <1>10, <1>14, <2>1, <2>3, <3>2
      <4>2. QED BY <3>2, <4>1
    <3>3. CASE t # c
      BY <1>13, <2>1, <3>1, <3>3
    <3>4. QED BY <3>2, <3>3
  <2>4. QED BY <1>4, <2>2, <2>3
<1>17. QED BY <1>8, <1>15, <1>16 DEF WalkInv

LEMMA CellIsWalked == Cell = Walked[fan.next]
BY DEF Cell, Walked, WalkedList

LEMMA WalkedCell ==
    ASSUME SubsTyped, WalkInv, InWalk, fan.next <= fan.len
    PROVE  Cell \in Subs /\ ListOf(Cell) = WalkedList
<1>1. FanTyped /\ WalkSound
  BY DEF WalkInv
<1>2. fan.len \in Nat /\ fan.next \in Nat
  BY <1>1, WalkTyped
<1>3. Len(Walked) \in Nat /\ \A i \in 1 .. Len(Walked) : Walked[i] \in Subs
  BY <1>1, WalkedTyped
<1>4. /\ fan.next \in 1 .. fan.len + 1 /\ fan.len <= Len(Walked)
      /\ \A i \in 1 .. Len(Walked) : ListOf(Walked[i]) = WalkedList
  BY <1>1 DEF WalkSound
<1>5. fan.next \in 1 .. Len(Walked)
  BY <1>2, <1>3, <1>4
<1>6. QED BY <1>3, <1>4, <1>5, CellIsWalked

LEMMA StreamWalk == ASSUME SubsTyped, WalkInv, FanToStream PROVE WalkInv'
<1> DEFINE c == Cell
<1>1. /\ fan.stage = "streams" /\ fan.next <= fan.len /\ InWalk
      /\ writing' = IF Matches(c, fan.ev) THEN [writing EXCEPT ![c] = @ + 1] ELSE writing
      /\ fan' = [fan EXCEPT !.next = @ + 1]
      /\ UNCHANGED <<arr, at, cancelled, steady, shifted, got>>
  BY DEF FanToStream, InWalk
<1>2. c \in Subs /\ ListOf(c) = fan.ev.ch /\ c = Walked[fan.next]
  BY <1>1, WalkedCell, CellIsWalked DEF WalkedList
<1>3. FanTyped /\ fan \in WalkSet /\ fan.ev \in Events /\ fan.next \in Nat
  BY <1>1, WalkTyped DEF WalkInv
<1> HIDE DEF c
<1>4. c \in Streams /\ c \notin Sockets /\ ChannelOf[c] = fan.ev.ch
  <2>1. fan.ev.ch \in Channels /\ fan.ev.ch # "wsEvents"
    BY <1>3, EventsAssumption, SubsAssumption
  <2>2. QED BY <1>2, <2>1, ListNames DEF Subs
<1>5. PICK serves \in BOOLEAN : serves <=> Matches(c, fan.ev)
  OBVIOUS
<1>6. writing \in [Streams -> Nat]
  BY <1>3 DEF FanTyped
<1>7. \A t \in Streams : writing'[t] = IF t = c /\ serves THEN writing[t] + 1 ELSE writing[t]
  BY <1>1, <1>4, <1>5, <1>6
<1>8. writing' \in [Streams -> Nat]
  <2> DEFINE m == writing[c] + 1
  <2>1. m \in Nat
    BY <1>4, <1>6
  <2>2. writing' = writing \/ writing' = [writing EXCEPT ![c] = m]
    BY <1>1
  <2> HIDE DEF m
  <2>3. QED BY <1>6, <2>1, <2>2
<1>9. FanTyped'
  <2> DEFINE n == fan.next + 1
  <2>1. n \in Nat /\ fan' = [fan EXCEPT !.next = n]
    BY <1>1, <1>3
  <2> HIDE DEF n
  <2>2. fan' \in WalkSet
    BY <1>3, <2>1 DEF WalkSet
  <2>3. QED BY <1>1, <1>3, <1>8, <2>2 DEF FanTyped
<1>10. \A t \in Subs : Copies(t)' = IF t = c /\ serves THEN Copies(t) + 1 ELSE Copies(t)
  <2> SUFFICES ASSUME NEW t \in Subs
               PROVE  Copies(t)' = IF t = c /\ serves THEN Copies(t) + 1 ELSE Copies(t)
    OBVIOUS
  <2>1. got'[t] = got[t] /\ got[t] \in Nat
    BY <1>1, <1>3 DEF FanTyped
  <2>2. CASE t \in Streams
    <3>1. writing[t] \in Nat
      BY <1>6, <2>2
    <3>2. QED BY <1>7, <2>1, <2>2, <3>1 DEF Copies
  <2>3. CASE t \notin Streams
    BY <1>4, <2>1, <2>3 DEF Copies
  <2>4. QED BY <2>2, <2>3
<1>11. serves => ~Declines(c, fan.ev)
  BY <1>4, <1>5 DEF Matches, Declines
<1>12. AsksFor(c, fan.ev) => serves
  BY <1>5 DEF Matches, AsksFor
<1>13. QED BY <1>1, <1>2, <1>4, <1>9, <1>10, <1>11, <1>12, VisitServes

LEMMA SocketWalk == ASSUME SubsTyped, WalkInv, FanToSocket PROVE WalkInv'
<1> DEFINE c == Cell
<1>1. /\ fan.stage = "sockets" /\ fan.next <= fan.len /\ InWalk
      /\ got' = IF Wants(c, fan.ev) /\ c \notin cancelled THEN [got EXCEPT ![c] = @ + 1] ELSE got
      /\ fan' = [fan EXCEPT !.next = @ + 1]
      /\ UNCHANGED <<arr, at, cancelled, steady, shifted, writing>>
  BY DEF FanToSocket, InWalk
<1>2. c \in Subs /\ c = Walked[fan.next]
  BY <1>1, WalkedCell, CellIsWalked
<1>3. FanTyped /\ fan \in WalkSet /\ fan.ev \in Events /\ fan.next \in Nat
  BY <1>1, WalkTyped DEF WalkInv
<1> HIDE DEF c
<1>4. PICK serves \in BOOLEAN : serves <=> Wants(c, fan.ev) /\ c \notin cancelled
  OBVIOUS
<1>5. got \in [Subs -> Nat]
  BY <1>3 DEF FanTyped
<1>6. \A t \in Subs : got'[t] = IF t = c /\ serves THEN got[t] + 1 ELSE got[t]
  BY <1>1, <1>2, <1>4, <1>5
<1>7. got' \in [Subs -> Nat]
  <2> DEFINE m == got[c] + 1
  <2>1. m \in Nat
    BY <1>2, <1>5
  <2>2. got' = got \/ got' = [got EXCEPT ![c] = m]
    BY <1>1
  <2> HIDE DEF m
  <2>3. QED BY <1>5, <2>1, <2>2
<1>8. FanTyped'
  <2> DEFINE n == fan.next + 1
  <2>1. n \in Nat /\ fan' = [fan EXCEPT !.next = n]
    BY <1>1, <1>3
  <2> HIDE DEF n
  <2>2. fan' \in WalkSet
    BY <1>3, <2>1 DEF WalkSet
  <2>3. QED BY <1>1, <1>3, <1>7, <2>2 DEF FanTyped
<1>9. \A t \in Subs : Copies(t)' = IF t = c /\ serves THEN Copies(t) + 1 ELSE Copies(t)
  <2> SUFFICES ASSUME NEW t \in Subs
               PROVE  Copies(t)' = IF t = c /\ serves THEN Copies(t) + 1 ELSE Copies(t)
    OBVIOUS
  <2>1. got[t] \in Nat /\ writing' = writing
    BY <1>1, <1>5
  <2>2. t \in Streams => writing[t] \in Nat
    BY <1>3 DEF FanTyped
  <2>3. QED BY <1>6, <2>1, <2>2 DEF Copies
<1>10. serves => ~Declines(c, fan.ev)
  BY <1>4 DEF Wants, Matches, Declines
<1>11. AsksFor(c, fan.ev) /\ c \notin cancelled => serves
  BY <1>4 DEF Wants, Matches, AsksFor
<1>12. QED BY <1>1, <1>2, <1>8, <1>9, <1>10, <1>11, VisitServes

\* The goroutine of a stream writes its copy, or finds the stream done.
LEMMA WriteWalk == ASSUME WalkInv, NEW s \in Streams, Write(s) PROVE WalkInv'
<1>1. /\ writing[s] > 0 /\ writing' = [writing EXCEPT ![s] = @ - 1]
      /\ got' = IF s \in cancelled THEN got ELSE [got EXCEPT ![s] = @ + 1]
      /\ UNCHANGED <<at, cancelled, arr, fan, steady, shifted>>
  BY DEF Write
<1>2. s \in Subs /\ \A t \in Streams : t \in Subs
  BY ListNames
<1>3. FanTyped /\ WalkSound /\ ServedSound /\ SteadySound
  BY DEF WalkInv
<1>4. writing \in [Streams -> Nat] /\ got \in [Subs -> Nat]
  BY <1>3 DEF FanTyped
<1>5. writing' \in [Streams -> Nat] /\ got' \in [Subs -> Nat]
  <2> DEFINE m == writing[s] - 1
             g == got[s] + 1
  <2>1. m \in Nat /\ g \in Nat
    BY <1>1, <1>2, <1>4
  <2>2. writing' = [writing EXCEPT ![s] = m] /\ (got' = got \/ got' = [got EXCEPT ![s] = g])
    BY <1>1
  <2> HIDE DEF m, g
  <2>3. QED BY <1>4, <2>1, <2>2
<1>6. FanTyped'
  BY <1>1, <1>3, <1>5 DEF FanTyped
<1>7. \A t \in Subs : Copies(t)' = IF t = s /\ s \in cancelled THEN Copies(t) - 1 ELSE Copies(t)
  <2> SUFFICES ASSUME NEW t \in Subs
               PROVE  Copies(t)' = IF t = s /\ s \in cancelled THEN Copies(t) - 1 ELSE Copies(t)
    OBVIOUS
  <2>1. got[t] \in Nat /\ (t \in Streams => writing[t] \in Nat)
    BY <1>4
  <2>2. CASE t = s
    <3>1. writing'[s] = writing[s] - 1 /\ got'[s] = IF s \in cancelled THEN got[s] ELSE got[s] + 1
      BY <1>1, <1>2, <1>4
    <3>2. QED BY <2>1, <2>2, <3>1 DEF Copies
  <2>3. CASE t # s
    <3>1. got'[t] = got[t] /\ (t \in Streams => writing'[t] = writing[t])
      BY <1>1, <1>4, <2>3
    <3>2. QED BY <2>3, <3>1 DEF Copies
  <2>4. QED BY <2>2, <2>3
<1>8. Copies(s) > 0
  <2>1. got[s] \in Nat /\ writing[s] \in Nat
    BY <1>2, <1>4
  <2>2. QED BY <1>1, <2>1 DEF Copies
<1>9. InWalk' = InWalk /\ WalkedList' = WalkedList /\ Walked' = Walked
  BY <1>1 DEF InWalk, WalkedList, Walked
<1>10. \A t : ToVisit(t)' <=> ToVisit(t)
  BY <1>1, <1>9 DEF ToVisit
<1>11. WalkSound'
  BY <1>1, <1>3, <1>9 DEF WalkSound
<1>12. \A t \in Subs : Copies(t) \in Nat /\ Copies(t)' <= Copies(t)
  BY <1>3, <1>7, CopiesTyped
<1>13. ServedSound'
  <2>1. \A t \in Subs : Copies(t)' > 0 => Copies(t) > 0
    BY <1>7, <1>12
  <2>2. \A t \in Subs : Copies(t) <= 1 => Copies(t)' <= 1
    BY <1>7, <1>12
  <2>3. \A t \in Subs : Copies(t) = 0 => Copies(t)' = 0
    BY <1>7, <1>8
  <2>4. \A t \in Sockets : t \in Subs
    BY ListNames
  <2>5. QED BY <1>1, <1>3, <1>9, <1>10, <2>1, <2>2, <2>3, <2>4 DEF ServedSound
<1>14. SteadySound'
  <2> SUFFICES ASSUME NEW t \in steady
               PROVE  /\ Present(t)' /\ t \notin cancelled' /\ fan'.stage # "idle"
                      /\ AsksFor(t, fan'.ev) /\ ListOf(t) \notin shifted' =>
                            Copies(t)' = 1 \/ (InWalk' /\ ListOf(t) = WalkedList' /\ ToVisit(t)')
    BY <1>1 DEF SteadySound
  <2>1. t \in Subs /\ Present(t) /\ t \notin cancelled /\ fan.stage # "idle"
    BY <1>3 DEF FanTyped, SteadySound
  <2>2. Copies(t)' = Copies(t)
    BY <1>7, <2>1
  <2>3. AsksFor(t, fan.ev) /\ ListOf(t) \notin shifted =>
           Copies(t) = 1 \/ (InWalk /\ ListOf(t) = WalkedList /\ ToVisit(t))
    BY <1>3 DEF SteadySound
  <2>4. QED BY <1>1, <1>9, <1>10, <2>1, <2>2, <2>3 DEF Present
<1>15. QED BY <1>6, <1>11, <1>13, <1>14 DEF WalkInv

\* The walk begins over a list: everybody in it is to be visited, once.
LEMMA TakenWalk ==
    ASSUME SubsTyped, ListsSound, WalkInv, NEW stage \in {"streams", "sockets"}, NEW e \in Events,
           NEW l \in Lists, l = IF stage = "streams" THEN e.ch ELSE "wsEvents",
           TakeList(stage, e, l), UNCHANGED <<arr, at, cancelled, writing, got, shifted>>,
           \A t \in Subs : Copies(t) > 0 => ~Declines(t, e),
           \A t \in Subs : ListOf(t) = l => Copies(t) = 0,
           stage = "streams" => \A t \in Sockets : Copies(t) = 0,
           \A t \in steady : AsksFor(t, e) /\ ListOf(t) \notin shifted => Copies(t) = 1
    PROVE  WalkInv'
<1> DEFINE v == arr[l]
           n == v.len
<1>1. /\ fan' = [stage |-> stage, ev |-> e, len |-> n, next |-> 1, frozen |-> Shared]
      /\ steady' = steady \cup {s \in Listed(l, arr) \ cancelled : ChannelOf[s] = e.ch}
  BY DEF TakeList
<1>2. v \in SliceSet /\ ListSound(l)
  BY DEF SubsTyped, ListsSound
<1>3. n \in Nat /\ n <= Len(v.cells) /\ v.cells \in Seq(Subs) /\ Len(v.cells) \in Nat
  <2> HIDE DEF v
  <2>1. QED BY <1>2, LenProperties DEF SliceSet
<1>4. FanTyped /\ WalkSound /\ ServedSound /\ SteadySound
  BY DEF WalkInv
<1>5. /\ \A i \in 1 .. Len(v.cells) : ListOf(v.cells[i]) = l
      /\ \A i, j \in 1 .. n : v.cells[i] = v.cells[j] => i = j
      /\ \A s \in Subs : ListOf(s) = l =>
            (Present(s) <=> \E i \in 1 .. n : v.cells[i] = s)
  BY <1>2 DEF ListSound
<1>6. \A i \in 1 .. n : v.cells[i] \in Subs
  <2>1. \A i \in 1 .. Len(v.cells) : v.cells[i] \in Subs
    BY <1>3, ElementOfSeq
  <2>2. QED BY <1>3, <2>1
<1>7. Shared \in Seq(Subs)
  BY EmptySeq DEF Shared
<1>8. \A t \in steady' : t \in steady \/ (t \notin cancelled /\ \E i \in 1 .. n : v.cells[i] = t)
  BY <1>1 DEF Listed
<1> HIDE DEF v, n
<1>9. /\ fan' \in WalkSet /\ fan'.stage = stage /\ fan'.ev = e /\ fan'.len = n
      /\ fan'.next = 1 /\ fan'.frozen = Shared
  BY <1>1, <1>3, <1>7 DEF WalkSet
<1>10. steady' \subseteq Subs
  BY <1>4, <1>6, <1>8 DEF FanTyped
<1>11. FanTyped'
  BY <1>4, <1>9, <1>10 DEF FanTyped
<1>12. InWalk' /\ WalkedList' = l
  BY <1>9 DEF InWalk, WalkedList
<1>13. Walked' = v.cells
  BY <1>9, <1>12 DEF Walked, v
<1>14. \A t : ToVisit(t)' <=> \E i \in 1 .. n : v.cells[i] = t
  BY <1>9, <1>13 DEF ToVisit
<1>15. \A t : Copies(t)' = Copies(t)
  BY DEF Copies
<1>16. WalkSound'
  <2>1. fan'.next \in 1 .. fan'.len + 1 /\ fan'.len <= Len(Walked')
    BY <1>3, <1>9, <1>13
  <2>2. arr'[l].len = n
    BY DEF n, v
  <2>3. fan'.len <= arr'[l].len
    BY <1>3, <1>9, <2>2
  <2>4. QED BY <1>5, <1>9, <1>12, <1>13, <2>1, <2>3 DEF WalkSound
<1>17. \A t \in Subs : ToVisit(t)' => Copies(t)' = 0
  <2>1. \A i \in 1 .. n : i \in 1 .. Len(v.cells)
    BY <1>3
  <2>2. \A i \in 1 .. n : ListOf(v.cells[i]) = l
    BY <1>5, <2>1
  <2>3. QED BY <1>14, <1>15, <2>2
<1>18. ServedSound'
  <2>1. \A t \in Subs : Copies(t)' > 0 => fan'.stage # "idle" /\ ~Declines(t, fan'.ev)
    BY <1>9, <1>15
  <2>2. \A t \in Subs : ListOf(t) \notin shifted' => Copies(t)' <= 1
    BY <1>4, <1>15 DEF ServedSound
  <2>3. fan'.stage = "streams" => \A t \in Sockets : Copies(t)' = 0
    BY <1>9, <1>15
  <2>4. QED BY <1>17, <2>1, <2>2, <2>3 DEF ServedSound
<1>19. SteadySound'
  <2> SUFFICES ASSUME NEW t \in steady'
               PROVE  /\ Present(t)' /\ t \notin cancelled' /\ fan'.stage # "idle"
                      /\ AsksFor(t, fan'.ev) /\ ListOf(t) \notin shifted' =>
                            Copies(t)' = 1 \/ (InWalk' /\ ListOf(t) = WalkedList' /\ ToVisit(t)')
    BY DEF SteadySound
  <2>1. CASE t \in steady
    <3>1. Present(t) /\ t \notin cancelled
      BY <1>4, <2>1 DEF SteadySound
    <3>2. QED BY <1>9, <1>15, <2>1, <3>1 DEF Present
  <2>2. CASE t \notin cancelled /\ \E i \in 1 .. n : v.cells[i] = t
    <3>1. t \in Subs /\ ListOf(t) = l
      BY <1>3, <1>5, <1>10, <2>2
    <3>2. Present(t)
      BY <1>5, <2>2, <3>1
    <3>3. QED BY <1>9, <1>12, <1>14, <2>2, <3>1, <3>2 DEF Present
  <2>3. QED BY <1>8, <2>1, <2>2
<1>20. QED BY <1>11, <1>16, <1>18, <1>19 DEF WalkInv

LEMMA ArrivesWalk ==
    ASSUME SubsTyped, ListsSound, WalkInv, NEW e \in Events, EventArrives(e) PROVE WalkInv'
<1>1. /\ fan.stage = "idle" /\ TakeList("streams", e, e.ch)
      /\ UNCHANGED <<arr, at, cancelled, writing, got, shifted>>
  BY DEF EventArrives
<1>2. FanTyped /\ ServedSound /\ SteadySound
  BY DEF WalkInv
<1>3. \A t \in Subs : Copies(t) = 0
  <2>1. \A t \in Subs : Copies(t) \in Nat /\ ~(Copies(t) > 0)
    BY <1>1, <1>2, CopiesTyped DEF ServedSound
  <2>2. QED BY <2>1
<1>4. steady = {}
  BY <1>1, <1>2 DEF SteadySound
<1>5. e.ch \in Lists /\ \A t \in Sockets : t \in Subs
  BY EventsAssumption, ListNames
<1>6. \A t \in Subs : ~(Copies(t) > 0)
  BY <1>3
<1>7. QED BY <1>1, <1>3, <1>4, <1>5, <1>6, TakenWalk

LEMMA ToSocketsWalk ==
    ASSUME SubsTyped, ListsSound, WalkInv, FanToSockets PROVE WalkInv'
<1>1. /\ fan.stage = "streams" /\ fan.next > fan.len /\ InWalk
      /\ TakeList("sockets", fan.ev, "wsEvents")
      /\ UNCHANGED <<arr, at, cancelled, writing, got, shifted>>
  BY DEF FanToSockets, InWalk
<1>2. FanTyped /\ ServedSound /\ SteadySound
  BY DEF WalkInv
<1>3. fan.ev \in Events /\ fan.len \in Nat /\ fan.next \in Nat /\ "wsEvents" \in Lists
  BY <1>1, <1>2, WalkTyped, ListNames
<1>4. \A t : ~ToVisit(t)
  BY <1>1, <1>3 DEF ToVisit
<1>5. \A t \in steady : AsksFor(t, fan.ev) /\ ListOf(t) \notin shifted => Copies(t) = 1
  BY <1>2, <1>4 DEF SteadySound
<1>6. \A t \in Subs : ListOf(t) = "wsEvents" => Copies(t) = 0
  <2> SUFFICES ASSUME NEW t \in Subs, ListOf(t) = "wsEvents" PROVE Copies(t) = 0
    OBVIOUS
  <2>1. t \in Sockets
    BY SubsAssumption, ListNames DEF Subs
  <2>2. QED BY <1>1, <1>2, <2>1 DEF ServedSound
<1>7. \A t \in Subs : Copies(t) > 0 => ~Declines(t, fan.ev)
  BY <1>2 DEF ServedSound
<1> DEFINE e == fan.ev
<1>8. /\ e \in Events /\ TakeList("sockets", e, "wsEvents")
      /\ \A t \in steady : AsksFor(t, e) /\ ListOf(t) \notin shifted => Copies(t) = 1
      /\ \A t \in Subs : Copies(t) > 0 => ~Declines(t, e)
  BY <1>1, <1>3, <1>5, <1>7
<1> HIDE DEF e
<1>9. QED BY <1>1, <1>3, <1>6, <1>8, TakenWalk

LEMMA DoneWalk == ASSUME WalkInv, FanDone PROVE WalkInv'
<1>1. /\ fan.stage = "sockets" /\ fan.next > fan.len /\ InWalk
      /\ fan' = [stage |-> "over", ev |-> fan.ev]
      /\ UNCHANGED <<arr, at, cancelled, writing, got, steady, shifted>>
  BY DEF FanDone, InWalk
<1>2. FanTyped /\ ServedSound /\ SteadySound
  BY DEF WalkInv
<1>3. fan.ev \in Events /\ fan.len \in Nat /\ fan.next \in Nat
  BY <1>1, <1>2, WalkTyped
<1>4. fan'.stage = "over" /\ fan'.ev = fan.ev /\ fan' \in [stage : {"over"}, ev : Events]
  BY <1>1, <1>3
<1>5. ~InWalk' /\ \A t : ~ToVisit(t)
  BY <1>1, <1>3, <1>4 DEF InWalk, ToVisit
<1>6. \A t : Copies(t)' = Copies(t)
  BY <1>1 DEF Copies
<1>7. FanTyped'
  BY <1>1, <1>2, <1>4 DEF FanTyped
<1>8. WalkSound'
  BY <1>5 DEF WalkSound
<1>9. ServedSound'
  BY <1>1, <1>2, <1>4, <1>5, <1>6 DEF ServedSound
<1>10. SteadySound'
  <2>1. \A t \in steady : AsksFor(t, fan.ev) /\ ListOf(t) \notin shifted => Copies(t) = 1
    BY <1>2, <1>5 DEF SteadySound
  <2>2. \A t \in steady : Present(t)' /\ t \notin cancelled'
    BY <1>1, <1>2 DEF SteadySound, Present
  <2>3. QED BY <1>1, <1>4, <1>6, <2>1, <2>2 DEF SteadySound
<1>11. QED BY <1>7, <1>8, <1>9, <1>10 DEF WalkInv

\* A subscription that is in no list moves, or one that was added is open.
LEMMA MovedWalk ==
    ASSUME SubsTyped, WalkInv, NEW s \in Subs, NEW to \in Phases, Move(s, to),
           UNCHANGED <<arr, fanout>>,
           \/ ~Present(s) /\ cancelled' \subseteq cancelled \cup {s}
           \/ to = "open" /\ cancelled' = cancelled
    PROVE  WalkInv'
<1>1. at'[s] = to /\ \A t \in Subs \ {s} : at'[t] = at[t]
  BY MovedShape
<1>2. UNCHANGED <<fan, writing, got, shifted, steady>>
  BY DEF fanout
<1>3. ASSUME NEW t \in steady PROVE Present(t)' /\ t \notin cancelled'
  <2>1. t \in Subs /\ Present(t) /\ t \notin cancelled
    BY DEF WalkInv, FanTyped, SteadySound
  <2>2. CASE t = s
    BY <1>1, <2>1, <2>2 DEF Present
  <2>3. CASE t # s
    BY <1>1, <2>1, <2>3 DEF Present
  <2>4. QED BY <2>2, <2>3
<1>4. QED BY <1>2, <1>3, WalkUnmoved

\* Nobody moves; who is cancelled is no longer steady.
LEMMA StillWalk ==
    ASSUME WalkInv, UNCHANGED <<at, arr, fan, writing, got, shifted>>, steady' \subseteq steady,
           \A t \in steady' : t \notin cancelled => t \notin cancelled'
    PROVE  WalkInv'
<1>1. ASSUME NEW t \in steady' PROVE Present(t)' /\ t \notin cancelled'
  BY DEF WalkInv, SteadySound, Present
<1>2. QED BY <1>1, WalkUnmoved

LEMMA WalkStays ==
    ASSUME SubsTyped, ListsSound, WalkInv, [SubsNext]_subsVars PROVE WalkInv'
<1>1. CASE Connect \/ Disconnect \/ PeerClose
  <2>1. UNCHANGED <<at, arr, fanout, cancelled>>
    BY <1>1 DEF Connect, Disconnect, PeerClose
  <2>2. QED BY <2>1, StillWalk DEF fanout
<1>2. CASE CloseForClientID
  <2>1. /\ cancelled' = cancelled \cup registered /\ steady' = steady \ registered
        /\ UNCHANGED <<at, arr, fan, writing, got, shifted>>
    BY <1>2 DEF CloseForClientID
  <2>2. QED BY <2>1, StillWalk
<1>3. CASE \E n \in 1 .. connects, c \in Channels : SyncRead(n, c) \/ SyncSend(n, c)
  <2>1. UNCHANGED <<at, arr, fanout, cancelled>>
    BY <1>3 DEF SyncRead, SyncSend
  <2>2. QED BY <2>1, StillWalk DEF fanout
<1>4. CASE UNCHANGED subsVars
  <2>1. UNCHANGED <<at, arr, fanout, cancelled>>
    BY <1>4 DEF subsVars
  <2>2. QED BY <2>1, StillWalk DEF fanout
<1>5. CASE FanStep
  BY <1>5, WriteWalk, ArrivesWalk, StreamWalk, ToSocketsWalk, SocketWalk, DoneWalk DEF FanStep
<1>6. ASSUME NEW s \in Streams, Resolve(s) \/ Arm(s) PROVE WalkInv'
  <2>1. s \in Subs /\ ~Present(s) /\ UNCHANGED <<arr, fanout, cancelled>>
    BY <1>6, ListNames DEF Resolve, Arm, Present
  <2>2. \E to \in Phases : Move(s, to)
    BY <1>6 DEF Resolve, Arm, Phases
  <2>3. QED BY <2>1, <2>2, MovedWalk
<1>7. ASSUME NEW s \in Streams, Admit(s) PROVE WalkInv'
  <2>1. /\ s \in Subs /\ ~Present(s) /\ ListOf(s) \in Lists
        /\ UNCHANGED <<writing, got, steady, shifted>>
    BY <1>7, ListNames DEF Admit, Present
  <2>2. CASE s \in Foreign \/ Full(ListOf(s))
    <3>1. Move(s, "gone") /\ Return(s) /\ UNCHANGED <<arr, fan>>
      BY <1>7, <2>2 DEF Admit
    <3>2. cancelled' \subseteq cancelled \cup {s} /\ UNCHANGED fanout
      BY <2>1, <3>1 DEF Return, fanout
    <3>3. QED BY <2>1, <3>1, <3>2, MovedWalk DEF Phases
  <2>3. CASE ~(s \in Foreign \/ Full(ListOf(s)))
    <3>1. AddTo(ListOf(s), s) /\ UNCHANGED cancelled
      BY <1>7, <2>3 DEF Admit
    <3>2. QED BY <2>1, <2>3, <3>1, AddedWalk
  <2>4. QED BY <2>2, <2>3
<1>8. ASSUME NEW s \in Sockets, Subscribe(s) PROVE WalkInv'
  <2>1. /\ s \in Subs /\ ~Present(s) /\ ListOf(s) = "wsEvents" /\ "wsEvents" \in Lists
        /\ UNCHANGED <<writing, got, steady, shifted, cancelled>>
    BY <1>8, ListNames DEF Subscribe, Present
  <2>2. CASE Full("wsEvents")
    <3>1. Move(s, "gone") /\ UNCHANGED <<arr, fan>>
      BY <1>8, <2>2 DEF Subscribe
    <3>2. QED BY <2>1, <3>1, MovedWalk DEF Phases, fanout
  <2>3. CASE ~Full("wsEvents")
    <3>1. AddTo("wsEvents", s)
      BY <1>8, <2>3 DEF Subscribe
    <3>2. QED BY <2>1, <2>3, <3>1, AddedWalk
  <2>4. QED BY <2>2, <2>3
<1>9. ASSUME NEW s \in Subs, Emit(s) PROVE WalkInv'
  <2>1. UNCHANGED <<arr, fanout>>
    BY <1>9 DEF Emit
  <2>2. CASE at[s] = "adding"
    <3>1. Move(s, "open") /\ UNCHANGED cancelled
      BY <1>9, <2>2 DEF Emit
    <3>2. QED BY <2>1, <3>1, MovedWalk DEF Phases
  <2>3. CASE at[s] # "adding"
    <3>1. ~Present(s) /\ Move(s, "gone") /\ Return(s)
      BY <1>9, <2>3 DEF Emit, Present
    <3>2. cancelled' \subseteq cancelled \cup {s}
      BY <3>1 DEF Return
    <3>3. QED BY <2>1, <3>1, <3>2, MovedWalk DEF Phases
  <2>4. QED BY <2>2, <2>3
<1>10. ASSUME NEW s \in Subs, HangUp(s) PROVE WalkInv'
  <2>1. /\ cancelled' = cancelled \cup {s} /\ steady' = steady \ {s}
        /\ UNCHANGED <<at, arr, fan, writing, got, shifted>>
    BY <1>10 DEF HangUp
  <2>2. QED BY <2>1, StillWalk
<1>11. CASE \E s \in Streams : Resolve(s) \/ Arm(s) \/ Admit(s)
  BY <1>6, <1>7, <1>11
<1>12. CASE \E s \in Sockets : Subscribe(s) \/ Unsubscribe(s)
  BY <1>8, <1>12, RemovedWalk, ListNames DEF Unsubscribe
<1>13. CASE \E s \in Subs : Emit(s) \/ HangUp(s) \/ Remove(s)
  BY <1>9, <1>10, <1>13, RemovedWalk DEF Remove
<1>14. QED
  BY <1>1, <1>2, <1>3, <1>4, <1>5, <1>11, <1>12, <1>13 DEF SubsNext, FanStep

LEMMA WalkStart == ASSUME SubsInit PROVE WalkInv
<1>1. /\ fan = [stage |-> "idle"] /\ writing = [s \in Streams |-> 0] /\ got = [s \in Subs |-> 0]
      /\ steady = {} /\ shifted = {}
  BY DEF SubsInit
<1>2. fan \in [stage : {"idle"}] /\ fan.stage = "idle"
  BY <1>1
<1>3. FanTyped
  <2>1. writing \in [Streams -> Nat] /\ got \in [Subs -> Nat]
    BY <1>1
  <2>2. QED BY <1>1, <1>2, <2>1 DEF FanTyped
<1>4. ~InWalk
  BY <1>2 DEF InWalk
<1>5. \A s \in Subs : Copies(s) = 0
  <2> SUFFICES ASSUME NEW s \in Subs PROVE Copies(s) = 0
    OBVIOUS
  <2>1. got[s] = 0 /\ (s \in Streams => writing[s] = 0)
    BY <1>1
  <2>2. QED BY <2>1 DEF Copies
<1>6. ServedSound
  <2>1. \A s \in Subs : ~(Copies(s) > 0) /\ Copies(s) <= 1
    BY <1>5
  <2>2. QED BY <1>2, <1>4, <2>1 DEF ServedSound
<1>7. WalkSound /\ SteadySound
  BY <1>1, <1>4 DEF WalkSound, SteadySound
<1>8. QED BY <1>3, <1>6, <1>7 DEF WalkInv

\* A subscriber that is there for the whole fan-out of an event it asks for is served
\* exactly once, nobody twice, unless somebody left its list under the walk: GetXSSE
\* and GetWSEvents, which hand out the slice that RemoveXSSE shifts in place.
THEOREM EventsAreServedOnce == SubsSpec => []SteadyAreServedOnce
<1>1. SubsInit => WalkInv
  BY WalkStart
<1>2. SubsTyped /\ ListsSound /\ WalkInv /\ [SubsNext]_subsVars => WalkInv'
  BY WalkStays
<1>3. WalkInv => SteadyAreServedOnce
  <2> SUFFICES ASSUME WalkInv PROVE SteadyAreServedOnce
    OBVIOUS
  <2>1. FanTyped /\ ServedSound /\ SteadySound
    BY DEF WalkInv
  <2>2. ASSUME NEW s \in Subs, Copies(s) > 0
        PROVE  ~Declines(s, fan.ev) /\ (Copies(s) = 1 \/ ListOf(s) \in shifted)
    <3>1. Copies(s) \in Nat
      BY <2>1, CopiesTyped
    <3>2. ListOf(s) \notin shifted => Copies(s) <= 1
      BY <2>1 DEF ServedSound
    <3>3. QED BY <2>1, <2>2, <3>1, <3>2 DEF ServedSound
  <2>3. ASSUME fan.stage = "over", NEW s \in steady, AsksFor(s, fan.ev), ListOf(s) \notin shifted
        PROVE  Copies(s) = 1
    BY <2>1, <2>3 DEF SteadySound, InWalk
  <2>4. QED BY <2>2, <2>3 DEF SteadyAreServedOnce
<1>4. QED BY <1>1, <1>2, <1>3, ListsAreTheOpen, PTL DEF SubsSpec
=============================================================================
