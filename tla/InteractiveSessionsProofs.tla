--------------------- MODULE InteractiveSessionsProofs ---------------------
(***************************************************************************)
(* Proofs about the interactive viewing sessions: the types with the limit *)
(* per key, ViewersAreTold and NothingStreamsUnwatched, for any sessions,  *)
(* viewers and limits.                                                     *)
(*                                                                         *)
(* What makes the two properties hold is an order of events that no single *)
(* handler enforces: the module can only speak of a session whose start    *)
(* message it got, which is the last thing the start handler does, and the *)
(* viewer can only end one when its start handler is over.  StartsSound    *)
(* and StreamsSound say so.                                                *)
(***************************************************************************)
EXTENDS InteractiveSessions, FiniteSetTheorems, TLAPS

Positions == {"idle", "found", "created", "over"}
Messages == [kind : Kinds, s : Sessions, at : {"found", "writing"}]
Notices == [s : Sessions, by : {"terminate", "cleanup"}]
Writes == [to : Viewers, by : {"pump", "send", "terminate", "cleanup"}, s : Sessions]

Typed ==
    /\ connects \in 0 .. MaxConnects /\ current \in 0 .. connects
    /\ dead \subseteq 1 .. connects
    /\ streams \subseteq Sessions
    /\ pump \in {Idle} \cup Messages
    /\ table \in [Sessions -> {"new", "pending", "active", "out"}]
    /\ expired \subseteq Sessions
    /\ starting \in [Sessions -> [at : Positions, conn : 0 .. MaxConnects]]
    /\ input \in [Viewers -> SUBSET Sessions]
    /\ inputs \in 0 .. MaxInputs
    /\ open \subseteq Viewers /\ cleaned \subseteq Viewers \ open
    /\ writing \subseteq Writes /\ notices \subseteq Notices
    /\ stalled \subseteq open
    /\ told \subseteq Sessions /\ asked \subseteq Sessions /\ dropped \subseteq Sessions
    /\ unheard \subseteq Sessions

\* The connections that the start handlers hold are real ones, of the past or now;
\* the handlers of a viewer that has hung up are over.
StartsSound ==
    \A s \in Sessions :
        /\ starting[s].conn <= connects
        /\ starting[s].at \in {"found", "created"} =>
               starting[s].conn # 0 /\ ViewerOf[s] \in open
        /\ s \in input[ViewerOf[s]] => starting[s].at = "over"

\* What the module streams and what its read pump handles was started.  A session
\* that the pump is about to take out is no longer streamed, and one whose start
\* message is still to be sent to the module of now is in the table.
StreamsSound ==
    /\ current = 0 => streams = {}
    /\ \A s \in streams : starting[s].at = "over"
    /\ pump # Idle => starting[pump.s].at = "over"
    /\ pump # Idle /\ pump.kind \in {"fatal", "ended"} => pump.s \notin streams
    /\ \A s \in Sessions :
           starting[s].at = "created" /\ starting[s].conn = current /\ s \notin dropped =>
               table[s] \in Live

WithinLimit == Cardinality(Held) <= MaxPerKey

SessionsSound ==
    /\ Typed
    /\ WithinLimit
    /\ StartsSound
    /\ StreamsSound
    /\ ViewersAreTold
    /\ NothingStreamsUnwatched

----------------------------------------------------------------------------
(* The limit: only CreateSession adds a live session.                      *)

\* A step after which no other session is live than before keeps the limit.
LEMMA LimitKept ==
    ASSUME WithinLimit, \A s \in Sessions : table'[s] \in Live => table[s] \in Live
    PROVE  WithinLimit'
<1>1. IsFiniteSet(Held)
  BY FS_Subset, SessionsAssumption DEF Held
<1>2. Held' \subseteq Held
  BY DEF Held, Live
<1>3. Cardinality(Held') <= Cardinality(Held) /\ Cardinality(Held) \in Nat
      /\ Cardinality(Held') \in Nat
  BY <1>1, <1>2, FS_Subset, FS_CardinalityType
<1>4. QED BY <1>3, BoundsAssumption DEF WithinLimit

\* CreateSession adds one, and only below the limit.
LEMMA LimitRaised ==
    ASSUME WithinLimit, NEW s \in Sessions, ~(Cardinality(Held) >= MaxPerKey),
           \A t \in Sessions : t # s => table'[t] = table[t]
    PROVE  WithinLimit'
<1>1. IsFiniteSet(Held)
  BY FS_Subset, SessionsAssumption DEF Held
<1>2. Held' \subseteq Held \cup {s}
  BY DEF Held, Live
<1>3. /\ IsFiniteSet(Held \cup {s})
      /\ Cardinality(Held \cup {s}) <= Cardinality(Held) + 1
  <2>1. Cardinality(Held) \in Nat
    BY <1>1, FS_CardinalityType
  <2>2. /\ IsFiniteSet(Held \cup {s})
        /\ \/ Cardinality(Held \cup {s}) = Cardinality(Held)
           \/ Cardinality(Held \cup {s}) = Cardinality(Held) + 1
    BY <1>1, FS_AddElement, Zenon
  <2>3. QED BY <2>1, <2>2
<1>4. Cardinality(Held') <= Cardinality(Held \cup {s})
      /\ Cardinality(Held') \in Nat /\ Cardinality(Held \cup {s}) \in Nat
      /\ Cardinality(Held) \in Nat
  BY <1>1, <1>2, <1>3, FS_Subset, FS_CardinalityType
<1>5. QED BY <1>3, <1>4, BoundsAssumption DEF WithinLimit

----------------------------------------------------------------------------
(* The initial state, and one lemma per group of actions.                  *)

LEMMA SoundInit == Init => SessionsSound
<1> SUFFICES ASSUME Init PROVE SessionsSound
  OBVIOUS
<1> USE DEF Init
<1>1. Typed
  BY BoundsAssumption DEF Typed, Positions
<1>2. WithinLimit
  <2>1. Held = {}
    BY DEF Held, Live
  <2>2. QED BY <2>1, FS_EmptySet, BoundsAssumption DEF WithinLimit
<1>3. StartsSound /\ StreamsSound
  BY SessionsAssumption DEF StartsSound, StreamsSound
<1>4. ViewersAreTold /\ NothingStreamsUnwatched
  BY DEF ViewersAreTold, NothingStreamsUnwatched, Over
<1>5. QED BY <1>1, <1>2, <1>3, <1>4 DEF SessionsSound

\* The steps of the module's connection.
LEMMA ConnectionSteps ==
    ASSUME SessionsSound,
           Connect \/ Disconnect \/ \E n \in 1 .. MaxConnects : Evicted(n)
    PROVE  SessionsSound'
<1> USE DEF SessionsSound
<1>1. CASE Connect
  <2> USE <1>1 DEF Connect, viewer, history
  <2>1. Typed'
    BY BoundsAssumption DEF Typed, Messages, Notices, Writes, Positions
  <2>2. WithinLimit'
    BY LimitKept
  <2>3. StartsSound' /\ StreamsSound'
    BY BoundsAssumption DEF StartsSound, StreamsSound, Typed
  <2>4. ViewersAreTold' /\ NothingStreamsUnwatched'
    BY DEF ViewersAreTold, NothingStreamsUnwatched, Over
  <2>5. QED BY <2>1, <2>2, <2>3, <2>4
<1>2. CASE Disconnect
  <2> USE <1>2 DEF Disconnect, TerminateSessionsForClient, End, viewer, history
  <2>1. Typed'
    BY DEF Typed, Notices
  <2>2. WithinLimit'
    BY LimitKept DEF Live
  <2>3. StartsSound' /\ StreamsSound'
    BY DEF StartsSound, StreamsSound, Typed
  <2>4. \A s \in Sessions : table'[s] = "out" =>
            table[s] = "out" \/ [s |-> s, by |-> "terminate"] \in notices'
    OBVIOUS
  <2>5. ViewersAreTold'
    BY <2>4 DEF ViewersAreTold, Over
  <2>6. NothingStreamsUnwatched'
    BY DEF NothingStreamsUnwatched
  <2>7. QED BY <2>1, <2>2, <2>3, <2>5, <2>6
<1>3. CASE \E n \in 1 .. MaxConnects : Evicted(n)
  <2> USE <1>3 DEF Evicted, viewer, history
  <2>1. Typed'
    BY DEF Typed
  <2>2. WithinLimit'
    BY LimitKept
  <2>3. StartsSound' /\ StreamsSound'
    BY DEF StartsSound, StreamsSound
  <2>4. ViewersAreTold' /\ NothingStreamsUnwatched'
    BY DEF ViewersAreTold, NothingStreamsUnwatched, Over
  <2>5. QED BY <2>1, <2>2, <2>3, <2>4
<1>4. QED BY <1>1, <1>2, <1>3

\* The steps of the module's read pump.
LEMMA PumpSteps ==
    ASSUME SessionsSound,
           \/ \E k \in Kinds, s \in Sessions : ModuleSends(k, s)
           \/ HandlerWrites
           \/ HandlerDone
    PROVE  SessionsSound'
<1> USE DEF SessionsSound
<1>1. ASSUME NEW k \in Kinds, NEW s \in Sessions, ModuleSends(k, s)
      PROVE  SessionsSound'
  <2> USE <1>1 DEF ModuleSends, viewer, history
  <2>1. Typed'
    BY DEF Typed, Messages
  <2>2. WithinLimit'
    BY LimitKept
  <2>3. StartsSound'
    BY DEF StartsSound
  <2>4. StreamsSound'
    BY DEF StreamsSound, Idle
  <2>5. ViewersAreTold' /\ NothingStreamsUnwatched'
    BY DEF ViewersAreTold, NothingStreamsUnwatched, Over
  <2>6. QED BY <2>1, <2>2, <2>3, <2>4, <2>5
<1>2. CASE HandlerWrites
  <2> USE <1>2 DEF HandlerWrites, history
  <2>1. /\ pump \in Messages
        /\ pump' \in Messages /\ pump'.s = pump.s /\ pump'.kind = pump.kind
        /\ pump.s \in Sessions
    BY DEF Typed, Messages
  <2>2. /\ table' \in [Sessions -> {"new", "pending", "active", "out"}]
        /\ expired' \subseteq expired
        /\ \A s \in Sessions : (table'[s] \in Live) <=> (table[s] \in Live)
        /\ \A s \in Sessions : (table'[s] = "out") <=> (table[s] = "out")
    BY <2>1 DEF Typed, Activate, UpdateActivity, Live, Kinds
  <2>3. Typed'
    <3>1. Write("pump", pump.s) \in Writes
      BY <2>1, SessionsAssumption DEF Writes, Write
    <3>2. QED BY <2>1, <2>2, <3>1 DEF Typed, viewer
  <2>4. WithinLimit'
    BY <2>2, LimitKept
  <2>5. StartsSound'
    BY DEF StartsSound, viewer
  <2>6. StreamsSound'
    BY <2>1, <2>2 DEF StreamsSound
  <2>7. ViewersAreTold' /\ NothingStreamsUnwatched'
    BY <2>2 DEF ViewersAreTold, NothingStreamsUnwatched, Over, Typed, Write
  <2>8. QED BY <2>3, <2>4, <2>5, <2>6, <2>7
<1>3. CASE HandlerDone
  <2> USE <1>3 DEF HandlerDone
  <2>1. pump \in Messages /\ pump.s \in Sessions
    BY DEF Typed, Messages
  <2>2. /\ table' \in [Sessions -> {"new", "pending", "active", "out"}]
        /\ expired' \subseteq expired
        /\ \A s \in Sessions : table'[s] # table[s] =>
               s = pump.s /\ table'[s] = "out" /\ pump.kind \in {"fatal", "ended"}
    BY <2>1 DEF Typed, End
  <2>3. Typed'
    BY <2>1, <2>2 DEF Typed, viewer
  <2>4. WithinLimit'
    BY <2>2, LimitKept DEF Live
  <2>5. StartsSound'
    BY DEF StartsSound, viewer
  <2>6. StreamsSound'
    <3>1. \A s \in Sessions : starting[s].at = "created" => table'[s] = table[s]
      BY <2>2 DEF StreamsSound
    <3>2. QED BY <3>1 DEF StreamsSound
  <2>7. ViewersAreTold'
    BY <2>1, <2>2 DEF ViewersAreTold, Over, Write
  <2>8. NothingStreamsUnwatched'
    <3>1. \A s \in streams : table'[s] = table[s]
      BY <2>2 DEF StreamsSound, Typed
    <3>2. QED BY <3>1 DEF NothingStreamsUnwatched
  <2>9. QED BY <2>3, <2>4, <2>5, <2>6, <2>7, <2>8
<1>4. QED BY <1>1, <1>2, <1>3

\* The steps of the start handlers.
LEMMA StartSteps ==
    ASSUME SessionsSound, NEW s \in Sessions, LookUp(s) \/ Create(s) \/ SendStart(s)
    PROVE  SessionsSound'
<1> USE DEF SessionsSound
<1>0. ViewerOf[s] \in Viewers /\ starting[s] \in [at : Positions, conn : 0 .. MaxConnects]
  BY SessionsAssumption DEF Typed
<1>1. CASE LookUp(s)
  <2> USE <1>1 DEF LookUp, module, viewer, history
  <2>1. current \in 0 .. MaxConnects /\ current <= connects
    BY BoundsAssumption DEF Typed
  <2>2. Typed'
    BY <2>1 DEF Typed, Positions
  <2>3. WithinLimit'
    BY LimitKept
  <2>4. StartsSound'
    BY <1>0, <2>1 DEF StartsSound, Typed, Free
  <2>5. StreamsSound'
    BY <1>0 DEF StreamsSound, Typed
  <2>6. ViewersAreTold' /\ NothingStreamsUnwatched'
    BY DEF ViewersAreTold, NothingStreamsUnwatched, Over
  <2>7. QED BY <2>2, <2>3, <2>4, <2>5, <2>6
<1>2. CASE Create(s)
  <2> USE <1>2 DEF Create, module, viewer, history
  <2>1. Typed'
    <3>1. /\ starting' \in [Sessions -> [at : Positions, conn : 0 .. MaxConnects]]
          /\ table' \in [Sessions -> {"new", "pending", "active", "out"}]
      <4>1. starting[s] \in [at : Positions, conn : 0 .. MaxConnects]
        BY DEF Typed
      <4>2. \A at \in {"over", "created"} :
                [starting[s] EXCEPT !.at = at] \in [at : Positions, conn : 0 .. MaxConnects]
        BY <4>1 DEF Positions
      <4>3. QED BY <4>2 DEF Typed
    <3>2. QED BY <3>1 DEF Typed
  <2>2. WithinLimit'
    <3>1. CASE Cardinality(Held) >= MaxPerKey
      BY <3>1, LimitKept
    <3>2. CASE ~(Cardinality(Held) >= MaxPerKey)
      <4>1. \A t \in Sessions : t # s => table'[t] = table[t]
        BY <3>2 DEF Typed
      <4>2. QED BY <3>2, <4>1, LimitRaised
    <3>3. QED BY <3>1, <3>2
  <2>3. StartsSound'
    BY <1>0 DEF StartsSound, Typed
  <2>4. StreamsSound'
    <3>1. \A t \in Sessions : t # s => starting'[t] = starting[t] /\ table'[t] = table[t]
      BY DEF Typed
    <3>2. \/ starting'[s].at = "over"
          \/ starting'[s].at = "created" /\ table'[s] = "pending"
      BY <1>0 DEF Typed
    <3>3. starting'[s].conn = starting[s].conn /\ starting[s].at = "found"
      BY <1>0 DEF Typed
    <3>4. pump # Idle => pump.s \in Sessions
      BY DEF Typed, Messages
    <3>5. QED BY <3>1, <3>2, <3>3, <3>4 DEF StreamsSound, Live, Typed
  <2>5. ViewersAreTold' /\ NothingStreamsUnwatched'
    BY DEF ViewersAreTold, NothingStreamsUnwatched, Over, Typed, Live
  <2>6. QED BY <2>1, <2>2, <2>3, <2>4, <2>5
<1>3. CASE SendStart(s)
  <2> USE <1>3 DEF SendStart, viewer
  <2>0. /\ starting' = [starting EXCEPT ![s].at = "over"]
        /\ table' \in [Sessions -> {"new", "pending", "active", "out"}]
        /\ expired' \subseteq expired
        /\ \A t \in Sessions : table'[t] # table[t] => t = s /\ table'[t] = "out" /\ s \in told'
        /\ streams' \subseteq streams \cup {s} /\ s \notin streams
        /\ told' \subseteq told \cup {s} /\ told \subseteq told'
    BY DEF Typed, End, StreamsSound
  <2>1. Typed'
    <3>1. starting' \in [Sessions -> [at : Positions, conn : 0 .. MaxConnects]]
      BY <1>0, <2>0 DEF Typed, Positions
    <3>2. streams' \subseteq Sessions /\ told' \subseteq Sessions /\ expired' \subseteq Sessions
      BY <2>0 DEF Typed
    <3>3. QED BY <2>0, <3>1, <3>2 DEF Typed
  <2>2. WithinLimit'
    BY <2>0, LimitKept DEF Live
  <2>3. StartsSound'
    BY <1>0 DEF StartsSound, Typed
  <2>4. StreamsSound'
    <3>1. current = 0 => streams' = {}
      BY <1>0 DEF StreamsSound, StartsSound, Typed
    <3>2. \A t \in streams' : starting'[t].at = "over"
      BY <1>0, <2>0 DEF StreamsSound, Typed
    <3>3. pump # Idle => pump.s \in Sessions /\ pump.s # s /\ starting'[pump.s].at = "over"
      BY <1>0, <2>0 DEF StreamsSound, Typed, Messages
    <3>4. pump # Idle /\ pump.kind \in {"fatal", "ended"} => pump.s \notin streams'
      BY <2>0, <3>3 DEF StreamsSound
    <3>5. \A t \in Sessions :
              starting'[t].at = "created" /\ starting'[t].conn = current /\ t \notin dropped =>
                  table'[t] \in Live
      BY <1>0, <2>0 DEF StreamsSound, Typed
    <3>6. QED BY <3>1, <3>2, <3>3, <3>4, <3>5 DEF StreamsSound
  <2>5. ViewersAreTold'
    BY <2>0 DEF ViewersAreTold, Over
  <2>6. NothingStreamsUnwatched'
    <3>1. \A t \in streams : table'[t] = table[t]
      BY <2>0 DEF Typed
    <3>2. s \in streams' => table'[s] = table[s] /\ (table[s] \in Live \/ s \in dropped)
      BY <2>0 DEF StreamsSound
    <3>3. QED BY <2>0, <3>1, <3>2 DEF NothingStreamsUnwatched
  <2>7. QED BY <2>1, <2>2, <2>3, <2>4, <2>5, <2>6
<1>4. QED BY <1>1, <1>2, <1>3

\* The steps of a viewer's read pump in its other handlers, and of its cleanup.
LEMMA ViewerSteps ==
    ASSUME SessionsSound,
           \/ \E s \in Sessions : Input(s) \/ InputSent(s) \/ ViewerEnds(s)
           \/ \E v \in Viewers :
                 HangUp(v) \/ CleanUpViewer(v) \/ SendBegins(v) \/ Stall(v) \/ Resume(v)
    PROVE  SessionsSound'
<1> USE DEF SessionsSound
<1>1. ASSUME NEW s \in Sessions, Input(s)
      PROVE  SessionsSound'
  <2> USE <1>1, SessionsAssumption DEF Input, UpdateActivity, module, history
  <2>1. Typed'
    BY BoundsAssumption DEF Typed
  <2>2. WithinLimit'
    BY LimitKept
  <2>3. StartsSound' /\ StreamsSound'
    BY DEF StartsSound, StreamsSound, Typed
  <2>4. ViewersAreTold' /\ NothingStreamsUnwatched'
    BY DEF ViewersAreTold, NothingStreamsUnwatched, Over
  <2>5. QED BY <2>1, <2>2, <2>3, <2>4
<1>2. ASSUME NEW s \in Sessions, InputSent(s)
      PROVE  SessionsSound'
  <2> USE <1>2, SessionsAssumption DEF InputSent, module
  <2>0. /\ table' \in [Sessions -> {"new", "pending", "active", "out"}]
        /\ expired' \subseteq expired
        /\ \A t \in Sessions : table'[t] # table[t] =>
               t = s /\ table'[t] = "out" /\ s \in told' /\ current = 0
        /\ told' \subseteq told \cup {s} /\ told \subseteq told'
    BY DEF Typed, End
  <2>1. Typed'
    BY <2>0 DEF Typed
  <2>2. WithinLimit'
    BY <2>0, LimitKept DEF Live
  <2>3. StartsSound'
    BY DEF StartsSound, Typed
  <2>4. StreamsSound'
    <3>1. \A t \in Sessions : starting[t].at = "created" => table'[t] = table[t]
      BY <2>0 DEF StartsSound
    <3>2. QED BY <3>1 DEF StreamsSound
  <2>5. ViewersAreTold' /\ NothingStreamsUnwatched'
    BY <2>0 DEF ViewersAreTold, NothingStreamsUnwatched, Over, StreamsSound, Typed
  <2>6. QED BY <2>1, <2>2, <2>3, <2>4, <2>5
<1>3. ASSUME NEW s \in Sessions, ViewerEnds(s)
      PROVE  SessionsSound'
  <2> USE <1>3 DEF ViewerEnds, viewer
  <2>0. /\ table' \in [Sessions -> {"new", "pending", "active", "out"}]
        /\ expired' \subseteq expired
        /\ \A t \in Sessions : table'[t] # table[t] =>
               t = s /\ table'[t] = "out" /\ s \in asked'
        /\ asked \subseteq asked' /\ asked' \subseteq asked \cup {s}
        /\ streams' \subseteq streams /\ (s \in streams' => s \in unheard')
        /\ unheard \subseteq unheard' /\ unheard' \subseteq unheard \cup streams
    BY DEF Typed, End, PassEnd, Live
  <2>1. Typed'
    BY <2>0 DEF Typed
  <2>2. WithinLimit'
    BY <2>0, LimitKept DEF Live
  <2>3. StartsSound'
    BY DEF StartsSound
  <2>4. StreamsSound'
    BY <2>0 DEF StreamsSound
  <2>5. ViewersAreTold' /\ NothingStreamsUnwatched'
    BY <2>0 DEF ViewersAreTold, NothingStreamsUnwatched, Over, Typed
  <2>6. QED BY <2>1, <2>2, <2>3, <2>4, <2>5
<1>4. ASSUME NEW v \in Viewers, HangUp(v)
      PROVE  SessionsSound'
  <2> USE <1>4 DEF HangUp, module, history
  <2>1. Typed'
    BY DEF Typed
  <2>2. WithinLimit'
    BY LimitKept
  <2>3. StartsSound'
    BY DEF StartsSound, Free
  <2>4. StreamsSound'
    BY DEF StreamsSound
  <2>5. ViewersAreTold' /\ NothingStreamsUnwatched'
    BY DEF ViewersAreTold, NothingStreamsUnwatched, Over
  <2>6. QED BY <2>1, <2>2, <2>3, <2>4, <2>5
<1>5. ASSUME NEW v \in Viewers, CleanUpViewer(v)
      PROVE  SessionsSound'
  <2> DEFINE set == {s \in Sessions : ViewerOf[s] = v /\ table[s] \in Live}
  <2> USE <1>5 DEF CleanUpViewer
  <2>0. /\ table' \in [Sessions -> {"new", "pending", "active", "out"}]
        /\ expired' \subseteq expired
        /\ \A t \in Sessions : t \notin set => table'[t] = table[t]
        /\ \A t \in set : table'[t] = "out"
        /\ asked' = asked \cup set
        /\ streams' \subseteq streams /\ set \cap streams' \subseteq unheard'
        /\ unheard \subseteq unheard' /\ unheard' \subseteq unheard \cup streams
    BY DEF Typed, End, PassEnd
  <2>1. Typed'
    BY <2>0 DEF Typed
  <2>2. WithinLimit'
    BY <2>0, LimitKept DEF Live
  <2>3. StartsSound'
    BY DEF StartsSound
  <2>4. StreamsSound'
    <3>1. \A t \in Sessions : starting[t].at = "created" => t \notin set
      BY DEF StartsSound
    <3> HIDE DEF set
    <3>2. QED BY <2>0, <3>1 DEF StreamsSound
  <2>5. ViewersAreTold' /\ NothingStreamsUnwatched'
    <3> HIDE DEF set
    <3>1. QED BY <2>0 DEF ViewersAreTold, NothingStreamsUnwatched, Over, Typed
  <2>6. QED BY <2>1, <2>2, <2>3, <2>4, <2>5
<1>6. ASSUME NEW v \in Viewers, SendBegins(v)
      PROVE  SessionsSound'
  <2> USE <1>6 DEF SendBegins, module, viewer, history
  <2>1. Typed'
    BY SessionsAssumption DEF Typed, Writes, Write
  <2>2. WithinLimit'
    BY LimitKept
  <2>3. StartsSound' /\ StreamsSound'
    BY DEF StartsSound, StreamsSound
  <2>4. ViewersAreTold' /\ NothingStreamsUnwatched'
    BY DEF ViewersAreTold, NothingStreamsUnwatched, Over
  <2>5. QED BY <2>1, <2>2, <2>3, <2>4
<1>7. ASSUME NEW v \in Viewers, Stall(v) \/ Resume(v)
      PROVE  SessionsSound'
  <2> USE <1>7 DEF Stall, Resume, module, history
  <2>1. Typed'
    BY DEF Typed
  <2>2. WithinLimit'
    BY LimitKept
  <2>3. StartsSound' /\ StreamsSound'
    BY DEF StartsSound, StreamsSound
  <2>4. ViewersAreTold' /\ NothingStreamsUnwatched'
    BY DEF ViewersAreTold, NothingStreamsUnwatched, Over
  <2>5. QED BY <2>1, <2>2, <2>3, <2>4
<1>8. QED BY <1>1, <1>2, <1>3, <1>4, <1>5, <1>6, <1>7

\* Time, the cleanup loop, the admin, and the writes to the viewers.
LEMMA OtherSteps ==
    ASSUME SessionsSound,
           \/ \E s \in Sessions : TimePasses(s) \/ Kill(s)
           \/ CleanUp \/ SendEnds
           \/ \E n \in notices : NoticeBegins(n)
           \/ \E w \in writing : NoticeEnds(w)
    PROVE  SessionsSound'
<1> USE DEF SessionsSound
<1>1. ASSUME NEW s \in Sessions, TimePasses(s)
      PROVE  SessionsSound'
  <2> USE <1>1 DEF TimePasses, module, viewer, history
  <2>1. Typed'
    BY DEF Typed
  <2>2. WithinLimit'
    BY LimitKept
  <2>3. StartsSound' /\ StreamsSound'
    BY DEF StartsSound, StreamsSound
  <2>4. ViewersAreTold' /\ NothingStreamsUnwatched'
    BY DEF ViewersAreTold, NothingStreamsUnwatched, Over
  <2>5. QED BY <2>1, <2>2, <2>3, <2>4
<1>2. ASSUME NEW s \in Sessions, Kill(s)
      PROVE  SessionsSound'
  <2> USE <1>2 DEF Kill, module, viewer
  <2>0. /\ table' \in [Sessions -> {"new", "pending", "active", "out"}]
        /\ expired' \subseteq expired
        /\ \A t \in Sessions : table'[t] # table[t] => t = s /\ table'[t] = "out"
        /\ dropped' = dropped \cup {s}
    BY DEF Typed, End
  <2>1. Typed'
    BY <2>0 DEF Typed
  <2>2. WithinLimit'
    BY <2>0, LimitKept DEF Live
  <2>3. StartsSound' /\ StreamsSound'
    BY <2>0 DEF StartsSound, StreamsSound
  <2>4. ViewersAreTold' /\ NothingStreamsUnwatched'
    BY <2>0 DEF ViewersAreTold, NothingStreamsUnwatched, Over, Typed
  <2>5. QED BY <2>1, <2>2, <2>3, <2>4
<1>3. CASE CleanUp
  <2> USE <1>3 DEF CleanUp, module, viewer
  <2>0. /\ Overdue \subseteq Sessions
        /\ table' \in [Sessions -> {"new", "pending", "active", "out"}]
        /\ expired' \subseteq expired
        /\ \A t \in Sessions : table'[t] # table[t] => t \in Overdue /\ table'[t] = "out"
        /\ dropped' = dropped \cup Overdue
    BY DEF Typed, End, Overdue
  <2>1. Typed'
    BY <2>0 DEF Typed, Notices
  <2>2. WithinLimit'
    BY <2>0, LimitKept DEF Live
  <2>3. StartsSound' /\ StreamsSound'
    BY <2>0 DEF StartsSound, StreamsSound
  <2>4. ViewersAreTold' /\ NothingStreamsUnwatched'
    BY <2>0 DEF ViewersAreTold, NothingStreamsUnwatched, Over, Typed
  <2>5. QED BY <2>1, <2>2, <2>3, <2>4
<1>4. CASE SendEnds
  <2> USE <1>4 DEF SendEnds, module, viewer, history
  <2>1. Typed'
    BY DEF Typed
  <2>2. WithinLimit'
    BY LimitKept
  <2>3. StartsSound' /\ StreamsSound'
    BY DEF StartsSound, StreamsSound
  <2>4. ViewersAreTold' /\ NothingStreamsUnwatched'
    BY DEF ViewersAreTold, NothingStreamsUnwatched, Over
  <2>5. QED BY <2>1, <2>2, <2>3, <2>4
<1>5. ASSUME NEW n \in notices, NoticeBegins(n)
      PROVE  SessionsSound'
  <2> USE <1>5 DEF NoticeBegins, module, viewer, history
  <2>0. n \in Notices
    BY DEF Typed
  <2>1. Typed'
    BY <2>0, SessionsAssumption DEF Typed, Writes, Write, Notices
  <2>2. WithinLimit'
    BY LimitKept
  <2>3. StartsSound' /\ StreamsSound'
    BY DEF StartsSound, StreamsSound
  <2>4. NothingStreamsUnwatched'
    BY DEF NothingStreamsUnwatched
  <2>5. ViewersAreTold'
    <3>1. \E w \in writing' : w.s = n.s /\ w.by \in {"terminate", "cleanup"}
      <4>1. Write(n.by, n.s) \in writing'
        OBVIOUS
      <4>2. Write(n.by, n.s).s = n.s /\ Write(n.by, n.s).by \in {"terminate", "cleanup"}
        BY <2>0 DEF Write, Notices
      <4>3. QED BY <4>1, <4>2
    <3>2. \A m \in notices : m # n => m \in notices'
      OBVIOUS
    <3>3. writing \subseteq writing'
      OBVIOUS
    <3>4. QED BY <3>1, <3>2, <3>3 DEF ViewersAreTold, Over
  <2>6. QED BY <2>1, <2>2, <2>3, <2>4, <2>5
<1>6. ASSUME NEW w \in writing, NoticeEnds(w)
      PROVE  SessionsSound'
  <2> USE <1>6 DEF NoticeEnds, module, viewer
  <2>0. w \in Writes
    BY DEF Typed
  <2>1. Typed'
    BY <2>0 DEF Typed, Writes
  <2>2. WithinLimit'
    BY LimitKept
  <2>3. StartsSound' /\ StreamsSound'
    BY DEF StartsSound, StreamsSound
  <2>4. ViewersAreTold' /\ NothingStreamsUnwatched'
    BY DEF ViewersAreTold, NothingStreamsUnwatched, Over
  <2>5. QED BY <2>1, <2>2, <2>3, <2>4
<1>7. QED BY <1>1, <1>2, <1>3, <1>4, <1>5, <1>6

----------------------------------------------------------------------------

LEMMA SessionsStep == SessionsSound /\ [Next]_vars => SessionsSound'
<1> SUFFICES ASSUME SessionsSound, [Next]_vars PROVE SessionsSound'
  OBVIOUS
<1>1. CASE UNCHANGED vars
  <2> USE <1>1 DEF vars, module, viewer, history, SessionsSound
  <2>1. Typed'
    BY DEF Typed
  <2>2. WithinLimit'
    BY LimitKept
  <2>3. StartsSound' /\ StreamsSound'
    BY DEF StartsSound, StreamsSound
  <2>4. ViewersAreTold' /\ NothingStreamsUnwatched'
    BY DEF ViewersAreTold, NothingStreamsUnwatched, Over
  <2>5. QED BY <2>1, <2>2, <2>3, <2>4
<1>2. CASE Connect \/ Disconnect \/ \E n \in 1 .. MaxConnects : Evicted(n)
  BY <1>2, ConnectionSteps
<1>3. CASE \/ \E k \in Kinds, s \in Sessions : ModuleSends(k, s)
           \/ HandlerWrites
           \/ HandlerDone
  BY <1>3, PumpSteps
<1>4. CASE \E s \in Sessions : LookUp(s) \/ Create(s) \/ SendStart(s)
  BY <1>4, StartSteps
<1>5. CASE \/ \E s \in Sessions : Input(s) \/ InputSent(s) \/ ViewerEnds(s)
           \/ \E v \in Viewers :
                 HangUp(v) \/ CleanUpViewer(v) \/ SendBegins(v) \/ Stall(v) \/ Resume(v)
  BY <1>5, ViewerSteps
<1>6. CASE \/ \E s \in Sessions : TimePasses(s) \/ Kill(s)
           \/ CleanUp \/ SendEnds
           \/ \E n \in notices : NoticeBegins(n)
           \/ \E w \in writing : NoticeEnds(w)
  BY <1>6, OtherSteps
<1>7. QED BY <1>1, <1>2, <1>3, <1>4, <1>5, <1>6 DEF Next

LEMMA SessionsAreSound == Spec => []SessionsSound
BY SoundInit, SessionsStep, PTL DEF Spec

\* Types, and the limit: however starts, timeouts and removals interleave, one key
\* holds at most maxPerKey sessions.
THEOREM TypeCorrect == Spec => []TypeOK
<1>1. SessionsSound => TypeOK
  BY DEF SessionsSound, Typed, TypeOK, WithinLimit, Held, StreamsSound, Messages, Positions
<1>2. QED BY <1>1, SessionsAreSound, PTL

\* Every removal of a session tells its viewer, or was its viewer's, or was a timeout
\* or the admin's: no interleaving of the pumps, the removal of the module and the
\* cleanup loop loses the notice.
THEOREM EveryEndIsAnnounced == Spec => []ViewersAreTold
<1>1. SessionsSound => ViewersAreTold
  BY DEF SessionsSound
<1>2. QED BY <1>1, SessionsAreSound, PTL

\* The module is left streaming a session that the relay has dropped only after a
\* timeout or the admin's kill, which do not tell it, or when the Send of the end was
\* refused, which the handlers do not look at: no order of the start handler, the
\* module's messages and the ends by either side does it.
THEOREM StreamsAreWatched == Spec => []NothingStreamsUnwatched
<1>1. SessionsSound => NothingStreamsUnwatched
  BY DEF SessionsSound
<1>2. QED BY <1>1, SessionsAreSound, PTL
=============================================================================
