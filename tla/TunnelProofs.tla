---------------------------- MODULE TunnelProofs ----------------------------
(***************************************************************************)
(* Theorems about Tunnel and Notifications, for any worlds, tokens, rows,  *)
(* numbers of requests, of dashboard handlers and of notifications.        *)
(***************************************************************************)
EXTENDS Tunnel, FiniteSetTheorems, WellFoundedInduction, TLAPS

----------------------------------------------------------------------------
(* The types of the tunnel's variables.                                    *)

RequestStages == {"new", "received", "known", "permitted", "fresh", "forwarding", "starting",
                  "started", "sending", "waiting", "answered", "done"}
RequestSet == [at : RequestStages, token : Tokens \cup {NoReq.token}, target : Worlds,
               scope : Scopes \cup {None}, start : BOOLEAN, conn : Nat, user : BOOLEAN, ok : BOOLEAN]

\* The rows that a handler has read.
Read == UNION {[S -> RowSet] : S \in SUBSET Worlds}
EditSet == [at : {"new", "read", "tokens", "row", "cleaning", "done"}, world : Worlds, old : Read,
            targets : (SUBSET (Worlds \cup {Every})) \cup {None},
            scopes : (SUBSET Scopes) \cup {None}, left : SUBSET Worlds]
LaunchSet == [at : {"idle", "resolving", "minting", "launching"}, owner : Requests \cup {0},
              cred : Creds \cup {None}]
ReachSet == [targets : SUBSET (Worlds \cup {Every}), scopes : SUBSET Scopes]
CodeSet == [at : {"none", "stored", "paired", "used"}, reach : ReachSet, world : Worlds,
            fresh : SUBSET Worlds]

OwnerTyped ==
    /\ row \in [Worlds -> RowSet]
    /\ wish \in [Worlds -> ReachSet]
    /\ edit \in [Edits -> EditSet]
    /\ code \in CodeSet
    /\ torn \subseteq Worlds

RequestsTyped ==
    /\ req \in [Requests -> RequestSet]
    /\ conn \in [Worlds -> Nat]
    /\ presence \in [Worlds -> {"off", "here", "elsewhere"}]
    /\ token \subseteq Tokens
    /\ lawful \cup doomed \subseteq Requests

LaunchesTyped ==
    /\ launch \in [Worlds -> LaunchSet]
    /\ seed \in [Worlds -> Nat] /\ seeded \in [Worlds -> Nat] /\ stuck \in [Worlds -> Nat]

----------------------------------------------------------------------------
(* What the owner decided.                                                 *)

\* Deleted worlds whose references in a row are still to be removed.
Stale(w) == {edit[e].world : e \in {d \in Edits :
                \/ edit[d].at = "row"
                \/ edit[d].at = "cleaning" /\ d \in Holding(w)}}

\* A row says what the owner decided, but for such references.
Settled(w) ==
    row[w].known /\ w \notin torn =>
        /\ row[w].scopes = wish[w].scopes
        /\ wish[w].targets \subseteq row[w].targets
        /\ row[w].targets \subseteq wish[w].targets \cup Stale(w)
        /\ Every \in wish[w].targets => row[w].targets = wish[w].targets
        /\ \A e \in Cleaning : edit[e].world \in wish[w].targets => Every \in wish[w].targets

\* What a handler read of a row still stands when it will write the row, unless
\* somebody else has written it.
HoldsTrue(e, w) ==
    e \in Holding(w) /\ w \notin torn =>
        /\ Reach(edit[e].old[w]) = Reach(row[w])
        /\ edit[e].at = "cleaning" => Every \notin row[w].targets

\* No handler has read a row that is not made yet.
EditSound(e) ==
    /\ edit[e].at = "read" => DOMAIN edit[e].old = {edit[e].world}
    /\ edit[e].at = "cleaning" => DOMAIN edit[e].old = edit[e].left
    /\ edit[e].at \in {"read", "cleaning"} =>
            \A w \in DOMAIN edit[e].old : edit[e].old[w].made <= row[w].made

ReachSound ==
    /\ \A w \in Worlds : Settled(w)
    /\ \A e \in Edits : EditSound(e) /\ \A w \in Worlds : HoldsTrue(e, w)

----------------------------------------------------------------------------
(* The requests.                                                           *)

\* A request is lawful when the owner allows it while it is not yet decided, and is
\* past the second look at its token only if the token was there then.
Obeys(r) ==
    /\ req[r].at = "new" => r \notin doomed
    /\ Live(r) /\ Permits(wish[Source], r) => r \in lawful
    /\ req[r].at = "permitted" \/ Reaching(r) => r \in lawful
    /\ req[r].at \in {"received", "known", "permitted"} /\ r \in doomed => req[r].token \notin token
    /\ Reaching(r) => r \notin doomed

RequestsObey == \A r \in Requests : Obeys(r)

----------------------------------------------------------------------------
(* The notifications.                                                      *)

NoticeStages == {"new", "begun", "loaded", "account", "key", "world", "done"}

NoticeSet == [at : NoticeStages, event : Events, world : Worlds, key : ApiKeys \cup {NoKey},
              count : Nat, wanted : BOOLEAN]

NoticesTyped ==
    /\ notice \in [Notices -> NoticeSet]
    /\ batch \in [Pairs -> Nat]
    /\ recent \subseteq Events \X Worlds /\ resettled \subseteq Events \X Worlds
    /\ passed \in [Events \X Worlds -> SUBSET Notices]
    /\ asked \in [Destinations -> SUBSET Events]
    /\ debounce \in BOOLEAN

\* Of two notices that are in one window, or may yet be, one looked too early.
WindowSound(x) ==
    /\ passed[x] # {} => x \in recent
    /\ \A m, n \in passed[x] \cup Looking(x) : m # n => m \in overlapped \/ n \in overlapped

\* The account has heard, or is about to hear, a notice.
ReachesAccount(n) ==
    \/ notice[n].at = "account" /\ notice[n].wanted
    \/ <<n, Account>> \in heard

\* A window that no change of settings touched was opened by a notice that reaches
\* the account, if the account wants its event.
OpenedByHeard(x) ==
    x \in recent \ resettled /\ Wants(Account, x[1]) => \E m \in passed[x] : ReachesAccount(m)

ReadsFresh(n) ==
    notice[n].at = "loaded" /\ Topic(n) \notin resettled =>
        (notice[n].wanted <=> Wants(Account, notice[n].event))

\* Who has not asked does not want it now; what is about to be sent was asked for.
SendsAsked(n) ==
    /\ notice[n].at = "new" => \A d \in Destinations : <<n, d>> \notin unasked
    /\ notice[n].at = "begun" => ~notice[n].wanted
    /\ notice[n].at \notin {"new", "done"} =>
        \A d \in {Account, <<"key", notice[n].key>>, <<"world", notice[n].world>>} :
            <<n, d>> \in unasked => ~Wants(d, notice[n].event)
    /\ notice[n].at \in {"loaded", "account"} /\ notice[n].wanted => <<n, Account>> \notin unasked
    /\ \A d \in Destinations : <<n, d>> \in heard => notice[n].at # "new" /\ <<n, d>> \notin unasked

HearingSound ==
    /\ \A x \in Events \X Worlds : WindowSound(x) /\ OpenedByHeard(x)
    /\ \A n \in Notices : ReadsFresh(n) /\ SendsAsked(n)
    /\ lost = {} /\ heard \cup unasked \subseteq Notices \X Destinations

----------------------------------------------------------------------------
(* Every variable keeps its type.                                          *)

LEMMA Constants ==
    /\ NoReq \in RequestSet /\ NoReq.at = "new"
    /\ NoRow \in RowSet /\ NoRow.known = FALSE
    /\ Idle \in LaunchSet /\ Idle.at = "idle"
    /\ NoEdit \in EditSet
    /\ NoCode \in CodeSet
<1>1. NoReq \in RequestSet /\ NoReq.at = "new"
  BY TunnelAssumption DEF NoReq, RequestSet, RequestStages
<1>2. NoRow \in RowSet /\ NoRow.known = FALSE
  BY DEF NoRow, RowSet
<1>3. Idle \in LaunchSet /\ Idle.at = "idle"
  BY DEF Idle, LaunchSet
<1>4. [w \in {} |-> NoRow] \in Read
  <2>1. [w \in {} |-> NoRow] \in [{} -> RowSet] /\ {} \in SUBSET Worlds
    OBVIOUS
  <2>2. QED BY <2>1 DEF Read
<1>5. NoEdit \in EditSet
  <2> DEFINE empty == [w \in {} |-> NoRow]
  <2>1. NoEdit = [at |-> "new", world |-> Source, old |-> empty,
                  targets |-> None, scopes |-> None, left |-> {}]
    BY DEF NoEdit
  <2>2. empty \in Read
    BY <1>4
  <2> HIDE DEF empty
  <2>3. Source \in Worlds
    BY TunnelAssumption
  <2>4. /\ None \in (SUBSET (Worlds \cup {Every})) \cup {None}
        /\ None \in (SUBSET Scopes) \cup {None}
        /\ {} \in SUBSET Worlds
    OBVIOUS
  <2>5. QED BY <2>1, <2>2, <2>3, <2>4 DEF EditSet
<1>6. NoCode \in CodeSet
  BY TunnelAssumption DEF NoCode, CodeSet, ReachSet
<1>7. QED BY <1>1, <1>2, <1>3, <1>5, <1>6

TunnelTyped == OwnerTyped /\ RequestsTyped /\ LaunchesTyped

\* What a step of a request, a launch or the dashboard does to one record.
LEMMA ResponseShape ==
    ASSUME RequestsTyped, NEW r \in Requests, NEW ok \in BOOLEAN, Respond(r, ok)
    PROVE  /\ req' \in [Requests -> RequestSet] /\ req'[r].at = "answered"
           /\ \A q \in Requests \ {r} : req'[q] = req[q]
<1> DEFINE answer == [NoReq EXCEPT !.at = "answered", !.token = req[r].token,
                               !.target = req[r].target, !.user = req[r].user, !.ok = ok]
<1>1. req' = [req EXCEPT ![r] = answer]
  BY DEF Respond
<1>2. req[r] \in RequestSet
  BY DEF RequestsTyped
<1>3. answer \in RequestSet /\ answer.at = "answered"
  BY <1>2, Constants DEF RequestSet, RequestStages
<1> HIDE DEF answer
<1>4. QED BY <1>1, <1>3 DEF RequestsTyped

LEMMA StageShape ==
    ASSUME RequestsTyped, NEW r \in Requests, NEW at \in RequestStages, To(r, at)
    PROVE  /\ req' \in [Requests -> RequestSet] /\ req'[r].at = at
           /\ req'[r].token = req[r].token /\ req'[r].target = req[r].target
           /\ req'[r].scope = req[r].scope
           /\ \A q \in Requests \ {r} : req'[q] = req[q]
<1>1. req[r] \in RequestSet
  BY DEF RequestsTyped
<1>2. QED BY <1>1 DEF To, RequestsTyped, RequestSet

LEMMA WakeShape ==
    ASSUME RequestsTyped, NEW w \in Worlds, NEW ok \in BOOLEAN, Woken(w, ok)
    PROVE  /\ req' \in [Requests -> RequestSet]
           /\ \A q \in Requests : \/ req'[q] = req[q]
                                  \/ req'[q].at = "answered"
                                  \/ req[q].at = "starting" /\ req'[q] = [req[q] EXCEPT !.at = "started"]
<1>1. ASSUME NEW q \in Requests
      PROVE  /\ req'[q] \in RequestSet
             /\ \/ req'[q] = req[q]
                \/ req'[q].at = "answered"
                \/ req[q].at = "starting" /\ req'[q] = [req[q] EXCEPT !.at = "started"]
  <2>1. req[q] \in RequestSet
    BY DEF RequestsTyped
  <2>2. CASE ~(req[q].at = "starting" /\ req[q].target = w /\ req[q].conn = 1)
    BY <2>1, <2>2 DEF Woken
  <2>3. CASE req[q].at = "starting" /\ req[q].target = w /\ req[q].conn = 1 /\ ok
    <3>1. req'[q] = [req[q] EXCEPT !.at = "started"]
      BY <2>3 DEF Woken
    <3>2. QED BY <2>1, <2>3, <3>1 DEF RequestSet, RequestStages
  <2>4. CASE req[q].at = "starting" /\ req[q].target = w /\ req[q].conn = 1 /\ ~ok
    <3>1. req'[q] = [NoReq EXCEPT !.at = "answered", !.token = req[q].token,
                                !.target = w, !.user = req[q].user]
      BY <2>4 DEF Woken
    <3>2. NoReq \in RequestSet
      BY Constants
    <3>3. req'[q].at = "answered"
      BY <3>1, <3>2 DEF RequestSet
    <3>4. req'[q] \in RequestSet
      BY <2>1, <3>1, <3>2 DEF RequestSet, RequestStages
    <3>5. QED BY <3>3, <3>4
  <2>5. QED BY <2>2, <2>3, <2>4
<1>2. req' = [q \in Requests |-> req'[q]]
  BY DEF Woken
<1>3. QED BY <1>1, <1>2

LEMMA SendShape ==
    ASSUME RequestsTyped, NEW r \in Requests, NEW n \in Nat,
           req' = [req EXCEPT ![r] = [@ EXCEPT !.at = "sending", !.conn = n]]
    PROVE  /\ req' \in [Requests -> RequestSet] /\ req'[r].at = "sending"
           /\ req'[r].token = req[r].token /\ req'[r].target = req[r].target
           /\ req'[r].scope = req[r].scope
           /\ \A q \in Requests \ {r} : req'[q] = req[q]
<1>1. req[r] \in RequestSet
  BY DEF RequestsTyped
<1> DEFINE new == [req[r] EXCEPT !.at = "sending", !.conn = n]
<1>2. /\ new \in RequestSet /\ new.at = "sending" /\ new.token = req[r].token
      /\ new.target = req[r].target /\ new.scope = req[r].scope
  BY <1>1 DEF RequestSet, RequestStages
<1>3. req' = [req EXCEPT ![r] = new]
  OBVIOUS
<1> HIDE DEF new
<1>4. QED BY <1>2, <1>3 DEF RequestsTyped

----------------------------------------------------------------------------
(* What a step makes of a request.                                         *)

SameAsk(r) ==
    /\ req'[r].token = req[r].token
    /\ req'[r].target = req[r].target
    /\ req'[r].scope = req[r].scope

\* It is over; or it was looked at and goes one stage further; or it goes on to
\* reach for its target.
Moved(r) ==
    \/ req'[r] = req[r]
    \/ req'[r].at \in {"answered", "done"}
    \/ SameAsk(r) /\ req[r].at = "received" /\ req'[r].at = "known"
    \/ SameAsk(r) /\ req[r].at = "known" /\ req'[r].at = "permitted" /\ Allowed(r)
                  /\ (Source \in torn \/ Cleaning # {} => r \in lawful')
    \/ SameAsk(r) /\ req[r].at = "permitted" /\ req'[r].at = "fresh" /\ FreshToken(r)
    \/ SameAsk(r) /\ Reaching(r) /\ Reaching(r)'

AllMoved ==
    /\ req' \in [Requests -> RequestSet]
    /\ \A q \in Requests : Moved(q)
    /\ lawful \subseteq lawful' /\ lawful' \subseteq Requests /\ doomed' = doomed
    /\ UNCHANGED <<token, conn, presence, row, ownerVars>>

RequestStep ==
    \/ \E r \in Requests : Request(r) \/ GiveUp(r) \/ TargetAnswers(r)
    \/ \E w \in Worlds : Launch(w) \/ Launched(w)

\* Every read, check and answer of a request is one of these moves, and so is what
\* the end of a launch means to those that wait for it.
LEMMA RequestMoves == ASSUME RequestsTyped, RequestStep PROVE AllMoved
<1> USE DEF worldVars, ownerVars, lawVars, Unmoved
<1>0. lawful \subseteq Requests /\ req \in [Requests -> RequestSet]
  BY DEF RequestsTyped
<1>1. ASSUME NEW r \in Requests, NEW ok \in BOOLEAN, Respond(r, ok),
             UNCHANGED <<token, conn, presence, row, ownerVars, lawVars>>
      PROVE  AllMoved
  BY <1>0, <1>1, ResponseShape DEF AllMoved, Moved
<1>2. ASSUME NEW r \in Requests, Fail(r),
             UNCHANGED <<token, conn, presence, row, ownerVars, lawVars>>
      PROVE  AllMoved
  BY <1>1, <1>2 DEF Fail
<1>3. ASSUME NEW r \in Requests, NEW at \in RequestStages, To(r, at),
             UNCHANGED <<token, conn, presence, row, ownerVars, doomed>>,
             lawful' \in {lawful, lawful \cup {r}},
             \/ at = "done"
             \/ req[r].at = "known" /\ at = "permitted" /\ Allowed(r)
                 /\ (Source \in torn \/ Cleaning # {} => r \in lawful')
             \/ req[r].at = "permitted" /\ at = "fresh" /\ FreshToken(r)
             \/ Reaching(r) /\ at \in {"forwarding", "starting", "waiting"}
      PROVE  AllMoved
  BY <1>0, <1>3, StageShape DEF AllMoved, Moved, SameAsk, Reaching
<1>4. ASSUME NEW r \in Requests, NEW n \in Nat, Reaching(r),
             req' = [req EXCEPT ![r] = [@ EXCEPT !.at = "sending", !.conn = n]],
             UNCHANGED <<token, conn, presence, row, ownerVars, lawVars>>
      PROVE  AllMoved
  BY <1>0, <1>4, SendShape DEF AllMoved, Moved, SameAsk, Reaching
<1>5. ASSUME NEW w \in Worlds, NEW ok \in BOOLEAN, Woken(w, ok),
             UNCHANGED <<token, conn, presence, row, ownerVars, lawVars>>
      PROVE  AllMoved
  <2>1. \A q \in Requests :
           \/ Moved(q)
           \/ req[q].at = "starting" /\ req'[q] = [req[q] EXCEPT !.at = "started"]
    BY <1>5, WakeShape DEF Moved
  <2>2. ASSUME NEW q \in Requests, req[q].at = "starting",
               req'[q] = [req[q] EXCEPT !.at = "started"]
        PROVE  Moved(q)
    <3>1. req[q] \in RequestSet
      BY <1>0
    <3>2. QED BY <2>2, <3>1 DEF RequestSet, Moved, SameAsk, Reaching
  <2>3. QED BY <1>0, <1>5, <2>1, <2>2, WakeShape DEF AllMoved
<1>6. ASSUME UNCHANGED <<req, token, conn, presence, row, ownerVars, lawVars>> PROVE AllMoved
  BY <1>0, <1>6 DEF AllMoved, Moved
<1>7. \A w \in Worlds : conn[w] \in Nat
  BY DEF RequestsTyped
<1>8. \A r \in Requests : req[r].target \in Worlds
  BY <1>0 DEF RequestSet
<1>9. "done" \in RequestStages /\ {"permitted", "fresh", "forwarding", "starting", "waiting"} \subseteq RequestStages
  BY DEF RequestStages
<1> HIDE DEF AllMoved
<1>11. ASSUME NEW r \in Requests, LookUpToken(r) PROVE AllMoved
  <2>1. CASE Fail(r)
    BY <1>2, <1>11, <2>1 DEF LookUpToken
  <2>2. CASE req' = [req EXCEPT ![r] = [@ EXCEPT !.at = "known", !.user = TRUE]]
    <3> DEFINE new == [req[r] EXCEPT !.at = "known", !.user = TRUE]
    <3>1. new \in RequestSet /\ new.at = "known" /\ new.token = req[r].token
          /\ new.target = req[r].target /\ new.scope = req[r].scope
      BY <1>0 DEF RequestSet, RequestStages
    <3>2. req' = [req EXCEPT ![r] = new]
      BY <2>2
    <3> HIDE DEF new
    <3>3. req' \in [Requests -> RequestSet] /\ req'[r] = new /\ \A q \in Requests \ {r} : req'[q] = req[q]
      BY <1>0, <3>1, <3>2
    <3>4. Moved(r) /\ \A q \in Requests \ {r} : Moved(q)
      BY <1>11, <3>1, <3>3 DEF Moved, SameAsk, LookUpToken
    <3>5. QED BY <1>0, <1>11, <3>3, <3>4 DEF AllMoved, LookUpToken
  <2>3. QED BY <1>11, <2>1, <2>2 DEF LookUpToken
<1>12. ASSUME NEW r \in Requests, CheckPermissions(r) PROVE AllMoved
  BY <1>2, <1>3, <1>9, <1>12 DEF CheckPermissions
<1>13. ASSUME NEW r \in Requests, Recheck(r) PROVE AllMoved
  BY <1>2, <1>3, <1>9, <1>13 DEF Recheck
<1>14. ASSUME NEW r \in Requests, FindTarget(r) PROVE AllMoved
  BY <1>2, <1>3, <1>4, <1>7, <1>8, <1>9, <1>14 DEF FindTarget, Reaching
<1>15. ASSUME NEW r \in Requests, Forwarded(r) PROVE AllMoved
  BY <1>1, <1>15 DEF Forwarded
<1>16. ASSUME NEW r \in Requests, AutoStart(r) PROVE AllMoved
  <2>1. CASE Fail(r)
    BY <1>2, <1>16, <2>1 DEF AutoStart
  <2>2. CASE req' = [req EXCEPT ![r].conn = 1]
    <3> DEFINE new == [req[r] EXCEPT !.conn = 1]
    <3>1. new \in RequestSet /\ new.at = req[r].at /\ new.token = req[r].token
          /\ new.target = req[r].target /\ new.scope = req[r].scope
      BY <1>0 DEF RequestSet, RequestStages
    <3>2. req' = [req EXCEPT ![r] = new]
      BY <2>2
    <3> HIDE DEF new
    <3>3. req' \in [Requests -> RequestSet] /\ req'[r] = new /\ \A q \in Requests \ {r} : req'[q] = req[q]
      BY <1>0, <3>1, <3>2
    <3>4. Moved(r) /\ \A q \in Requests \ {r} : Moved(q)
      BY <1>16, <3>1, <3>3 DEF Moved, SameAsk, AutoStart, Reaching
    <3>5. QED BY <1>0, <1>16, <3>3, <3>4 DEF AllMoved, AutoStart
  <2>3. QED BY <1>16, <2>1, <2>2 DEF AutoStart
<1>17. ASSUME NEW r \in Requests, FindStarted(r) PROVE AllMoved
  BY <1>2, <1>4, <1>7, <1>8, <1>17 DEF FindStarted, Reaching
<1>18. ASSUME NEW r \in Requests, SendAction(r) PROVE AllMoved
  BY <1>2, <1>3, <1>9, <1>18 DEF SendAction, Reaching
<1>19. ASSUME NEW r \in Requests, TimesOut(r) PROVE AllMoved
  BY <1>2, <1>19 DEF TimesOut
<1>20. ASSUME NEW r \in Requests, FinishLog(r) PROVE AllMoved
  BY <1>3, <1>9, <1>20 DEF FinishLog, To
<1>21. ASSUME NEW r \in Requests, GiveUp(r) PROVE AllMoved
  BY <1>2, <1>21 DEF GiveUp
<1>22. ASSUME NEW r \in Requests, TargetAnswers(r) PROVE AllMoved
  BY <1>1, <1>22 DEF TargetAnswers
<1>23. ASSUME NEW w \in Worlds, Resolve(w) PROVE AllMoved
  BY <1>5, <1>6, <1>23 DEF Resolve
<1>24. ASSUME NEW w \in Worlds, Mint(w) PROVE AllMoved
  BY <1>5, <1>6, <1>24 DEF Mint
<1>25. ASSUME NEW w \in Worlds, LaunchFails(w) PROVE AllMoved
  BY <1>5, <1>25 DEF LaunchFails
<1>26. ASSUME NEW w \in Worlds, Launched(w) PROVE AllMoved
  BY <1>5, <1>26 DEF Launched
<1>27. QED BY <1>11, <1>12, <1>13, <1>14, <1>15, <1>16, <1>17, <1>18, <1>19, <1>20, <1>21,
            <1>22, <1>23, <1>24, <1>25, <1>26 DEF RequestStep, Request, Launch

----------------------------------------------------------------------------
(* What the owner decided stands: the handlers of the dashboard.           *)

LEMMA EditShape ==
    ASSUME OwnerTyped, NEW e \in Edits, NEW new \in EditSet, edit' = [edit EXCEPT ![e] = new]
    PROVE  /\ edit' \in [Edits -> EditSet] /\ edit'[e] = new
           /\ \A d \in Edits \ {e} : edit'[d] = edit[d]
BY DEF OwnerTyped

LEMMA EndedShape ==
    /\ [NoEdit EXCEPT !.at = "done"] \in EditSet
    /\ [NoEdit EXCEPT !.at = "done"].at = "done"
BY Constants DEF EditSet

LEMMA ReadShape ==
    ASSUME NEW S \in SUBSET Worlds, NEW f \in [S -> RowSet]
    PROVE  f \in Read
BY DEF Read

\* A row that was read is a row.
LEMMA ReadRow ==
    ASSUME OwnerTyped, NEW e \in Edits, NEW w \in DOMAIN edit[e].old
    PROVE  /\ edit[e].old[w] \in RowSet /\ edit[e].old[w].made \in Nat
           /\ w \in Worlds /\ row[w] \in RowSet /\ row[w].made \in Nat
<1>1. edit[e].old \in Read
  BY DEF OwnerTyped, EditSet
<1>2. PICK S \in SUBSET Worlds : edit[e].old \in [S -> RowSet]
  BY <1>1 DEF Read
<1>3. edit[e].old[w] \in RowSet /\ w \in Worlds
  BY <1>2
<1>4. row[w] \in RowSet
  BY <1>3 DEF OwnerTyped
<1>5. QED BY <1>3, <1>4 DEF RowSet

\* The handler that ends, or begins, without writing a row changes nothing here.
LEMMA IdleEditKeeps ==
    ASSUME OwnerTyped, ReachSound, NEW e \in Edits, NEW new \in EditSet,
           edit' = [edit EXCEPT ![e] = new], UNCHANGED <<row, code, wish, torn>>,
           new.at \in {"tokens", "done"},
           edit[e].at \in {"new", "read", "tokens"} \/ (edit[e].at = "cleaning" /\ edit[e].left = {})
    PROVE  OwnerTyped' /\ ReachSound'
<1>1. /\ edit' \in [Edits -> EditSet] /\ edit'[e] = new
      /\ \A d \in Edits \ {e} : edit'[d] = edit[d]
  BY EditShape
<1>2. OwnerTyped'
  BY <1>1 DEF OwnerTyped
<1>3. Cleaning' \subseteq Cleaning /\ \A d \in Cleaning' : edit'[d] = edit[d]
  BY <1>1 DEF Cleaning
<1>4. ASSUME NEW w \in Worlds
      PROVE  /\ Holding(w)' = Holding(w) \ {e}
             /\ e \in Holding(w) => edit[e].at = "read"
  <2>1. edit[e].at = "cleaning" => DOMAIN edit[e].old = {}
    BY DEF ReachSound, EditSound
  <2>2. QED BY <1>1, <2>1 DEF Holding, SameRow
<1>5. \A w \in Worlds : Stale(w) \subseteq Stale(w)'
  BY <1>1, <1>4 DEF Stale
<1>6. ASSUME NEW w \in Worlds PROVE Settled(w)'
  BY <1>3, <1>5 DEF ReachSound, Settled
<1>7. ASSUME NEW d \in Edits, NEW w \in Worlds PROVE HoldsTrue(d, w)'
  BY <1>1, <1>4 DEF ReachSound, HoldsTrue
<1>8. ASSUME NEW d \in Edits PROVE EditSound(d)'
  BY <1>1 DEF ReachSound, EditSound
<1>9. QED BY <1>2, <1>6, <1>7, <1>8 DEF ReachSound

LEMMA StartPatchKeeps ==
    ASSUME OwnerTyped, ReachSound, NEW e \in Edits, NEW w \in Worlds,
           NEW targets \in (SUBSET (Others \cup {Every})) \cup {None},
           NEW scopes \in (SUBSET Scopes) \cup {None}, StartPatch(e, w, targets, scopes)
    PROVE  OwnerTyped' /\ ReachSound'
<1> DEFINE old == [x \in {w} |-> row[x]]
           new == [NoEdit EXCEPT !.at = "read", !.world = w, !.old = old,
                                 !.targets = targets, !.scopes = scopes]
<1>1. old \in Read /\ DOMAIN old = {w} /\ old[w] = row[w]
  <2>1. old \in [{w} -> RowSet] /\ {w} \in SUBSET Worlds
    BY DEF OwnerTyped
  <2>2. QED BY <2>1, ReadShape
<1>2. targets \in (SUBSET (Worlds \cup {Every})) \cup {None}
  BY DEF Others
<1>3. /\ edit' = [edit EXCEPT ![e] = new] /\ edit[e].at = "new"
      /\ UNCHANGED <<row, code, wish, torn>>
  BY DEF StartPatch, NewEdit, First, worldVars
<1> HIDE DEF old
<1>4. new \in EditSet /\ new.at = "read" /\ new.world = w /\ new.old = old
  BY <1>1, <1>2, Constants DEF EditSet
<1> HIDE DEF new
<1>5. /\ edit' \in [Edits -> EditSet] /\ edit'[e] = new
      /\ \A d \in Edits \ {e} : edit'[d] = edit[d]
  BY <1>3, <1>4, EditShape
<1>6. OwnerTyped'
  BY <1>3, <1>5 DEF OwnerTyped
<1>7. Cleaning' \subseteq Cleaning /\ \A d \in Cleaning' : edit'[d] = edit[d]
  BY <1>4, <1>5 DEF Cleaning
<1>8. \A x \in Worlds : Holding(x)' \ {e} = Holding(x) /\ e \notin Holding(x)
  BY <1>3, <1>5 DEF Holding, SameRow
<1>9. \A x \in Worlds : Stale(x) \subseteq Stale(x)'
  BY <1>3, <1>5, <1>8 DEF Stale
<1>10. ASSUME NEW x \in Worlds PROVE Settled(x)'
  BY <1>3, <1>7, <1>9 DEF ReachSound, Settled
<1>11. ASSUME NEW d \in Edits, NEW x \in Worlds PROVE HoldsTrue(d, x)'
  <2>1. CASE d # e
    BY <1>3, <1>5, <1>8, <2>1 DEF ReachSound, HoldsTrue
  <2>2. CASE d = e
    BY <1>1, <1>3, <1>4, <1>5, <2>2 DEF HoldsTrue, Holding, Reach
  <2>3. QED BY <2>1, <2>2
<1>12. ASSUME NEW d \in Edits PROVE EditSound(d)'
  <2>1. row[w].made \in Nat
    BY DEF OwnerTyped, RowSet
  <2>2. QED BY <1>1, <1>3, <1>4, <1>5, <2>1 DEF ReachSound, EditSound
<1>13. QED BY <1>6, <1>10, <1>11, <1>12 DEF ReachSound

\* Another column of a row: its lists stay.
LEMMA TunedKeeps ==
    ASSUME OwnerTyped, ReachSound, NEW w \in Worlds, NEW tuned \in RowSet, Tuned(w, tuned),
           tuned.known = row[w].known, tuned.made = row[w].made,
           tuned.targets = row[w].targets, tuned.scopes = row[w].scopes
    PROVE  OwnerTyped' /\ ReachSound'
<1>1. row' = [row EXCEPT ![w] = tuned] /\ UNCHANGED <<edit, code, wish, torn>>
  BY DEF Tuned, ownerVars
<1>2. OwnerTyped'
  BY <1>1 DEF OwnerTyped
<1>3. \A x \in Worlds : /\ row'[x].known = row[x].known /\ row'[x].targets = row[x].targets
                        /\ row'[x].scopes = row[x].scopes /\ row'[x].made = row[x].made
  BY <1>1 DEF OwnerTyped
<1>4. \A x \in Worlds : Holding(x)' = Holding(x)
  BY <1>1, <1>3 DEF Holding, SameRow
<1>5. ASSUME NEW x \in Worlds PROVE Settled(x)'
  <2>1. Stale(x)' = Stale(x) /\ Cleaning' = Cleaning
    BY <1>1, <1>4 DEF Stale, Cleaning
  <2>2. QED BY <1>1, <1>3, <2>1 DEF ReachSound, Settled
<1>6. ASSUME NEW d \in Edits, NEW x \in Worlds PROVE HoldsTrue(d, x)'
  BY <1>1, <1>3, <1>4 DEF ReachSound, HoldsTrue, Reach
<1>7. ASSUME NEW d \in Edits PROVE EditSound(d)'
  <2>1. \A x \in DOMAIN edit[d].old : row'[x].made = row[x].made
    BY <1>3, ReadRow
  <2>2. QED BY <1>1, <2>1 DEF ReachSound, EditSound
<1>8. QED BY <1>2, <1>5, <1>6, <1>7 DEF ReachSound

\* A row's lists are written, by a handler that then ends or by an exchange, and the
\* wish with them: either nobody else holds the row and they agree, or the world
\* counts as torn.
LEMMA RewriteKeeps ==
    ASSUME OwnerTyped, ReachSound, NEW w \in Worlds, NEW e,
           row' \in [Worlds -> RowSet], wish' \in [Worlds -> ReachSet], code' \in CodeSet,
           \A x \in Worlds \ {w} : row'[x] = row[x] /\ wish'[x] = wish[x],
           row'[w].known = row[w].known, row'[w].made = row[w].made,
           torn \subseteq torn', torn' \subseteq Worlds,
           edit' \in [Edits -> EditSet], \A d \in Edits \ {e} : edit'[d] = edit[d],
           e \in Edits => edit[e].at \in {"new", "read"} /\ edit'[e].at = "done",
           w \notin torn' =>
               /\ Holding(w) \subseteq {e}
               /\ row'[w].scopes = wish'[w].scopes
               /\ wish'[w].targets \subseteq row'[w].targets
               /\ row'[w].targets \subseteq wish'[w].targets \cup Stale(w)
               /\ Every \in wish'[w].targets => row'[w].targets = wish'[w].targets
               /\ \A d \in Cleaning : edit[d].world \in wish'[w].targets => Every \in wish'[w].targets
    PROVE  OwnerTyped' /\ ReachSound'
<1>1. OwnerTyped'
  BY DEF OwnerTyped
<1>2. \A x \in Worlds : row'[x].known = row[x].known /\ row'[x].made = row[x].made
  OBVIOUS
<1>3. \A x \in Worlds : Holding(x)' = Holding(x) \ {e}
  BY <1>2 DEF Holding, SameRow
<1>4. e \in Edits => edit[e].at \notin {"row", "cleaning"}
  OBVIOUS
<1>5. \A x \in Worlds : Stale(x) \subseteq Stale(x)'
  BY <1>3, <1>4 DEF Stale
<1>6. \A d \in Cleaning' : d \in Cleaning /\ edit'[d] = edit[d]
  BY DEF Cleaning
<1>7. ASSUME NEW x \in Worlds PROVE Settled(x)'
  <2>1. CASE x # w
    BY <1>5, <1>6, <2>1 DEF ReachSound, Settled
  <2>2. CASE x = w
    BY <1>5, <1>6, <2>2 DEF Settled
  <2>3. QED BY <2>1, <2>2
<1>8. ASSUME NEW d \in Edits, NEW x \in Worlds PROVE HoldsTrue(d, x)'
  <2> SUFFICES ASSUME d \in Holding(x)', x \notin torn' PROVE HoldsTrue(d, x)'
    BY DEF HoldsTrue
  <2>1. d # e /\ edit'[d] = edit[d] /\ d \in Holding(x) /\ x \notin torn
    BY <1>3
  <2>2. row'[x] = row[x]
    BY <2>1
  <2>3. QED BY <2>1, <2>2 DEF ReachSound, HoldsTrue
<1>9. ASSUME NEW d \in Edits PROVE EditSound(d)'
  <2>1. \A x \in DOMAIN edit[d].old : row'[x].made = row[x].made
    BY <1>2, ReadRow
  <2>2. EditSound(d)
    BY DEF ReachSound
  <2>3. CASE d = e
    BY <2>3 DEF EditSound
  <2>4. CASE d # e
    BY <2>1, <2>2, <2>4 DEF EditSound
  <2>5. QED BY <2>3, <2>4
<1>10. QED BY <1>1, <1>7, <1>8, <1>9 DEF ReachSound

LEMMA WrittenShape ==
    ASSUME OwnerTyped, NEW w \in Worlds, NEW reach \in ReachSet, row' = Written(w, reach)
    PROVE  /\ row' \in [Worlds -> RowSet] /\ \A x \in Worlds \ {w} : row'[x] = row[x]
           /\ row'[w].known = row[w].known /\ row'[w].made = row[w].made
           /\ row'[w].targets = reach.targets /\ row'[w].scopes = reach.scopes
<1> DEFINE new == [row[w] EXCEPT !.targets = reach.targets, !.scopes = reach.scopes]
<1>1. row[w] \in RowSet
  BY DEF OwnerTyped
<1>2. /\ new \in RowSet /\ new.known = row[w].known /\ new.made = row[w].made
      /\ new.targets = reach.targets /\ new.scopes = reach.scopes
  BY <1>1 DEF RowSet, ReachSet
<1>3. row' = [row EXCEPT ![w] = new]
  BY DEF Written
<1> HIDE DEF new
<1>4. QED BY <1>2, <1>3 DEF OwnerTyped

\* A decision about one world: the wish, and whether it may be overtaken.
LEMMA DecisionShape ==
    ASSUME OwnerTyped, NEW w \in Worlds, NEW e, NEW meant \in ReachSet,
           Decide(e, [x \in {w} |-> meant])
    PROVE  /\ wish' \in [Worlds -> ReachSet] /\ wish'[w] = meant
           /\ \A x \in Worlds \ {w} : wish'[x] = wish[x]
           /\ torn \subseteq torn' /\ torn' \subseteq Worlds
           /\ w \notin torn' =>
                /\ Holding(w) \subseteq {e}
                /\ \A d \in Cleaning : edit[d].world \in meant.targets => Every \in meant.targets
<1> DEFINE decided == [x \in {w} |-> meant]
<1>1. DOMAIN decided = {w} /\ decided[w] = meant
  OBVIOUS
<1> HIDE DEF decided
<1>2. /\ wish' = [x \in Worlds |-> IF x \in DOMAIN decided THEN decided[x] ELSE wish[x]]
      /\ torn' = torn \cup {x \in DOMAIN decided : Holding(x) \ {e} # {} \/ NamesDeleted(decided[x])}
  BY DEF Decide, decided
<1>3. /\ wish' \in [Worlds -> ReachSet] /\ wish'[w] = meant
      /\ \A x \in Worlds \ {w} : wish'[x] = wish[x]
  BY <1>1, <1>2 DEF OwnerTyped
<1>4. torn \subseteq torn' /\ torn' \subseteq Worlds
  BY <1>1, <1>2 DEF OwnerTyped
<1>5. w \notin torn' => Holding(w) \subseteq {e} /\ ~NamesDeleted(meant)
  BY <1>1, <1>2
<1>6. QED BY <1>3, <1>4, <1>5 DEF NamesDeleted

\* What the owner decides is written at once.
LEMMA DecidedWriteKeeps ==
    ASSUME OwnerTyped, ReachSound, NEW w \in Worlds, NEW e, NEW reach \in ReachSet,
           row' = Written(w, reach), Decide(e, [x \in {w} |-> reach]), code' \in CodeSet,
           edit' \in [Edits -> EditSet], \A d \in Edits \ {e} : edit'[d] = edit[d],
           e \in Edits => edit[e].at \in {"new", "read"} /\ edit'[e].at = "done"
    PROVE  OwnerTyped' /\ ReachSound'
<1>1. /\ row' \in [Worlds -> RowSet] /\ \A x \in Worlds \ {w} : row'[x] = row[x]
      /\ row'[w].known = row[w].known /\ row'[w].made = row[w].made
      /\ row'[w].targets = reach.targets /\ row'[w].scopes = reach.scopes
  BY WrittenShape
<1>2. /\ wish' \in [Worlds -> ReachSet] /\ wish'[w] = reach
      /\ \A x \in Worlds \ {w} : wish'[x] = wish[x]
      /\ torn \subseteq torn' /\ torn' \subseteq Worlds
      /\ w \notin torn' =>
           /\ Holding(w) \subseteq {e}
           /\ \A d \in Cleaning : edit[d].world \in reach.targets => Every \in reach.targets
  BY DecisionShape
<1>3. QED BY <1>1, <1>2, RewriteKeeps

\* A world that counts as torn may be written, or not.
LEMMA TornWriteKeeps ==
    ASSUME OwnerTyped, ReachSound, NEW w \in Worlds, NEW reach \in ReachSet,
           row' = row \/ row' = Written(w, reach), torn' = torn \cup {w}, code' \in CodeSet,
           UNCHANGED <<edit, wish>>
    PROVE  OwnerTyped' /\ ReachSound'
<1>1. /\ row' \in [Worlds -> RowSet] /\ \A x \in Worlds \ {w} : row'[x] = row[x]
      /\ row'[w].known = row[w].known /\ row'[w].made = row[w].made
  <2>1. CASE row' = row
    BY <2>1 DEF OwnerTyped
  <2>2. CASE row' = Written(w, reach)
    BY <2>2, WrittenShape
  <2>3. QED BY <2>1, <2>2
<1>2. /\ wish' \in [Worlds -> ReachSet] /\ \A x \in Worlds \ {w} : wish'[x] = wish[x]
      /\ torn \subseteq torn' /\ torn' \subseteq Worlds /\ w \in torn'
      /\ edit' \in [Edits -> EditSet] /\ \A d \in Edits : edit'[d] = edit[d]
  BY DEF OwnerTyped
<1>3. None \notin Edits
  BY TunnelAssumption
<1>4. QED BY <1>1, <1>2, <1>3, RewriteKeeps

LEMMA OutdatedShape ==
    ASSUME OwnerTyped, NEW decided, Outdate(decided)
    PROVE  code' \in CodeSet
BY DEF OwnerTyped, Outdate, CodeSet

\* What nobody else holds may be written back as it was read.
LEMMA WritePatchKeeps ==
    ASSUME OwnerTyped, ReachSound, NEW e \in Edits, WritePatch(e)
    PROVE  OwnerTyped' /\ ReachSound'
<1> DEFINE w == edit[e].world
           old == edit[e].old[w]
           given == [targets |-> Kept(edit[e].targets, old.targets),
                     scopes |-> Kept(edit[e].scopes, old.scopes)]
           meant == [targets |-> IF edit[e].targets = None THEN wish[w].targets ELSE edit[e].targets,
                     scopes |-> IF edit[e].scopes = None THEN wish[w].scopes ELSE edit[e].scopes]
           done == [NoEdit EXCEPT !.at = "done"]
<1>1. edit[e].at = "read" /\ edit' = [edit EXCEPT ![e] = done]
  BY DEF WritePatch
<1>2. CASE ~SameRow(e, w)
  <2>1. UNCHANGED <<row, code, wish, torn>>
    BY <1>2 DEF WritePatch
  <2>2. QED BY <1>1, <2>1, EndedShape, IdleEditKeeps
<1>3. CASE SameRow(e, w)
  <2>1. /\ w \in Worlds /\ edit[e] \in EditSet /\ row[w] \in RowSet /\ wish[w] \in ReachSet
    BY DEF OwnerTyped, EditSet
  <2>2. w \in DOMAIN edit[e].old
    BY <1>1 DEF ReachSound, EditSound
  <2>3. old \in RowSet
    BY <2>2, ReadRow
  <2>4. meant \in ReachSet /\ given \in ReachSet
    BY <2>1, <2>3 DEF EditSet, RowSet, ReachSet, Kept
  <2>5. row' = Written(w, given) /\ Decide(e, [x \in {w} |-> meant]) /\ Outdate({w})
    BY <1>3 DEF WritePatch
  <2>6. e \in Holding(w)
    BY <1>1, <1>3, <2>2 DEF Holding
  <2>7. /\ given.targets = Kept(edit[e].targets, old.targets)
        /\ given.scopes = Kept(edit[e].scopes, old.scopes)
        /\ meant.targets = IF edit[e].targets = None THEN wish[w].targets ELSE edit[e].targets
        /\ meant.scopes = IF edit[e].scopes = None THEN wish[w].scopes ELSE edit[e].scopes
    OBVIOUS
  <2> HIDE DEF given, meant, done
  <2>8. /\ row' \in [Worlds -> RowSet] /\ \A x \in Worlds \ {w} : row'[x] = row[x]
        /\ row'[w].known = row[w].known /\ row'[w].made = row[w].made
        /\ row'[w].targets = given.targets /\ row'[w].scopes = given.scopes
    BY <2>1, <2>4, <2>5, WrittenShape
  <2>9. /\ wish' \in [Worlds -> ReachSet] /\ wish'[w] = meant
        /\ \A x \in Worlds \ {w} : wish'[x] = wish[x]
        /\ torn \subseteq torn' /\ torn' \subseteq Worlds
        /\ w \notin torn' =>
             /\ Holding(w) \subseteq {e}
             /\ \A d \in Cleaning : edit[d].world \in meant.targets => Every \in meant.targets
    BY <2>1, <2>4, <2>5, DecisionShape
  <2>10. /\ edit' \in [Edits -> EditSet] /\ edit'[e].at = "done"
         /\ \A d \in Edits \ {e} : edit'[d] = edit[d]
    BY <1>1, EndedShape, EditShape DEF done
  <2>11. ASSUME w \notin torn'
         PROVE  /\ given.scopes = meant.scopes
                /\ meant.targets \subseteq given.targets
                /\ given.targets \subseteq meant.targets \cup Stale(w)
                /\ Every \in meant.targets => given.targets = meant.targets
    <3>1. row[w].known /\ w \notin torn
      BY <1>3, <2>9, <2>11 DEF SameRow
    <3>2. old.targets = row[w].targets /\ old.scopes = row[w].scopes
      BY <2>1, <2>6, <3>1 DEF ReachSound, HoldsTrue, Reach
    <3>3. /\ row[w].scopes = wish[w].scopes
          /\ wish[w].targets \subseteq row[w].targets
          /\ row[w].targets \subseteq wish[w].targets \cup Stale(w)
          /\ Every \in wish[w].targets => row[w].targets = wish[w].targets
      BY <2>1, <3>1 DEF ReachSound, Settled
    <3>4. QED BY <2>7, <3>2, <3>3 DEF Kept
  <2>12. code' \in CodeSet
    BY <2>5, OutdatedShape
  <2>13. w \notin torn' =>
           /\ Holding(w) \subseteq {e}
           /\ row'[w].scopes = wish'[w].scopes
           /\ wish'[w].targets \subseteq row'[w].targets
           /\ row'[w].targets \subseteq wish'[w].targets \cup Stale(w)
           /\ Every \in wish'[w].targets => row'[w].targets = wish'[w].targets
           /\ \A d \in Cleaning : edit[d].world \in wish'[w].targets => Every \in wish'[w].targets
    BY <2>8, <2>9, <2>11
  <2>14. QED BY <1>1, <2>1, <2>8, <2>9, <2>10, <2>12, <2>13, RewriteKeeps
<1>4. QED BY <1>2, <1>3

\* An approval that writes a row does so at once.
LEMMA ApprovalKeeps ==
    ASSUME OwnerTyped, ReachSound, NEW e \in Edits, NEW w \in Worlds, NEW reach \in ReachSet,
           ApproveUpgrade(e, w, reach) \/ ApprovePairing(e, w, reach)
    PROVE  OwnerTyped' /\ ReachSound'
<1> DEFINE done == [NoEdit EXCEPT !.at = "done"]
<1>1. edit[e].at = "new" /\ edit' = [edit EXCEPT ![e] = done]
  BY DEF ApproveUpgrade, ApprovePairing, NewEdit, First
<1>2. /\ edit' \in [Edits -> EditSet] /\ edit'[e].at = "done"
      /\ \A d \in Edits \ {e} : edit'[d] = edit[d]
  BY <1>1, EndedShape, EditShape
<1>3. code' \in CodeSet
  <2>1. CASE ApproveUpgrade(e, w, reach)
    BY <2>1, OutdatedShape DEF ApproveUpgrade
  <2>2. CASE ApprovePairing(e, w, reach)
    <3>1. code' = [NoCode EXCEPT !.at = "stored", !.reach = reach, !.fresh = Worlds]
      BY <2>2 DEF ApprovePairing
    <3>2. QED BY <3>1, Constants DEF CodeSet
  <2>3. QED BY <2>1, <2>2
<1>4. CASE row' = Written(w, reach) /\ Decide(e, [x \in {w} |-> reach])
  BY <1>1, <1>2, <1>3, <1>4, DecidedWriteKeeps
<1>5. CASE UNCHANGED <<row, wish, torn>>
  <2>1. \A x \in Worlds : Holding(x)' = Holding(x)
    BY <1>1, <1>2, <1>5 DEF Holding, SameRow
  <2>2. OwnerTyped'
    BY <1>2, <1>3, <1>5 DEF OwnerTyped
  <2>3. \A x \in Worlds : Stale(x)' = Stale(x)
    BY <1>1, <1>2, <2>1 DEF Stale
  <2>4. Cleaning' = Cleaning /\ \A d \in Cleaning : edit'[d] = edit[d]
    BY <1>1, <1>2 DEF Cleaning
  <2>5. \A x \in Worlds : Settled(x)'
    BY <1>5, <2>3, <2>4 DEF ReachSound, Settled
  <2>6. ASSUME NEW d \in Edits, NEW x \in Worlds PROVE HoldsTrue(d, x)'
    <3>1. d \in Holding(x) => edit'[d] = edit[d]
      BY <1>1, <1>2 DEF Holding
    <3>2. QED BY <1>5, <2>1, <3>1 DEF ReachSound, HoldsTrue
  <2>7. \A d \in Edits : EditSound(d)'
    BY <1>2, <1>5 DEF ReachSound, EditSound
  <2>8. QED BY <2>2, <2>5, <2>6, <2>7 DEF ReachSound
<1>6. QED BY <1>4, <1>5 DEF ApproveUpgrade, ApprovePairing

\* A world's row is made anew: nobody has read it, and nothing was decided about it.
LEMMA UpsertKeeps ==
    ASSUME OwnerTyped, ReachSound, NEW w \in Worlds, Upsert(w), code' \in CodeSet, UNCHANGED edit
    PROVE  OwnerTyped' /\ ReachSound'
<1>1. CASE UNCHANGED <<row, wish, torn>>
  <2>1. OwnerTyped'
    BY <1>1 DEF OwnerTyped
  <2>2. QED BY <1>1, <2>1
        DEF ReachSound, Settled, HoldsTrue, EditSound, Stale, Holding, SameRow, Cleaning
<1>2. CASE /\ ~row[w].known /\ row' = [row EXCEPT ![w] = Created(w)]
           /\ wish' = [wish EXCEPT ![w] = Reach(NoRow)] /\ torn' = torn \ {w}
  <2> DEFINE made == Created(w)
             none == Reach(NoRow)
  <2>1. row[w] \in RowSet /\ row[w].made \in Nat
    BY DEF OwnerTyped, RowSet
  <2>2. made \in RowSet /\ made.made = row[w].made + 1 /\ made.targets = {} /\ made.scopes = {}
    <3> DEFINE next == row[w].made + 1
    <3>1. next \in Nat
      BY <2>1
    <3>2. made = [NoRow EXCEPT !.known = TRUE, !.made = next]
      BY DEF Created
    <3> HIDE DEF next, made
    <3>3. made = [known |-> TRUE, made |-> next, targets |-> {}, scopes |-> {}, limit |-> 0,
                  auto |-> FALSE, cred |-> None]
      BY <3>2 DEF NoRow
    <3>4. made \in RowSet /\ made.made = next /\ made.targets = {} /\ made.scopes = {}
      BY <3>1, <3>3 DEF RowSet
    <3>5. QED BY <3>4 DEF next
  <2>3. none \in ReachSet /\ none.targets = {} /\ none.scopes = {}
    BY DEF Reach, NoRow, ReachSet
  <2>4. row' = [row EXCEPT ![w] = made] /\ wish' = [wish EXCEPT ![w] = none]
    BY <1>2
  <2> HIDE DEF made, none
  <2>5. /\ row' \in [Worlds -> RowSet] /\ row'[w] = made
        /\ wish' \in [Worlds -> ReachSet] /\ wish'[w] = none
        /\ \A x \in Worlds \ {w} : row'[x] = row[x] /\ wish'[x] = wish[x]
    BY <2>2, <2>3, <2>4 DEF OwnerTyped
  <2>6. OwnerTyped'
    BY <1>2, <2>5 DEF OwnerTyped
  <2>7. \A x \in Worlds : row'[x].made \in Nat /\ row[x].made \in Nat /\ row[x].made <= row'[x].made
    BY <2>1, <2>2, <2>5 DEF OwnerTyped, RowSet
  <2>8. Holding(w)' = {}
    <3> SUFFICES ASSUME NEW d \in Edits, edit[d].at \in {"read", "cleaning"}, w \in DOMAIN edit[d].old,
                        edit[d].old[w].made = row'[w].made
                 PROVE  FALSE
      BY DEF Holding, SameRow
    <3>1. edit[d].old[w].made <= row[w].made
      BY DEF ReachSound, EditSound
    <3>2. edit[d].old[w].made \in Nat
      BY ReadRow
    <3>3. QED BY <2>1, <2>2, <2>5, <3>1, <3>2
  <2>9. \A x \in Worlds \ {w} : Holding(x)' = Holding(x)
    BY <2>5 DEF Holding, SameRow
  <2>10. \A x \in Worlds \ {w} : Stale(x)' = Stale(x)
    BY <2>9 DEF Stale
  <2>11. Cleaning' = Cleaning
    BY DEF Cleaning
  <2>12. ASSUME NEW x \in Worlds PROVE Settled(x)'
    <3>1. CASE x = w
      BY <2>2, <2>3, <2>5, <3>1 DEF Settled
    <3>2. CASE x # w
      BY <1>2, <2>5, <2>10, <2>11, <3>2 DEF ReachSound, Settled
    <3>3. QED BY <3>1, <3>2
  <2>13. ASSUME NEW d \in Edits, NEW x \in Worlds PROVE HoldsTrue(d, x)'
    BY <1>2, <2>5, <2>8, <2>9 DEF ReachSound, HoldsTrue
  <2>14. ASSUME NEW d \in Edits PROVE EditSound(d)'
    <3>1. \A x \in DOMAIN edit[d].old :
             edit[d].old[x].made <= row[x].made => edit[d].old[x].made <= row'[x].made
      BY <2>7, ReadRow
    <3>2. QED BY <3>1 DEF ReachSound, EditSound
  <2>15. QED BY <2>6, <2>12, <2>13, <2>14 DEF ReachSound
<1>3. QED BY <1>1, <1>2 DEF Upsert

LEMMA ExchangeKeeps ==
    ASSUME OwnerTyped, ReachSound, NEW w \in Worlds, Exchange(w)
    PROVE  OwnerTyped' /\ ReachSound'
<1>1. Upsert(w) /\ UNCHANGED edit /\ code' = [code EXCEPT !.at = "paired", !.world = w]
  BY DEF Exchange
<1>2. code' \in CodeSet
  BY <1>1 DEF OwnerTyped, CodeSet
<1>3. QED BY <1>1, <1>2, UpsertKeeps

\* The settings of a code that is not older than the owner's last decision are a
\* decision; those of an older one, or not written, tear the world.
LEMMA GrantKeeps ==
    ASSUME OwnerTyped, ReachSound, Grant
    PROVE  OwnerTyped' /\ ReachSound'
<1> DEFINE w == code.world
           reach == code.reach
<1>1. w \in Worlds /\ reach \in ReachSet
  BY DEF OwnerTyped, CodeSet
<1>2. code' \in CodeSet /\ UNCHANGED edit
  BY DEF Grant, OwnerTyped, CodeSet
<1>3. edit' \in [Edits -> EditSet] /\ None \notin Edits /\ \A d \in Edits : edit'[d] = edit[d]
  BY <1>2, TunnelAssumption DEF OwnerTyped
<1>4. \/ row' = Written(w, reach) /\ Decide(None, [x \in {w} |-> reach])
      \/ row' = Written(w, reach) /\ torn' = torn \cup {w} /\ wish' = wish
      \/ row' = row /\ torn' = torn \cup {w} /\ wish' = wish
      \/ UNCHANGED <<row, wish, torn>>
  BY DEF Grant
<1> HIDE DEF w, reach
<1>5. CASE row' = Written(w, reach) /\ Decide(None, [x \in {w} |-> reach])
  BY <1>1, <1>2, <1>3, <1>5, DecidedWriteKeeps
<1>6. CASE (row' = row \/ row' = Written(w, reach)) /\ torn' = torn \cup {w} /\ wish' = wish
  BY <1>1, <1>2, <1>6, TornWriteKeeps
<1>7. CASE UNCHANGED <<row, wish, torn>>
  <2>1. OwnerTyped'
    BY <1>2, <1>7 DEF OwnerTyped
  <2>2. QED BY <1>2, <1>7, <2>1
        DEF ReachSound, Settled, HoldsTrue, EditSound, Stale, Holding, SameRow, Cleaning
<1>8. QED BY <1>4, <1>5, <1>6, <1>7

\* The owner means every allow-list to lose the deleted world; who holds such a list
\* is known to be behind.
LEMMA DeleteRowKeeps ==
    ASSUME OwnerTyped, ReachSound, NEW e \in Edits, DeleteRow(e)
    PROVE  OwnerTyped' /\ ReachSound'
<1> DEFINE v == edit[e].world
           decided == [x \in Worlds |-> Without(wish[x], v)]
           done == [NoEdit EXCEPT !.at = "done"]
           new == [edit[e] EXCEPT !.at = "row"]
           gone == [NoRow EXCEPT !.made = row[v].made]
<1>1. edit[e].at = "tokens"
  BY DEF DeleteRow
<1>2. CASE edit' = [edit EXCEPT ![e] = done] /\ UNCHANGED <<row, code, wish, torn>>
  BY <1>1, <1>2, EndedShape, IdleEditKeeps
<1>3. CASE /\ row' = row \/ row' = [row EXCEPT ![v] = gone]
           /\ Decide(e, decided) /\ Outdate(Worlds)
           /\ edit' = [edit EXCEPT ![e] = new]
  <2>1. v \in Worlds /\ edit[e] \in EditSet /\ v # Every
    BY TunnelAssumption DEF OwnerTyped, EditSet
  <2>2. new \in EditSet /\ new.at = "row" /\ new.world = v
    BY <2>1 DEF EditSet
  <2> HIDE DEF new
  <2>3. gone \in RowSet /\ gone.known = FALSE /\ gone.made = row[v].made
    BY <2>1, Constants DEF OwnerTyped, RowSet
  <2> HIDE DEF gone
  <2>4. /\ row' \in [Worlds -> RowSet]
        /\ \A x \in Worlds : row'[x].made = row[x].made /\ (row'[x].known => row'[x] = row[x])
    BY <1>3, <2>1, <2>3 DEF OwnerTyped
  <2>5. \A x \in Worlds : /\ Without(wish[x], v) \in ReachSet
                          /\ Without(wish[x], v).scopes = wish[x].scopes
                          /\ Without(wish[x], v).targets =
                               IF Every \in wish[x].targets THEN wish[x].targets
                                                            ELSE wish[x].targets \ {v}
    BY DEF OwnerTyped, ReachSet, Without
  <2>6. DOMAIN decided = Worlds /\ \A x \in Worlds : decided[x] = Without(wish[x], v)
    OBVIOUS
  <2> HIDE DEF decided
  <2>7. /\ wish' = [x \in Worlds |-> IF x \in DOMAIN decided THEN decided[x] ELSE wish[x]]
        /\ torn' = torn \cup {x \in DOMAIN decided : Holding(x) \ {e} # {} \/ NamesDeleted(decided[x])}
    BY <1>3 DEF Decide
  <2>8. wish' \in [Worlds -> ReachSet] /\ \A x \in Worlds : wish'[x] = Without(wish[x], v)
    BY <2>5, <2>6, <2>7
  <2>9. torn' \subseteq Worlds /\ torn \subseteq torn'
        /\ \A x \in Worlds : x \notin torn' => Holding(x) \subseteq {e}
    BY <2>6, <2>7 DEF OwnerTyped
  <2>10. /\ edit' \in [Edits -> EditSet] /\ edit'[e].at = "row" /\ edit'[e].world = v
         /\ \A d \in Edits \ {e} : edit'[d] = edit[d]
    BY <1>3, <2>2, EditShape
  <2>11. code' \in CodeSet
    BY <1>3, OutdatedShape
  <2>12. OwnerTyped'
    BY <2>4, <2>8, <2>9, <2>10, <2>11 DEF OwnerTyped
  <2>13. \A x \in Worlds : Holding(x)' \subseteq Holding(x) \ {e}
    BY <2>4, <2>10 DEF Holding, SameRow
  <2>14. ASSUME NEW x \in Worlds PROVE Settled(x)'
    <3> SUFFICES ASSUME row'[x].known, x \notin torn' PROVE Settled(x)'
      BY DEF Settled
    <3>1. row'[x] = row[x] /\ x \notin torn /\ row[x].known
      BY <2>4, <2>9
    <3>2. /\ row[x].scopes = wish[x].scopes
          /\ wish[x].targets \subseteq row[x].targets
          /\ row[x].targets \subseteq wish[x].targets \cup Stale(x)
          /\ Every \in wish[x].targets => row[x].targets = wish[x].targets
          /\ \A d \in Cleaning : edit[d].world \in wish[x].targets => Every \in wish[x].targets
      BY <3>1 DEF ReachSound, Settled
    <3>3. /\ wish'[x].scopes = wish[x].scopes
          /\ wish'[x].targets = IF Every \in wish[x].targets THEN wish[x].targets
                                                             ELSE wish[x].targets \ {v}
      BY <2>5, <2>8
    <3>4. Stale(x) \cup {v} \subseteq Stale(x)'
      <4>1. Holding(x) \ {e} \subseteq Holding(x)'
        BY <2>10, <3>1 DEF Holding, SameRow
      <4>2. QED BY <1>1, <2>10, <4>1 DEF Stale
    <3>5. \A d \in Cleaning' : d = e \/ (d \in Cleaning /\ edit'[d] = edit[d])
      BY <2>10 DEF Cleaning
    <3>6. /\ wish'[x].targets \subseteq row[x].targets
          /\ row[x].targets \subseteq wish'[x].targets \cup Stale(x)'
      BY <3>2, <3>3, <3>4
    <3>7. Every \in wish'[x].targets => row[x].targets = wish'[x].targets
      BY <3>2, <3>3
    <3>8. \A d \in Cleaning' : edit'[d].world \in wish'[x].targets => Every \in wish'[x].targets
      BY <2>1, <2>10, <3>2, <3>3, <3>5
    <3>9. QED BY <3>1, <3>2, <3>3, <3>6, <3>7, <3>8 DEF Settled
  <2>15. ASSUME NEW d \in Edits, NEW x \in Worlds PROVE HoldsTrue(d, x)'
    BY <2>9, <2>13 DEF HoldsTrue
  <2>16. ASSUME NEW d \in Edits PROVE EditSound(d)'
    <3>1. \A x \in DOMAIN edit[d].old : row'[x].made = row[x].made
      BY <2>4, ReadRow
    <3>2. EditSound(d)
      BY DEF ReachSound
    <3>3. CASE d = e
      BY <2>10, <3>3 DEF EditSound
    <3>4. CASE d # e
      BY <2>10, <3>1, <3>2, <3>4 DEF EditSound
    <3>5. QED BY <3>3, <3>4
  <2>17. QED BY <2>12, <2>14, <2>15, <2>16 DEF ReachSound
<1>4. QED BY <1>2, <1>3 DEF DeleteRow

\* The rows that name the deleted world are those still to be cleaned.
LEMMA ReadSiblingsKeeps ==
    ASSUME OwnerTyped, ReachSound, NEW e \in Edits, ReadSiblings(e)
    PROVE  OwnerTyped' /\ ReachSound'
<1> DEFINE v == edit[e].world
           naming == {x \in Worlds : row[x].known /\ v \in row[x].targets /\ Every \notin row[x].targets}
           old == [x \in naming |-> row[x]]
           new == [edit[e] EXCEPT !.at = "cleaning", !.left = naming, !.old = old]
           done == [NoEdit EXCEPT !.at = "done"]
<1>1. /\ edit[e].at = "row" /\ UNCHANGED <<row, code, wish>> /\ edit[e] \in EditSet
      /\ v \in Worlds /\ v # Every
  BY TunnelAssumption DEF ReadSiblings, worldVars, OwnerTyped, EditSet
<1>2. old \in Read /\ DOMAIN old = naming /\ \A x \in naming : old[x] = row[x]
  <2>1. old \in [naming -> RowSet] /\ naming \in SUBSET Worlds
    BY DEF OwnerTyped
  <2>2. QED BY <2>1, ReadShape
<1>3. naming \in SUBSET Worlds
      /\ \A x \in Worlds : x \in naming <=>
            row[x].known /\ v \in row[x].targets /\ Every \notin row[x].targets
  OBVIOUS
<1>4. \/ edit' = [edit EXCEPT ![e] = new] /\ torn' = torn
      \/ edit' = [edit EXCEPT ![e] = done] /\ torn' = torn \cup naming
  BY DEF ReadSiblings
<1> HIDE DEF old, naming
<1>5. /\ new \in EditSet /\ new.at = "cleaning" /\ new.left = naming /\ new.old = old
      /\ new.world = v
  BY <1>1, <1>2, <1>3 DEF EditSet
<1> HIDE DEF new
\* In a list that is not cleaned the deleted world is there by the owner's will.
<1>6. ASSUME NEW x \in Worlds, row[x].known, x \notin torn, x \notin naming, v \in row[x].targets
      PROVE  v \in wish[x].targets
  <2>1. Every \in row[x].targets
    BY <1>3, <1>6
  <2>2. Every \notin Stale(x)
    BY TunnelAssumption DEF Stale, OwnerTyped, EditSet
  <2>3. QED BY <1>6, <2>1, <2>2 DEF ReachSound, Settled
<1>7. /\ edit' \in [Edits -> EditSet] /\ edit'[e].at \in {"cleaning", "done"}
      /\ edit'[e].at = "cleaning" => edit'[e] = new /\ torn' = torn
      /\ edit'[e].at = "done" => torn' = torn \cup naming
      /\ \A d \in Edits \ {e} : edit'[d] = edit[d]
  <2>1. CASE edit' = [edit EXCEPT ![e] = new] /\ torn' = torn
    BY <1>5, <2>1, EditShape
  <2>2. CASE edit' = [edit EXCEPT ![e] = done] /\ torn' = torn \cup naming
    BY <2>2, EndedShape, EditShape
  <2>3. QED BY <1>4, <2>1, <2>2
<1>8. OwnerTyped'
  BY <1>1, <1>3, <1>7 DEF OwnerTyped
<1>9. \A d \in Cleaning' : d \in Cleaning /\ edit'[d].world = edit[d].world
  BY <1>1, <1>5, <1>7 DEF Cleaning
<1>10. torn \subseteq torn'
  BY <1>7
<1>11. \A x \in Worlds : Holding(x) \subseteq Holding(x)' \ {e} /\ Holding(x)' \ {e} \subseteq Holding(x)
  BY <1>1, <1>7 DEF Holding, SameRow
<1>12. \A x \in naming : edit'[e].at = "cleaning" => e \in Holding(x)'
  BY <1>1, <1>2, <1>3, <1>5, <1>7 DEF Holding, SameRow
<1>13. ASSUME NEW x \in Worlds PROVE Settled(x)'
  <2> SUFFICES ASSUME row[x].known, x \notin torn' PROVE Settled(x)'
    BY <1>1 DEF Settled
  <2>1. /\ x \notin torn /\ row[x].scopes = wish[x].scopes
        /\ wish[x].targets \subseteq row[x].targets
        /\ row[x].targets \subseteq wish[x].targets \cup Stale(x)
        /\ Every \in wish[x].targets => row[x].targets = wish[x].targets
        /\ \A d \in Cleaning : edit[d].world \in wish[x].targets => Every \in wish[x].targets
    BY <1>10 DEF ReachSound, Settled
  <2>2. Stale(x) \subseteq Stale(x)' \cup {v}
    BY <1>7, <1>11 DEF Stale
  <2>3. x \in naming => v \in Stale(x)'
    BY <1>5, <1>7, <1>12 DEF Stale
  <2>4. row[x].targets \subseteq wish[x].targets \cup Stale(x)'
    BY <1>6, <2>1, <2>2, <2>3
  <2>5. QED BY <1>1, <1>9, <2>1, <2>4 DEF Settled
<1>14. ASSUME NEW d \in Edits, NEW x \in Worlds PROVE HoldsTrue(d, x)'
  <2>1. CASE d # e
    BY <1>1, <1>7, <1>10, <1>11, <2>1 DEF ReachSound, HoldsTrue
  <2>2. CASE d = e
    BY <1>1, <1>2, <1>3, <1>5, <1>7, <2>2 DEF HoldsTrue, Holding
  <2>3. QED BY <2>1, <2>2
<1>15. ASSUME NEW d \in Edits PROVE EditSound(d)'
  <2>1. \A x \in naming : row[x].made \in Nat
    BY <1>3 DEF OwnerTyped, RowSet
  <2>2. CASE d = e
    BY <1>1, <1>2, <1>5, <1>7, <2>1, <2>2 DEF EditSound
  <2>3. CASE d # e
    BY <1>1, <1>7, <2>3 DEF ReachSound, EditSound
  <2>4. QED BY <2>2, <2>3
<1>16. QED BY <1>8, <1>13, <1>14, <1>15 DEF ReachSound

\* A reference is removed from a list that nobody else holds; otherwise it may come
\* back, and the world counts as torn.  A row made anew had no reference to remove.
LEMMA CleanSiblingKeeps ==
    ASSUME OwnerTyped, ReachSound, NEW e \in Edits, NEW x \in Worlds, CleanSibling(e, x)
    PROVE  OwnerTyped' /\ ReachSound'
<1> DEFINE v == edit[e].world
           left == edit[e].left \ {x}
           old == [y \in left |-> edit[e].old[y]]
           new == [edit[e] EXCEPT !.left = left, !.old = old]
           was == edit[e].old[x]
           reach == [targets |-> was.targets \ {v}, scopes |-> was.scopes]
<1>1. /\ edit[e].at = "cleaning" /\ x \in edit[e].left /\ UNCHANGED <<code, wish>>
      /\ edit[e] \in EditSet /\ v \in Worlds /\ v # Every /\ edit[e].left \subseteq Worlds
  BY TunnelAssumption DEF CleanSibling, OwnerTyped, EditSet
<1>2. DOMAIN edit[e].old = edit[e].left
  BY <1>1 DEF ReachSound, EditSound
<1>3. \A y \in edit[e].left : edit[e].old[y] \in RowSet
  BY <1>2, ReadRow
<1>4. old \in Read /\ DOMAIN old = left /\ \A y \in left : old[y] = edit[e].old[y]
  <2>1. old \in [left -> RowSet] /\ left \in SUBSET Worlds
    BY <1>1, <1>3
  <2>2. QED BY <2>1, ReadShape
<1>5. reach \in ReachSet /\ reach.targets = was.targets \ {v} /\ reach.scopes = was.scopes
  <2>1. was \in RowSet
    BY <1>1, <1>3
  <2>2. QED BY <2>1 DEF RowSet, ReachSet
<1>6. edit' = [edit EXCEPT ![e] = new]
  BY DEF CleanSibling
<1>7. \/ /\ SameRow(e, x) /\ row' = Written(x, reach)
         /\ torn' = IF Holding(x) \ {e} # {} THEN torn \cup {x} ELSE torn
      \/ SameRow(e, x) /\ row' = row /\ torn' = torn \cup {x}
      \/ ~SameRow(e, x) /\ row' = row /\ torn' = torn
  BY DEF CleanSibling, Cleaned
<1> HIDE DEF old, reach
<1>8. /\ new \in EditSet /\ new.at = "cleaning" /\ new.left = left /\ new.old = old
      /\ new.world = v
  BY <1>1, <1>4 DEF EditSet
<1> HIDE DEF new
<1>9. /\ edit' \in [Edits -> EditSet] /\ edit'[e] = new
      /\ \A d \in Edits \ {e} : edit'[d] = edit[d]
  BY <1>6, <1>8, EditShape
<1>10. /\ row' \in [Worlds -> RowSet]
       /\ \A y \in Worlds \ {x} : row'[y] = row[y]
       /\ \A y \in Worlds : row'[y].known = row[y].known /\ row'[y].made = row[y].made
       /\ torn \subseteq torn' /\ torn' \subseteq Worlds
  <2>1. CASE row' = Written(x, reach)
    BY <1>5, <1>7, <2>1, WrittenShape DEF OwnerTyped
  <2>2. CASE row' = row
    BY <1>7, <2>2 DEF OwnerTyped
  <2>3. QED BY <1>7, <2>1, <2>2
<1>11. OwnerTyped'
  BY <1>1, <1>9, <1>10 DEF OwnerTyped
<1>12. /\ e \in Holding(x) <=> SameRow(e, x)
       /\ \A y \in Worlds : Holding(y)' \ {e} = Holding(y) \ {e}
       /\ \A y \in Worlds \ {x} : e \in Holding(y)' <=> e \in Holding(y)
       /\ e \notin Holding(x)'
  BY <1>1, <1>2, <1>4, <1>8, <1>9, <1>10 DEF Holding, SameRow
<1>13. \A d \in Cleaning' : d \in Cleaning /\ edit'[d].world = edit[d].world
  BY <1>1, <1>8, <1>9 DEF Cleaning
<1>14. /\ \A y \in Worlds \ {x} : Stale(y) \subseteq Stale(y)'
       /\ Stale(x) \subseteq Stale(x)' \cup {v}
       /\ ~SameRow(e, x) => Stale(x) \subseteq Stale(x)'
  BY <1>1, <1>8, <1>9, <1>12 DEF Stale
<1>15. ASSUME NEW y \in Worlds PROVE Settled(y)'
  <2>1. CASE y # x \/ (y = x /\ ~SameRow(e, x))
    <3>1. Stale(y) \subseteq Stale(y)' /\ row'[y] = row[y]
      BY <1>7, <1>10, <1>14, <2>1
    <3>2. QED BY <1>1, <1>10, <1>13, <3>1 DEF ReachSound, Settled
  <2>2. CASE y = x /\ SameRow(e, x) /\ x \notin torn'
    <3>1. row' = Written(x, reach) /\ row[x].known /\ x \notin torn
      BY <1>7, <1>10, <2>2 DEF SameRow
    <3>2. row'[x].targets = was.targets \ {v} /\ row'[x].scopes = was.scopes
      BY <1>5, <3>1, WrittenShape
    <3>3. /\ was.targets = row[x].targets /\ was.scopes = row[x].scopes
          /\ Every \notin row[x].targets
      BY <1>1, <1>12, <2>2, <3>1 DEF ReachSound, HoldsTrue, Reach
    <3>4. /\ row[x].scopes = wish[x].scopes
          /\ wish[x].targets \subseteq row[x].targets
          /\ row[x].targets \subseteq wish[x].targets \cup Stale(x)
          /\ \A d \in Cleaning : edit[d].world \in wish[x].targets => Every \in wish[x].targets
      BY <3>1 DEF ReachSound, Settled
    <3>5. Every \notin wish[x].targets /\ v \notin wish[x].targets
      BY <1>1, <3>3, <3>4 DEF Cleaning
    <3>6. /\ wish'[x].targets \subseteq row'[x].targets
          /\ row'[x].targets \subseteq wish'[x].targets \cup Stale(x)'
      BY <1>1, <1>14, <3>2, <3>3, <3>4, <3>5
    <3>7. \A d \in Cleaning' : edit'[d].world \in wish'[x].targets => Every \in wish'[x].targets
      BY <1>1, <1>13, <3>4
    <3>8. QED BY <1>1, <2>2, <3>2, <3>3, <3>4, <3>5, <3>6, <3>7 DEF Settled
  <2>3. QED BY <2>1, <2>2 DEF Settled
<1>16. ASSUME NEW d \in Edits, NEW y \in Worlds PROVE HoldsTrue(d, y)'
  <2> SUFFICES ASSUME d \in Holding(y)', y \notin torn' PROVE HoldsTrue(d, y)'
    BY DEF HoldsTrue
  <2>1. y \notin torn /\ d \in Holding(y)
    BY <1>10, <1>12
  <2>2. CASE d # e
    <3>1. row'[y] = row[y]
      BY <1>7, <1>10, <1>12, <2>2
    <3>2. QED BY <1>9, <2>1, <2>2, <3>1 DEF ReachSound, HoldsTrue
  <2>3. CASE d = e
    <3>1. y # x
      BY <1>12, <2>3
    <3>2. y \in left
      BY <1>4, <1>8, <1>9, <2>3 DEF Holding
    <3>3. row'[y] = row[y] /\ edit'[e].old[y] = edit[e].old[y] /\ edit'[e].at = "cleaning"
      BY <1>4, <1>8, <1>9, <1>10, <3>1, <3>2
    <3>4. QED BY <1>1, <2>1, <2>3, <3>3 DEF ReachSound, HoldsTrue
  <2>4. QED BY <2>2, <2>3
<1>17. ASSUME NEW d \in Edits PROVE EditSound(d)'
  <2>1. EditSound(d) /\ \A y \in DOMAIN edit[d].old : row'[y].made = row[y].made
    BY <1>10, ReadRow DEF ReachSound
  <2>2. CASE d # e
    BY <1>9, <2>1, <2>2 DEF EditSound
  <2>3. CASE d = e
    <3>1. /\ edit'[d].at = "cleaning" /\ DOMAIN edit'[d].old = left /\ edit'[d].left = left
          /\ \A y \in left : edit'[d].old[y] = edit[d].old[y]
      BY <1>4, <1>8, <1>9, <2>3
    <3>2. QED BY <1>1, <1>2, <2>1, <2>3, <3>1 DEF EditSound
  <2>4. QED BY <2>2, <2>3
<1>18. QED BY <1>11, <1>15, <1>16, <1>17 DEF ReachSound

\* A step that writes no row, no wish and no handler.
LEMMA OtherKeepsReach ==
    ASSUME OwnerTyped, ReachSound, UNCHANGED <<row, ownerVars>>
    PROVE  OwnerTyped' /\ ReachSound'
<1>1. UNCHANGED <<row, edit, code, wish, torn>>
  BY DEF ownerVars
<1>2. OwnerTyped'
  BY <1>1 DEF OwnerTyped
<1>3. QED BY <1>1, <1>2 DEF ReachSound, Settled, HoldsTrue, EditSound, Stale, Holding, SameRow, Cleaning

LEMMA ReachStays ==
    ASSUME OwnerTyped, RequestsTyped, ReachSound, Next
    PROVE  OwnerTyped' /\ ReachSound'
<1> DEFINE Stays == OwnerTyped' /\ ReachSound'
<1>1. ASSUME UNCHANGED <<row, ownerVars>> PROVE Stays
  BY <1>1, OtherKeepsReach
<1>2. CASE NoteStep \/ HourPasses
  BY <1>1, <1>2 DEF NoteStep, HourPasses, tunnelVars, Unmoved, worldVars, ownerVars
<1>3. ASSUME NEW r \in Requests, NEW t \in Tokens, NEW w \in Worlds, NEW s \in Scopes \cup {None},
             NEW start \in BOOLEAN, Receive(r, t, w, s, start)
      PROVE  Stays
  BY <1>1, <1>3 DEF Receive, Unmoved, worldVars
<1>4. CASE RequestStep
  BY <1>1, <1>4, RequestMoves DEF AllMoved
<1>5. ASSUME NEW w \in Worlds, Connects(w) \/ Leaves(w) PROVE Stays
  <2>1. CASE Connects(w)
    <3>1. Upsert(w) /\ UNCHANGED edit /\ code' \in CodeSet
      BY <2>1 DEF Connects, OwnerTyped
    <3>2. QED BY <3>1, UpsertKeeps
  <2>2. CASE Leaves(w)
    BY <1>1, <2>2 DEF Leaves
  <2>3. QED BY <1>5, <2>1, <2>2
<1>6. ASSUME NEW e \in Edits, NEW w \in Worlds,
             NEW targets \in (SUBSET (Others \cup {Every})) \cup {None},
             NEW scopes \in (SUBSET Scopes) \cup {None}, StartPatch(e, w, targets, scopes)
      PROVE  Stays
  BY <1>6, StartPatchKeeps
<1>7. ASSUME NEW e \in Edits, NEW w \in Worlds, StartDelete(e, w) PROVE Stays
  <2> DEFINE old == [x \in {w} |-> row[x]]
             new == [NoEdit EXCEPT !.at = "tokens", !.world = w, !.old = old]
  <2>1. old \in Read
    <3>1. old \in [{w} -> RowSet] /\ {w} \in SUBSET Worlds
      BY DEF OwnerTyped
    <3>2. QED BY <3>1, ReadShape
  <2>2. edit' = [edit EXCEPT ![e] = new] /\ edit[e].at = "new" /\ UNCHANGED <<row, code, wish, torn>>
    BY <1>7 DEF StartDelete, NewEdit, First
  <2> HIDE DEF old
  <2>3. new \in EditSet /\ new.at = "tokens"
    BY <2>1, Constants DEF EditSet
  <2> HIDE DEF new
  <2>4. QED BY <2>2, <2>3, IdleEditKeeps
<1>8. ASSUME NEW e \in Edits, NEW x \in Worlds, CleanSibling(e, x) PROVE Stays
  BY <1>8, CleanSiblingKeeps
<1>9. ASSUME NEW e \in Edits, WritePatch(e) PROVE Stays
  BY <1>9, WritePatchKeeps
<1>10. ASSUME NEW e \in Edits, DeleteRow(e) PROVE Stays
  BY <1>10, DeleteRowKeeps
<1>11. ASSUME NEW e \in Edits, ReadSiblings(e) PROVE Stays
  BY <1>11, ReadSiblingsKeeps
<1>12. ASSUME NEW e \in Edits, EndDelete(e) PROVE Stays
  BY <1>12, EndedShape, IdleEditKeeps DEF EndDelete, worldVars
<1>13. \A w \in Worlds : row[w] \in RowSet
  BY DEF OwnerTyped
<1>14. ASSUME NEW w \in Worlds, NEW enabled \in BOOLEAN, SetAutoStart(w, enabled) PROVE Stays
  <2> DEFINE tuned == [row[w] EXCEPT !.auto = enabled]
  <2>1. tuned \in RowSet /\ tuned.known = row[w].known /\ tuned.targets = row[w].targets
        /\ tuned.scopes = row[w].scopes /\ tuned.made = row[w].made
    BY <1>13 DEF RowSet
  <2>2. QED BY <1>14, <2>1, TunedKeeps DEF SetAutoStart
<1>15. ASSUME NEW w \in Worlds, NEW c \in Creds \cup {None}, SetCredential(w, c) PROVE Stays
  <2> DEFINE tuned == [row[w] EXCEPT !.cred = c]
  <2>1. tuned \in RowSet /\ tuned.known = row[w].known /\ tuned.targets = row[w].targets
        /\ tuned.scopes = row[w].scopes /\ tuned.made = row[w].made
    BY <1>13 DEF RowSet
  <2>2. QED BY <1>15, <2>1, TunedKeeps DEF SetCredential
<1>16. ASSUME NEW c \in Creds, DeleteCredential(c) PROVE Stays
  BY <1>1, <1>16 DEF DeleteCredential
<1>17. ASSUME NEW t \in Tokens, DeleteToken(t) PROVE Stays
  BY <1>1, <1>17 DEF DeleteToken
<1>18. CASE PairStep
  BY <1>18, ApprovalKeeps, ExchangeKeeps, GrantKeeps DEF PairStep, ReachSet
<1> HIDE DEF Stays
<1>19. Stays
  <2>1. CASE NoteStep \/ HourPasses
    BY <1>2, <2>1 DEF Stays
  <2>2. CASE \E r \in Requests, t \in Tokens, w \in Worlds, s \in Scopes \cup {None}, start \in BOOLEAN :
               Receive(r, t, w, s, start)
    BY <1>3, <2>2
  <2>3. CASE RequestStep
    BY <1>4, <2>3 DEF Stays
  <2>4. CASE \E w \in Worlds : Connects(w) \/ Leaves(w)
    BY <1>5, <2>4
  <2>5. CASE \E e \in Edits, w \in Worlds :
             \E targets \in (SUBSET (Others \cup {Every})) \cup {None}, scopes \in (SUBSET Scopes) \cup {None} :
               StartPatch(e, w, targets, scopes)
    BY <1>6, <2>5
  <2>6. CASE \E e \in Edits, w \in Worlds : StartDelete(e, w) \/ CleanSibling(e, w)
    BY <1>7, <1>8, <2>6
  <2>7. CASE \E e \in Edits : WritePatch(e) \/ DeleteRow(e) \/ ReadSiblings(e) \/ EndDelete(e)
    BY <1>9, <1>10, <1>11, <1>12, <2>7
  <2>8. CASE \E w \in Worlds, enabled \in BOOLEAN : SetAutoStart(w, enabled)
    BY <1>14, <2>8
  <2>9. CASE \E w \in Worlds, c \in Creds \cup {None} : SetCredential(w, c)
    BY <1>15, <2>9
  <2>10. CASE (\E c \in Creds : DeleteCredential(c)) \/ (\E t \in Tokens : DeleteToken(t))
    BY <1>16, <1>17, <2>10
  <2>11. CASE PairStep
    BY <1>18, <2>11 DEF Stays
  <2>12. QED BY <2>1, <2>2, <2>3, <2>4, <2>5, <2>6, <2>7, <2>8, <2>9, <2>10, <2>11 DEF Next, RequestStep
<1>20. QED BY <1>19 DEF Stays

----------------------------------------------------------------------------
(* What the owner allows is obeyed.                                        *)

LEMMA SettledReach ==
    ASSUME OwnerTyped, ReachSound, NEW w \in Worlds, row[w].known, w \notin torn, Cleaning = {}
    PROVE  row[w].targets = wish[w].targets /\ row[w].scopes = wish[w].scopes
<1>1. Stale(w) = {}
  BY DEF Stale, Cleaning
<1>2. QED BY <1>1 DEF ReachSound, Settled

\* Between its checks and its answer a request stays what it was found to be.
LEMMA MovesObey ==
    ASSUME OwnerTyped, RequestsTyped, ReachSound, RequestsObey, AllMoved
    PROVE  RequestsTyped' /\ RequestsObey'
<1>1. RequestsTyped'
  BY DEF RequestsTyped, AllMoved
<1>2. wish' = wish /\ doomed' = doomed /\ token' = token /\ lawful \subseteq lawful'
  BY DEF AllMoved, ownerVars
<1>3. ASSUME NEW r \in Requests PROVE Obeys(r)'
  <2> USE DEF Live, Reaching
  <2>0. Obeys(r)
    BY DEF RequestsObey
  <2>1. CASE req'[r] = req[r]
    BY <1>2, <2>0, <2>1 DEF Obeys, Permits, CanTarget
  <2>2. CASE req'[r].at \in {"answered", "done"}
    BY <2>2 DEF Obeys
  <2>3. CASE SameAsk(r) /\ req[r].at = "received" /\ req'[r].at = "known"
    BY <1>2, <2>0, <2>3 DEF Obeys, Permits, CanTarget, SameAsk
  <2>4. CASE /\ SameAsk(r) /\ req[r].at = "known" /\ req'[r].at = "permitted" /\ Allowed(r)
             /\ (Source \in torn \/ Cleaning # {} => r \in lawful')
    <3>1. r \in lawful'
      <4>1. CASE Source \in torn \/ Cleaning # {}
        BY <2>4, <4>1
      <4>2. CASE Source \notin torn /\ Cleaning = {}
        <5>1. row[Source].targets = wish[Source].targets /\ row[Source].scopes = wish[Source].scopes
          BY <2>4, <4>2, SettledReach, TunnelAssumption DEF Allowed
        <5>2. Permits(wish[Source], r)
          BY <2>4, <5>1 DEF Allowed, Permits, CanTarget
        <5>3. QED BY <1>2, <2>0, <2>4, <5>2 DEF Obeys
      <4>3. QED BY <4>1, <4>2
    <3>2. QED BY <1>2, <2>0, <2>4, <3>1 DEF Obeys, SameAsk
  <2>5. CASE SameAsk(r) /\ req[r].at = "permitted" /\ req'[r].at = "fresh" /\ FreshToken(r)
    BY <1>2, <2>0, <2>5 DEF Obeys, FreshToken
  <2>6. CASE SameAsk(r) /\ Reaching(r) /\ Reaching(r)'
    BY <1>2, <2>0, <2>6 DEF Obeys
  <2>7. QED BY <2>1, <2>2, <2>3, <2>4, <2>5, <2>6 DEF AllMoved, Moved
<1>4. QED BY <1>1, <1>3 DEF RequestsObey

LEMMA ReceiveObeys ==
    ASSUME RequestsTyped, RequestsObey, NEW r \in Requests, NEW t \in Tokens, NEW w \in Worlds,
           NEW s \in Scopes \cup {None}, NEW start \in BOOLEAN, Receive(r, t, w, s, start)
    PROVE  RequestsTyped' /\ RequestsObey'
<1> DEFINE new == [NoReq EXCEPT !.at = "received", !.token = t, !.target = w,
                                !.scope = s, !.start = start]
<1>1. /\ new \in RequestSet /\ new.at = "received" /\ new.token = t /\ new.target = w
      /\ new.scope = s
  BY Constants DEF RequestSet, RequestStages
<1>2. req' = [req EXCEPT ![r] = new] /\ req[r].at = "new" /\ UNCHANGED <<wish, token, conn, presence>>
  BY DEF Receive, First, Unmoved, worldVars, ownerVars
<1> HIDE DEF new
<1>3. /\ req' \in [Requests -> RequestSet] /\ req'[r] = new
      /\ \A q \in Requests \ {r} : req'[q] = req[q]
  BY <1>1, <1>2 DEF RequestsTyped
<1>4. /\ lawful' = IF CanTarget(wish[Source], w) /\ s \in wish[Source].scopes
                   THEN lawful \cup {r} ELSE lawful
      /\ doomed' = IF t \in token THEN doomed ELSE doomed \cup {r}
  BY DEF Receive
<1>5. RequestsTyped'
  BY <1>2, <1>3, <1>4 DEF RequestsTyped
<1>6. ASSUME NEW q \in Requests, q # r PROVE Obeys(q)'
  <2>1. Obeys(q) /\ req'[q] = req[q] /\ (q \in doomed' <=> q \in doomed) /\ (q \in lawful' <=> q \in lawful)
    BY <1>3, <1>4, <1>6 DEF RequestsObey
  <2>2. QED BY <1>2, <2>1 DEF Obeys, Live, Reaching, Permits, CanTarget
<1>7. Obeys(r)'
  <2>1. r \notin doomed
    BY <1>2 DEF RequestsObey, Obeys
  <2>2. Permits(wish[Source], r)' => r \in lawful'
    BY <1>1, <1>2, <1>3, <1>4 DEF Permits, CanTarget
  <2>3. QED BY <1>1, <1>2, <1>3, <1>4, <2>1, <2>2 DEF Obeys, Live, Reaching
<1>8. QED BY <1>5, <1>6, <1>7 DEF RequestsObey

\* What the owner decides later makes lawful what it allows, of the requests that are
\* not decided.
LEMMA DecisionObeys ==
    ASSUME RequestsTyped, RequestsObey, NEW e, NEW decided, Decide(e, decided),
           UNCHANGED <<req, token, presence, conn, doomed>>
    PROVE  RequestsTyped' /\ RequestsObey'
<1>1. lawful' = lawful \cup {r \in Requests : Live(r) /\ Permits(wish'[Source], r)}
  BY DEF Decide
<1>2. RequestsTyped'
  BY <1>1 DEF RequestsTyped
<1>3. ASSUME NEW r \in Requests PROVE Obeys(r)'
  BY <1>1 DEF RequestsObey, Obeys, Live, Reaching, Permits, CanTarget
<1>4. QED BY <1>2, <1>3 DEF RequestsObey

\* A deleted token dooms the requests that came with it and were not checked again.
LEMMA DeletionObeys ==
    ASSUME RequestsTyped, RequestsObey, token' \subseteq token,
           doomed' = doomed \cup Early(token \ token'),
           UNCHANGED <<req, wish, presence, conn, lawful>>
    PROVE  RequestsTyped' /\ RequestsObey'
<1>1. RequestsTyped'
  BY DEF RequestsTyped, Early
<1>2. ASSUME NEW r \in Requests PROVE Obeys(r)'
  BY DEF RequestsObey, Obeys, Live, Reaching, Permits, CanTarget, Early
<1>3. QED BY <1>1, <1>2 DEF RequestsObey

LEMMA OtherObeys ==
    ASSUME RequestsObey, UNCHANGED <<req, wish, token, lawful, doomed>>
    PROVE  RequestsObey'
BY DEF RequestsObey, Obeys, Live, Reaching, Permits, CanTarget

\* A row made anew allows nothing.
LEMMA UpsertObeys ==
    ASSUME RequestsObey, OwnerTyped, NEW w \in Worlds, Upsert(w), UNCHANGED <<req, token, lawful, doomed>>
    PROVE  RequestsObey'
<1>1. wish'[Source] = wish[Source] \/ wish'[Source] = Reach(NoRow)
  BY TunnelAssumption DEF Upsert, OwnerTyped
<1>2. Reach(NoRow).targets = {}
  BY DEF Reach, NoRow
<1>3. \A r \in Requests : Permits(wish'[Source], r)
        => Permits(wish[Source], r)
  <2> SUFFICES ASSUME NEW r \in Requests, CanTarget(Reach(NoRow), req[r].target) PROVE FALSE
    BY <1>1 DEF Permits
  <2>1. QED BY <1>2 DEF CanTarget
<1>4. QED BY <1>3 DEF RequestsObey, Obeys, Live, Reaching, Permits, CanTarget

LEMMA RequestsStay ==
    ASSUME OwnerTyped, RequestsTyped, ReachSound, RequestsObey, Next
    PROVE  RequestsTyped' /\ RequestsObey'
<1> DEFINE Stays == RequestsTyped' /\ RequestsObey'
<1> USE DEF worldVars, ownerVars, lawVars
<1>1. ASSUME UNCHANGED <<req, wish, token, presence, conn, lawful, doomed>> PROVE Stays
  BY <1>1, OtherObeys DEF RequestsTyped
<1>2. CASE NoteStep \/ HourPasses
  BY <1>1, <1>2 DEF NoteStep, HourPasses, tunnelVars, Unmoved
<1>3. ASSUME NEW r \in Requests, NEW t \in Tokens, NEW w \in Worlds, NEW s \in Scopes \cup {None},
             NEW start \in BOOLEAN, Receive(r, t, w, s, start)
      PROVE  Stays
  BY <1>3, ReceiveObeys
<1>4. CASE RequestStep
  BY <1>4, RequestMoves, MovesObey
<1>5. ASSUME NEW w \in Worlds, Connects(w) \/ Leaves(w) PROVE Stays
  <2>1. UNCHANGED <<req, token, lawful, doomed>>
    BY <1>5 DEF Connects, Leaves
  <2>2. presence' \in [Worlds -> {"off", "here", "elsewhere"}] /\ conn' \in [Worlds -> Nat]
    BY <1>5 DEF Connects, Leaves, RequestsTyped
  <2>3. wish' = wish \/ Upsert(w)
    BY <1>5 DEF Connects, Leaves
  <2>4. QED BY <2>1, <2>2, <2>3, OtherObeys, UpsertObeys DEF RequestsTyped
<1>6. ASSUME NEW e \in Edits, NEW w \in Worlds,
             NEW targets \in (SUBSET (Others \cup {Every})) \cup {None},
             NEW scopes \in (SUBSET Scopes) \cup {None}, StartPatch(e, w, targets, scopes)
      PROVE  Stays
  BY <1>1, <1>6 DEF StartPatch
<1>7. ASSUME NEW e \in Edits, NEW w \in Worlds, StartDelete(e, w) PROVE Stays
  BY <1>7, DeletionObeys DEF StartDelete
<1>8. ASSUME NEW e \in Edits, NEW x \in Worlds, CleanSibling(e, x) PROVE Stays
  BY <1>1, <1>8 DEF CleanSibling
<1>9. ASSUME NEW e \in Edits, WritePatch(e) PROVE Stays
  BY <1>1, <1>9, DecisionObeys DEF WritePatch
<1>10. ASSUME NEW e \in Edits, DeleteRow(e) PROVE Stays
  BY <1>1, <1>10, DecisionObeys DEF DeleteRow
<1>11. ASSUME NEW e \in Edits, ReadSiblings(e) PROVE Stays
  BY <1>1, <1>11 DEF ReadSiblings
<1>12. ASSUME NEW e \in Edits, EndDelete(e) PROVE Stays
  BY <1>1, <1>12 DEF EndDelete
<1>13. ASSUME NEW w \in Worlds, NEW enabled \in BOOLEAN, SetAutoStart(w, enabled) PROVE Stays
  BY <1>1, <1>13 DEF SetAutoStart, Tuned
<1>14. ASSUME NEW w \in Worlds, NEW c \in Creds \cup {None}, SetCredential(w, c) PROVE Stays
  BY <1>1, <1>14 DEF SetCredential, Tuned
<1>15. ASSUME NEW c \in Creds, DeleteCredential(c) PROVE Stays
  BY <1>1, <1>15 DEF DeleteCredential
<1>16. ASSUME NEW t \in Tokens, DeleteToken(t) PROVE Stays
  <2>1. token \ token' = {t} /\ token' \subseteq token
    BY <1>16 DEF DeleteToken
  <2>2. QED BY <1>16, <2>1, DeletionObeys DEF DeleteToken
<1>17. ASSUME NEW e \in Edits, NEW w \in Worlds, NEW reach \in ReachSet,
              ApproveUpgrade(e, w, reach) \/ ApprovePairing(e, w, reach)
       PROVE  Stays
  BY <1>1, <1>17, DecisionObeys DEF ApproveUpgrade, ApprovePairing
<1>18. ASSUME NEW w \in Worlds, Exchange(w) PROVE Stays
  BY <1>18, UpsertObeys DEF Exchange, RequestsTyped
<1>19. CASE Grant
  BY <1>1, <1>19, DecisionObeys DEF Grant
<1> HIDE DEF Stays
<1>20. Stays
  <2>1. CASE NoteStep \/ HourPasses
    BY <1>2, <2>1 DEF Stays
  <2>2. CASE \E r \in Requests, t \in Tokens, w \in Worlds, s \in Scopes \cup {None}, start \in BOOLEAN :
               Receive(r, t, w, s, start)
    BY <1>3, <2>2
  <2>3. CASE RequestStep
    BY <1>4, <2>3 DEF Stays
  <2>4. CASE \E w \in Worlds : Connects(w) \/ Leaves(w)
    BY <1>5, <2>4
  <2>5. CASE \E e \in Edits, w \in Worlds :
             \E targets \in (SUBSET (Others \cup {Every})) \cup {None}, scopes \in (SUBSET Scopes) \cup {None} :
               StartPatch(e, w, targets, scopes)
    BY <1>6, <2>5
  <2>6. CASE \E e \in Edits, w \in Worlds : StartDelete(e, w) \/ CleanSibling(e, w)
    BY <1>7, <1>8, <2>6
  <2>7. CASE \E e \in Edits : WritePatch(e) \/ DeleteRow(e) \/ ReadSiblings(e) \/ EndDelete(e)
    BY <1>9, <1>10, <1>11, <1>12, <2>7
  <2>8. CASE \E w \in Worlds, enabled \in BOOLEAN : SetAutoStart(w, enabled)
    BY <1>13, <2>8
  <2>9. CASE \E w \in Worlds, c \in Creds \cup {None} : SetCredential(w, c)
    BY <1>14, <2>9
  <2>10. CASE (\E c \in Creds : DeleteCredential(c)) \/ (\E t \in Tokens : DeleteToken(t))
    BY <1>15, <1>16, <2>10
  <2>11. CASE PairStep
    <3>1. CASE Grant
      BY <1>19, <3>1 DEF Stays
    <3>2. CASE \E w \in Worlds : Exchange(w)
      BY <1>18, <3>2
    <3>3. QED BY <1>17, <2>11, <3>1, <3>2 DEF PairStep, ReachSet
  <2>12. QED BY <2>1, <2>2, <2>3, <2>4, <2>5, <2>6, <2>7, <2>8, <2>9, <2>10, <2>11 DEF Next, RequestStep
<1>21. QED BY <1>20 DEF Stays

Decided == OwnerTyped /\ RequestsTyped /\ ReachSound /\ RequestsObey

LEMMA DecidedHolds == Spec => []Decided
<1>1. Init => Decided
  <2> SUFFICES ASSUME Init PROVE Decided
    OBVIOUS
  <2>0. load \in Loads /\ load.rows \in [Worlds -> RowSet]
        /\ load.presence \in {"off", "here", "elsewhere"}
    BY LoadsAssumption DEF Init, NoteInit
  <2>1. row \in [Worlds -> RowSet] /\ wish = [w \in Worlds |-> Reach(row[w])]
        /\ edit = [e \in Edits |-> NoEdit] /\ code = NoCode /\ torn = {}
    BY <2>0 DEF Init
  <2>2. \A w \in Worlds : /\ wish[w] \in ReachSet /\ wish[w].targets = row[w].targets
                          /\ wish[w].scopes = row[w].scopes
    BY <2>1 DEF Reach, RowSet, ReachSet
  <2>3. \A e \in Edits : edit[e] \in EditSet /\ edit[e].at = "new"
    <3>1. NoEdit.at = "new"
      BY DEF NoEdit
    <3>2. QED BY <2>1, <3>1, Constants
  <2>4. OwnerTyped
    <3>1. wish \in [Worlds -> ReachSet]
      BY <2>1, <2>2
    <3>2. edit \in [Edits -> EditSet]
      BY <2>1, <2>3
    <3>3. QED BY <2>1, <3>1, <3>2, Constants DEF OwnerTyped
  <2>5. Cleaning = {} /\ \A w \in Worlds : Holding(w) = {} /\ Stale(w) = {}
    BY <2>3 DEF Cleaning, Holding, Stale
  <2>6. ReachSound
    BY <2>2, <2>3, <2>5 DEF ReachSound, Settled, HoldsTrue, EditSound
  <2>7. \A r \in Requests : req[r] = NoReq
    BY DEF Init
  <2>8. RequestsTyped
    BY <2>0, Constants, TunnelAssumption DEF Init, RequestsTyped
  <2>9. RequestsObey
    BY <2>7, Constants DEF Init, RequestsObey, Obeys, Live, Reaching
  <2>10. QED BY <2>4, <2>6, <2>8, <2>9 DEF Decided
<1>2. Decided /\ [Next]_vars => Decided'
  <2>1. Decided /\ Next => Decided'
    BY ReachStays, RequestsStay DEF Decided
  <2>2. Decided /\ UNCHANGED vars => Decided'
    <3> SUFFICES ASSUME Decided, UNCHANGED vars PROVE Decided'
      OBVIOUS
    <3>1. UNCHANGED <<row, ownerVars, req, wish, token, presence, conn, lawful, doomed>>
      BY DEF vars, tunnelVars, worldVars, ownerVars, lawVars
    <3>2. OwnerTyped' /\ ReachSound'
      BY <3>1, OtherKeepsReach DEF Decided
    <3>3. RequestsTyped' /\ RequestsObey'
      BY <3>1, OtherObeys DEF Decided, RequestsTyped
    <3>4. QED BY <3>2, <3>3 DEF Decided
  <2>3. QED BY <2>1, <2>2
<1>3. QED BY <1>1, <1>2, PTL DEF Spec

\* What the owner decided last about a world's reach stands, whichever handlers of the
\* dashboard and pairings ran, unless two of them held its row at once, the decision
\* named a world that was being deleted, a write failed, or a pairing code was
\* exchanged that had been approved before the decision; or a deleted world is still
\* being removed from the lists.
THEOREM ReachStands == Spec => []ReachIsAsDecided
<1>1. Decided => ReachIsAsDecided
  <2> SUFFICES ASSUME Decided, NEW w \in Worlds, row[w].known, w \notin torn, Cleaning = {}
               PROVE  Reach(row[w]) = wish[w]
    BY DEF ReachIsAsDecided
  <2>1. row[w].targets = wish[w].targets /\ row[w].scopes = wish[w].scopes
    BY SettledReach DEF Decided
  <2>2. wish[w] \in ReachSet
    BY DEF Decided, OwnerTyped
  <2>3. QED BY <2>1, <2>2 DEF Reach, ReachSet
<1>2. QED BY <1>1, DecidedHolds, PTL

\* No action reaches another world that the owner did not allow while the request was
\* undecided, or with a token that was gone before the second look at it.
THEOREM OwnerIsObeyed == Spec => []TunnelObeysTheOwner
<1>1. Decided => TunnelObeysTheOwner
  BY DEF Decided, RequestsObey, Obeys, TunnelObeysTheOwner
<1>2. QED BY <1>1, DecidedHolds, PTL

----------------------------------------------------------------------------
(* The seed tokens of the launches.                                        *)

SeedsSound == LaunchesTyped /\ SeedsAreAccounted

\* A step of one world's launch that keeps the balance of its tokens.
LEMMA BalanceKeeps ==
    ASSUME SeedsSound, NEW w \in Worlds,
           NEW new \in LaunchSet, launch' = [launch EXCEPT ![w] = new],
           seed' \in [Worlds -> Nat], seeded' \in [Worlds -> Nat], stuck' \in [Worlds -> Nat],
           \A x \in Worlds \ {w} :
               seed'[x] = seed[x] /\ seeded'[x] = seeded[x] /\ stuck'[x] = stuck[x],
           seed'[w] = seeded'[w] + stuck'[w] + (IF new.at = "launching" THEN 1 ELSE 0)
    PROVE  SeedsSound'
<1>1. LaunchesTyped'
  BY DEF SeedsSound, LaunchesTyped
<1>2. /\ launch'[w] = new
      /\ \A x \in Worlds \ {w} : launch'[x] = launch[x]
  BY DEF SeedsSound, LaunchesTyped
<1>3. ASSUME NEW x \in Worlds
      PROVE  seed'[x] = seeded'[x] + stuck'[x] + (IF launch'[x].at = "launching" THEN 1 ELSE 0)
  <2>1. CASE x = w
    BY <1>2, <2>1
  <2>2. CASE x # w
    BY <1>2, <2>2 DEF SeedsSound, SeedsAreAccounted
  <2>3. QED BY <2>1, <2>2
<1>4. QED BY <1>1, <1>3 DEF SeedsSound, SeedsAreAccounted

LEMMA LaunchesBalance == ASSUME Decided, SeedsSound, Next PROVE SeedsSound'
<1>0. /\ seed \in [Worlds -> Nat] /\ seeded \in [Worlds -> Nat] /\ stuck \in [Worlds -> Nat]
      /\ \A w \in Worlds :
         /\ launch[w] \in LaunchSet /\ seed[w] \in Nat /\ seeded[w] \in Nat /\ stuck[w] \in Nat
         /\ seed[w] = seeded[w] + stuck[w] + (IF launch[w].at = "launching" THEN 1 ELSE 0)
  BY DEF SeedsSound, LaunchesTyped, SeedsAreAccounted
<1>1. ASSUME UNCHANGED launchVars PROVE SeedsSound'
  BY <1>1 DEF launchVars, SeedsSound, LaunchesTyped, SeedsAreAccounted
<1>2. ASSUME NEW r \in Requests, AutoStart(r) PROVE SeedsSound'
  <2> DEFINE w == req[r].target
             new == [at |-> "resolving", owner |-> r, cred |-> None]
  <2>1. w \in Worlds
    BY DEF Decided, RequestsTyped, RequestSet
  <2>2. CASE launch' = launch
    BY <1>1, <1>2, <2>2 DEF AutoStart, launchVars
  <2>3. CASE launch[w] = Idle /\ launch' = [launch EXCEPT ![w] = new]
    <3>1. new \in LaunchSet /\ new.at = "resolving"
      BY DEF LaunchSet
    <3>2. launch[w].at = "idle"
      BY <2>3, Constants
    <3> HIDE DEF new, w
    <3>3. seed' = seed /\ seeded' = seeded /\ stuck' = stuck
      BY <1>2 DEF AutoStart
    <3>4. QED BY <1>0, <2>1, <2>3, <3>1, <3>2, <3>3, BalanceKeeps
  <2>4. QED BY <1>2, <2>2, <2>3 DEF AutoStart
<1>3. ASSUME NEW w \in Worlds, launch[w].at # "launching", Stopped(w), UNCHANGED <<seed, seeded, stuck>>
      PROVE  SeedsSound'
  BY <1>0, <1>3, Constants, BalanceKeeps DEF Stopped
<1>4. ASSUME NEW w \in Worlds, Resolve(w) PROVE SeedsSound'
  <2>1. CASE Stopped(w)
    BY <1>3, <1>4, <2>1 DEF Resolve
  <2> DEFINE new == [launch[w] EXCEPT !.at = "minting", !.cred = row[w].cred]
  <2>2. CASE launch' = [launch EXCEPT ![w] = new]
    <3>1. row[w].cred \in Creds \cup {None}
      BY DEF Decided, OwnerTyped, RowSet
    <3>2. new \in LaunchSet /\ new.at = "minting"
      BY <1>0, <3>1 DEF LaunchSet
    <3> HIDE DEF new
    <3>3. seed' = seed /\ seeded' = seeded /\ stuck' = stuck /\ launch[w].at = "resolving"
      BY <1>4 DEF Resolve
    <3>4. QED BY <1>0, <2>2, <3>2, <3>3, BalanceKeeps
  <2>3. QED BY <1>4, <2>1, <2>2 DEF Resolve
<1>5. ASSUME NEW w \in Worlds, Mint(w) PROVE SeedsSound'
  <2>1. CASE Stopped(w) /\ seed' = seed
    BY <1>3, <1>5, <2>1 DEF Mint
  <2> DEFINE new == [launch[w] EXCEPT !.at = "launching"]
             a == seed[w] + 1
  <2>2. CASE launch' = [launch EXCEPT ![w] = new] /\ seed' = [seed EXCEPT ![w] = a]
    <3>1. new \in LaunchSet /\ new.at = "launching"
      BY <1>0 DEF LaunchSet
    <3>2. seeded' = seeded /\ stuck' = stuck /\ launch[w].at = "minting"
      BY <1>5 DEF Mint
    <3>3. a \in Nat /\ a = seeded[w] + stuck[w] + 1
      BY <1>0, <3>2
    <3> HIDE DEF new, a
    <3>4. QED BY <1>0, <2>2, <3>1, <3>2, <3>3, BalanceKeeps
  <2>3. QED BY <1>5, <2>1, <2>2 DEF Mint
<1>6. ASSUME NEW w \in Worlds, Launched(w) PROVE SeedsSound'
  <2> DEFINE b == seeded[w] + 1
  <2>1. /\ launch' = [launch EXCEPT ![w] = Idle] /\ seeded' = [seeded EXCEPT ![w] = b]
        /\ seed' = seed /\ stuck' = stuck /\ launch[w].at = "launching"
    BY <1>6 DEF Launched, Stopped
  <2>2. b \in Nat /\ seed[w] = b + stuck[w]
    BY <1>0, <2>1
  <2> HIDE DEF b
  <2>3. /\ seeded' \in [Worlds -> Nat] /\ seeded'[w] = b
        /\ \A x \in Worlds \ {w} : seeded'[x] = seeded[x]
    BY <1>0, <2>1, <2>2
  <2>4. Idle.at # "launching" /\ Idle \in LaunchSet
    BY Constants
  <2>5. seed'[w] = seeded'[w] + stuck'[w] + (IF Idle.at = "launching" THEN 1 ELSE 0)
    BY <1>0, <2>1, <2>2, <2>3, <2>4
  <2>6. QED BY <1>0, <2>1, <2>3, <2>4, <2>5, BalanceKeeps
<1>7. ASSUME NEW w \in Worlds, LaunchFails(w) PROVE SeedsSound'
  <2> DEFINE a == seed[w] - 1
             c == stuck[w] + 1
  <2>1. /\ launch' = [launch EXCEPT ![w] = Idle] /\ seeded' = seeded /\ launch[w].at = "launching"
        /\ \/ seed' = [seed EXCEPT ![w] = a] /\ stuck' = stuck
           \/ stuck' = [stuck EXCEPT ![w] = c] /\ seed' = seed
    BY <1>7 DEF LaunchFails, Stopped, Revoked
  <2>2. /\ a \in Nat /\ a = seeded[w] + stuck[w]
        /\ c \in Nat /\ seed[w] = seeded[w] + c
    <3> DEFINE x == seeded[w]
               y == stuck[w]
               z == seed[w]
    <3>1. x \in Nat /\ y \in Nat /\ z \in Nat /\ z = x + y + 1
      BY <1>0, <2>1
    <3> HIDE DEF x, y, z
    <3>2. z - 1 \in Nat /\ z - 1 = x + y /\ y + 1 \in Nat /\ z = x + (y + 1)
      BY <3>1
    <3>3. QED BY <3>2 DEF x, y, z
  <2> HIDE DEF a, c
  <2>3. CASE seed' = [seed EXCEPT ![w] = a] /\ stuck' = stuck
    <3>1. /\ seed' \in [Worlds -> Nat] /\ seed'[w] = a
          /\ \A x \in Worlds \ {w} : seed'[x] = seed[x]
      BY <1>0, <2>2, <2>3
    <3>2. Idle.at # "launching" /\ Idle \in LaunchSet
      BY Constants
    <3>3. seed'[w] = seeded'[w] + stuck'[w] + (IF Idle.at = "launching" THEN 1 ELSE 0)
      BY <1>0, <2>1, <2>2, <2>3, <3>1, <3>2
    <3>4. QED BY <1>0, <2>1, <2>3, <3>1, <3>2, <3>3, BalanceKeeps
  <2>4. CASE stuck' = [stuck EXCEPT ![w] = c] /\ seed' = seed
    <3>1. /\ stuck' \in [Worlds -> Nat] /\ stuck'[w] = c
          /\ \A x \in Worlds \ {w} : stuck'[x] = stuck[x]
      BY <1>0, <2>2, <2>4
    <3>2. Idle.at # "launching" /\ Idle \in LaunchSet
      BY Constants
    <3>3. seed'[w] = seeded'[w] + stuck'[w] + (IF Idle.at = "launching" THEN 1 ELSE 0)
      BY <1>0, <2>1, <2>2, <2>4, <3>1, <3>2
    <3>4. QED BY <1>0, <2>1, <2>4, <3>1, <3>2, <3>3, BalanceKeeps
  <2>5. QED BY <2>1, <2>3, <2>4
<1>8. ASSUME NEW r \in Requests, NEW t \in Tokens, NEW w \in Worlds, NEW s \in Scopes \cup {None}, NEW start \in BOOLEAN,
              Receive(r, t, w, s, start)
      PROVE  SeedsSound'
  BY <1>1, <1>8 DEF Receive, Unmoved
<1>9. ASSUME NEW r \in Requests, LookUpToken(r) PROVE SeedsSound'
  BY <1>1, <1>9 DEF LookUpToken, Unmoved
<1>10. ASSUME NEW r \in Requests, CheckPermissions(r) PROVE SeedsSound'
  BY <1>1, <1>10 DEF CheckPermissions, Unmoved
<1>11. ASSUME NEW r \in Requests, Recheck(r) PROVE SeedsSound'
  BY <1>1, <1>11 DEF Recheck, Unmoved
<1>12. ASSUME NEW r \in Requests, FindTarget(r) PROVE SeedsSound'
  BY <1>1, <1>12 DEF FindTarget, Unmoved
<1>13. ASSUME NEW r \in Requests, Forwarded(r) PROVE SeedsSound'
  BY <1>1, <1>13 DEF Forwarded, Unmoved
<1>14. ASSUME NEW r \in Requests, FindStarted(r) PROVE SeedsSound'
  BY <1>1, <1>14 DEF FindStarted, Unmoved
<1>15. ASSUME NEW r \in Requests, SendAction(r) PROVE SeedsSound'
  BY <1>1, <1>15 DEF SendAction, Unmoved
<1>16. ASSUME NEW r \in Requests, TimesOut(r) PROVE SeedsSound'
  BY <1>1, <1>16 DEF TimesOut, Unmoved
<1>17. ASSUME NEW r \in Requests, FinishLog(r) PROVE SeedsSound'
  BY <1>1, <1>17 DEF FinishLog
<1>18. ASSUME NEW r \in Requests, GiveUp(r) PROVE SeedsSound'
  BY <1>1, <1>18 DEF GiveUp, Unmoved
<1>19. ASSUME NEW r \in Requests, TargetAnswers(r) PROVE SeedsSound'
  BY <1>1, <1>19 DEF TargetAnswers, Unmoved
<1>20. CASE HourPasses
  BY <1>1, <1>20 DEF HourPasses, Unmoved
<1>21. ASSUME NEW w \in Worlds, Connects(w) PROVE SeedsSound'
  BY <1>1, <1>21 DEF Connects
<1>22. ASSUME NEW w \in Worlds, Leaves(w) PROVE SeedsSound'
  BY <1>1, <1>22 DEF Leaves
<1>23. ASSUME NEW e \in Edits, NEW w \in Worlds, NEW targets \in (SUBSET (Others \cup {Every})) \cup {None}, NEW scopes \in (SUBSET Scopes) \cup {None},
              StartPatch(e, w, targets, scopes)
      PROVE  SeedsSound'
  BY <1>1, <1>23 DEF StartPatch
<1>24. ASSUME NEW e \in Edits, NEW w \in Worlds, StartDelete(e, w) PROVE SeedsSound'
  BY <1>1, <1>24 DEF StartDelete
<1>25. ASSUME NEW e \in Edits, NEW w \in Worlds, CleanSibling(e, w) PROVE SeedsSound'
  BY <1>1, <1>25 DEF CleanSibling
<1>26. ASSUME NEW e \in Edits, WritePatch(e) PROVE SeedsSound'
  BY <1>1, <1>26 DEF WritePatch
<1>27. ASSUME NEW e \in Edits, DeleteRow(e) PROVE SeedsSound'
  BY <1>1, <1>27 DEF DeleteRow
<1>28. ASSUME NEW e \in Edits, ReadSiblings(e) PROVE SeedsSound'
  BY <1>1, <1>28 DEF ReadSiblings
<1>29. ASSUME NEW e \in Edits, EndDelete(e) PROVE SeedsSound'
  BY <1>1, <1>29 DEF EndDelete
<1>30. ASSUME NEW w \in Worlds, NEW enabled \in BOOLEAN,
              SetAutoStart(w, enabled)
      PROVE  SeedsSound'
  BY <1>1, <1>30 DEF SetAutoStart, Tuned
<1>31. ASSUME NEW w \in Worlds, NEW c \in Creds \cup {None},
              SetCredential(w, c)
      PROVE  SeedsSound'
  BY <1>1, <1>31 DEF SetCredential, Tuned
<1>32. ASSUME NEW c \in Creds, DeleteCredential(c) PROVE SeedsSound'
  BY <1>1, <1>32 DEF DeleteCredential
<1>33. ASSUME NEW t \in Tokens, DeleteToken(t) PROVE SeedsSound'
  BY <1>1, <1>33 DEF DeleteToken
<1>34. CASE NoteStep
  BY <1>1, <1>34 DEF NoteStep, tunnelVars
<1>35. CASE PairStep
  BY <1>1, <1>35 DEF PairStep, ApproveUpgrade, ApprovePairing, Exchange, Grant
<1>36. QED
  <2>1. CASE \E r \in Requests : Request(r) \/ GiveUp(r) \/ TargetAnswers(r)
    BY <1>9, <1>10, <1>11, <1>12, <1>13, <1>2, <1>14, <1>15, <1>16, <1>17, <1>18, <1>19,
       <2>1 DEF Request
  <2>2. CASE \E w \in Worlds : Launch(w) \/ Launched(w) \/ Connects(w) \/ Leaves(w)
    BY <1>4, <1>5, <1>7, <1>6, <1>21, <1>22, <2>2 DEF Launch
  <2>3. CASE \E r \in Requests, t \in Tokens, w \in Worlds, s \in Scopes \cup {None}, start \in BOOLEAN :
               Receive(r, t, w, s, start)
    BY <1>8, <2>3
  <2>4. CASE \E e \in Edits, w \in Worlds :
             \E targets \in (SUBSET (Others \cup {Every})) \cup {None}, scopes \in (SUBSET Scopes) \cup {None} :
               StartPatch(e, w, targets, scopes)
    BY <1>23, <2>4
  <2>5. CASE \E e \in Edits, w \in Worlds : StartDelete(e, w) \/ CleanSibling(e, w)
    BY <1>24, <1>25, <2>5
  <2>6. CASE \E e \in Edits : WritePatch(e) \/ DeleteRow(e) \/ ReadSiblings(e) \/ EndDelete(e)
    BY <1>26, <1>27, <1>28, <1>29, <2>6
  <2>7. CASE \/ \E w \in Worlds, enabled \in BOOLEAN : SetAutoStart(w, enabled)
             \/ \E w \in Worlds, c \in Creds \cup {None} : SetCredential(w, c)
             \/ \E c \in Creds : DeleteCredential(c)
             \/ \E t \in Tokens : DeleteToken(t)
    BY <1>30, <1>31, <1>32, <1>33, <2>7
  <2>8. QED BY <1>20, <1>34, <1>35, <2>1, <2>2, <2>3, <2>4, <2>5, <2>6, <2>7 DEF Next

\* A seed token in the database belongs to a launch under way or to one that
\* succeeded, or its revocation failed, however many requests start the world.
THEOREM SeedsBalance == Spec => []SeedsAreAccounted
<1>1. Init => SeedsSound
  <2> SUFFICES ASSUME Init PROVE SeedsSound
    OBVIOUS
  <2>1. \A w \in Worlds : launch[w] = Idle /\ seed[w] = 0 /\ seeded[w] = 0 /\ stuck[w] = 0
    BY DEF Init
  <2>2. LaunchesTyped
    BY Constants DEF Init, LaunchesTyped
  <2>3. QED BY <2>1, <2>2, Constants DEF SeedsSound, SeedsAreAccounted
<1>2. Decided /\ SeedsSound /\ [Next]_vars => SeedsSound'
  <2>1. SeedsSound /\ UNCHANGED vars => SeedsSound'
    BY DEF vars, tunnelVars, launchVars, SeedsSound, LaunchesTyped, SeedsAreAccounted
  <2>2. QED BY <2>1, LaunchesBalance
<1>3. SeedsSound => SeedsAreAccounted
  BY DEF SeedsSound
<1>4. QED BY <1>1, <1>2, <1>3, DecidedHolds, PTL DEF Spec

----------------------------------------------------------------------------
(* What owners hear.                                                       *)

LEMMA Addresses ==
    /\ Account \in Destinations
    /\ \A k \in ApiKeys : <<"key", k>> \in Destinations /\ <<"key", k>> # Account
    /\ \A w \in Worlds : <<"world", w>> \in Destinations /\ <<"world", w>> # Account
    /\ Summary \in Events /\ \A t \in Topics : t.event \in Events
<1>1. \A k \in ApiKeys : <<"key", k>> \in {"key"} \X ApiKeys /\ <<"key", k>> # Account
  BY DEF Account
<1>2. \A w \in Worlds : <<"world", w>> \in {"world"} \X Worlds /\ <<"world", w>> # Account
  BY DEF Account
<1>3. QED BY <1>1, <1>2 DEF Destinations, Events

LEMMA NothingKnown == NoNotice \in NoticeSet /\ NoNotice.at = "new"
                      /\ Gone \in NoticeSet /\ Gone.at = "done" /\ Gone.wanted = FALSE
<1>1. (CHOOSE w \in Worlds : TRUE) \in Worlds
  BY TunnelAssumption
<1>2. NoNotice \in NoticeSet /\ NoNotice.at = "new" /\ NoNotice.wanted = FALSE
  BY <1>1, Addresses DEF NoNotice, NoticeSet, NoticeStages
<1>3. QED BY <1>2 DEF Gone, NoticeSet, NoticeStages

LEMMA NoticeShape ==
    ASSUME NoticesTyped, NEW n \in Notices, NEW new \in NoticeSet,
           notice' = [notice EXCEPT ![n] = new]
    PROVE  /\ notice' \in [Notices -> NoticeSet] /\ notice'[n] = new
           /\ \A m \in Notices \ {n} : notice'[m] = notice[m]
BY DEF NoticesTyped

LEMMA GotoShape ==
    ASSUME NoticesTyped, NEW n \in Notices, NEW at \in NoticeStages, Goto(n, at)
    PROVE  /\ notice' \in [Notices -> NoticeSet]
           /\ \A m \in Notices \ {n} : notice'[m] = notice[m]
           /\ notice'[n].at = at /\ notice'[n].event = notice[n].event
           /\ notice'[n].world = notice[n].world /\ notice'[n].key = notice[n].key
           /\ notice'[n].wanted = notice[n].wanted
<1> DEFINE new == [notice[n] EXCEPT !.at = at]
<1>1. notice[n] \in NoticeSet
  BY DEF NoticesTyped
<1>2. /\ new \in NoticeSet /\ new.at = at /\ new.event = notice[n].event
      /\ new.world = notice[n].world /\ new.key = notice[n].key /\ new.wanted = notice[n].wanted
  BY <1>1 DEF NoticeSet
<1>3. notice' = [notice EXCEPT ![n] = new]
  BY DEF Goto
<1> HIDE DEF new
<1>4. QED BY <1>2, <1>3, NoticeShape

LEMMA TopicTyped ==
    ASSUME NoticesTyped, NEW n \in Notices
    PROVE  /\ notice[n] \in NoticeSet /\ notice[n].event \in Events /\ notice[n].world \in Worlds
           /\ Topic(n) \in Events \X Worlds /\ Topic(n)[1] = notice[n].event
<1>1. notice[n] \in NoticeSet
  BY DEF NoticesTyped
<1>2. QED BY <1>1 DEF NoticeSet, Topic

\* The notices that a step leaves alone keep what was said of them.
LEMMA BystandersStay ==
    ASSUME HearingSound, NEW n \in Notices, UNCHANGED <<asked, resettled>>,
           \A m \in Notices \ {n} : notice'[m] = notice[m],
           \A m \in Notices \ {n} : \A d : <<m, d>> \in unasked' => <<m, d>> \in unasked,
           \A m \in Notices \ {n} : \A d : <<m, d>> \in heard' => <<m, d>> \in heard
    PROVE  \A m \in Notices \ {n} : ReadsFresh(m)' /\ SendsAsked(m)'
<1>1. ASSUME NEW m \in Notices \ {n} PROVE ReadsFresh(m)'
  <2>1. ReadsFresh(m) /\ Topic(m)' = Topic(m) /\ notice'[m] = notice[m]
    BY DEF HearingSound, Topic
  <2>2. QED BY <2>1 DEF ReadsFresh, Wants
<1>2. ASSUME NEW m \in Notices \ {n} PROVE SendsAsked(m)'
  <2>1. SendsAsked(m) /\ notice'[m] = notice[m]
    BY DEF HearingSound
  <2>2. QED BY <2>1 DEF SendsAsked, Wants
<1>3. QED BY <1>1, <1>2

\* A notice begins: whoever does not want it is noted.
LEMMA BeginKeeps ==
    ASSUME NoticesTyped, HearingSound, NEW n \in Notices, NEW event \in Events, NEW world \in Worlds,
           NEW key \in ApiKeys \cup {NoKey}, NEW count \in Nat, Begin(n, event, world, key, count),
           batch' \in [Pairs -> Nat], UNCHANGED settingsVars
    PROVE  NoticesTyped' /\ HearingSound'
<1> DEFINE new == [at |-> "begun", event |-> event, world |-> world, key |-> key,
                   count |-> count, wanted |-> FALSE]
           triple == {Account, <<"key", key>>, <<"world", world>>}
           refused == {d \in Destinations : ~Wants(d, event) \/ d \notin triple}
<1>1. /\ new \in NoticeSet /\ new.at = "begun" /\ new.event = event /\ new.world = world
      /\ new.key = key /\ new.wanted = FALSE
  BY DEF NoticeSet, NoticeStages
<1>2. /\ notice' = [notice EXCEPT ![n] = new] /\ notice[n].at = "new"
      /\ unasked' = unasked \cup ({n} \X refused)
      /\ UNCHANGED <<recent, passed, resettled, overlapped, heard, lost, asked, debounce>>
  BY DEF Begin, First, hearing, settingsVars
<1> HIDE DEF new
<1>3. /\ notice' \in [Notices -> NoticeSet] /\ notice'[n] = new
      /\ \A m \in Notices \ {n} : notice'[m] = notice[m]
  BY <1>1, <1>2, NoticeShape
<1>4. NoticesTyped'
  BY <1>2, <1>3 DEF NoticesTyped
<1>5. \A m \in Notices \ {n} : ReadsFresh(m)' /\ SendsAsked(m)'
  BY <1>2, <1>3, BystandersStay
<1>6. ReadsFresh(n)'
  BY <1>1, <1>3 DEF ReadsFresh
<1>7. SendsAsked(n)'
  <2>1. \A d \in Destinations : <<n, d>> \notin unasked /\ <<n, d>> \notin heard
    BY <1>2 DEF HearingSound, SendsAsked
  <2>2. \A d \in triple : <<n, d>> \in unasked' => ~Wants(d, event)
    BY <1>2, <2>1 DEF HearingSound
  <2>3. QED BY <1>1, <1>2, <1>3, <2>1, <2>2 DEF SendsAsked, Wants
<1>8. ASSUME NEW x \in Events \X Worlds PROVE WindowSound(x)' /\ OpenedByHeard(x)'
  <2>1. Looking(x)' = Looking(x)
    BY <1>1, <1>2, <1>3 DEF Looking, Topic
  <2>2. \A m \in Notices : ReachesAccount(m) => ReachesAccount(m)'
    BY <1>2, <1>3 DEF ReachesAccount
  <2>3. passed[x] \subseteq Notices
    BY DEF NoticesTyped
  <2>4. QED BY <1>2, <2>1, <2>2, <2>3 DEF HearingSound, WindowSound, OpenedByHeard, Wants
<1>9. (heard \cup unasked \subseteq Notices \X Destinations)' /\ lost' = {}
  BY <1>2 DEF HearingSound
<1>10. QED BY <1>4, <1>5, <1>6, <1>7, <1>8, <1>9 DEF HearingSound

LEMMA RecordKeeps ==
    ASSUME NoticesTyped, HearingSound, NEW n \in Notices, Record(n)
    PROVE  NoticesTyped' /\ HearingSound'
<1> DEFINE t == Topic(n)
<1>1. /\ notice[n].at = "loaded" /\ Goto(n, "account")
      /\ recent' = recent \cup {t} /\ passed' = [passed EXCEPT ![t] = @ \cup {n}]
      /\ UNCHANGED <<asked, debounce, batch, resettled, overlapped, unasked, heard, lost>>
  BY DEF Record, Stored, settingsVars, batchVars, hearing
<1>2. /\ notice' \in [Notices -> NoticeSet]
      /\ \A m \in Notices \ {n} : notice'[m] = notice[m]
      /\ notice'[n].at = "account" /\ notice'[n].event = notice[n].event
      /\ notice'[n].world = notice[n].world /\ notice'[n].key = notice[n].key
      /\ notice'[n].wanted = notice[n].wanted
  BY <1>1, GotoShape DEF NoticeStages
<1>3. t \in Events \X Worlds /\ t[1] = notice[n].event /\ Topic(n)' = t
  BY <1>2, TopicTyped DEF Topic
<1>4. /\ passed'[t] = passed[t] \cup {n}
      /\ \A x \in (Events \X Worlds) \ {t} : passed'[x] = passed[x]
      /\ passed' \in [Events \X Worlds -> SUBSET Notices]
  BY <1>1, <1>3 DEF NoticesTyped
<1>5. NoticesTyped'
  BY <1>1, <1>2, <1>3, <1>4 DEF NoticesTyped
<1>6. \A m \in Notices \ {n} : ReadsFresh(m)' /\ SendsAsked(m)'
  BY <1>1, <1>2, BystandersStay
<1>7. ReadsFresh(n)' /\ SendsAsked(n)'
  BY <1>1, <1>2 DEF HearingSound, ReadsFresh, SendsAsked, Wants
<1>8. n \in Looking(t) /\ \A x \in Events \X Worlds : Looking(x)' = Looking(x) \ {n}
  BY <1>1, <1>2 DEF Looking, Topic
<1>9. ASSUME NEW x \in Events \X Worlds PROVE WindowSound(x)'
  <2>1. WindowSound(x)
    BY DEF HearingSound
  <2>2. passed'[x] \cup Looking(x)' \subseteq passed[x] \cup Looking(x)
    BY <1>3, <1>4, <1>8
  <2>3. passed'[x] # {} => x \in recent'
    BY <1>1, <1>4, <2>1 DEF WindowSound
  <2>4. QED BY <1>1, <2>1, <2>2, <2>3 DEF WindowSound
<1>10. ASSUME NEW x \in Events \X Worlds PROVE OpenedByHeard(x)'
  <2>1. CASE x # t
    <3>1. \A m \in Notices : ReachesAccount(m) => ReachesAccount(m)'
      BY <1>1, <1>2 DEF ReachesAccount
    <3>2. passed[x] \subseteq Notices
      BY DEF NoticesTyped
    <3>3. QED BY <1>1, <1>4, <2>1, <3>1, <3>2 DEF HearingSound, OpenedByHeard, Wants
  <2>2. CASE x = t
    <3> SUFFICES ASSUME t \notin resettled, Wants(Account, notice[n].event)
                 PROVE  ReachesAccount(n)'
      BY <1>1, <1>3, <1>4, <2>2 DEF OpenedByHeard, Wants
    <3>1. notice[n].wanted
      BY <1>1 DEF HearingSound, ReadsFresh
    <3>2. QED BY <1>2, <3>1 DEF ReachesAccount
  <2>3. QED BY <2>1, <2>2
<1>11. QED BY <1>1, <1>5, <1>6, <1>7, <1>9, <1>10 DEF HearingSound

\* Dispatch has read the account's row and asked the debounce map.
LEMMA LookShape ==
    ASSUME NoticesTyped, NEW n \in Notices, NEW at \in NoticeStages,
           notice' = [notice EXCEPT ![n] =
               [@ EXCEPT !.at = at, !.wanted = accountEventEnabled(notice[n].event)]]
    PROVE  /\ notice' \in [Notices -> NoticeSet]
           /\ \A m \in Notices \ {n} : notice'[m] = notice[m]
           /\ notice'[n].at = at /\ notice'[n].event = notice[n].event
           /\ notice'[n].world = notice[n].world /\ notice'[n].key = notice[n].key
           /\ notice'[n].wanted <=> Wants(Account, notice[n].event)
<1>1. PICK b \in BOOLEAN : b <=> accountEventEnabled(notice[n].event)
  OBVIOUS
<1>2. accountEventEnabled(notice[n].event) = b
  BY <1>1 DEF accountEventEnabled
<1> DEFINE new == [notice[n] EXCEPT !.at = at, !.wanted = b]
<1>3. notice' = [notice EXCEPT ![n] = new]
  BY <1>2
<1>4. notice[n] \in NoticeSet
  BY DEF NoticesTyped
<1>5. /\ new \in NoticeSet /\ new.at = at /\ new.event = notice[n].event
      /\ new.world = notice[n].world /\ new.key = notice[n].key /\ new.wanted = b
  BY <1>4 DEF NoticeSet
<1> HIDE DEF new
<1>6. /\ notice' \in [Notices -> NoticeSet] /\ notice'[n] = new
      /\ \A m \in Notices \ {n} : notice'[m] = notice[m]
  BY <1>3, <1>5, NoticeShape
<1>7. b <=> Wants(Account, notice[n].event)
  BY <1>1 DEF accountEventEnabled, Wants
<1>8. QED BY <1>5, <1>6, <1>7

\* The window suppresses a notice: the one that opened it reaches the account.
LEMMA SuppressedKeeps ==
    ASSUME NoticesTyped, HearingSound, NEW n \in Notices, Look(n), debounce, Debounced(Topic(n))
    PROVE  NoticesTyped' /\ HearingSound'
<1> DEFINE t == Topic(n)
<1>1. /\ notice[n].at = "begun" /\ t \in recent
      /\ notice' = [notice EXCEPT ![n] = Gone]
      /\ lost' = IF \/ ~Wants(Account, notice[n].event) \/ t \in resettled
                    \/ \E m \in passed[t] : notice[m].wanted \/ <<m, Account>> \in heard
                 THEN lost ELSE lost \cup {n}
      /\ UNCHANGED <<asked, debounce, batch, recent, passed, resettled, overlapped, unasked, heard>>
  BY DEF Look, Debounced, settingsVars, batchVars
<1>2. /\ notice' \in [Notices -> NoticeSet] /\ notice'[n] = Gone
      /\ \A m \in Notices \ {n} : notice'[m] = notice[m]
  BY <1>1, NothingKnown, NoticeShape
<1>3. NoticesTyped'
  BY <1>1, <1>2 DEF NoticesTyped
<1>4. lost' = lost
  <2>1. t \in Events \X Worlds /\ t[1] = notice[n].event
    BY TopicTyped
  <2>2. ASSUME Wants(Account, notice[n].event), t \notin resettled
        PROVE  \E m \in passed[t] : notice[m].wanted \/ <<m, Account>> \in heard
    <3>1. OpenedByHeard(t)
      BY <2>1 DEF HearingSound
    <3>2. PICK m \in passed[t] : ReachesAccount(m)
      BY <1>1, <2>1, <2>2, <3>1 DEF OpenedByHeard
    <3>3. QED BY <3>2 DEF ReachesAccount
  <2>3. QED BY <1>1, <2>2
<1>5. \A m \in Notices \ {n} : ReadsFresh(m)' /\ SendsAsked(m)'
  BY <1>1, <1>2, BystandersStay
<1>6. ReadsFresh(n)' /\ SendsAsked(n)'
  BY <1>1, <1>2, NothingKnown DEF HearingSound, ReadsFresh, SendsAsked
<1>7. ASSUME NEW x \in Events \X Worlds PROVE WindowSound(x)' /\ OpenedByHeard(x)'
  <2>1. Looking(x)' = Looking(x)
    BY <1>1, <1>2, NothingKnown DEF Looking, Topic
  <2>2. \A m \in Notices : ReachesAccount(m) => ReachesAccount(m)'
    BY <1>1, <1>2 DEF ReachesAccount
  <2>3. passed[x] \subseteq Notices
    BY DEF NoticesTyped
  <2>4. QED BY <1>1, <2>1, <2>2, <2>3 DEF HearingSound, WindowSound, OpenedByHeard, Wants
<1>8. QED BY <1>1, <1>3, <1>4, <1>5, <1>6, <1>7 DEF HearingSound

\* A notice goes on: it finds no window open, and if it is not alone in that it is
\* noted as too early.
LEMMA LookOnKeeps ==
    ASSUME NoticesTyped, HearingSound, NEW n \in Notices, Look(n), ~(debounce /\ Debounced(Topic(n)))
    PROVE  NoticesTyped' /\ HearingSound'
<1> DEFINE t == Topic(n)
           at == IF debounce THEN "loaded" ELSE "account"
<1>1. /\ notice[n].at = "begun"
      /\ notice' = [notice EXCEPT ![n] =
             [@ EXCEPT !.at = at, !.wanted = accountEventEnabled(notice[n].event)]]
      /\ overlapped' = IF debounce /\ Looking(t) # {} THEN overlapped \cup {n} ELSE overlapped
      /\ UNCHANGED <<asked, debounce, batch, recent, passed, resettled, unasked, heard, lost>>
  BY DEF Look, settingsVars, batchVars
<1>2. at \in NoticeStages /\ at \notin {"new", "begun"}
  BY DEF NoticeStages
<1>3. debounce => at = "loaded" /\ t \notin recent
  BY DEF Debounced
<1>4. ~debounce => at = "account"
  OBVIOUS
<1> HIDE DEF at
<1>5. /\ notice' \in [Notices -> NoticeSet]
      /\ \A m \in Notices \ {n} : notice'[m] = notice[m]
      /\ notice'[n].at = at /\ notice'[n].event = notice[n].event
      /\ notice'[n].world = notice[n].world /\ notice'[n].key = notice[n].key
      /\ notice'[n].wanted <=> Wants(Account, notice[n].event)
  BY <1>1, <1>2, LookShape
<1>6. NoticesTyped'
  BY <1>1, <1>5 DEF NoticesTyped
<1>7. \A m \in Notices \ {n} : ReadsFresh(m)' /\ SendsAsked(m)'
  BY <1>1, <1>5, BystandersStay
<1>8. ReadsFresh(n)'
  BY <1>1, <1>5 DEF ReadsFresh, Wants
<1>9. SendsAsked(n)'
  <2>1. SendsAsked(n)
    BY DEF HearingSound
  <2>2. <<n, Account>> \in unasked => ~Wants(Account, notice[n].event)
    BY <1>1, <2>1 DEF SendsAsked
  <2>3. QED BY <1>1, <1>2, <1>5, <2>1, <2>2 DEF SendsAsked, Wants
<1>10. t \in Events \X Worlds /\ t[1] = notice[n].event /\ Topic(n)' = t
  BY <1>5, TopicTyped DEF Topic
<1>11. ASSUME NEW x \in Events \X Worlds PROVE WindowSound(x)'
  <2>1. WindowSound(x)
    BY DEF HearingSound
  <2>2. CASE debounce /\ x = t
    <3>1. passed[x] = {}
      BY <1>3, <2>1, <2>2 DEF WindowSound
    <3>2. Looking(x)' \subseteq Looking(x) \cup {n} /\ n \notin Looking(x)
      BY <1>1, <1>5 DEF Looking, Topic
    <3>3. Looking(x) # {} => n \in overlapped'
      BY <1>1, <2>2
    <3>4. overlapped \subseteq overlapped'
      BY <1>1
    <3>5. QED BY <1>1, <2>1, <3>1, <3>2, <3>3, <3>4 DEF WindowSound
  <2>3. CASE ~(debounce /\ x = t)
    <3>1. Looking(x)' = Looking(x)
      BY <1>1, <1>4, <1>5, <1>10, <2>3 DEF Looking, Topic
    <3>2. overlapped \subseteq overlapped'
      BY <1>1
    <3>3. QED BY <1>1, <2>1, <3>1, <3>2 DEF WindowSound
  <2>4. QED BY <2>2, <2>3
<1>12. ASSUME NEW x \in Events \X Worlds PROVE OpenedByHeard(x)'
  <2>1. \A m \in Notices : ReachesAccount(m) => ReachesAccount(m)'
    BY <1>1, <1>5 DEF ReachesAccount
  <2>2. passed[x] \subseteq Notices
    BY DEF NoticesTyped
  <2>3. QED BY <1>1, <2>1, <2>2 DEF HearingSound, OpenedByHeard, Wants
<1>13. QED BY <1>1, <1>6, <1>7, <1>8, <1>9, <1>11, <1>12 DEF HearingSound

\* A notice that cannot read the account's settings opens no window, and the account
\* will not be told.
LEMMA LookFailsKeeps ==
    ASSUME NoticesTyped, HearingSound, NEW n \in Notices, LookFails(n)
    PROVE  NoticesTyped' /\ HearingSound'
<1>1. /\ notice[n].at = "begun" /\ Goto(n, "account")
      /\ UNCHANGED <<asked, debounce, batch, recent, passed, resettled, overlapped, unasked, heard, lost>>
  BY DEF LookFails, settingsVars, batchVars, hearing
<1>2. /\ notice' \in [Notices -> NoticeSet]
      /\ \A m \in Notices \ {n} : notice'[m] = notice[m]
      /\ notice'[n].at = "account" /\ notice'[n].event = notice[n].event
      /\ notice'[n].world = notice[n].world /\ notice'[n].key = notice[n].key
      /\ notice'[n].wanted = notice[n].wanted
  BY <1>1, GotoShape DEF NoticeStages
<1>3. NoticesTyped'
  BY <1>1, <1>2 DEF NoticesTyped
<1>4. \A m \in Notices \ {n} : ReadsFresh(m)' /\ SendsAsked(m)'
  BY <1>1, <1>2, BystandersStay
<1>5. ReadsFresh(n)' /\ SendsAsked(n)'
  BY <1>1, <1>2 DEF HearingSound, ReadsFresh, SendsAsked, Wants
<1>6. ASSUME NEW x \in Events \X Worlds PROVE WindowSound(x)' /\ OpenedByHeard(x)'
  <2>1. Looking(x)' = Looking(x)
    BY <1>1, <1>2 DEF Looking, Topic
  <2>2. \A m \in Notices : ReachesAccount(m) => ReachesAccount(m)'
    BY <1>1, <1>2 DEF ReachesAccount
  <2>3. passed[x] \subseteq Notices
    BY DEF NoticesTyped
  <2>4. QED BY <1>1, <2>1, <2>2, <2>3 DEF HearingSound, WindowSound, OpenedByHeard, Wants
<1>7. QED BY <1>1, <1>3, <1>4, <1>5, <1>6 DEF HearingSound

\* A notice is sent to a destination that has asked for it, or not sent.
LEMMA DeliveryKeeps ==
    ASSUME NoticesTyped, HearingSound, NEW n \in Notices, NEW d, NEW enabled \in BOOLEAN,
           Send(n, d, enabled), enabled => d \in Destinations /\ <<n, d>> \notin unasked,
           notice[n].at \in {"account", "key", "world"},
           notice[n].at = "account" /\ notice[n].wanted => d = Account /\ enabled,
           notice' \in [Notices -> NoticeSet],
           \A m \in Notices \ {n} : notice'[m] = notice[m],
           \/ notice'[n].at = "done"
           \/ /\ notice'[n].at \in {"key", "world"} /\ notice'[n].event = notice[n].event
              /\ notice'[n].world = notice[n].world /\ notice'[n].key = notice[n].key,
           UNCHANGED <<asked, debounce, batch, recent, passed, resettled, overlapped, unasked, lost>>
    PROVE  NoticesTyped' /\ HearingSound'
<1>1. /\ heard \subseteq heard' /\ heard' \subseteq heard \cup {<<n, d>>}
      /\ ~enabled => heard' = heard
      /\ enabled => <<n, d>> \in heard'
  BY DEF Send
<1>2. NoticesTyped'
  BY DEF NoticesTyped
<1>3. \A m \in Notices \ {n} : ReadsFresh(m)' /\ SendsAsked(m)'
  BY <1>1, BystandersStay
<1>4. ReadsFresh(n)'
  BY DEF ReadsFresh
<1>5. SendsAsked(n)'
  <2>1. SendsAsked(n)
    BY DEF HearingSound
  <2>2. \A b \in Destinations : <<n, b>> \in heard' => <<n, b>> \notin unasked
    BY <1>1, <2>1 DEF SendsAsked
  <2>3. QED BY <2>1, <2>2 DEF SendsAsked, Wants
<1>6. ASSUME NEW x \in Events \X Worlds PROVE WindowSound(x)' /\ OpenedByHeard(x)'
  <2>1. Looking(x)' = Looking(x)
    BY DEF Looking, Topic
  <2>2. \A m \in Notices : ReachesAccount(m) => ReachesAccount(m)'
    BY <1>1 DEF ReachesAccount
  <2>3. passed[x] \subseteq Notices
    BY DEF NoticesTyped
  <2>4. QED BY <2>1, <2>2, <2>3 DEF HearingSound, WindowSound, OpenedByHeard, Wants
<1>7. (heard \cup unasked)' \subseteq Notices \X Destinations
  BY <1>1 DEF HearingSound
<1>8. QED BY <1>2, <1>3, <1>4, <1>5, <1>6, <1>7 DEF HearingSound

LEMMA SendAccountKeeps ==
    ASSUME NoticesTyped, HearingSound, NEW n \in Notices, SendAccount(n)
    PROVE  NoticesTyped' /\ HearingSound'
<1> DEFINE wanted == notice[n].wanted
<1>1. /\ notice[n].at = "account" /\ Send(n, Account, wanted) /\ Goto(n, "key")
      /\ UNCHANGED <<asked, debounce, batch, recent, passed, resettled, overlapped, unasked, lost>>
  BY DEF SendAccount, settingsVars, batchVars
<1>2. /\ notice' \in [Notices -> NoticeSet]
      /\ \A m \in Notices \ {n} : notice'[m] = notice[m]
      /\ notice'[n].at = "key" /\ notice'[n].event = notice[n].event
      /\ notice'[n].world = notice[n].world /\ notice'[n].key = notice[n].key
  BY <1>1, GotoShape DEF NoticeStages
<1>3. wanted \in BOOLEAN
  BY TopicTyped DEF NoticeSet
<1>4. wanted => <<n, Account>> \notin unasked
  BY <1>1 DEF HearingSound, SendsAsked
<1> HIDE DEF wanted
<1>5. notice[n].at = "account" /\ notice[n].wanted => Account = Account /\ wanted
  BY DEF wanted
<1>6. QED BY <1>1, <1>2, <1>3, <1>4, <1>5, Addresses, DeliveryKeeps

LEMMA SendKeyKeeps ==
    ASSUME NoticesTyped, HearingSound, NEW n \in Notices, SendKey(n)
    PROVE  NoticesTyped' /\ HearingSound'
<1> DEFINE k == notice[n].key
           d == <<"key", k>>
<1>0. PICK readable \in BOOLEAN : Send(n, d, readable /\ keyEventEnabled(k, notice[n].event))
  BY DEF SendKey
<1>1. PICK enabled \in BOOLEAN : enabled <=> readable /\ keyEventEnabled(k, notice[n].event)
  OBVIOUS
<1>2. /\ notice[n].at = "key" /\ Goto(n, "world")
      /\ UNCHANGED <<asked, debounce, batch, recent, passed, resettled, overlapped, unasked, lost>>
  BY DEF SendKey, settingsVars, batchVars
<1>3. Send(n, d, enabled)
  BY <1>0, <1>1 DEF Send
<1>4. /\ notice' \in [Notices -> NoticeSet]
      /\ \A m \in Notices \ {n} : notice'[m] = notice[m]
      /\ notice'[n].at = "world" /\ notice'[n].event = notice[n].event
      /\ notice'[n].world = notice[n].world /\ notice'[n].key = notice[n].key
  BY <1>2, GotoShape DEF NoticeStages
<1>5. enabled => d \in Destinations /\ <<n, d>> \notin unasked
  <2> SUFFICES ASSUME enabled PROVE d \in Destinations /\ <<n, d>> \notin unasked
    OBVIOUS
  <2>1. k # NoKey /\ notice[n].event \in asked[d]
    BY <1>1 DEF keyEventEnabled
  <2>2. k \in ApiKeys
    BY <2>1, TopicTyped DEF NoticeSet
  <2>3. SendsAsked(n)
    BY DEF HearingSound
  <2>4. QED BY <1>2, <2>1, <2>2, <2>3, Addresses DEF SendsAsked, Wants
<1> HIDE DEF d, k
<1>6. QED BY <1>2, <1>3, <1>4, <1>5, DeliveryKeeps

LEMMA SendWorldKeeps ==
    ASSUME NoticesTyped, HearingSound, NEW n \in Notices, SendWorld(n)
    PROVE  NoticesTyped' /\ HearingSound'
<1> DEFINE w == notice[n].world
           d == <<"world", w>>
<1>0. PICK readable \in BOOLEAN : Send(n, d, readable /\ worldEventEnabled(w, notice[n].event))
  BY DEF SendWorld
<1>1. PICK enabled \in BOOLEAN : enabled <=> readable /\ worldEventEnabled(w, notice[n].event)
  OBVIOUS
<1>2. /\ notice[n].at = "world" /\ notice' = [notice EXCEPT ![n] = Gone]
      /\ UNCHANGED <<asked, debounce, batch, recent, passed, resettled, overlapped, unasked, lost>>
  BY DEF SendWorld, settingsVars, batchVars
<1>3. Send(n, d, enabled)
  BY <1>0, <1>1 DEF Send
<1>4. /\ notice' \in [Notices -> NoticeSet]
      /\ \A m \in Notices \ {n} : notice'[m] = notice[m]
      /\ notice'[n].at = "done"
  BY <1>2, NothingKnown, NoticeShape
<1>5. enabled => d \in Destinations /\ <<n, d>> \notin unasked
  <2> SUFFICES ASSUME enabled PROVE d \in Destinations /\ <<n, d>> \notin unasked
    OBVIOUS
  <2>1. w \in Worlds /\ notice[n].event \in asked[d]
    BY <1>1, TopicTyped DEF worldEventEnabled
  <2>2. SendsAsked(n)
    BY DEF HearingSound
  <2>3. QED BY <1>2, <2>1, <2>2, Addresses DEF SendsAsked, Wants
<1> HIDE DEF d, w
<1>6. QED BY <1>2, <1>3, <1>4, <1>5, DeliveryKeeps

\* The window of a topic ends; who still looks at it goes on with settings that
\* were or were not put since, as before.
LEMMA WindowEndsKeeps ==
    ASSUME NoticesTyped, HearingSound, NEW x \in Events \X Worlds, WindowEnds(x)
    PROVE  NoticesTyped' /\ HearingSound'
<1>1. /\ recent' = recent \ {x} /\ passed' = [passed EXCEPT ![x] = {}]
      /\ resettled' = IF Looking(x) = {} THEN resettled \ {x} ELSE resettled
      /\ UNCHANGED <<asked, debounce, batch, notice, overlapped, unasked, heard, lost>>
  BY DEF WindowEnds, settingsVars, batchVars, hearing
<1>2. /\ passed' \in [Events \X Worlds -> SUBSET Notices] /\ passed'[x] = {}
      /\ \A y \in (Events \X Worlds) \ {x} : passed'[y] = passed[y]
  BY <1>1 DEF NoticesTyped
<1>3. resettled' \subseteq resettled /\ resettled \ {x} \subseteq resettled'
  BY <1>1
<1>4. NoticesTyped'
  BY <1>1, <1>2, <1>3 DEF NoticesTyped
<1>5. ASSUME NEW m \in Notices PROVE ReadsFresh(m)'
  <2> SUFFICES ASSUME notice[m].at = "loaded", Topic(m) \notin resettled'
               PROVE  notice[m].wanted <=> Wants(Account, notice[m].event)
    BY <1>1 DEF ReadsFresh, Topic, Wants
  <2>1. m \in Looking(Topic(m))
    BY DEF Looking
  <2>2. Topic(m) \notin resettled
    BY <1>1, <1>3, <2>1
  <2>3. QED BY <2>2 DEF HearingSound, ReadsFresh
<1>6. ASSUME NEW m \in Notices PROVE SendsAsked(m)'
  BY <1>1 DEF HearingSound, SendsAsked, Wants
<1>7. ASSUME NEW y \in Events \X Worlds PROVE WindowSound(y)' /\ OpenedByHeard(y)'
  <2>1. Looking(y)' = Looking(y) /\ WindowSound(y) /\ OpenedByHeard(y)
    BY <1>1 DEF Looking, Topic, HearingSound
  <2>2. \A m : ReachesAccount(m)' <=> ReachesAccount(m)
    BY <1>1 DEF ReachesAccount
  <2>3. passed'[y] \subseteq passed[y] /\ (y # x => passed'[y] = passed[y])
    BY <1>2
  <2>4. WindowSound(y)'
    BY <1>1, <1>2, <2>1, <2>3 DEF WindowSound
  <2>5. OpenedByHeard(y)'
    BY <1>1, <1>3, <2>1, <2>2, <2>3 DEF OpenedByHeard, Wants
  <2>6. QED BY <2>4, <2>5
<1>8. QED BY <1>1, <1>4, <1>5, <1>6, <1>7 DEF HearingSound

\* Settings are put: who has asked since is no longer among those that did not.
LEMMA UpsertedShape ==
    ASSUME NoticesTyped, HearingSound, NEW d \in Destinations, NEW events \in SUBSET Events,
           Upserted(d, events)
    PROVE  /\ asked' \in [Destinations -> SUBSET Events] /\ asked'[d] = events
           /\ \A b \in Destinations \ {d} : asked'[b] = asked[b]
           /\ unasked' \subseteq unasked
           /\ \A m \in Notices : <<m, d>> \in unasked' => notice[m].event \notin events
           /\ \A m \in Notices : SendsAsked(m)'
           /\ UNCHANGED <<batch, notice, recent, passed, overlapped, heard, lost>>
<1>1. /\ asked' = [asked EXCEPT ![d] = events]
      /\ unasked' = {x \in unasked : x[2] # d \/ notice[x[1]].event \notin events}
      /\ UNCHANGED <<batch, notice, recent, passed, overlapped, heard, lost>>
  BY DEF Upserted, batchVars, hearing
<1>2. /\ asked' \in [Destinations -> SUBSET Events] /\ asked'[d] = events
      /\ \A b \in Destinations \ {d} : asked'[b] = asked[b]
  BY <1>1 DEF NoticesTyped
<1>3. /\ unasked' \subseteq unasked
      /\ \A m \in Notices : <<m, d>> \in unasked' => notice[m].event \notin events
  BY <1>1
<1>4. ASSUME NEW m \in Notices PROVE SendsAsked(m)'
  <2>1. SendsAsked(m) /\ unasked \subseteq Notices \X Destinations
    BY DEF HearingSound
  <2>2. ASSUME NEW b, <<m, b>> \in unasked', ~Wants(b, notice[m].event)
        PROVE  ~Wants(b, notice[m].event)'
    <3>1. b \in Destinations
      BY <1>3, <2>1, <2>2
    <3>2. CASE b = d
      BY <1>1, <1>2, <1>3, <2>2, <3>2 DEF Wants
    <3>3. CASE b # d
      BY <1>1, <1>2, <2>2, <3>1, <3>3 DEF Wants
    <3>4. QED BY <3>2, <3>3
  <2>3. QED BY <1>1, <1>3, <2>1, <2>2 DEF SendsAsked
<1>5. QED BY <1>1, <1>2, <1>3, <1>4

LEMMA PutAccountKeeps ==
    ASSUME NoticesTyped, HearingSound, NEW window \in BOOLEAN, NEW events \in SUBSET Events,
           PutAccount(events, window)
    PROVE  NoticesTyped' /\ HearingSound'
<1>1. /\ Upserted(Account, events) /\ debounce' = window
      /\ resettled' = resettled \cup recent \cup {x \in Events \X Worlds : Looking(x) # {}}
  BY DEF PutAccount
<1>2. /\ asked' \in [Destinations -> SUBSET Events]
      /\ unasked' \subseteq unasked
      /\ \A m \in Notices : SendsAsked(m)'
      /\ UNCHANGED <<batch, notice, recent, passed, overlapped, heard, lost>>
  BY <1>1, Addresses, UpsertedShape
<1>3. NoticesTyped'
  BY <1>1, <1>2 DEF NoticesTyped
<1>4. ASSUME NEW m \in Notices PROVE ReadsFresh(m)'
  <2>1. notice[m].at = "loaded" => Topic(m) \in resettled'
    BY <1>1, TopicTyped DEF Looking
  <2>2. QED BY <1>2, <2>1 DEF ReadsFresh, Topic
<1>5. ASSUME NEW x \in Events \X Worlds PROVE WindowSound(x)' /\ OpenedByHeard(x)'
  <2>1. WindowSound(x)'
    BY <1>2 DEF HearingSound, WindowSound, Looking, Topic
  <2>2. x \notin recent' \ resettled'
    BY <1>1, <1>2
  <2>3. QED BY <2>1, <2>2 DEF OpenedByHeard
<1>6. QED BY <1>2, <1>3, <1>4, <1>5 DEF HearingSound

\* The settings of a key or of a world do not touch the account's.
LEMMA PutOtherKeeps ==
    ASSUME NoticesTyped, HearingSound, NEW d \in Destinations \ {Account}, NEW events \in SUBSET Events,
           Upserted(d, events), UNCHANGED <<debounce, resettled>>
    PROVE  NoticesTyped' /\ HearingSound'
<1>1. /\ asked' \in [Destinations -> SUBSET Events] /\ asked'[Account] = asked[Account]
      /\ unasked' \subseteq unasked
      /\ \A m \in Notices : SendsAsked(m)'
      /\ UNCHANGED <<batch, notice, recent, passed, overlapped, heard, lost>>
  BY Addresses, UpsertedShape
<1>2. NoticesTyped'
  BY <1>1 DEF NoticesTyped
<1>3. ASSUME NEW m \in Notices PROVE ReadsFresh(m)'
  BY <1>1 DEF HearingSound, ReadsFresh, Topic, Wants
<1>4. ASSUME NEW x \in Events \X Worlds PROVE WindowSound(x)' /\ OpenedByHeard(x)'
  BY <1>1 DEF HearingSound, WindowSound, OpenedByHeard, ReachesAccount, Looking, Topic, Wants
<1>5. QED BY <1>1, <1>2, <1>3, <1>4 DEF HearingSound

\* A step that dispatches nothing.
LEMMA SilentKeeps ==
    ASSUME NoticesTyped, HearingSound, UNCHANGED <<settingsVars, noticeVars>>,
           batch' \in [Pairs -> Nat]
    PROVE  NoticesTyped' /\ HearingSound'
<1>1. UNCHANGED <<asked, debounce, notice, recent, passed, resettled, overlapped, unasked, heard, lost>>
  BY DEF settingsVars, noticeVars, hearing
<1>2. NoticesTyped'
  BY <1>1 DEF NoticesTyped
<1>3. \A n \in Notices : ReadsFresh(n)' /\ SendsAsked(n)'
  BY <1>1 DEF HearingSound, ReadsFresh, SendsAsked, Topic, Wants
<1>4. \A x \in Events \X Worlds : WindowSound(x)' /\ OpenedByHeard(x)'
  BY <1>1 DEF HearingSound, WindowSound, OpenedByHeard, ReachesAccount, Looking, Topic, Wants
<1>5. QED BY <1>1, <1>2, <1>3, <1>4 DEF HearingSound

\* A request that has ended is counted in its batch.
LEMMA CountingKeeps ==
    ASSUME NoticesTyped, HearingSound, NEW r \in Requests, FinishLog(r)
    PROVE  NoticesTyped' /\ HearingSound'
<1> DEFINE p == <<req[r].token, req[r].target>>
           b == batch[p] + 1
<1>1. /\ UNCHANGED <<settingsVars, noticeVars>>
      /\ batch' = [batch EXCEPT ![p] = b] \/ batch' = batch
  BY DEF FinishLog, Added, batchVars
<1>2. batch \in [Pairs -> Nat] /\ (p \in Pairs => b \in Nat)
  BY DEF NoticesTyped
<1> HIDE DEF b, p
<1>3. batch' \in [Pairs -> Nat]
  BY <1>1, <1>2
<1>4. QED BY <1>1, <1>3, SilentKeeps

LEMMA FlushKeeps ==
    ASSUME NoticesTyped, HearingSound, NEW n \in Notices, NEW t \in Tokens, NEW w \in Worlds,
           Flush(n, t, w)
    PROVE  NoticesTyped' /\ HearingSound'
<1> DEFINE count == Taken(t, w)
           p == <<t, w>>
<1>1. Begin(n, Summary, w, NoKey, count) /\ UNCHANGED settingsVars
      /\ batch' = [batch EXCEPT ![p] = 0]
  BY DEF Flush
<1>2. count \in Nat
  BY DEF NoticesTyped, Pairs, Taken
<1> HIDE DEF count
<1>3. batch' \in [Pairs -> Nat]
  BY <1>1 DEF NoticesTyped
<1>4. Summary \in Events /\ NoKey \in ApiKeys \cup {NoKey}
  BY Addresses
<1>5. QED BY <1>1, <1>2, <1>3, <1>4, BeginKeeps

LEMMA NotifyKeeps ==
    ASSUME NoticesTyped, HearingSound, NEW n \in Notices, NEW topic \in Topics, Notify(n, topic)
    PROVE  NoticesTyped' /\ HearingSound'
<1>1. Begin(n, topic.event, topic.world, topic.key, 0) /\ UNCHANGED <<settingsVars, batchVars>>
  BY DEF Notify
<1>2. topic.event \in Events /\ topic.world \in Worlds /\ topic.key \in ApiKeys \cup {NoKey}
  BY Addresses, NotificationsAssumption
<1>3. UNCHANGED settingsVars /\ batch' \in [Pairs -> Nat]
  BY <1>1 DEF batchVars, NoticesTyped
<1>4. QED BY <1>1, <1>2, <1>3, BeginKeeps

LEMMA OffersEvents == \A d : Offers(d) \subseteq Events
BY DEF Offers

LEMMA NoticesStay == ASSUME NoticesTyped, HearingSound, NoteNext PROVE NoticesTyped' /\ HearingSound'
<1>1. CASE \E n \in Notices, t \in Tokens, w \in Worlds : Flush(n, t, w)
  BY <1>1, FlushKeeps
<1>2. CASE \E n \in Notices, topic \in Topics : Notify(n, topic)
  BY <1>2, NotifyKeeps
<1>3. ASSUME NEW n \in Notices,
             Look(n) \/ LookFails(n) \/ Record(n) \/ SendAccount(n) \/ SendKey(n) \/ SendWorld(n)
      PROVE  NoticesTyped' /\ HearingSound'
  <2>1. CASE Look(n)
    <3>1. CASE debounce /\ Debounced(Topic(n))
      BY <2>1, <3>1, SuppressedKeeps
    <3>2. CASE ~(debounce /\ Debounced(Topic(n)))
      BY <2>1, <3>2, LookOnKeeps
    <3>3. QED BY <3>1, <3>2
  <2>2. QED BY <1>3, <2>1, LookFailsKeeps, RecordKeeps, SendAccountKeeps, SendKeyKeeps, SendWorldKeeps
<1>4. CASE \E x \in recent : WindowEnds(x)
  <2>1. recent \subseteq Events \X Worlds
    BY DEF NoticesTyped
  <2>2. QED BY <1>4, <2>1, WindowEndsKeeps
<1>5. CASE \E window \in BOOLEAN : \E events \in {{}, Offers(Account)} : PutAccount(events, window)
  BY <1>5, OffersEvents, PutAccountKeeps
<1>6. CASE \E k \in ApiKeys : \E events \in {{}, Offers(<<"key", k>>)} : PutKey(k, events)
  <2>0. PICK k \in ApiKeys : \E events \in {{}, Offers(<<"key", k>>)} : PutKey(k, events)
    BY <1>6
  <2>1. PICK events \in {{}, Offers(<<"key", k>>)} : PutKey(k, events)
    BY <2>0
  <2>2. <<"key", k>> \in Destinations \ {Account} /\ events \in SUBSET Events
    BY Addresses, OffersEvents
  <2>3. QED BY <2>1, <2>2, PutOtherKeeps DEF PutKey
<1>7. CASE \E w \in Worlds : \E events \in {{}, Offers(<<"world", w>>)} : PutWorld(w, events)
  <2>0. PICK w \in Worlds : \E events \in {{}, Offers(<<"world", w>>)} : PutWorld(w, events)
    BY <1>7
  <2>1. PICK events \in {{}, Offers(<<"world", w>>)} : PutWorld(w, events)
    BY <2>0
  <2>2. <<"world", w>> \in Destinations \ {Account} /\ events \in SUBSET Events
    BY Addresses, OffersEvents
  <2>3. QED BY <2>1, <2>2, PutOtherKeeps DEF PutWorld
<1>8. CASE Track \/ Tick
  <2>1. UNCHANGED <<settingsVars, noticeVars>> /\ batch' = batch
    BY <1>8 DEF Track, Tick, batchVars
  <2>2. QED BY <2>1, SilentKeeps DEF NoticesTyped
<1>9. QED BY <1>1, <1>2, <1>3, <1>4, <1>5, <1>6, <1>7, <1>8 DEF NoteNext

\* What dispatches nothing and counts nothing: every step of the tunnel but the end
\* of a request.
LEMMA TunnelIsSilent ==
    ASSUME Next, ~NoteStep, \A r \in Requests : ~FinishLog(r)
    PROVE  UNCHANGED noteVars
<1>1. CASE \E r \in Requests, t \in Tokens, w \in Worlds, s \in Scopes \cup {None}, start \in BOOLEAN :
               Receive(r, t, w, s, start)
  BY <1>1 DEF Receive, Unmoved
<1>2. ASSUME NEW r \in Requests, Request(r) PROVE UNCHANGED noteVars
  <2>1. CASE LookUpToken(r) \/ CheckPermissions(r) \/ Recheck(r) \/ FindTarget(r) \/ Forwarded(r)
    BY <2>1 DEF LookUpToken, CheckPermissions, Recheck, FindTarget, Forwarded, Unmoved
  <2>2. CASE AutoStart(r) \/ FindStarted(r) \/ SendAction(r) \/ TimesOut(r)
    BY <2>2 DEF AutoStart, FindStarted, SendAction, TimesOut, Unmoved
  <2>3. QED BY <1>2, <2>1, <2>2 DEF Request
<1>3. ASSUME NEW r \in Requests, GiveUp(r) \/ TargetAnswers(r) PROVE UNCHANGED noteVars
  BY <1>3 DEF GiveUp, TargetAnswers, Unmoved
<1>4. CASE HourPasses
  BY <1>4 DEF HourPasses, Unmoved
<1>5. ASSUME NEW w \in Worlds, Launch(w) \/ Launched(w) \/ Connects(w) \/ Leaves(w)
      PROVE  UNCHANGED noteVars
  <2>1. CASE Launch(w)
    BY <2>1 DEF Launch, Resolve, Mint, LaunchFails
  <2>2. CASE Launched(w) \/ Connects(w) \/ Leaves(w)
    BY <2>2 DEF Launched, Connects, Leaves
  <2>3. QED BY <1>5, <2>1, <2>2
<1>6. CASE \E e \in Edits, w \in Worlds :
             \E targets \in (SUBSET (Others \cup {Every})) \cup {None}, scopes \in (SUBSET Scopes) \cup {None} :
               StartPatch(e, w, targets, scopes)
  BY <1>6 DEF StartPatch
<1>7. ASSUME NEW e \in Edits, NEW w \in Worlds, StartDelete(e, w) \/ CleanSibling(e, w)
      PROVE  UNCHANGED noteVars
  BY <1>7 DEF StartDelete, CleanSibling
<1>8. ASSUME NEW e \in Edits, WritePatch(e) \/ DeleteRow(e) \/ ReadSiblings(e) \/ EndDelete(e)
      PROVE  UNCHANGED noteVars
  BY <1>8 DEF WritePatch, DeleteRow, ReadSiblings, EndDelete
<1>9. CASE \/ \E w \in Worlds, enabled \in BOOLEAN : SetAutoStart(w, enabled)
           \/ \E w \in Worlds, c \in Creds \cup {None} : SetCredential(w, c)
  BY <1>9 DEF SetAutoStart, SetCredential, Tuned
<1>10. CASE \/ \E c \in Creds : DeleteCredential(c)
            \/ \E t \in Tokens : DeleteToken(t)
  BY <1>10 DEF DeleteCredential, DeleteToken
<1>11. CASE PairStep
  <2>1. CASE Grant \/ \E w \in Worlds : Exchange(w)
    BY <2>1 DEF Exchange, Grant
  <2>2. ASSUME NEW e \in Edits, NEW w \in Worlds, NEW reach,
               ApproveUpgrade(e, w, reach) \/ ApprovePairing(e, w, reach)
        PROVE  UNCHANGED noteVars
    BY <2>2 DEF ApproveUpgrade, ApprovePairing
  <2>3. QED BY <1>11, <2>1, <2>2 DEF PairStep
<1>12. QED
  <2>1. CASE \E r \in Requests : Request(r) \/ GiveUp(r) \/ TargetAnswers(r)
    BY <1>2, <1>3, <2>1
  <2>2. CASE \E w \in Worlds : Launch(w) \/ Launched(w) \/ Connects(w) \/ Leaves(w)
    BY <1>5, <2>2
  <2>3. CASE \E e \in Edits, w \in Worlds : StartDelete(e, w) \/ CleanSibling(e, w)
    BY <1>7, <2>3
  <2>4. CASE \E e \in Edits : WritePatch(e) \/ DeleteRow(e) \/ ReadSiblings(e) \/ EndDelete(e)
    BY <1>8, <2>4
  <2>5. QED BY <1>1, <1>4, <1>6, <1>9, <1>10, <1>11, <2>1, <2>2, <2>3, <2>4 DEF Next

LEMMA HearingHolds == Spec => [](NoticesTyped /\ HearingSound)
<1>1. Init => NoticesTyped /\ HearingSound
  <2> SUFFICES ASSUME Init PROVE NoticesTyped /\ HearingSound
    OBVIOUS
  <2>1. /\ load \in Loads /\ debounce \in load.debounce
        /\ asked = [d \in Destinations |-> Offers(d) \cap load.asked]
        /\ batch = [p \in Pairs |-> 0]
        /\ notice = [n \in Notices |-> NoNotice]
        /\ recent = {} /\ resettled = {} /\ lost = {} /\ heard = {} /\ unasked = {}
        /\ passed = [x \in Events \X Worlds |-> {}]
    BY DEF Init, NoteInit
  <2>2. debounce \in BOOLEAN
    BY <2>1, LoadsAssumption
  <2>3. NoticesTyped
    BY <2>1, <2>2, NothingKnown, OffersEvents DEF NoticesTyped
  <2>4. ASSUME NEW x \in Events \X Worlds PROVE WindowSound(x) /\ OpenedByHeard(x)
    <3>1. Looking(x) = {} /\ passed[x] = {}
      BY <2>1, NothingKnown DEF Looking
    <3>2. QED BY <2>1, <3>1 DEF WindowSound, OpenedByHeard
  <2>5. ASSUME NEW n \in Notices PROVE ReadsFresh(n) /\ SendsAsked(n)
    BY <2>1, NothingKnown DEF ReadsFresh, SendsAsked
  <2>6. QED BY <2>1, <2>3, <2>4, <2>5 DEF HearingSound
<1>2. NoticesTyped /\ HearingSound /\ [Next]_vars => (NoticesTyped /\ HearingSound)'
  <2> SUFFICES ASSUME NoticesTyped, HearingSound, [Next]_vars PROVE (NoticesTyped /\ HearingSound)'
    OBVIOUS
  <2>1. CASE UNCHANGED noteVars
    BY <2>1, SilentKeeps DEF noteVars, batchVars, NoticesTyped
  <2>2. CASE NoteStep
    BY <2>2, NoticesStay DEF NoteStep
  <2>3. CASE \E r \in Requests : FinishLog(r)
    BY <2>3, CountingKeeps
  <2>4. QED BY <2>1, <2>2, <2>3, TunnelIsSilent DEF vars
<1>3. QED BY <1>1, <1>2, PTL DEF Spec

\* Within one debounce window a second notification of a topic goes out only if it
\* had looked while another had looked and not stored yet, however many run.
THEOREM WindowsHold == Spec => []DebounceHolds
<1>1. HearingSound => DebounceHolds
  BY DEF HearingSound, WindowSound, DebounceHolds
<1>2. QED BY <1>1, HearingHolds, PTL

\* A notification is suppressed only if another of its window reaches the account,
\* and none reaches a destination that has not asked for its event since it began.
THEOREM OwnersHear == Spec => []OwnersHearWhatTheyAsk
<1>1. NoticesTyped /\ HearingSound => OwnersHearWhatTheyAsk
  <2> SUFFICES ASSUME NoticesTyped, HearingSound PROVE heard \cap unasked = {}
    BY DEF HearingSound, OwnersHearWhatTheyAsk
  <2>1. \A n \in Notices, d \in Destinations : <<n, d>> \in heard => <<n, d>> \notin unasked
    BY DEF HearingSound, SendsAsked
  <2>2. \A x \in heard : x = <<x[1], x[2]>> /\ x[1] \in Notices /\ x[2] \in Destinations
    BY DEF HearingSound
  <2>3. QED BY <2>1, <2>2
<1>2. QED BY <1>1, HearingHolds, PTL

----------------------------------------------------------------------------
(* Sums over finite sets.  The library's induction theorems take an        *)
(* operator; here induction over the subsets of a finite set is stated     *)
(* with a set, from the well-foundedness of their strict inclusion.        *)

\* The member that the fold takes next.
Chosen(s) == CHOOSE x \in s : TRUE

\* g tells, for each subset of S, the sum of f over it, as the fold computes it.
Solves(g, S, f) ==
    g = [s \in SUBSET S |-> IF s = {} THEN 0 ELSE f[Chosen(s)] + g[s \ {Chosen(s)}]]

LEMMA ChosenIsMember == \A s : s # {} => Chosen(s) \in s
BY DEF Chosen

\* Induction over the subsets of a finite set: what holds of a set whenever it holds
\* of its strict subsets holds of all.
LEMMA SubsetInduction ==
    ASSUME NEW S, IsFiniteSet(S), NEW G,
           \A s \in SUBSET S : (\A t \in SUBSET s : t # s => t \in G) => s \in G
    PROVE  SUBSET S \subseteq G
<1> DEFINE R == StrictSubsetOrdering(S)
           F == FiniteSubsetsOf(S)
           Out == (SUBSET S) \ G
<1> SUFFICES ASSUME Out # {} PROVE FALSE
  OBVIOUS
<1>1. \A s \in SUBSET S : s \in F
  BY FS_Subset DEF FiniteSubsetsOf
<1>2. IsWellFoundedOn(R, F)
  BY FS_StrictSubsetOrderingWellFounded
<1>3. Out \subseteq F /\ Out # {}
  BY <1>1
<1>4. \A T : T \subseteq F /\ T # {} => \E s \in T : \A t \in T : ~(<<t, s>> \in R)
  BY <1>2, WFMin
<1>5. PICK s \in Out : \A t \in Out : ~(<<t, s>> \in R)
  <2> HIDE DEF R, F, Out
  <2>1. QED BY <1>3, <1>4
<1>6. PICK t \in SUBSET s : t # s /\ t \notin G
  BY <1>5
<1>7. t \in Out /\ <<t, s>> \in R
  BY <1>5, <1>6 DEF StrictSubsetOrdering
<1>8. QED BY <1>5, <1>7

\* Where the fold's recursion has a solution, the fold is its value.
LEMMA SumIsSolved ==
    ASSUME NEW S, NEW f, (\E g : Solves(g, S, f))
    PROVE  \E g : Solves(g, S, f) /\ SumOver(S, f) = g[S]
<1> DEFINE h == CHOOSE g : Solves(g, S, f)
<1>1. Solves(h, S, f)
  OBVIOUS
<1>2. SumOver(S, f) = h[S]
  BY DEF SumOver, MapThenSumSet, MapThenFoldSet, Solves, Chosen
<1> HIDE DEF h
<1>3. QED BY <1>1, <1>2

LEMMA SolutionAt ==
    ASSUME NEW S, NEW f, NEW g, Solves(g, S, f), NEW s \in SUBSET S
    PROVE  g[s] = IF s = {} THEN 0 ELSE f[Chosen(s)] + g[s \ {Chosen(s)}]
BY DEF Solves

\* Two solutions agree where both are defined.
LEMMA SolutionsAgree ==
    ASSUME NEW S, IsFiniteSet(S), NEW f, NEW A \in SUBSET S, NEW B \in SUBSET S,
           NEW g, NEW h, Solves(g, A, f), Solves(h, B, f)
    PROVE  \A s \in SUBSET S : s \subseteq A /\ s \subseteq B => g[s] = h[s]
<1> DEFINE G == {s \in SUBSET S : s \subseteq A /\ s \subseteq B => g[s] = h[s]}
<1>1. ASSUME NEW s \in SUBSET S, \A t \in SUBSET s : t # s => t \in G PROVE s \in G
  <2> SUFFICES ASSUME s \subseteq A, s \subseteq B PROVE g[s] = h[s]
    OBVIOUS
  <2>1. /\ g[s] = IF s = {} THEN 0 ELSE f[Chosen(s)] + g[s \ {Chosen(s)}]
        /\ h[s] = IF s = {} THEN 0 ELSE f[Chosen(s)] + h[s \ {Chosen(s)}]
    BY SolutionAt
  <2>2. CASE s # {}
    <3>1. s \ {Chosen(s)} \in SUBSET s /\ s \ {Chosen(s)} # s
      BY <2>2, ChosenIsMember
    <3>2. g[s \ {Chosen(s)}] = h[s \ {Chosen(s)}]
      BY <1>1, <3>1
    <3>3. QED BY <2>1, <2>2, <3>2
  <2>3. QED BY <2>1, <2>2
<1> HIDE DEF G
<1>2. SUBSET S \subseteq G
  BY <1>1, SubsetInduction
<1>3. QED BY <1>2 DEF G

\* The fold over a set takes one member, and folds the others.
LEMMA SumPicks ==
    ASSUME NEW S, IsFiniteSet(S), NEW f
    PROVE  SumOver(S, f) = IF S = {} THEN 0 ELSE f[Chosen(S)] + SumOver(S \ {Chosen(S)}, f)
<1> DEFINE G == {s \in SUBSET S : \E g : Solves(g, s, f)}
<1>1. ASSUME NEW s \in SUBSET S, s \in G, s \ {Chosen(s)} \in G
      PROVE  SumOver(s, f) = IF s = {} THEN 0 ELSE f[Chosen(s)] + SumOver(s \ {Chosen(s)}, f)
  <2>1. PICK g : Solves(g, s, f) /\ SumOver(s, f) = g[s]
    BY <1>1, SumIsSolved
  <2>2. PICK h : Solves(h, s \ {Chosen(s)}, f) /\ SumOver(s \ {Chosen(s)}, f) = h[s \ {Chosen(s)}]
    BY <1>1, SumIsSolved
  <2>3. g[s \ {Chosen(s)}] = h[s \ {Chosen(s)}]
    BY <1>1, <2>1, <2>2, SolutionsAgree
  <2>4. g[s] = IF s = {} THEN 0 ELSE f[Chosen(s)] + g[s \ {Chosen(s)}]
    BY <2>1, SolutionAt
  <2>5. QED BY <2>1, <2>2, <2>3, <2>4
<1>2. ASSUME NEW s \in SUBSET S, \A t \in SUBSET s : t # s => t \in G PROVE s \in G
  <2> DEFINE g == [t \in SUBSET s |-> IF t = {} THEN 0 ELSE f[Chosen(t)] + SumOver(t \ {Chosen(t)}, f)]
  <2>1. ASSUME NEW t \in SUBSET s, t # {} PROVE g[t \ {Chosen(t)}] = SumOver(t \ {Chosen(t)}, f)
    <3> DEFINE u == t \ {Chosen(t)}
    <3>1. u \in SUBSET s /\ u # s /\ u \ {Chosen(u)} \in SUBSET s /\ u \ {Chosen(u)} # s
      BY <2>1, ChosenIsMember
    <3>2. u \in G /\ u \ {Chosen(u)} \in G /\ u \in SUBSET S
      BY <1>2, <3>1
    <3> HIDE DEF u, G
    <3>3. SumOver(u, f) = IF u = {} THEN 0 ELSE f[Chosen(u)] + SumOver(u \ {Chosen(u)}, f)
      BY <1>1, <3>2
    <3>4. g[u] = IF u = {} THEN 0 ELSE f[Chosen(u)] + SumOver(u \ {Chosen(u)}, f)
      BY <3>1
    <3>5. g[u] = SumOver(u, f)
      BY <3>3, <3>4
    <3>6. QED BY <3>5 DEF u
  <2>2. g = [t \in SUBSET s |-> IF t = {} THEN 0 ELSE f[Chosen(t)] + g[t \ {Chosen(t)}]]
    <3>1. \A t \in SUBSET s : g[t] = IF t = {} THEN 0 ELSE f[Chosen(t)] + g[t \ {Chosen(t)}]
      BY <2>1
    <3>2. QED BY <3>1
  <2> HIDE DEF g
  <2>3. Solves(g, s, f)
    BY <2>2 DEF Solves
  <2>4. QED BY <2>3
<1>3. SUBSET S \subseteq G
  <2> HIDE DEF G
  <2>1. QED BY <1>2, SubsetInduction
<1>4. S \in G /\ S \ {Chosen(S)} \in G
  BY <1>3
<1>5. QED BY <1>1, <1>4

LEMMA SumOfNone == \A f : SumOver({}, f) = 0
BY SumPicks, FS_EmptySet

LEMMA SumIsNat ==
    ASSUME NEW S, IsFiniteSet(S), NEW f, \A x \in S : f[x] \in Nat
    PROVE  SumOver(S, f) \in Nat
<1> DEFINE G == {s \in SUBSET S : SumOver(s, f) \in Nat}
<1>1. ASSUME NEW s \in SUBSET S, \A t \in SUBSET s : t # s => t \in G PROVE s \in G
  <2>1. SumOver(s, f) = IF s = {} THEN 0 ELSE f[Chosen(s)] + SumOver(s \ {Chosen(s)}, f)
    BY SumPicks, FS_Subset
  <2>2. CASE s # {}
    <3>1. Chosen(s) \in s /\ f[Chosen(s)] \in Nat
      BY <2>2, ChosenIsMember
    <3>2. s \ {Chosen(s)} \in SUBSET s /\ s \ {Chosen(s)} # s
      BY <3>1
    <3>3. SumOver(s \ {Chosen(s)}, f) \in Nat
      BY <1>1, <3>2
    <3>4. QED BY <2>1, <2>2, <3>1, <3>3
  <2>3. QED BY <2>1, <2>2
<1> HIDE DEF G
<1>2. SUBSET S \subseteq G
  BY <1>1, SubsetInduction
<1>3. QED BY <1>2 DEF G

\* It does not matter which member is taken first.
LEMMA SumTakes ==
    ASSUME NEW S, IsFiniteSet(S), NEW f, \A x \in S : f[x] \in Nat, NEW x \in S
    PROVE  SumOver(S, f) = f[x] + SumOver(S \ {x}, f)
<1> DEFINE G == {s \in SUBSET S : \A y \in s : SumOver(s, f) = f[y] + SumOver(s \ {y}, f)}
<1>1. ASSUME NEW s \in SUBSET S, \A t \in SUBSET s : t # s => t \in G PROVE s \in G
  <2> SUFFICES ASSUME NEW y \in s PROVE SumOver(s, f) = f[y] + SumOver(s \ {y}, f)
    OBVIOUS
  <2> DEFINE c == Chosen(s)
  <2>1. c \in s
    BY ChosenIsMember
  <2>2. SumOver(s, f) = f[c] + SumOver(s \ {c}, f)
    BY SumPicks, FS_Subset
  <2> HIDE DEF c
  <2>3. CASE c # y
    <3> DEFINE r == SumOver(s \ {c, y}, f)
    <3>1. s \ {c} \in G /\ s \ {y} \in G
      BY <1>1, <2>1
    <3>2. y \in s \ {c} /\ c \in s \ {y} /\ (s \ {c}) \ {y} = s \ {c, y} /\ (s \ {y}) \ {c} = s \ {c, y}
      BY <2>1, <2>3
    <3>3. SumOver(s \ {c}, f) = f[y] + r /\ SumOver(s \ {y}, f) = f[c] + r
      BY <3>1, <3>2
    <3>4. IsFiniteSet(s \ {c, y}) /\ \A z \in s \ {c, y} : f[z] \in Nat
      BY FS_Subset
    <3>5. r \in Nat
      BY <3>4, SumIsNat
    <3>6. f[c] \in Nat /\ f[y] \in Nat
      BY <2>1
    <3> HIDE DEF r
    <3>7. QED BY <2>2, <3>3, <3>5, <3>6
  <2>4. QED BY <2>2, <2>3
<1> HIDE DEF G
<1>2. SUBSET S \subseteq G
  BY <1>1, SubsetInduction
<1>3. QED BY <1>2 DEF G

LEMMA SumOfSame ==
    ASSUME NEW S, IsFiniteSet(S), NEW f, NEW g, \A x \in S : f[x] = g[x]
    PROVE  SumOver(S, f) = SumOver(S, g)
<1> DEFINE G == {s \in SUBSET S : SumOver(s, f) = SumOver(s, g)}
<1>1. ASSUME NEW s \in SUBSET S, \A t \in SUBSET s : t # s => t \in G PROVE s \in G
  <2>1. /\ SumOver(s, f) = IF s = {} THEN 0 ELSE f[Chosen(s)] + SumOver(s \ {Chosen(s)}, f)
        /\ SumOver(s, g) = IF s = {} THEN 0 ELSE g[Chosen(s)] + SumOver(s \ {Chosen(s)}, g)
    BY SumPicks, FS_Subset
  <2>2. CASE s # {}
    <3>1. Chosen(s) \in s /\ f[Chosen(s)] = g[Chosen(s)]
      BY <2>2, ChosenIsMember
    <3>2. s \ {Chosen(s)} \in SUBSET s /\ s \ {Chosen(s)} # s
      BY <3>1
    <3>3. SumOver(s \ {Chosen(s)}, f) = SumOver(s \ {Chosen(s)}, g)
      BY <1>1, <3>2
    <3>4. QED BY <2>1, <2>2, <3>1, <3>3
  <2>3. QED BY <2>1, <2>2
<1> HIDE DEF G
<1>2. SUBSET S \subseteq G
  BY <1>1, SubsetInduction
<1>3. QED BY <1>2 DEF G

\* One member changes: the sum changes by as much.
LEMMA SumChanges ==
    ASSUME NEW S, IsFiniteSet(S), NEW x \in S, NEW f, NEW g,
           \A y \in S : f[y] \in Nat /\ g[y] \in Nat, \A y \in S : y # x => g[y] = f[y]
    PROVE  /\ SumOver(S, f) \in Nat /\ SumOver(S, g) \in Nat
           /\ SumOver(S, g) + f[x] = SumOver(S, f) + g[x]
<1> DEFINE r == SumOver(S \ {x}, f)
<1>1. SumOver(S, f) = f[x] + r /\ SumOver(S, g) = g[x] + SumOver(S \ {x}, g)
  BY SumTakes
<1>2. IsFiniteSet(S \ {x})
  BY FS_Subset
<1>3. SumOver(S \ {x}, g) = r
  BY <1>2, SumOfSame
<1>4. r \in Nat /\ SumOver(S, f) \in Nat /\ SumOver(S, g) \in Nat
  BY <1>2, SumIsNat
<1> HIDE DEF r
<1>5. f[x] \in Nat /\ g[x] \in Nat
  OBVIOUS
<1>6. QED BY <1>1, <1>3, <1>4, <1>5

LEMMA SumOfZeros ==
    ASSUME NEW S, IsFiniteSet(S), NEW f, \A x \in S : f[x] = 0
    PROVE  SumOver(S, f) = 0
<1> DEFINE G == {s \in SUBSET S : SumOver(s, f) = 0}
<1>1. ASSUME NEW s \in SUBSET S, \A t \in SUBSET s : t # s => t \in G PROVE s \in G
  <2>1. SumOver(s, f) = IF s = {} THEN 0 ELSE f[Chosen(s)] + SumOver(s \ {Chosen(s)}, f)
    BY SumPicks, FS_Subset
  <2>2. CASE s # {}
    <3>1. Chosen(s) \in s /\ f[Chosen(s)] = 0
      BY <2>2, ChosenIsMember
    <3>2. s \ {Chosen(s)} \in SUBSET s /\ s \ {Chosen(s)} # s
      BY <3>1
    <3>3. SumOver(s \ {Chosen(s)}, f) = 0
      BY <1>1, <3>2
    <3>4. QED BY <2>1, <2>2, <3>1, <3>3
  <2>3. QED BY <2>1, <2>2
<1> HIDE DEF G
<1>2. SUBSET S \subseteq G
  BY <1>1, SubsetInduction
<1>3. QED BY <1>2 DEF G

\* More members, a greater sum.
LEMMA SumGrows ==
    ASSUME NEW S, IsFiniteSet(S), NEW T \in SUBSET S, NEW f, \A x \in S : f[x] \in Nat
    PROVE  SumOver(T, f) <= SumOver(S, f)
<1> DEFINE G == {s \in SUBSET S : T \subseteq s => SumOver(T, f) <= SumOver(s, f)}
<1>0. IsFiniteSet(T) /\ SumOver(T, f) \in Nat
  BY FS_Subset, SumIsNat
<1>1. ASSUME NEW s \in SUBSET S, \A t \in SUBSET s : t # s => t \in G PROVE s \in G
  <2> SUFFICES ASSUME T \subseteq s, T # s PROVE SumOver(T, f) <= SumOver(s, f)
    BY <1>0
  <2>1. PICK x \in s : x \notin T
    OBVIOUS
  <2>2. s \ {x} \in G
    BY <1>1, <2>1
  <2>3. SumOver(T, f) <= SumOver(s \ {x}, f)
    BY <2>1, <2>2
  <2>4. IsFiniteSet(s) /\ IsFiniteSet(s \ {x})
    BY FS_Subset
  <2>5. SumOver(s, f) = f[x] + SumOver(s \ {x}, f) /\ f[x] \in Nat
    BY <2>4, SumTakes
  <2>6. SumOver(s \ {x}, f) \in Nat
    BY <2>4, SumIsNat
  <2> HIDE DEF G
  <2>7. QED BY <1>0, <2>3, <2>5, <2>6
<1> HIDE DEF G
<1>2. SUBSET S \subseteq G
  BY <1>1, SubsetInduction
<1>3. QED BY <1>2 DEF G

----------------------------------------------------------------------------
(* Every request of a known user is told once.                             *)

\* A user is known of a request by its token.
KnownByToken == \A r \in Requests : req[r].user => req[r].token \in Tokens

Carried == [n \in Begun |-> notice[n].count]

CountsSound ==
    /\ counted \in Nat /\ told \in Nat /\ silenced \in Nat
    /\ IsFiniteSet(Begun) /\ IsFiniteSet(Charged)
    /\ KnownByToken /\ EveryRequestIsCounted

\* A step that no request ends with, as one request sees it.
Quiet(q) ==
    \/ req'[q] = req[q]
    \/ /\ req[q].at # "done" /\ req'[q].at # "done"
       /\ req'[q].user => req'[q].token \in Tokens

LEMMA QuietCharges ==
    ASSUME CountsSound, \A q \in Requests : Quiet(q)
    PROVE  KnownByToken' /\ Charged' = Charged
BY DEF CountsSound, KnownByToken, Charged, Quiet

LEMMA ChangeIsQuiet ==
    ASSUME RequestsTyped, NEW r \in Requests, NEW new, req' = [req EXCEPT ![r] = new],
           req[r].at # "done", new.at # "done", new.user => new.token \in Tokens
    PROVE  \A q \in Requests : Quiet(q)
BY DEF RequestsTyped, Quiet

\* A response keeps the token and the user.
LEMMA ResponseIsQuiet ==
    ASSUME RequestsTyped, KnownByToken, NEW r \in Requests, NEW ok \in BOOLEAN, Respond(r, ok),
           req[r].at # "done"
    PROVE  \A q \in Requests : Quiet(q)
<1> DEFINE new == [NoReq EXCEPT !.at = "answered", !.token = req[r].token,
                            !.target = req[r].target, !.user = req[r].user, !.ok = ok]
<1>1. req' = [req EXCEPT ![r] = new]
  BY DEF Respond
<1>2. new.at = "answered" /\ new.token = req[r].token /\ new.user = req[r].user
  BY DEF NoReq
<1> HIDE DEF new
<1>3. QED BY <1>1, <1>2, ChangeIsQuiet DEF KnownByToken

\* So does a step from one stage to another ...
LEMMA StageIsQuiet ==
    ASSUME RequestsTyped, KnownByToken, NEW r \in Requests, NEW at, To(r, at),
           req[r].at # "done", at # "done"
    PROVE  \A q \in Requests : Quiet(q)
<1> DEFINE new == [req[r] EXCEPT !.at = at]
<1>1. req' = [req EXCEPT ![r] = new]
  BY DEF To
<1>2. req[r] \in RequestSet
  BY DEF RequestsTyped
<1>3. new.at = at /\ new.token = req[r].token /\ new.user = req[r].user
  BY <1>2 DEF RequestSet
<1> HIDE DEF new
<1>4. QED BY <1>1, <1>3, ChangeIsQuiet DEF KnownByToken

\* ... to a connection ...
LEMMA ConnIsQuiet ==
    ASSUME RequestsTyped, KnownByToken, NEW r \in Requests, NEW at, NEW n,
           req' = [req EXCEPT ![r] = [@ EXCEPT !.at = at, !.conn = n]],
           req[r].at # "done", at # "done"
    PROVE  \A q \in Requests : Quiet(q)
<1> DEFINE new == [req[r] EXCEPT !.at = at, !.conn = n]
<1>1. req' = [req EXCEPT ![r] = new]
  OBVIOUS
<1>2. req[r] \in RequestSet
  BY DEF RequestsTyped
<1>3. new.at = at /\ new.token = req[r].token /\ new.user = req[r].user
  BY <1>2 DEF RequestSet
<1> HIDE DEF new
<1>4. QED BY <1>1, <1>3, ChangeIsQuiet DEF KnownByToken

\* ... and what the end of a launch means to those that wait for it.
LEMMA WakeIsQuiet ==
    ASSUME RequestsTyped, KnownByToken, NEW w \in Worlds, NEW ok \in BOOLEAN, Woken(w, ok)
    PROVE  \A q \in Requests : Quiet(q)
<1> TAKE q \in Requests
<1>1. req[q] \in RequestSet
  BY DEF RequestsTyped
<1>2. CASE ~(req[q].at = "starting" /\ req[q].target = w /\ req[q].conn = 1)
  BY <1>2 DEF Woken, Quiet
<1>3. CASE req[q].at = "starting" /\ req[q].target = w /\ req[q].conn = 1 /\ ok
  <2>1. req'[q] = [req[q] EXCEPT !.at = "started"]
    BY <1>3 DEF Woken
  <2>2. req'[q].at = "started" /\ req'[q].token = req[q].token /\ req'[q].user = req[q].user
    BY <1>1, <2>1 DEF RequestSet
  <2>3. QED BY <1>3, <2>2 DEF KnownByToken, Quiet
<1>4. CASE req[q].at = "starting" /\ req[q].target = w /\ req[q].conn = 1 /\ ~ok
  <2>1. req'[q] = [NoReq EXCEPT !.at = "answered", !.token = req[q].token,
                              !.target = w, !.user = req[q].user]
    BY <1>4 DEF Woken
  <2>2. req'[q].at = "answered" /\ req'[q].token = req[q].token /\ req'[q].user = req[q].user
    BY <2>1 DEF NoReq
  <2>3. QED BY <1>4, <2>2 DEF KnownByToken, Quiet
<1>5. QED BY <1>2, <1>3, <1>4

\* A request is charged at its end, and nowhere else.
LEMMA OthersAreQuiet ==
    ASSUME RequestsTyped, KnownByToken, Next, \A r \in Requests : ~FinishLog(r)
    PROVE  \A q \in Requests : Quiet(q)
<1> DEFINE AllQuiet == \A q \in Requests : Quiet(q)
<1>0. UNCHANGED req => AllQuiet
  BY DEF Quiet
<1>1. ASSUME NEW r \in Requests, NEW ok \in BOOLEAN, Respond(r, ok), req[r].at # "done" PROVE AllQuiet
  BY <1>1, ResponseIsQuiet
<1>2. ASSUME NEW r \in Requests, Fail(r), req[r].at # "done" PROVE AllQuiet
  BY <1>1, <1>2 DEF Fail
<1>3. ASSUME NEW r \in Requests, NEW at, To(r, at), req[r].at # "done", at # "done" PROVE AllQuiet
  BY <1>3, StageIsQuiet
<1>4. ASSUME NEW r \in Requests, NEW n, req[r].at # "done",
             req' = [req EXCEPT ![r] = [@ EXCEPT !.at = "sending", !.conn = n]]
      PROVE  AllQuiet
  BY <1>4, ConnIsQuiet
<1>5. ASSUME NEW w \in Worlds, NEW ok \in BOOLEAN, Woken(w, ok) PROVE AllQuiet
  BY <1>5, WakeIsQuiet
<1>6. ASSUME NEW r \in Requests, NEW t \in Tokens, NEW w, NEW s, NEW start, Receive(r, t, w, s, start)
      PROVE  AllQuiet
  <2> DEFINE new == [NoReq EXCEPT !.at = "received", !.token = t, !.target = w, !.scope = s, !.start = start]
  <2>1. req' = [req EXCEPT ![r] = new] /\ req[r].at = "new"
    BY <1>6 DEF Receive, First
  <2>2. new.at = "received" /\ new.user = FALSE
    BY DEF NoReq
  <2> HIDE DEF new
  <2>3. QED BY <2>1, <2>2, ChangeIsQuiet
<1>7. ASSUME NEW r \in Requests, LookUpToken(r) PROVE AllQuiet
  <2>1. CASE req[r].token \in token
    <3> DEFINE new == [req[r] EXCEPT !.at = "known", !.user = TRUE]
    <3>1. req' = [req EXCEPT ![r] = new] /\ req[r].at = "received"
      BY <1>7, <2>1 DEF LookUpToken
    <3>2. req[r] \in RequestSet /\ req[r].token \in Tokens
      BY <2>1 DEF RequestsTyped
    <3>3. new.at = "known" /\ new.token = req[r].token
      BY <3>2 DEF RequestSet
    <3> HIDE DEF new
    <3>4. QED BY <3>1, <3>2, <3>3, ChangeIsQuiet
  <2>2. QED BY <1>2, <1>7, <2>1 DEF LookUpToken
<1> SUFFICES AllQuiet
  OBVIOUS
<1> HIDE DEF AllQuiet
<1>8. ASSUME NEW r \in Requests, CheckPermissions(r) \/ Recheck(r) \/ FindTarget(r) PROVE AllQuiet
  <2>1. CASE CheckPermissions(r)
    BY <1>2, <1>3, <2>1 DEF CheckPermissions
  <2>2. CASE Recheck(r)
    BY <1>2, <1>3, <2>2 DEF Recheck
  <2>3. CASE FindTarget(r)
    BY <1>2, <1>3, <1>4, <2>3 DEF FindTarget
  <2>4. QED BY <1>8, <2>1, <2>2, <2>3
<1>9. ASSUME NEW r \in Requests, AutoStart(r) PROVE AllQuiet
  <2>1. CASE Fail(r)
    BY <1>2, <1>9, <2>1 DEF AutoStart
  <2>2. CASE req' = [req EXCEPT ![r].conn = 1]
    <3> DEFINE new == [req[r] EXCEPT !.conn = 1]
    <3>1. req' = [req EXCEPT ![r] = new] /\ req[r].at = "starting"
      BY <1>9, <2>2 DEF AutoStart
    <3>2. req[r] \in RequestSet
      BY DEF RequestsTyped
    <3>3. new.at = req[r].at /\ new.token = req[r].token /\ new.user = req[r].user
      BY <3>2 DEF RequestSet
    <3> HIDE DEF new
    <3>4. QED BY <3>1, <3>3, ChangeIsQuiet DEF KnownByToken, AllQuiet
  <2>3. QED BY <1>9, <2>1, <2>2 DEF AutoStart
<1>10. ASSUME NEW r \in Requests, Forwarded(r) \/ FindStarted(r) \/ SendAction(r) \/ TimesOut(r)
       PROVE  AllQuiet
  <2>1. CASE Forwarded(r)
    BY <1>1, <2>1 DEF Forwarded
  <2>2. CASE FindStarted(r)
    BY <1>2, <1>4, <2>2 DEF FindStarted
  <2>3. CASE SendAction(r)
    BY <1>2, <1>3, <2>3 DEF SendAction
  <2>4. CASE TimesOut(r)
    BY <1>2, <2>4 DEF TimesOut
  <2>5. QED BY <1>10, <2>1, <2>2, <2>3, <2>4
<1>11. ASSUME NEW r \in Requests, Request(r) \/ GiveUp(r) \/ TargetAnswers(r) PROVE AllQuiet
  <2>1. CASE GiveUp(r)
    BY <1>2, <2>1 DEF GiveUp
  <2>2. CASE TargetAnswers(r)
    BY <1>1, <2>2 DEF TargetAnswers
  <2>3. QED BY <1>7, <1>8, <1>9, <1>10, <1>11, <2>1, <2>2 DEF Request
<1>12. ASSUME NEW w \in Worlds, Launch(w) \/ Launched(w) \/ Connects(w) \/ Leaves(w) PROVE AllQuiet
  <2>1. CASE Launch(w)
    BY <1>0, <1>5, <2>1 DEF Launch, Resolve, Mint, LaunchFails
  <2>2. CASE Launched(w) \/ Connects(w) \/ Leaves(w)
    BY <1>0, <1>5, <2>2 DEF Launched, Connects, Leaves
  <2>3. QED BY <1>12, <2>1, <2>2
<1>13. CASE NoteStep \/ HourPasses
  BY <1>0, <1>13 DEF NoteStep, tunnelVars, HourPasses
<1>14. CASE \E e \in Edits, w \in Worlds :
              \E targets \in (SUBSET (Others \cup {Every})) \cup {None}, scopes \in (SUBSET Scopes) \cup {None} :
                StartPatch(e, w, targets, scopes)
  BY <1>0, <1>14 DEF StartPatch
<1>15. CASE \E e \in Edits, w \in Worlds : StartDelete(e, w) \/ CleanSibling(e, w)
  BY <1>0, <1>15 DEF StartDelete, CleanSibling
<1>16. CASE \E e \in Edits : WritePatch(e) \/ DeleteRow(e) \/ ReadSiblings(e) \/ EndDelete(e)
  BY <1>0, <1>16 DEF WritePatch, DeleteRow, ReadSiblings, EndDelete
<1>17. CASE \/ \E w \in Worlds, enabled \in BOOLEAN : SetAutoStart(w, enabled)
            \/ \E w \in Worlds, c \in Creds \cup {None} : SetCredential(w, c)
            \/ \E c \in Creds : DeleteCredential(c)
            \/ \E t \in Tokens : DeleteToken(t)
  BY <1>0, <1>17 DEF SetAutoStart, SetCredential, Tuned, DeleteCredential, DeleteToken
<1>18. CASE PairStep
  BY <1>0, <1>18 DEF PairStep, ApproveUpgrade, ApprovePairing, Exchange, Grant
<1>19. QED BY <1>6, <1>11, <1>12, <1>13, <1>14, <1>15, <1>16, <1>17, <1>18 DEF Next

LEMMA PairsAreFinite == IsFiniteSet(Pairs)
BY NotificationsAssumption, FS_Product DEF Pairs

\* What one notice more, or one that goes on, does to what the notices carry.
LEMMA NoticeCarries ==
    ASSUME NoticesTyped, IsFiniteSet(Begun), NEW n \in Notices, NEW new \in NoticeSet,
           notice' = [notice EXCEPT ![n] = new], new.at # "new"
    PROVE  /\ IsFiniteSet(Begun') /\ SumOver(Begun, Carried) \in Nat /\ SumOver(Begun', Carried') \in Nat
           /\ notice[n].at = "new" =>
                SumOver(Begun', Carried') = SumOver(Begun, Carried) + new.count
           /\ notice[n].at # "new" =>
                SumOver(Begun', Carried') + notice[n].count = SumOver(Begun, Carried) + new.count
<1>1. /\ notice' \in [Notices -> NoticeSet] /\ notice'[n] = new
      /\ \A m \in Notices \ {n} : notice'[m] = notice[m]
  BY NoticeShape
<1>2. Begun' = Begun \cup {n} /\ n \in Begun' /\ (n \in Begun <=> notice[n].at # "new")
  BY <1>1 DEF Begun
<1>3. IsFiniteSet(Begun')
  BY <1>2, FS_AddElement
<1>4. /\ \A m \in Begun : Carried[m] \in Nat /\ Carried[m] = notice[m].count
      /\ \A m \in Begun' : Carried'[m] \in Nat /\ Carried'[m] = notice'[m].count
  BY <1>1 DEF Carried, Begun, NoticesTyped, NoticeSet
<1>5. \A m \in Begun \ {n} : Carried'[m] = Carried[m]
  BY <1>1, <1>2, <1>4 DEF Begun
<1> DEFINE B == Begun
           C == Begun'
           f == Carried
           g == Carried'
<1> HIDE DEF B, C, f, g
<1>6. SumOver(B, f) \in Nat /\ SumOver(C, g) \in Nat
  BY <1>3, <1>4, SumIsNat DEF B, C, f, g
<1>7. CASE notice[n].at = "new"
  <2>1. C \ {n} = B /\ n \in C
    BY <1>2, <1>7 DEF B, C
  <2>2. SumOver(C, g) = g[n] + SumOver(B, g)
    BY <1>3, <1>4, <2>1, SumTakes DEF C, g
  <2>3. SumOver(B, f) = SumOver(B, g)
    BY <1>5, <1>2, <1>7, SumOfSame DEF B, f, g
  <2>4. g[n] = new.count /\ new.count \in Nat
    BY <1>1, <1>2, <1>4 DEF g, NoticeSet
  <2>5. SumOver(C, g) = SumOver(B, f) + new.count
    BY <1>6, <2>2, <2>3, <2>4
  <2>6. QED BY <1>3, <1>6, <1>7, <2>5 DEF B, C, f, g
<1>8. CASE notice[n].at # "new"
  <2>1. C = B /\ n \in B
    BY <1>2, <1>8 DEF B, C
  <2>2. /\ \A m \in B : f[m] \in Nat /\ g[m] \in Nat
        /\ \A m \in B : m # n => g[m] = f[m]
        /\ f[n] = notice[n].count /\ g[n] = new.count
    BY <1>1, <1>4, <1>5, <2>1 DEF B, C, f, g
  <2>3. SumOver(B, g) + f[n] = SumOver(B, f) + g[n]
    BY <2>1, <2>2, SumChanges DEF B
  <2>4. SumOver(C, g) + notice[n].count = SumOver(B, f) + new.count
    BY <2>1, <2>2, <2>3
  <2>5. QED BY <1>3, <1>6, <1>8, <2>4 DEF B, C, f, g
<1>9. QED BY <1>7, <1>8

\* What one pair's batch does to the sum of the batches.
LEMMA BatchSums ==
    ASSUME NoticesTyped, NEW p \in Pairs, NEW c \in Nat, batch' = [batch EXCEPT ![p] = c]
    PROVE  /\ SumOver(Pairs, batch) \in Nat /\ SumOver(Pairs, batch') \in Nat
           /\ SumOver(Pairs, batch') + batch[p] = SumOver(Pairs, batch) + c
<1> DEFINE S == Pairs
           f == batch
           g == batch'
<1>1. /\ \A q \in S : f[q] \in Nat /\ g[q] \in Nat
      /\ \A q \in S : q # p => g[q] = f[q]
      /\ g[p] = c /\ p \in S
  BY DEF NoticesTyped
<1>2. IsFiniteSet(S)
  BY PairsAreFinite
<1> HIDE DEF S, f, g
<1>3. /\ SumOver(S, f) \in Nat /\ SumOver(S, g) \in Nat
      /\ SumOver(S, g) + f[p] = SumOver(S, f) + g[p]
  BY <1>1, <1>2, SumChanges
<1>4. QED BY <1>1, <1>3 DEF S, f, g

\* A step that counts, tells and carries nothing else.
LEMMA CountsSame ==
    ASSUME CountsSound, UNCHANGED <<counted, told, silenced, batch, notice>>,
           KnownByToken', Charged' = Charged
    PROVE  CountsSound'
BY DEF CountsSound, EveryRequestIsCounted, Carried, Begun

\* A notice that goes on carries what it carried.
LEMMA CarriedOn ==
    ASSUME NoticesTyped, CountsSound, NEW n \in Notices, NEW new \in NoticeSet,
           notice' = [notice EXCEPT ![n] = new], new.at # "new", notice[n].at # "new",
           new.count = notice[n].count, UNCHANGED <<counted, told, silenced, batch, req>>
    PROVE  CountsSound'
<1>1. notice[n].count \in Nat
  BY DEF NoticesTyped, NoticeSet
<1>2. /\ IsFiniteSet(Begun') /\ SumOver(Begun, Carried) \in Nat /\ SumOver(Begun', Carried') \in Nat
      /\ SumOver(Begun', Carried') + notice[n].count = SumOver(Begun, Carried) + notice[n].count
  BY NoticeCarries DEF CountsSound
<1>3. SumOver(Begun', Carried') = SumOver(Begun, Carried)
  BY <1>1, <1>2
<1>4. Charged' = Charged /\ KnownByToken'
  BY DEF Charged, CountsSound, KnownByToken
<1>5. EveryRequestIsCounted'
  BY <1>3, <1>4 DEF CountsSound, EveryRequestIsCounted, Carried
<1>6. QED BY <1>2, <1>4, <1>5 DEF CountsSound


LEMMA GotoCarries ==
    ASSUME NoticesTyped, CountsSound, NEW n \in Notices, NEW at \in NoticeStages \ {"new"}, Goto(n, at),
           notice[n].at # "new", UNCHANGED <<counted, told, silenced, batch, req>>
    PROVE  CountsSound'
<1> DEFINE new == [notice[n] EXCEPT !.at = at]
<1>1. notice[n] \in NoticeSet
  BY DEF NoticesTyped
<1>2. new \in NoticeSet /\ new.at = at /\ new.count = notice[n].count
  BY <1>1 DEF NoticeSet
<1>3. notice' = [notice EXCEPT ![n] = new]
  BY DEF Goto
<1> HIDE DEF new
<1>4. QED BY <1>2, <1>3, CarriedOn

\* A notice that is over is told or silenced.
LEMMA EndedCounts ==
    ASSUME NoticesTyped, CountsSound, NEW n \in Notices, notice[n].at # "new",
           notice' = [notice EXCEPT ![n] = Gone], UNCHANGED <<counted, batch, req>>,
           \/ told' = told + notice[n].count /\ silenced' = silenced
           \/ silenced' = silenced + notice[n].count /\ told' = told
    PROVE  CountsSound'
<1> DEFINE c == notice[n].count
           before == SumOver(Begun, Carried)
           after == SumOver(Begun', Carried')
           waiting == SumOver(Pairs, batch)
<1>1. c \in Nat
  BY DEF NoticesTyped, NoticeSet
<1>2. Gone \in NoticeSet /\ Gone.at # "new" /\ Gone.count = 0
  BY NothingKnown DEF Gone, NoNotice
<1>3. IsFiniteSet(Begun') /\ before \in Nat /\ after \in Nat /\ after + c = before + 0
  BY <1>2, NoticeCarries DEF CountsSound
<1>4. waiting \in Nat
  BY PairsAreFinite, SumIsNat DEF NoticesTyped
<1>5. Charged' = Charged /\ KnownByToken'
  BY DEF Charged, CountsSound, KnownByToken
<1>6. counted = waiting + before + told + silenced
  BY DEF CountsSound, EveryRequestIsCounted, Carried
<1>7. told \in Nat /\ silenced \in Nat /\ counted \in Nat
  BY DEF CountsSound
<1> HIDE DEF c, before, after, waiting
<1>8. /\ told' \in Nat /\ silenced' \in Nat
      /\ counted = waiting + after + told' + silenced'
  <2>1. \/ told' = told + c /\ silenced' = silenced
        \/ silenced' = silenced + c /\ told' = told
    BY DEF c
  <2>2. QED BY <1>1, <1>3, <1>4, <1>6, <1>7, <2>1
<1>9. EveryRequestIsCounted'
  BY <1>5, <1>8 DEF after, waiting, Carried, CountsSound, EveryRequestIsCounted
<1>10. QED BY <1>3, <1>5, <1>7, <1>8, <1>9 DEF CountsSound

LEMMA LookCounts ==
    ASSUME NoticesTyped, CountsSound, NEW n \in Notices, Look(n), UNCHANGED req
    PROVE  CountsSound'
<1>1. notice[n].at = "begun" /\ UNCHANGED <<counted, batch, told>>
  BY DEF Look, batchVars
<1>2. CASE debounce /\ Debounced(Topic(n))
  <2>1. notice' = [notice EXCEPT ![n] = Gone] /\ silenced' = silenced + notice[n].count
    BY <1>2 DEF Look
  <2>2. QED BY <1>1, <2>1, EndedCounts
<1>3. CASE ~(debounce /\ Debounced(Topic(n)))
  <2>1. PICK b \in BOOLEAN : b <=> accountEventEnabled(notice[n].event)
    OBVIOUS
  <2>2. accountEventEnabled(notice[n].event) = b
    BY <2>1 DEF accountEventEnabled
  <2>3. PICK at \in {"loaded", "account"} :
            /\ notice' = [notice EXCEPT ![n] = [@ EXCEPT !.at = at, !.wanted = b]]
            /\ silenced' = silenced
    BY <1>3, <2>2 DEF Look
  <2> DEFINE new == [notice[n] EXCEPT !.at = at, !.wanted = b]
  <2>4. notice[n] \in NoticeSet
    BY DEF NoticesTyped
  <2>5. new \in NoticeSet /\ new.at = at /\ new.count = notice[n].count
    BY <2>4 DEF NoticeSet, NoticeStages
  <2>6. notice' = [notice EXCEPT ![n] = new]
    BY <2>3
  <2> HIDE DEF new
  <2>7. QED BY <1>1, <2>3, <2>5, <2>6, CarriedOn
<1>4. QED BY <1>2, <1>3

LEMMA SendCounts ==
    ASSUME NoticesTyped, CountsSound, NEW n \in Notices, UNCHANGED req,
           LookFails(n) \/ Record(n) \/ SendAccount(n) \/ SendKey(n) \/ SendWorld(n)
    PROVE  CountsSound'
<1>0. {"account", "key", "world"} \subseteq NoticeStages \ {"new"}
  BY DEF NoticeStages
<1>1. CASE Record(n)
  BY <1>0, <1>1, GotoCarries DEF Record, batchVars, sums
<1>2. CASE SendAccount(n)
  BY <1>0, <1>2, GotoCarries DEF SendAccount, batchVars, sums
<1>3. CASE SendKey(n)
  BY <1>0, <1>3, GotoCarries DEF SendKey, batchVars, sums
<1>4. CASE SendWorld(n)
  BY <1>4, EndedCounts DEF SendWorld, batchVars
<1>5. CASE LookFails(n)
  BY <1>0, <1>5, GotoCarries DEF LookFails, batchVars, sums
<1>6. QED BY <1>1, <1>2, <1>3, <1>4, <1>5

\* A summary carries what its batch had counted, another notice carries nothing.
LEMMA BeginCounts ==
    ASSUME NoticesTyped, CountsSound, NEW n \in Notices, NEW event \in Events, NEW world \in Worlds,
           NEW key \in ApiKeys \cup {NoKey}, NEW count \in Nat, Begin(n, event, world, key, count),
           UNCHANGED <<counted, req>>, SumOver(Pairs, batch') \in Nat,
           SumOver(Pairs, batch') + count = SumOver(Pairs, batch)
    PROVE  CountsSound'
<1> DEFINE new == [at |-> "begun", event |-> event, world |-> world, key |-> key,
                   count |-> count, wanted |-> FALSE]
           before == SumOver(Begun, Carried)
           after == SumOver(Begun', Carried')
<1>1. new \in NoticeSet /\ new.at = "begun" /\ new.count = count
  BY DEF NoticeSet, NoticeStages
<1>2. notice' = [notice EXCEPT ![n] = new] /\ notice[n].at = "new" /\ UNCHANGED <<told, silenced>>
  BY DEF Begin, First, sums
<1> HIDE DEF new
<1>3. IsFiniteSet(Begun') /\ before \in Nat /\ after \in Nat /\ after = before + count
  BY <1>1, <1>2, NoticeCarries DEF CountsSound
<1>4. Charged' = Charged /\ KnownByToken'
  BY DEF Charged, CountsSound, KnownByToken
<1>5. counted = SumOver(Pairs, batch) + before + told + silenced
  BY DEF CountsSound, EveryRequestIsCounted, Carried
<1> HIDE DEF before, after
<1>6. counted = SumOver(Pairs, batch') + after + told + silenced
  BY <1>3, <1>5 DEF CountsSound
<1>7. EveryRequestIsCounted'
  BY <1>2, <1>4, <1>6 DEF after, Carried, CountsSound, EveryRequestIsCounted
<1>8. QED BY <1>2, <1>3, <1>4, <1>7 DEF CountsSound

LEMMA FlushCounts ==
    ASSUME NoticesTyped, CountsSound, NEW n \in Notices, NEW t \in Tokens, NEW w \in Worlds,
           Flush(n, t, w), UNCHANGED req
    PROVE  CountsSound'
<1> DEFINE p == <<t, w>>
           count == batch[p]
<1>1. /\ Begin(n, Summary, w, NoKey, count) /\ batch' = [batch EXCEPT ![p] = 0]
      /\ counted' = counted
  BY DEF Flush, Taken
<1>2. p \in Pairs /\ count \in Nat
  BY DEF NoticesTyped, Pairs
<1> HIDE DEF p
<1>3. /\ SumOver(Pairs, batch) \in Nat /\ SumOver(Pairs, batch') \in Nat
      /\ SumOver(Pairs, batch') + count = SumOver(Pairs, batch) + 0
  BY <1>1, <1>2, BatchSums
<1> HIDE DEF count
<1>4. SumOver(Pairs, batch') + count = SumOver(Pairs, batch)
  BY <1>3
<1>5. Summary \in Events /\ NoKey \in ApiKeys \cup {NoKey}
  BY Addresses
<1>6. QED BY <1>1, <1>2, <1>3, <1>4, <1>5, BeginCounts

LEMMA NotifyCounts ==
    ASSUME NoticesTyped, CountsSound, NEW n \in Notices, NEW topic \in Topics, Notify(n, topic),
           UNCHANGED req
    PROVE  CountsSound'
<1>1. Begin(n, topic.event, topic.world, topic.key, 0) /\ UNCHANGED <<batch, counted>>
  BY DEF Notify, batchVars
<1>2. topic.event \in Events /\ topic.world \in Worlds /\ topic.key \in ApiKeys \cup {NoKey}
  BY Addresses, NotificationsAssumption
<1>3. SumOver(Pairs, batch') \in Nat /\ SumOver(Pairs, batch') + 0 = SumOver(Pairs, batch)
  BY <1>1, PairsAreFinite, SumIsNat DEF NoticesTyped
<1>4. QED BY <1>1, <1>2, <1>3, BeginCounts

\* The end of a request adds it to its batch, when its user is known.
LEMMA FinishCounts ==
    ASSUME RequestsTyped, NoticesTyped, CountsSound, NEW r \in Requests, FinishLog(r)
    PROVE  CountsSound'
<1> DEFINE new == [req[r] EXCEPT !.at = "done"]
<1>1. req' = [req EXCEPT ![r] = new] /\ req[r].at = "answered" /\ req[r] \in RequestSet
  BY DEF FinishLog, RequestsTyped
<1>2. new.at = "done" /\ new.token = req[r].token /\ new.user = req[r].user
  BY <1>1 DEF RequestSet
<1> HIDE DEF new
<1>3. /\ \A q \in Requests : q # r => req'[q] = req[q]
      /\ req'[r] = new
  BY <1>1 DEF RequestsTyped
<1>4. KnownByToken' /\ r \notin Charged
  BY <1>1, <1>2, <1>3 DEF CountsSound, KnownByToken, Charged
<1>5. UNCHANGED <<notice, told, silenced>> /\ Begun' = Begun /\ Carried' = Carried
  BY DEF FinishLog, noticeVars, sums, Begun, Carried
<1>6. CASE req[r].user
  <2> DEFINE p == <<req[r].token, req[r].target>>
             c == batch[p] + 1
             carry == SumOver(Begun, Carried)
  <2>1. p \in Pairs
    BY <1>1, <1>6 DEF CountsSound, KnownByToken, RequestSet, Pairs
  <2>2. batch' = [batch EXCEPT ![p] = c] /\ counted' = counted + 1
    BY <1>6 DEF FinishLog, Counts, Added
  <2> HIDE DEF p
  <2>3. batch[p] \in Nat /\ c \in Nat /\ c = batch[p] + 1
    BY <2>1 DEF NoticesTyped
  <2> HIDE DEF c
  <2>4. /\ SumOver(Pairs, batch) \in Nat /\ SumOver(Pairs, batch') \in Nat
        /\ SumOver(Pairs, batch') + batch[p] = SumOver(Pairs, batch) + c
    BY <2>1, <2>2, <2>3, BatchSums
  <2>5. Charged' = Charged \cup {r}
    BY <1>1, <1>2, <1>3, <1>6 DEF Charged
  <2>6. IsFiniteSet(Charged') /\ Cardinality(Charged') = Cardinality(Charged) + 1
    BY <1>4, <2>5, FS_AddElement DEF CountsSound
  <2>7. /\ counted = SumOver(Pairs, batch) + carry + told + silenced
        /\ counted = Cardinality(Charged) /\ {counted, told, silenced} \subseteq Nat
    BY DEF CountsSound, EveryRequestIsCounted, Carried
  <2>8. carry \in Nat
    <3>1. \A n \in Begun : Carried[n] \in Nat
      BY DEF Carried, Begun, NoticesTyped, NoticeSet
    <3>2. QED BY <3>1, SumIsNat DEF CountsSound
  <2> HIDE DEF carry
  <2>9. counted' = SumOver(Pairs, batch') + carry + told + silenced /\ counted' = Cardinality(Charged')
    BY <2>2, <2>3, <2>4, <2>6, <2>7, <2>8
  <2>10. EveryRequestIsCounted'
    BY <1>5, <2>9 DEF carry, Carried, EveryRequestIsCounted
  <2>11. QED BY <1>4, <1>5, <2>2, <2>6, <2>7, <2>10 DEF CountsSound
<1>7. CASE ~req[r].user
  <2>1. UNCHANGED <<batch, counted>>
    BY <1>7 DEF FinishLog, Counts, batchVars
  <2>2. Charged' = Charged
    BY <1>1, <1>2, <1>3, <1>7 DEF Charged
  <2>3. QED BY <1>4, <1>5, <2>1, <2>2, CountsSame
<1>8. QED BY <1>6, <1>7

LEMMA CountsStay ==
    ASSUME RequestsTyped, NoticesTyped, CountsSound, Next
    PROVE  CountsSound'
<1>1. CASE NoteStep
  <2>0. req' = req /\ Charged' = Charged /\ KnownByToken'
    BY <1>1 DEF NoteStep, tunnelVars, Charged, CountsSound, KnownByToken
  <2>1. CASE \E n \in Notices, t \in Tokens, w \in Worlds : Flush(n, t, w)
    BY <2>0, <2>1, FlushCounts
  <2>2. CASE \E n \in Notices, topic \in Topics : Notify(n, topic)
    BY <2>0, <2>2, NotifyCounts
  <2>3. CASE \E n \in Notices :
               Look(n) \/ LookFails(n) \/ Record(n) \/ SendAccount(n) \/ SendKey(n) \/ SendWorld(n)
    BY <2>0, <2>3, LookCounts, SendCounts
  <2>4. CASE \E x \in recent : WindowEnds(x)
    BY <2>0, <2>4, CountsSame DEF WindowEnds, batchVars, sums
  <2>5. CASE \/ \E window \in BOOLEAN : \E events \in {{}, Offers(Account)} : PutAccount(events, window)
             \/ \E k \in ApiKeys : \E events \in {{}, Offers(<<"key", k>>)} : PutKey(k, events)
             \/ \E w \in Worlds : \E events \in {{}, Offers(<<"world", w>>)} : PutWorld(w, events)
    BY <2>0, <2>5, CountsSame DEF PutAccount, PutKey, PutWorld, Upserted, batchVars, sums
  <2>6. CASE Track \/ Tick
    BY <2>0, <2>6, CountsSame DEF Track, Tick, noticeVars, batchVars, sums
  <2>7. QED BY <1>1, <2>1, <2>2, <2>3, <2>4, <2>5, <2>6 DEF NoteStep, NoteNext
<1>2. CASE \E r \in Requests : FinishLog(r)
  BY <1>2, FinishCounts
<1>3. CASE ~NoteStep /\ \A r \in Requests : ~FinishLog(r)
  <2>1. UNCHANGED noteVars
    BY <1>3, TunnelIsSilent
  <2>2. UNCHANGED <<counted, told, silenced, batch, notice>>
    BY <2>1 DEF noteVars, noticeVars, batchVars, sums
  <2>3. KnownByToken' /\ Charged' = Charged
    BY <1>3, OthersAreQuiet, QuietCharges DEF CountsSound
  <2>4. QED BY <2>2, <2>3, CountsSame
<1>4. QED BY <1>1, <1>2, <1>3

\* Every cross-world request of a known user is in the batch of its token and target,
\* in a summary under way, or was told or silenced with one, and in one of them only;
\* one is counted for each request that ended, whatever became of it.
THEOREM RequestsAreCounted == Spec => []EveryRequestIsCounted
<1>1. Init => CountsSound
  <2> SUFFICES ASSUME Init PROVE CountsSound
    OBVIOUS
  <2>1. /\ batch = [p \in Pairs |-> 0] /\ notice = [n \in Notices |-> NoNotice]
        /\ counted = 0 /\ told = 0 /\ silenced = 0 /\ req = [r \in Requests |-> NoReq]
    BY DEF Init, NoteInit
  <2>2. Begun = {} /\ Charged = {} /\ KnownByToken
    BY <2>1, NothingKnown DEF Begun, Charged, KnownByToken, NoReq
  <2>3. SumOver(Pairs, batch) = 0 /\ SumOver({}, Carried) = 0
    BY <2>1, PairsAreFinite, SumOfZeros, SumOfNone
  <2>4. EveryRequestIsCounted
    BY <2>1, <2>2, <2>3, FS_EmptySet DEF EveryRequestIsCounted, Carried
  <2>5. QED BY <2>1, <2>2, <2>4, FS_EmptySet DEF CountsSound
<1>2. RequestsTyped /\ NoticesTyped /\ CountsSound /\ [Next]_vars => CountsSound'
  <2>1. CountsSound /\ UNCHANGED vars => CountsSound'
    BY CountsSame DEF vars, noteVars, tunnelVars, noticeVars, batchVars, sums, Charged, CountsSound, KnownByToken
  <2>2. QED BY <2>1, CountsStay
<1>3. CountsSound => EveryRequestIsCounted
  BY DEF CountsSound
<1>4. Decided => RequestsTyped
  BY DEF Decided
<1>5. QED BY <1>1, <1>2, <1>3, <1>4, DecidedHolds, HearingHolds, PTL DEF Spec

----------------------------------------------------------------------------
(* Alerts fire when they are earned.                                       *)

\* The ticks whose calls may be in a window that ends at end.
Within(end) == {t \in 0..now : t + Window >= end}

Seen == SumOver(Within(tracker.windowEnd), hits)

\* A window counts no call from before it; what has fired, fired no later than the
\* time that is remembered.
AlertsSound ==
    /\ now \in Nat /\ hits \in [0..MaxTime -> Nat] /\ now <= MaxTime
    /\ tracker.count \in Nat /\ tracker.windowEnd \in Int /\ tracker.lastFired \in Int
    /\ tracker.windowEnd <= now + Window
    /\ tracker.count <= Seen
    /\ \A f \in firings : f.at \in Nat /\ f.at <= tracker.lastFired
    /\ AlertsAreEarned

LEMMA TicksAreFinite ==
    ASSUME AlertsSound, NEW end \in Int
    PROVE  /\ IsFiniteSet(Within(end)) /\ Within(end) \subseteq 0..MaxTime
           /\ SumOver(Within(end), hits) \in Nat
<1>1. IsFiniteSet(0..now)
  BY FS_Interval DEF AlertsSound
<1>2. IsFiniteSet(Within(end))
  BY <1>1, FS_Subset DEF Within
<1>3. Within(end) \subseteq 0..MaxTime
  BY NotificationsAssumption DEF AlertsSound, Within
<1>4. \A t \in Within(end) : hits[t] \in Nat
  BY <1>3 DEF AlertsSound
<1>5. QED BY <1>2, <1>3, <1>4, SumIsNat

\* An earlier end takes in more.
LEMMA WindowsNest ==
    ASSUME AlertsSound, NEW end \in Int, NEW earlier \in Int, earlier <= end
    PROVE  SumOver(Within(end), hits) <= SumOver(Within(earlier), hits)
<1>1. Within(end) \subseteq Within(earlier)
  BY NotificationsAssumption DEF Within, AlertsSound
<1>2. IsFiniteSet(Within(earlier)) /\ Within(earlier) \subseteq 0..MaxTime
  BY TicksAreFinite
<1>3. \A t \in Within(earlier) : hits[t] \in Nat
  BY <1>2 DEF AlertsSound
<1>4. QED BY <1>1, <1>2, <1>3, SumGrows

\* A call of now adds one to what a window that is open has seen.
LEMMA CallAdds ==
    ASSUME AlertsSound, NEW end \in Int, end <= now + Window, hits' = [hits EXCEPT ![now] = @ + 1]
    PROVE  SumOver(Within(end), hits') = SumOver(Within(end), hits) + 1
<1> DEFINE W == Within(end)
           x == now
           f == hits
           g == hits'
<1>1. IsFiniteSet(W) /\ W \subseteq 0..MaxTime /\ SumOver(W, hits) \in Nat
  BY TicksAreFinite
<1>2. x \in W
  BY DEF Within, AlertsSound
<1> HIDE DEF W
<1>3. /\ \A t \in W : f[t] \in Nat /\ g[t] \in Nat
      /\ \A t \in W : t # x => g[t] = f[t]
      /\ g[x] = f[x] + 1
  BY <1>1, <1>2 DEF AlertsSound
<1> HIDE DEF x, f, g
<1>4. SumOver(W, g) \in Nat /\ SumOver(W, g) + f[x] = SumOver(W, f) + g[x]
  <2>1. IsFiniteSet(W)
    BY <1>1
  <2>2. QED BY <1>2, <1>3, <2>1, SumChanges
<1>5. f[x] \in Nat
  BY <1>2, <1>3
<1>6. SumOver(W, f) \in Nat
  BY <1>1 DEF f
<1>7. SumOver(W, g) = SumOver(W, f) + 1
  BY <1>3, <1>4, <1>5, <1>6
<1>8. QED BY <1>7 DEF W, f, g

LEMMA TrackEarns == ASSUME AlertsSound, Track PROVE AlertsSound'
<1> DEFINE count == Count(now)
           open == now > tracker.windowEnd
           end == IF open THEN now + Window ELSE tracker.windowEnd
           fires == count >= Threshold /\ now > tracker.lastFired + Cooldown
           seen == 1 + SumOver(Within(now), hits)
<1>0. /\ Threshold \in Nat \ {0} /\ Window \in Nat /\ Cooldown \in Nat /\ MaxTime \in Nat
      /\ now \in Nat /\ tracker.count \in Nat /\ tracker.windowEnd \in Int
      /\ tracker.lastFired \in Int /\ tracker.windowEnd <= now + Window
  BY NotificationsAssumption DEF AlertsSound
<1>1. /\ tracker' = [count |-> count, windowEnd |-> end,
                     lastFired |-> IF fires THEN now ELSE tracker.lastFired]
      /\ firings' = IF fires THEN firings \cup {[at |-> now, seen |-> seen]} ELSE firings
      /\ hits' = [hits EXCEPT ![now] = @ + 1] /\ now' = now
  BY DEF Track, Within
<1>2. count \in Nat /\ (open => count = 1) /\ (~open => count = tracker.count + 1)
  BY <1>0 DEF Count
<1>3. end \in Int /\ end <= now + Window
  BY <1>0
<1> DEFINE held == SumOver(Within(end), hits)
<1>4. held \in Nat /\ seen \in Nat
  BY <1>0, <1>3, TicksAreFinite
<1>5. SumOver(Within(end), hits') = held + 1
  BY <1>1, <1>3, CallAdds
<1>6. count <= held + 1
  <2>1. CASE open
    BY <1>2, <1>4, <2>1
  <2>2. CASE ~open
    BY <1>0, <1>2, <1>4, <2>2 DEF AlertsSound, Seen
  <2>3. QED BY <2>1, <2>2
<1>7. count <= seen
  <2>1. CASE open
    <3>1. SumOver(Within(now), hits) \in Nat
      BY <1>0, TicksAreFinite
    <3>2. QED BY <1>2, <2>1, <3>1
  <2>2. CASE ~open
    <3>1. tracker.count <= SumOver(Within(tracker.windowEnd), hits)
      BY DEF AlertsSound, Seen
    <3>2. now >= tracker.windowEnd \/ now <= tracker.windowEnd
      BY <1>0
    <3>3. QED BY <1>0, <1>2, <2>2, <3>1, WindowsNest, TicksAreFinite
  <2>3. QED BY <2>1, <2>2
<1>8. {t \in 0..now' : t + Window >= tracker'.windowEnd} = Within(end) /\ hits' \in [0..MaxTime -> Nat]
  BY <1>1 DEF Within, AlertsSound
<1> HIDE DEF count, open, end, seen, held
<1>9. /\ tracker'.count = count /\ tracker'.windowEnd = end
      /\ tracker'.lastFired = IF fires THEN now ELSE tracker.lastFired
  BY <1>1
<1>10. \A f \in firings : f.at \in Nat /\ f.at <= tracker.lastFired /\ f.seen >= Threshold
  BY DEF AlertsSound, AlertsAreEarned
<1>11. \A f \in firings' : f.at \in Nat /\ f.at <= tracker'.lastFired /\ f.seen >= Threshold
  <2>1. CASE fires
    <3>1. \A f \in firings : f.at <= now
      BY <1>0, <1>10, <2>1
    <3>2. seen >= Threshold
      BY <1>0, <1>2, <1>4, <1>7, <2>1
    <3>3. QED BY <1>0, <1>1, <1>9, <1>10, <2>1, <3>1, <3>2
  <2>2. CASE ~fires
    BY <1>1, <1>9, <1>10, <2>2
  <2>3. QED BY <2>1, <2>2
<1>12. \A f, g \in firings' : f # g => f.at > g.at + Cooldown \/ g.at > f.at + Cooldown
  <2>1. \A f, g \in firings : f # g => f.at > g.at + Cooldown \/ g.at > f.at + Cooldown
    BY DEF AlertsSound, AlertsAreEarned
  <2>2. CASE fires
    <3>1. \A f \in firings : now > f.at + Cooldown
      BY <1>0, <1>10, <2>2
    <3>2. QED BY <1>1, <2>1, <2>2, <3>1
  <2>3. CASE ~fires
    BY <1>1, <2>1, <2>3
  <2>4. QED BY <2>2, <2>3
<1>13. AlertsAreEarned'
  BY <1>11, <1>12 DEF AlertsAreEarned
<1>14. tracker'.count <= Seen'
  BY <1>5, <1>6, <1>8, <1>9 DEF Seen, Within
<1>15. tracker'.lastFired \in Int
  BY <1>0, <1>9
<1>16. QED BY <1>0, <1>1, <1>2, <1>3, <1>8, <1>9, <1>11, <1>13, <1>14, <1>15 DEF AlertsSound

LEMMA TickEarns == ASSUME AlertsSound, Tick PROVE AlertsSound'
<1> DEFINE end == tracker.windowEnd
<1>1. now' = now + 1 /\ now < MaxTime /\ UNCHANGED <<tracker, hits, firings>>
  BY DEF Tick
<1>2. /\ Window \in Nat /\ MaxTime \in Nat /\ now \in Nat /\ end \in Int /\ end <= now + Window
      /\ tracker.count \in Nat /\ hits \in [0..MaxTime -> Nat]
      /\ tracker.count <= SumOver(Within(end), hits)
  BY NotificationsAssumption DEF AlertsSound, Seen
<1> DEFINE W == {t \in 0..now' : t + Window >= end}
<1>4. IsFiniteSet(W) /\ W \subseteq 0..MaxTime
  <2>1. IsFiniteSet(0..now')
    BY <1>1, <1>2, FS_Interval
  <2>2. QED BY <1>1, <1>2, <2>1, FS_Subset
<1>5. Within(end) \subseteq W
  BY <1>1, <1>2 DEF Within
<1> HIDE DEF W
<1>6. SumOver(Within(end), hits) <= SumOver(W, hits) /\ SumOver(W, hits) \in Nat
  BY <1>2, <1>4, <1>5, SumGrows, SumIsNat
<1>7. SumOver(Within(end), hits) \in Nat
  BY <1>2, TicksAreFinite
<1>8. tracker.count <= SumOver(W, hits)
  BY <1>2, <1>6, <1>7
<1>9. tracker'.count <= Seen'
  BY <1>1, <1>8 DEF Seen, Within, W
<1>10. AlertsAreEarned'
  BY <1>1 DEF AlertsSound, AlertsAreEarned
<1>11. now' \in Nat /\ now' <= MaxTime /\ tracker'.windowEnd <= now' + Window
  BY <1>1, <1>2
<1>12. QED BY <1>1, <1>2, <1>9, <1>10, <1>11 DEF AlertsSound

\* An alert fires only after Threshold calls within its window, and then not again
\* within the cooldown, for any threshold, window and cooldown.
THEOREM AlertsFireWhenEarned == Spec => []AlertsAreEarned
<1>1. Init => AlertsSound
  <2> SUFFICES ASSUME Init PROVE AlertsSound
    OBVIOUS
  <2>1. /\ now = 0 /\ hits = [t \in 0..MaxTime |-> 0] /\ firings = {}
        /\ tracker = [count |-> 0, windowEnd |-> Never, lastFired |-> Never]
    BY DEF Init, NoteInit
  <2>2. Cooldown \in Nat /\ Window \in Nat /\ MaxTime \in Nat /\ Never \in Int /\ Never <= 0 + Window
    BY NotificationsAssumption DEF Never
  <2>3. IsFiniteSet(Within(Never)) /\ Within(Never) \subseteq 0..MaxTime
    <3>1. IsFiniteSet({0})
      BY FS_Singleton, Zenon
    <3>2. Within(Never) \subseteq {0} /\ {0} \subseteq 0..MaxTime
      BY <2>1, <2>2 DEF Within
    <3>3. QED BY <3>1, <3>2, FS_Subset
  <2>4. SumOver(Within(Never), hits) \in Nat
    BY <2>1, <2>3, SumIsNat
  <2>5. AlertsAreEarned
    BY <2>1 DEF AlertsAreEarned
  <2>6. QED BY <2>1, <2>2, <2>4, <2>5 DEF AlertsSound, Seen
<1>2. AlertsSound /\ [Next]_vars => AlertsSound'
  <2> SUFFICES ASSUME AlertsSound, [Next]_vars PROVE AlertsSound'
    OBVIOUS
  <2>1. CASE UNCHANGED alertVars
    BY <2>1 DEF alertVars, AlertsSound, AlertsAreEarned, Seen, Within
  <2>2. CASE Track
    BY <2>2, TrackEarns
  <2>3. CASE Tick
    BY <2>3, TickEarns
  <2>4. CASE NoteNext /\ ~Track /\ ~Tick
    <3>1. CASE \/ \E n \in Notices, t \in Tokens, w \in Worlds : Flush(n, t, w)
               \/ \E n \in Notices, topic \in Topics : Notify(n, topic)
      BY <2>1, <3>1 DEF Flush, Notify
    <3>2. CASE \E n \in Notices :
                 Look(n) \/ LookFails(n) \/ Record(n) \/ SendAccount(n) \/ SendKey(n) \/ SendWorld(n)
      BY <2>1, <3>2 DEF Look, LookFails, Record, SendAccount, SendKey, SendWorld
    <3>3. CASE \E x \in recent : WindowEnds(x)
      BY <2>1, <3>3 DEF WindowEnds
    <3>4. CASE \/ \E window \in BOOLEAN : \E events \in {{}, Offers(Account)} : PutAccount(events, window)
               \/ \E k \in ApiKeys : \E events \in {{}, Offers(<<"key", k>>)} : PutKey(k, events)
               \/ \E w \in Worlds : \E events \in {{}, Offers(<<"world", w>>)} : PutWorld(w, events)
      BY <2>1, <3>4 DEF PutAccount, PutKey, PutWorld, Upserted
    <3>5. QED BY <2>4, <3>1, <3>2, <3>3, <3>4 DEF NoteNext
  <2>5. CASE \E r \in Requests : FinishLog(r)
    BY <2>1, <2>5 DEF FinishLog
  <2>6. CASE UNCHANGED noteVars
    BY <2>1, <2>6 DEF noteVars
  <2>7. QED BY <2>2, <2>3, <2>4, <2>5, <2>6, TunnelIsSilent DEF NoteStep, vars
<1>3. AlertsSound => AlertsAreEarned
  BY DEF AlertsSound
<1>4. QED BY <1>1, <1>2, <1>3, PTL DEF Spec
=============================================================================
