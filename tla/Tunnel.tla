------------------------------- MODULE Tunnel -------------------------------
(***************************************************************************)
(* The cross-world tunnel: a module asks the relay to run an action in     *)
(* another world of its account (ws/remote_request.go), within what the    *)
(* owner set for the source world (model/known_client.go, the dashboard's  *)
(* handlers of handler/connection_tokens.go, and the pairings of           *)
(* handler/pair_request.go), starting the target in a headless browser     *)
(* when it is offline (worker/headless.go).                                *)
(*                                                                         *)
(* Every database read of handleRemoteRequest is a step, and so are the    *)
(* read and the write of a dashboard handler.  The launch's own steps are  *)
(* in Headless, the pending slots in PendingRequests, the other instances  *)
(* in Directory: here a launch ends one way or the other, an answer comes  *)
(* or not, a forward succeeds or fails.  A deleted world may come back, as *)
(* another row: it connects or is paired with its old client id.  The      *)
(* token that a pairing makes is not among Tokens.                         *)
(***************************************************************************)
EXTENDS Notifications

CONSTANTS
    Source,    \* the world that the requests come from
    Every,     \* the allow-list's "*"
    Scopes,    \* scopes of the actions
    Creds,     \* stored credentials
    None,      \* no credential, no scope, no change
    Requests,  \* remote requests, numbered as they come
    Edits,     \* runs of dashboard handlers, numbered as they begin
    MaxTargets, MaxConns \* bounds: of the allow-list that a patch gives, of a world's connections

ASSUME TunnelAssumption ==
    /\ Source \in Worlds /\ Every \notin Worlds /\ None \notin Creds \cup Scopes \cup Edits
    /\ Requests \subseteq Nat /\ Edits \subseteq Nat /\ {MaxTargets, MaxConns} \subseteq Nat

\* A row of KnownClients.
\* made: which of the world's rows it is (ids are not reused).
RowSet == [known : BOOLEAN, made : Nat, targets : SUBSET (Worlds \cup {Every}), scopes : SUBSET Scopes,
           limit : Nat, auto : BOOLEAN, cred : Creds \cup {None}]

ASSUME LoadsAssumption ==
    \A l \in Loads : /\ l.rows \in [Worlds -> RowSet] /\ l.presence \in {"off", "here", "elsewhere"}
                    /\ l.debounce \subseteq BOOLEAN

VARIABLES
    row,      \* KnownClients: a row, or NoRow
    token,    \* ConnectionTokens of the source world that exist
    creds,    \* Credentials that exist
    spent,    \* rateBuckets of the source world: count in the hour
    presence, \* of each world: off, here, elsewhere
    conn,     \* how often a world has connected here
    req,      \* runs of handleRemoteRequest
    edit,     \* runs of dashboard handlers
    code,     \* the pairing code that was approved last, with its settings
    launch,   \* launchQueues: idle, resolving, minting or launching, and for whom
    seed,     \* headless connection tokens in the database, by world
    seeded,   \* history: launches that succeeded
    stuck,    \* history: seed tokens whose revocation failed
    wish,     \* history: what the owner decided last about a world's reach
    torn,     \* history: worlds decided while another handler held the older row or was
              \* deleting a world named; or written by a code older than the decision; or
              \* not written, because that failed
    lawful,   \* history: requests that the owner allowed at some time of their life
    doomed    \* history: requests not yet checked again when their token was deleted

worldVars == <<row, token, creds, presence, conn>>
launchVars == <<launch, seed, seeded, stuck>>
ownerVars == <<edit, code, wish, torn>>
lawVars == <<lawful, doomed>>
tunnelVars == <<worldVars, spent, req, ownerVars, launchVars, lawVars>>
vars == <<noteVars, tunnelVars>>

NoRow == [known |-> FALSE, made |-> 0, targets |-> {}, scopes |-> {}, limit |-> 0, auto |-> FALSE, cred |-> None]
NoReq == [at |-> "new", token |-> CHOOSE t \in Tokens : TRUE, target |-> Source, scope |-> None,
          start |-> FALSE, conn |-> 0, user |-> FALSE, ok |-> FALSE]
NoEdit == [at |-> "new", world |-> Source, old |-> [w \in {} |-> NoRow],
           targets |-> None, scopes |-> None, left |-> {}]
\* fresh: worlds about which the owner has decided nothing since.
NoCode == [at |-> "none", reach |-> [targets |-> {}, scopes |-> {}], world |-> Source, fresh |-> {}]
Idle == [at |-> "idle", owner |-> 0, cred |-> None]
Reach(r) == [targets |-> r.targets, scopes |-> r.scopes]

TunnelTypeOK ==
    /\ row \in [Worlds -> RowSet]
    /\ token \subseteq Tokens /\ creds \subseteq Creds /\ spent \in Nat
    /\ presence \in [Worlds -> {"off", "here", "elsewhere"}]
    /\ \A r \in Requests : req[r].at \in
        {"new", "received", "known", "permitted", "fresh", "forwarding", "starting",
         "started", "sending", "waiting", "answered", "done"}
    /\ \A e \in Edits : edit[e].at \in {"new", "read", "tokens", "row", "cleaning", "done"}
    /\ code.at \in {"none", "stored", "paired", "used"}
    /\ \A w \in Worlds : launch[w].at \in {"idle", "resolving", "minting", "launching"}
    /\ seed \in [Worlds -> Nat] /\ seeded \in [Worlds -> Nat] /\ stuck \in [Worlds -> Nat]
    /\ torn \subseteq Worlds /\ lawful \cup doomed \subseteq Requests
TypeOK == NoteTypeOK /\ TunnelTypeOK

Init ==
    /\ NoteInit
    /\ row = [w \in Worlds |-> load.rows[w]]
    /\ token = Tokens /\ creds = Creds /\ spent = 0
    /\ presence = [w \in Worlds |-> IF w = Source THEN "here" ELSE load.presence]
    /\ conn = [w \in Worlds |-> 0]
    /\ req = [r \in Requests |-> NoReq]
    /\ edit = [e \in Edits |-> NoEdit] /\ code = NoCode
    /\ launch = [w \in Worlds |-> Idle]
    /\ seed = [w \in Worlds |-> 0] /\ seeded = seed /\ stuck = seed
    /\ wish = [w \in Worlds |-> Reach(row[w])]
    /\ torn = {} /\ lawful = {} /\ doomed = {}

----------------------------------------------------------------------------
(* handleRemoteRequest.                                                    *)

Others == Worlds \ {Source}
To(r, at) == req' = [req EXCEPT ![r].at = at]
\* respond: what is left is to log the request and to count it.
Respond(r, ok) ==
    req' = [req EXCEPT ![r] = [NoReq EXCEPT !.at = "answered", !.token = req[r].token,
                               !.target = req[r].target, !.user = req[r].user, !.ok = ok]]
Fail(r) == Respond(r, FALSE)
Unmoved == UNCHANGED <<noteVars, worldVars, ownerVars, launchVars>>

\* CanTarget and HasRemoteScope.
CanTarget(reach, w) == w \in reach.targets \/ Every \in reach.targets
Permits(reach, r) == CanTarget(reach, req[r].target) /\ req[r].scope \in reach.scopes

\* A message of type remote-request, over the source's socket; a socket outlives
\* its token for a while.  An action that no scope stands for has scope None.
Receive(r, t, w, s, start) ==
    /\ First(r, {q \in Requests : req[q].at = "new"})
    /\ Cardinality({q \in Requests : req[q].at # "new"}) < load.requests
    /\ presence[Source] = "here"
    /\ req' = [req EXCEPT ![r] = [NoReq EXCEPT !.at = "received", !.token = t, !.target = w,
                                  !.scope = s, !.start = start]]
    /\ lawful' = IF CanTarget(wish[Source], w) /\ s \in wish[Source].scopes
                 THEN lawful \cup {r} ELSE lawful
    /\ doomed' = IF t \in token THEN doomed ELSE doomed \cup {r}
    /\ Unmoved /\ UNCHANGED spent

\* FindByID: the token gives the user.
LookUpToken(r) ==
    /\ req[r].at = "received"
    /\ IF req[r].token \in token
       THEN req' = [req EXCEPT ![r] = [@ EXCEPT !.at = "known", !.user = TRUE]]
       ELSE Fail(r)
    /\ Unmoved /\ UNCHANGED <<spent, lawVars>>

\* Mutant: the target's row is asked for the scope, not the source's.
AllowedByTarget(r) ==
    CanTarget(row[Source], req[r].target) /\ req[r].scope \in row[req[r].target].scopes
\* The source world's row: the target, the action and its scope.
Allowed(r) ==
    /\ row[Source].known /\ req[r].target # Source
    /\ Permits(row[Source], r)

Cleaning == {e \in Edits : edit[e].at \in {"row", "cleaning"}}

\* checkRemoteRequestRate: the first request of an hour opens the bucket.
Limited == row[Source].limit > 0
WithinRate == Limited => spent = 0 \/ spent < row[Source].limit

\* FindByClientID of the source, and then its hourly limit.
CheckPermissions(r) ==
    /\ req[r].at = "known"
    /\ \/ /\ ~(Allowed(r) /\ WithinRate)
          /\ Fail(r) /\ UNCHANGED <<spent, lawful>>
       \/ /\ Allowed(r) /\ WithinRate
          /\ spent' = IF Limited THEN spent + 1 ELSE spent
          /\ lawful' = IF Source \in torn \/ Cleaning # {} THEN lawful \cup {r} ELSE lawful
          /\ To(r, "permitted")
    /\ Unmoved /\ UNCHANGED doomed

\* The token is read again.
FreshToken(r) == req[r].token \in token

Recheck(r) ==
    /\ req[r].at = "permitted"
    /\ IF FreshToken(r) THEN To(r, "fresh") ELSE Fail(r)
    /\ Unmoved /\ UNCHANGED <<spent, lawVars>>

\* The target's row, then its connection: here, on another instance, or nowhere.
FindTarget(r) ==
    /\ req[r].at = "fresh"
    /\ LET w == req[r].target IN
        IF ~row[w].known THEN Fail(r)
        ELSE IF presence[w] = "here"
             THEN req' = [req EXCEPT ![r] = [@ EXCEPT !.at = "sending", !.conn = conn[w]]]
        ELSE IF presence[w] = "elsewhere" THEN To(r, "forwarding")
        ELSE IF req[r].start /\ row[w].auto THEN To(r, "starting")
        ELSE Fail(r)
    /\ Unmoved /\ UNCHANGED <<spent, lawVars>>

\* ForwardToInstance: the peer's answer, an error or its 60 seconds.
Forwarded(r) ==
    /\ req[r].at = "forwarding"
    /\ \E ok \in BOOLEAN : Respond(r, ok)
    /\ Unmoved /\ UNCHANGED <<spent, lawVars>>

\* AutoStartForKnownClient: refused in the cool-down, else the launch slot is
\* taken or joined; joining may end with the caller's 60 seconds.
AutoStart(r) ==
    /\ req[r].at = "starting" /\ req[r].conn = 0
    /\ LET w == req[r].target IN
        \/ Fail(r) /\ UNCHANGED launch
        \/ /\ launch[w] = Idle
           /\ launch' = [launch EXCEPT ![w] = [at |-> "resolving", owner |-> r, cred |-> None]]
           /\ req' = [req EXCEPT ![r].conn = 1]
        \/ /\ launch[w] # Idle
           /\ req' = [req EXCEPT ![r].conn = 1]
           /\ UNCHANGED launch
    /\ UNCHANGED <<noteVars, worldVars, ownerVars, seed, seeded, stuck, spent, lawVars>>

GiveUp(r) ==
    /\ req[r].at = "starting" /\ req[r].conn = 1 /\ launch[req[r].target].owner # r
    /\ Fail(r)
    /\ Unmoved /\ UNCHANGED <<spent, lawVars>>

\* The connected client is looked up again.
FindStarted(r) ==
    /\ req[r].at = "started"
    /\ LET w == req[r].target IN
        IF presence[w] = "here"
        THEN req' = [req EXCEPT ![r] = [@ EXCEPT !.at = "sending", !.conn = conn[w]]]
        ELSE Fail(r)
    /\ Unmoved /\ UNCHANGED <<spent, lawVars>>

\* Store and Send; on a connection that has closed, Delete.
SendAction(r) ==
    /\ req[r].at = "sending"
    /\ LET w == req[r].target IN
        IF presence[w] = "here" /\ conn[w] = req[r].conn THEN To(r, "waiting") ELSE Fail(r)
    /\ Unmoved /\ UNCHANGED <<spent, lawVars>>

\* The target's result, with or without an error.
TargetAnswers(r) ==
    /\ req[r].at = "waiting" /\ presence[req[r].target] = "here"
    /\ conn[req[r].target] = req[r].conn
    /\ \E ok \in BOOLEAN : Respond(r, ok)
    /\ Unmoved /\ UNCHANGED <<spent, lawVars>>

TimesOut(r) ==
    /\ req[r].at = "waiting"
    /\ Fail(r)
    /\ Unmoved /\ UNCHANGED <<spent, lawVars>>

\* Mutant: only what succeeded is counted.
CountsSuccess(r) == req[r].user /\ req[r].ok
\* finishLog counts whatever became of a request whose user is known.
Counts(r) == req[r].user

FinishLog(r) ==
    /\ req[r].at = "answered"
    /\ req' = [req EXCEPT ![r] = [@ EXCEPT !.at = "done"]]
    /\ IF Counts(r) THEN Added(req[r].token, req[r].target) ELSE UNCHANGED batchVars
    /\ UNCHANGED <<load, settingsVars, noticeVars, alertVars, worldVars, ownerVars, launchVars,
                   spent, lawVars>>

\* The hour of the bucket ends.
HourPasses ==
    /\ spent > 0 /\ spent' = 0
    /\ Unmoved /\ UNCHANGED <<req, lawVars>>

----------------------------------------------------------------------------
(* doAutoStartForKnownClient.                                              *)

Stopped(w) == launch' = [launch EXCEPT ![w] = Idle]
\* The owner and those that joined learn how the launch ended.
Woken(w, ok) ==
    req' = [r \in Requests |->
        IF req[r].at = "starting" /\ req[r].target = w /\ req[r].conn = 1
        THEN IF ok THEN [req[r] EXCEPT !.at = "started"]
             ELSE [NoReq EXCEPT !.at = "answered", !.token = req[r].token,
                                !.target = w, !.user = req[r].user]
        ELSE req[r]]

\* The user, and the world's row: it must still allow the start, with a credential.
Resolve(w) ==
    /\ launch[w].at = "resolving"
    /\ IF row[w].known /\ row[w].auto /\ row[w].cred # None
       THEN /\ launch' = [launch EXCEPT ![w] = [@ EXCEPT !.at = "minting", !.cred = row[w].cred]]
            /\ UNCHANGED req
       ELSE Stopped(w) /\ Woken(w, FALSE)
    /\ UNCHANGED <<noteVars, worldVars, ownerVars, seed, seeded, stuck, spent, lawVars>>

\* The credential, which may have been deleted, and the seed token's row.
Mint(w) ==
    /\ launch[w].at = "minting"
    /\ \/ /\ launch[w].cred \in creds
          /\ seed' = [seed EXCEPT ![w] = @ + 1]
          /\ launch' = [launch EXCEPT ![w].at = "launching"]
          /\ UNCHANGED req
       \/ Stopped(w) /\ Woken(w, FALSE) /\ UNCHANGED seed
    /\ UNCHANGED <<noteVars, worldVars, ownerVars, seeded, stuck, spent, lawVars>>

\* The expected client has connected: the token lives on with the session.
Launched(w) ==
    /\ launch[w].at = "launching" /\ presence[w] = "here"
    /\ seeded' = [seeded EXCEPT ![w] = @ + 1]
    /\ Stopped(w) /\ Woken(w, TRUE)
    /\ UNCHANGED <<noteVars, worldVars, ownerVars, seed, stuck, spent, lawVars>>

\* Mutant: a launch that failed leaves its token.
RevokeNothing(w) == seed
\* revokeOnFail.
Revoked(w) == [seed EXCEPT ![w] = @ - 1]

\* Any failure: the token is deleted, or the deletion fails and nobody looks.
LaunchFails(w) ==
    /\ launch[w].at = "launching"
    /\ \/ seed' = Revoked(w) /\ UNCHANGED stuck
       \/ stuck' = [stuck EXCEPT ![w] = @ + 1] /\ UNCHANGED seed
    /\ Stopped(w) /\ Woken(w, FALSE)
    /\ UNCHANGED <<noteVars, worldVars, ownerVars, seeded, spent, lawVars>>

----------------------------------------------------------------------------
(* The dashboard.                                                          *)

NewEdit(e, kind) ==
    /\ kind \in load.edits /\ First(e, {d \in Edits : edit[d].at = "new"})
    /\ Cardinality({d \in Edits : edit[d].at # "new"}) < load.jobs

\* The row that handler e read of w is there.
SameRow(e, w) == row[w].known /\ row[w].made = edit[e].old[w].made
Holding(w) == {e \in Edits : edit[e].at \in {"read", "cleaning"} /\ w \in DOMAIN edit[e].old /\ SameRow(e, w)}
Live(r) == req[r].at \in {"received", "known"}
\* A reach that names a world which is being taken out of the lists.
NamesDeleted(reach) ==
    Every \notin reach.targets /\ \E e \in Cleaning : edit[e].world \in reach.targets
\* The owner decides about the reach of the worlds in decided (history).
Decide(e, decided) ==
    /\ wish' = [w \in Worlds |-> IF w \in DOMAIN decided THEN decided[w] ELSE wish[w]]
    /\ torn' = torn \cup {w \in DOMAIN decided : Holding(w) \ {e} # {} \/ NamesDeleted(decided[w])}
    /\ lawful' = lawful \cup {r \in Requests : Live(r) /\ Permits(wish'[Source], r)}

Outdate(decided) == code' = [code EXCEPT !.fresh = @ \ decided]
\* SetCrossWorldSettings; the row's other columns stay.
Written(w, reach) == [row EXCEPT ![w] = [@ EXCEPT !.targets = reach.targets, !.scopes = reach.scopes]]

\* PATCH /auth/known-clients/{id} reads the row and validates the targets ...
StartPatch(e, w, targets, scopes) ==
    /\ NewEdit(e, "patch") /\ row[w].known
    /\ targets # None => Cardinality(targets) <= MaxTargets
    /\ targets # None => \A x \in targets \ {Every} : row[x].known /\ x # w
    /\ edit' = [edit EXCEPT ![e] = [NoEdit EXCEPT !.at = "read", !.world = w, !.old = [x \in {w} |-> row[x]],
                                    !.targets = targets, !.scopes = scopes]]
    /\ UNCHANGED <<noteVars, worldVars, spent, req, code, wish, torn, launchVars, lawVars>>

\* Only the fields that were provided are overwritten, the others are written
\* back as they were read.
Kept(given, old) == IF given = None THEN old ELSE given

\* ... and writes both lists: SetCrossWorldSettings.
WritePatch(e) ==
    /\ edit[e].at = "read"
    /\ LET w == edit[e].world
           given == [targets |-> Kept(edit[e].targets, edit[e].old[w].targets),
                     scopes |-> Kept(edit[e].scopes, edit[e].old[w].scopes)]
           meant == [targets |-> IF edit[e].targets = None THEN wish[w].targets ELSE edit[e].targets,
                     scopes |-> IF edit[e].scopes = None THEN wish[w].scopes ELSE edit[e].scopes]
       IN IF SameRow(e, w)
          THEN row' = Written(w, given) /\ Decide(e, [x \in {w} |-> meant]) /\ Outdate({w})
          ELSE UNCHANGED <<row, code, wish, torn, lawful>>
    /\ edit' = [edit EXCEPT ![e] = [NoEdit EXCEPT !.at = "done"]]
    /\ UNCHANGED <<noteVars, token, creds, presence, conn, spent, req, launchVars, doomed>>

\* POST /auth/pair-request/{code}/approve: the settings go to a paired world at
\* once, ...
ApproveUpgrade(e, w, reach) ==
    /\ NewEdit(e, "approve") /\ row[w].known
    /\ w \notin reach.targets /\ Cardinality(reach.targets) <= MaxTargets
    /\ row' = Written(w, reach) /\ Decide(e, [x \in {w} |-> reach]) /\ Outdate({w})
    /\ edit' = [edit EXCEPT ![e] = [NoEdit EXCEPT !.at = "done"]]
    /\ UNCHANGED <<noteVars, token, creds, presence, conn, spent, req, launchVars, doomed>>

\* ... or are stored with a pairing code, and written, if there are any, to the
\* world that is known already (an error is ignored).
ApprovePairing(e, w, reach) ==
    /\ NewEdit(e, "approve") /\ code.at \in {"none", "used"}
    /\ w \notin reach.targets /\ Cardinality(reach.targets) <= MaxTargets
    /\ code' = [NoCode EXCEPT !.at = "stored", !.reach = reach, !.fresh = Worlds]
    /\ \/ /\ row[w].known /\ reach # NoCode.reach
          /\ row' = Written(w, reach) /\ Decide(e, [x \in {w} |-> reach])
       \/ UNCHANGED <<row, wish, torn, lawful>>
    /\ edit' = [edit EXCEPT ![e] = [NoEdit EXCEPT !.at = "done"]]
    /\ UNCHANGED <<noteVars, token, creds, presence, conn, spent, req, launchVars, doomed>>

\* KnownClientStore.Upsert: a row that is there keeps its reach, a new one has none
\* and nobody has decided about it; an error is logged.
Created(w) == [NoRow EXCEPT !.known = TRUE, !.made = row[w].made + 1]
Upsert(w) ==
    \/ /\ ~row[w].known
       /\ row' = [row EXCEPT ![w] = Created(w)]
       /\ wish' = [wish EXCEPT ![w] = Reach(NoRow)]
       /\ torn' = torn \ {w}
    \/ UNCHANGED <<row, wish, torn>>

\* POST /auth/pair: the code is used and the row of the world that the module
\* names, or the code, is upserted ...
Exchange(w) ==
    /\ code.at = "stored"
    /\ code' = [code EXCEPT !.at = "paired", !.world = w]
    /\ Upsert(w)
    /\ UNCHANGED <<noteVars, token, creds, presence, conn, spent, req, edit, launchVars, lawVars>>

\* ... and read again for the settings of the code, up to five minutes old; no
\* error of that is looked at.
Grant ==
    /\ code.at = "paired"
    /\ code' = [code EXCEPT !.at = "used"]
    /\ LET w == code.world IN
        \/ /\ code.reach # NoCode.reach /\ row[w].known
           /\ row' = Written(w, code.reach)
           /\ IF w \in code.fresh THEN Decide(None, [x \in {w} |-> code.reach])
              ELSE torn' = torn \cup {w} /\ UNCHANGED <<wish, lawful>>
        \/ /\ code.reach # NoCode.reach
           /\ torn' = torn \cup {w}
           /\ UNCHANGED <<row, wish, lawful>>
        \/ /\ code.reach = NoCode.reach
           /\ UNCHANGED <<row, wish, torn, lawful>>
    /\ UNCHANGED <<noteVars, token, creds, presence, conn, spent, req, edit, launchVars, doomed>>

\* PATCH .../auto-start and .../credential write one column each.
Tuned(w, tuned) ==
    /\ "auto" \in load.edits /\ w \in load.movers /\ row[w].known
    /\ row' = [row EXCEPT ![w] = tuned]
    /\ UNCHANGED <<noteVars, token, creds, presence, conn, spent, req, ownerVars, launchVars, lawVars>>

SetAutoStart(w, enabled) == Tuned(w, [row[w] EXCEPT !.auto = enabled])

SetCredential(w, cred) == cred \in creds \cup {None} /\ Tuned(w, [row[w] EXCEPT !.cred = cred])

\* DELETE /auth/credentials/{id}: the worlds go on naming it.
DeleteCredential(c) ==
    /\ "auto" \in load.edits /\ c \in creds
    /\ creds' = creds \ {c}
    /\ UNCHANGED <<noteVars, row, token, presence, conn, spent, req, ownerVars, launchVars, lawVars>>

Early(gone) == {r \in Requests : req[r].token \in gone /\ req[r].at \in {"received", "known", "permitted"}}

\* DELETE /auth/connection-tokens/{id}; the sockets are closed later.
DeleteToken(t) ==
    /\ "token" \in load.edits /\ t \in token
    /\ token' = token \ {t}
    /\ doomed' = doomed \cup Early({t})
    /\ UNCHANGED <<noteVars, row, creds, presence, conn, spent, req, ownerVars, launchVars, lawful>>

\* DELETE /auth/known-clients/{id}: the connection is told to close, the world's
\* tokens are deleted (a failure is logged), the row is deleted ...  A seed token
\* has no client id and stays.
StartDelete(e, w) ==
    /\ NewEdit(e, "delete") /\ row[w].known
    /\ edit' = [edit EXCEPT ![e] = [NoEdit EXCEPT !.at = "tokens", !.world = w, !.old = [x \in {w} |-> row[x]]]]
    /\ token' \in {token, IF w = Source THEN {} ELSE token}
    /\ doomed' = doomed \cup Early(token \ token')
    /\ UNCHANGED <<noteVars, row, creds, presence, conn, spent, req, code, wish, torn, launchVars, lawful>>

Without(reach, w) == [reach EXCEPT !.targets = IF Every \in @ THEN @ ELSE @ \ {w}]

\* (or its deletion fails, and the handler ends)
DeleteRow(e) ==
    /\ edit[e].at = "tokens"
    /\ \/ LET w == edit[e].world IN
          /\ row' = IF SameRow(e, w) THEN [row EXCEPT ![w] = [NoRow EXCEPT !.made = row[w].made]] ELSE row
          /\ Decide(e, [x \in Worlds |-> Without(wish[x], w)]) /\ Outdate(Worlds)
          /\ edit' = [edit EXCEPT ![e] = [@ EXCEPT !.at = "row"]]
       \/ /\ edit' = [edit EXCEPT ![e] = [NoEdit EXCEPT !.at = "done"]]
          /\ UNCHANGED <<row, code, wish, torn, lawful>>
    /\ UNCHANGED <<noteVars, token, creds, presence, conn, spent, req, launchVars, doomed>>

\* ... all siblings are read (or that fails, and the references stay) ...
ReadSiblings(e) ==
    /\ edit[e].at = "row"
    /\ LET w == edit[e].world
           naming == {x \in Worlds : row[x].known /\ w \in row[x].targets /\ Every \notin row[x].targets}
       IN \/ /\ edit' = [edit EXCEPT ![e] = [@ EXCEPT !.at = "cleaning", !.left = naming,
                                                      !.old = [x \in naming |-> row[x]]]]
             /\ UNCHANGED torn
          \/ /\ edit' = [edit EXCEPT ![e] = [NoEdit EXCEPT !.at = "done"]]
             /\ torn' = torn \cup naming
    /\ UNCHANGED <<noteVars, worldVars, spent, req, code, wish, launchVars, lawVars>>

\* Mutant: the reference stays in the list that is written back.
CleanNothing(old, w) == old.targets
Cleaned(old, w) == old.targets \ {w}

\* ... and those that named the world are written one by one, with the scopes
\* as they were read; a failed write is logged and the loop goes on.
CleanSibling(e, x) ==
    /\ edit[e].at = "cleaning" /\ x \in edit[e].left
    /\ edit' = [edit EXCEPT ![e] = [@ EXCEPT !.left = edit[e].left \ {x},
                                             !.old = [y \in edit[e].left \ {x} |-> edit[e].old[y]]]]
    /\ \/ /\ SameRow(e, x)
          /\ row' = Written(x, [targets |-> Cleaned(edit[e].old[x], edit[e].world),
                                scopes |-> edit[e].old[x].scopes])
          /\ torn' = IF Holding(x) \ {e} # {} THEN torn \cup {x} ELSE torn
       \/ SameRow(e, x) /\ torn' = torn \cup {x} /\ UNCHANGED row
       \/ ~SameRow(e, x) /\ UNCHANGED <<row, torn>>
    /\ UNCHANGED <<noteVars, token, creds, presence, conn, spent, req, code, wish, launchVars, lawVars>>

EndDelete(e) ==
    /\ edit[e].at = "cleaning" /\ edit[e].left = {}
    /\ edit' = [edit EXCEPT ![e] = [NoEdit EXCEPT !.at = "done"]]
    /\ UNCHANGED <<noteVars, worldVars, spent, req, code, wish, torn, launchVars, lawVars>>

----------------------------------------------------------------------------
(* The worlds come and go (ClientRegistry, Directory).                     *)

\* With a token that a deletion did not reach, the world's row is made anew.
Connects(w) ==
    /\ w \in load.movers /\ presence[w] # "here" /\ conn[w] < MaxConns
    /\ Upsert(w)
    /\ presence' = [presence EXCEPT ![w] = "here"]
    /\ conn' = [conn EXCEPT ![w] = @ + 1]
    /\ UNCHANGED <<noteVars, token, creds, spent, req, edit, code, launchVars, lawVars>>

Leaves(w) ==
    /\ w \in load.movers /\ presence[w] = "here"
    /\ presence' = [presence EXCEPT ![w] = "off"]
    /\ UNCHANGED <<noteVars, row, token, creds, conn, spent, req, ownerVars, launchVars, lawVars>>

Request(r) ==
    \/ LookUpToken(r) \/ CheckPermissions(r) \/ Recheck(r) \/ FindTarget(r) \/ Forwarded(r)
    \/ AutoStart(r) \/ FindStarted(r) \/ SendAction(r) \/ TimesOut(r) \/ FinishLog(r)
Launch(w) == Resolve(w) \/ Mint(w) \/ LaunchFails(w)

PairStep ==
    \/ \E e \in Edits, w \in Worlds :
        \E reach \in [targets : SUBSET (Worlds \cup {Every}), scopes : SUBSET Scopes] :
            ApproveUpgrade(e, w, reach) \/ ApprovePairing(e, w, reach)
    \/ (\E w \in Worlds : Exchange(w)) \/ Grant

NoteStep == NoteNext /\ UNCHANGED tunnelVars

Next ==
    \/ NoteStep
    \/ \E r \in Requests, t \in Tokens, w \in Worlds, s \in Scopes \cup {None}, start \in BOOLEAN :
        Receive(r, t, w, s, start)
    \/ \E r \in Requests : Request(r) \/ GiveUp(r) \/ TargetAnswers(r)
    \/ HourPasses
    \/ \E w \in Worlds : Launch(w) \/ Launched(w) \/ Connects(w) \/ Leaves(w)
    \/ \E e \in Edits, w \in Worlds :
        \E targets \in (SUBSET (Others \cup {Every})) \cup {None}, scopes \in (SUBSET Scopes) \cup {None} :
            StartPatch(e, w, targets, scopes)
    \/ PairStep
    \/ \E e \in Edits, w \in Worlds : StartDelete(e, w) \/ CleanSibling(e, w)
    \/ \E e \in Edits : WritePatch(e) \/ DeleteRow(e) \/ ReadSiblings(e) \/ EndDelete(e)
    \/ \E w \in Worlds, enabled \in BOOLEAN : SetAutoStart(w, enabled)
    \/ \E w \in Worlds, c \in Creds \cup {None} : SetCredential(w, c)
    \/ \E c \in Creds : DeleteCredential(c)
    \/ \E t \in Tokens : DeleteToken(t)

Spec == Init /\ [][Next]_vars

----------------------------------------------------------------------------

Reaching(r) == req[r].at \in {"fresh", "forwarding", "starting", "started", "sending", "waiting"}

\* An action goes on to another world only when the owner allowed its target and
\* scope at some time after it came (or the settings were being rewritten over
\* one another), and only if its token was still there when it was checked again.
TunnelObeysTheOwner ==
    \A r \in Requests : Reaching(r) => r \in lawful /\ r \notin doomed

\* What the owner decided last about a world's reach stands, and a deleted world
\* is in no allow-list that named it; unless two handlers held the world's row at
\* once (SetCrossWorldSettings writes lists that were read before), the decision
\* named a world that was being deleted, a write failed, or a pairing code was
\* exchanged that had been approved before the decision.
ReachIsAsDecided ==
    \A w \in Worlds : row[w].known =>
        \/ Reach(row[w]) = wish[w] \/ w \in torn
        \/ Cleaning # {}

\* A seed token in the database belongs to a launch under way or one that
\* succeeded, or its revocation failed.
SeedsAreAccounted ==
    \A w \in Worlds : seed[w] = seeded[w] + stuck[w] + (IF launch[w].at = "launching" THEN 1 ELSE 0)

\* The requests that ended with a user to count them for.
Charged == {r \in Requests : req[r].at = "done" /\ req[r].user}

\* Every request of a known user is in one batch or in one summary.
EveryRequestIsCounted ==
    /\ counted = SumOver(Pairs, batch) + SumOver(Begun, [n \in Begun |-> notice[n].count]) + told + silenced
    /\ counted = Cardinality(Charged)
=============================================================================
