--------------------------- MODULE DashboardProofs ---------------------------
(***************************************************************************)
(* Theorems about the dashboard: what its admin session (AdminSessions),   *)
(* its account (Accounts), its payments and request counts (Billing) and   *)
(* its test runs and .env.test (AdminRuns) promise, for any tokens,        *)
(* attempts, threshold, jobs, keys, calls, events, loads, runs, watchers,  *)
(* buffer, savers and versions.  The parts come one after the other, each  *)
(* on the lemmas of those before it.                                       *)
(***************************************************************************)
EXTENDS AdminRuns, FiniteSetTheorems, SequenceTheorems, TLAPS

----------------------------------------------------------------------------
(* The admin session.                                                      *)
----------------------------------------------------------------------------

\* The attempts that are being compared are finitely many.
LEMMA ComparingIsFinite == IsFiniteSet(Comparing) /\ Cardinality(Comparing) \in Nat
<1>1. Comparing \subseteq Attempts
  BY DEF Comparing
<1>2. QED BY <1>1, AdminAssumption, FS_Subset, FS_CardinalityType

----------------------------------------------------------------------------
(* Types.                                                                  *)

LEMMA AdminTypeInit == AdminInit => AdminTypeOK
<1> SUFFICES ASSUME AdminInit PROVE AdminTypeOK
  OBVIOUS
<1>1. trusted \in BOOLEAN /\ locked \in BOOLEAN /\ signedOut \in BOOLEAN /\ crossed \in BOOLEAN
  BY DEF AdminInit
<1>2. /\ token \in [Tokens -> {"unused", "valid", "expired"}]
      /\ rootOf \in [Tokens -> Tokens]
      /\ attempt \in [Attempts -> {"new", "comparing", "done"}]
  BY DEF AdminInit
<1>3. /\ denied \subseteq Tokens /\ aged \subseteq Tokens /\ passing \subseteq Tokens
      /\ cookie \in Tokens \cup {None} /\ answers \subseteq Tokens \cup {None}
  BY DEF AdminInit
<1>4. failures \in Nat /\ excess \in Nat
  BY DEF AdminInit
<1>5. QED BY <1>1, <1>2, <1>3, <1>4 DEF AdminTypeOK

\* Who is compared when an attempt ends, and how many.
LEMMA OneComparedLess ==
  ASSUME AdminTypeOK, NEW a \in Attempts, attempt[a] = "comparing",
         attempt' = [attempt EXCEPT ![a] = "done"]
  PROVE  /\ Cardinality(Comparing) \in Nat \ {0}
         /\ Cardinality(Comparing') = Cardinality(Comparing) - 1
<1>1. a \in Comparing /\ Comparing' = Comparing \ {a}
  BY DEF Comparing, AdminTypeOK
<1>2. Cardinality(Comparing \ {a}) = Cardinality(Comparing) - 1
  BY <1>1, ComparingIsFinite, FS_RemoveElement
<1>3. Cardinality(Comparing) # 0
  BY <1>1, ComparingIsFinite, FS_EmptySet
<1>4. QED BY <1>1, <1>2, <1>3, ComparingIsFinite

LEMMA MintTypes ==
  ASSUME AdminTypeOK, NEW t \in Tokens, NEW root \in Tokens, Mint(t, root)
  PROVE  /\ token' \in [Tokens -> {"unused", "valid", "expired"}]
         /\ rootOf' \in [Tokens -> Tokens]
         /\ answers' \subseteq Tokens \cup {None}
BY DEF AdminTypeOK, Mint

LEMMA AdminTypeStep == AdminTypeOK /\ AdminNext => AdminTypeOK'
<1> SUFFICES ASSUME AdminTypeOK, AdminNext PROVE AdminTypeOK'
  OBVIOUS
<1> USE DEF AdminTypeOK, lockVars, tokenVars
<1>1. ASSUME NEW a \in Attempts, Attempt(a) PROVE AdminTypeOK'
  BY <1>1 DEF Attempt
<1>2. ASSUME NEW a \in Attempts, RecordFailure(a) PROVE AdminTypeOK'
  <2>0. Cardinality(Comparing) \in Nat \ {0}
    BY <1>2, OneComparedLess DEF RecordFailure
  <2>1. Cardinality(Comparing) - 1 \in Nat
    BY <2>0
  <2>2. failures' \in Nat /\ excess' \in Nat /\ locked' \in BOOLEAN
    BY <1>2, <2>1 DEF RecordFailure, Locks
  <2>3. attempt' \in [Attempts -> {"new", "comparing", "done"}] /\ UNCHANGED tokenVars
    BY <1>2 DEF RecordFailure
  <2>4. QED BY <2>2, <2>3
<1>3. ASSUME NEW a \in Attempts, NEW t \in Tokens, Admit(a, t) PROVE AdminTypeOK'
  <2>1. /\ UNCHANGED <<trusted, denied, aged, cookie, passing, signedOut, crossed>>
        /\ attempt' = [attempt EXCEPT ![a] = "done"]
    BY <1>3 DEF Admit
  <2>2. CASE UNCHANGED <<token, rootOf, answers, failures, locked, excess>>
    BY <2>1, <2>2
  <2>3. CASE Mint(t, t) /\ failures' = 0 /\ locked' = FALSE /\ excess' = 0
    <3>1. failures' \in Nat /\ excess' \in Nat /\ locked' \in BOOLEAN
      BY <2>3
    <3>2. QED BY <2>1, <2>3, <3>1, MintTypes
  <2>4. QED BY <1>3, <2>2, <2>3 DEF Admit
<1>4. ASSUME NEW t \in Tokens, Serve(t) PROVE AdminTypeOK'
  <2>1. UNCHANGED <<trusted, denied, aged, cookie, signedOut, crossed, lockVars>> /\ passing' \subseteq Tokens
    BY <1>4 DEF Serve
  <2>2. /\ token' \in [Tokens -> {"unused", "valid", "expired"}]
        /\ rootOf' \in [Tokens -> Tokens]
        /\ answers' \subseteq Tokens \cup {None}
    BY <1>4, MintTypes DEF Serve
  <2>3. QED BY <2>1, <2>2
<1>5. ASSUME NEW t \in Tokens, TokenExpires(t) \/ SessionAges(t) PROVE AdminTypeOK'
  BY <1>5 DEF TokenExpires, SessionAges
<1>6. ASSUME NEW x \in Tokens \cup {None}, Receive(x) PROVE AdminTypeOK'
  BY <1>6 DEF Receive
<1>7. CASE LockPasses
  BY <1>7 DEF LockPasses
<1>8. CASE RequireAdmin
  BY <1>8 DEF RequireAdmin, Parses
<1>9. CASE Logout
  BY <1>9 DEF Logout, Parses, DenyAdminJWT
<1>10. CASE Distrust
  BY <1>10 DEF Distrust
<1>11. QED
  BY <1>1, <1>2, <1>3, <1>4, <1>5, <1>6, <1>7, <1>8, <1>9, <1>10 DEF AdminNext

----------------------------------------------------------------------------
(* The lockout.                                                            *)

\* Below the lock the count is below the threshold; while it lasts, every guess that
\* is still being compared may add one, and excess has room for it.
LockSound ==
    /\ ~locked => failures < Threshold
    /\ locked => failures + Cardinality(Comparing) <= Threshold + excess

LEMMA LockInit == AdminInit => LockSound
BY AdminAssumption DEF AdminInit, LockSound

LEMMA LockStep == AdminTypeOK /\ LockSound /\ AdminNext => LockSound'
<1> SUFFICES ASSUME AdminTypeOK, LockSound, AdminNext PROVE LockSound'
  OBVIOUS
<1> USE AdminAssumption DEF LockSound
<1>1. ASSUME NEW a \in Attempts, Attempt(a) PROVE LockSound'
  BY <1>1 DEF Attempt
<1>2. ASSUME NEW a \in Attempts, RecordFailure(a) PROVE LockSound'
  <2>1. /\ Cardinality(Comparing) \in Nat \ {0}
        /\ Cardinality(Comparing') = Cardinality(Comparing) - 1
    BY <1>2, OneComparedLess DEF RecordFailure
  <2>2. failures \in Nat /\ excess \in Nat /\ Threshold \in Nat
    BY DEF AdminTypeOK
  <2>3. CASE locked
    <3>1. failures' = failures + 1 /\ excess' = excess /\ locked'
      BY <1>2, <2>3 DEF RecordFailure
    <3>2. failures + Cardinality(Comparing) <= Threshold + excess
      BY <2>3
    <3>3. failures' + Cardinality(Comparing') <= Threshold + excess'
      BY <2>1, <2>2, <3>1, <3>2
    <3>4. QED BY <3>1, <3>3
  <2>4. CASE ~locked /\ failures + 1 >= Threshold
    <3>1. failures' = failures + 1 /\ excess' = Cardinality(Comparing) - 1 /\ locked'
      BY <1>2, <2>4 DEF RecordFailure, Locks
    <3>2. failures < Threshold
      BY <2>4
    <3>3. failures' + Cardinality(Comparing') <= Threshold + excess'
      BY <2>1, <2>2, <3>1, <3>2
    <3>4. QED BY <3>1, <3>3
  <2>5. CASE ~locked /\ ~(failures + 1 >= Threshold)
    <3>1. failures' = failures + 1 /\ ~locked'
      BY <1>2, <2>5 DEF RecordFailure, Locks
    <3>2. failures' < Threshold
      BY <2>2, <2>5, <3>1
    <3>3. QED BY <3>1, <3>2
  <2>6. QED BY <2>3, <2>4, <2>5
<1>3. ASSUME NEW a \in Attempts, NEW t \in Tokens, Admit(a, t) PROVE LockSound'
  <2>1. /\ Cardinality(Comparing) \in Nat \ {0}
        /\ Cardinality(Comparing') = Cardinality(Comparing) - 1
    BY <1>3, OneComparedLess DEF Admit
  <2>2. \/ failures' = 0 /\ ~locked'
        \/ UNCHANGED <<failures, locked, excess>>
    BY <1>3 DEF Admit
  <2>3. failures \in Nat /\ excess \in Nat /\ Threshold \in Nat
    BY DEF AdminTypeOK
  <2>4. QED BY <2>1, <2>2, <2>3
<1>4. CASE LockPasses
  BY <1>4 DEF LockPasses
<1>5. CASE UNCHANGED lockVars
  BY <1>5 DEF lockVars, Comparing
<1>6. ASSUME NEW t \in Tokens, Serve(t) \/ TokenExpires(t) \/ SessionAges(t)
      PROVE  UNCHANGED lockVars
  BY <1>6 DEF Serve, TokenExpires, SessionAges
<1>7. ASSUME NEW x \in Tokens \cup {None}, Receive(x) PROVE UNCHANGED lockVars
  BY <1>7 DEF Receive
<1>8. CASE RequireAdmin \/ Logout \/ Distrust
  BY <1>5, <1>8 DEF RequireAdmin, Logout, Distrust
<1>9. QED BY <1>1, <1>2, <1>3, <1>4, <1>5, <1>6, <1>7, <1>8 DEF AdminNext

LEMMA LockBounds == AdminTypeOK /\ LockSound => GuessesAreBounded
<1> SUFFICES ASSUME AdminTypeOK, LockSound PROVE failures <= Threshold + excess
  BY DEF GuessesAreBounded
<1>1. failures \in Nat /\ excess \in Nat /\ Threshold \in Nat /\ locked \in BOOLEAN
  BY AdminAssumption DEF AdminTypeOK
<1>2. CASE locked
  BY <1>1, <1>2, ComparingIsFinite DEF LockSound
<1>3. CASE ~locked
  BY <1>1, <1>3 DEF LockSound
<1>4. QED BY <1>1, <1>2, <1>3
----------------------------------------------------------------------------
(* Logout.                                                                 *)

\* What the browser has, or will be given, was minted.
TokensMinted == \A t \in Tokens : (t = cookie \/ t \in answers) => token[t] # "unused"

\* A browser that is signed out has no usable cookie, no request inside the handlers
\* that could slide it forward, and is only sent the cookies of new logins.
SignedOutSound ==
    signedOut /\ ~crossed =>
        /\ cookie \in Tokens => token[cookie] = "expired" \/ cookie \in denied
        /\ passing = {}
        /\ \A t \in Tokens : t \in answers => rootOf[t] = t

BrowserSound == TokensMinted /\ SignedOutSound

LEMMA BrowserInit == AdminInit => BrowserSound
BY AdminAssumption DEF AdminInit, BrowserSound, TokensMinted, SignedOutSound

LEMMA BrowserHolds == AdminTypeOK /\ BrowserSound => LogoutHolds
BY DEF AdminTypeOK, BrowserSound, SignedOutSound, LogoutHolds, Parses

\* What minting adds to the answers: a token that was unused, and so neither in the
\* cookie nor in an answer.
LEMMA MintFresh ==
  ASSUME AdminTypeOK, TokensMinted, NEW t \in Tokens, NEW root \in Tokens, Mint(t, root),
         UNCHANGED cookie
  PROVE  /\ TokensMinted'
         /\ answers' = answers \cup {t} /\ rootOf'[t] = root
         /\ \A u \in Tokens : u = cookie \/ u \in answers =>
                rootOf'[u] = rootOf[u] /\ token'[u] = token[u]
<1>1. token[t] = "unused" /\ t # cookie /\ t \notin answers
  BY DEF Mint, First, TokensMinted
<1>2. /\ \A u \in Tokens : token'[u] = IF u = t THEN "valid" ELSE token[u]
      /\ \A u \in Tokens : rootOf'[u] = IF u = t THEN root ELSE rootOf[u]
      /\ answers' = answers \cup {t}
  BY DEF Mint, AdminTypeOK
<1>3. QED BY <1>1, <1>2 DEF TokensMinted

LEMMA BrowserStep == AdminTypeOK /\ BrowserSound /\ AdminNext => BrowserSound'
<1> SUFFICES ASSUME AdminTypeOK, BrowserSound, AdminNext PROVE BrowserSound'
  OBVIOUS
<1> USE DEF BrowserSound
<1>1. CASE UNCHANGED tokenVars
  BY <1>1 DEF tokenVars, TokensMinted, SignedOutSound
<1>2. ASSUME NEW a \in Attempts, Attempt(a) \/ RecordFailure(a) PROVE UNCHANGED tokenVars
  BY <1>2 DEF Attempt, RecordFailure
<1>3. ASSUME NEW a \in Attempts, NEW t \in Tokens, Admit(a, t) PROVE BrowserSound'
  <2>1. UNCHANGED <<denied, cookie, passing, signedOut, crossed>>
    BY <1>3 DEF Admit
  <2>2. CASE UNCHANGED <<token, rootOf, answers>>
    BY <2>1, <2>2 DEF TokensMinted, SignedOutSound
  <2>3. CASE Mint(t, t)
    BY <2>1, <2>3, MintFresh DEF SignedOutSound
  <2>4. QED BY <1>3, <2>2, <2>3 DEF Admit
<1>4. ASSUME NEW t \in Tokens, Serve(t) PROVE BrowserSound'
  <2>1. /\ UNCHANGED <<denied, cookie, signedOut, crossed>>
        /\ t \in passing
    BY <1>4 DEF Serve
  <2>2. SignedOutSound'
    BY <2>1 DEF SignedOutSound
  <2>3. CASE UNCHANGED <<token, rootOf, answers>>
    BY <2>1, <2>2, <2>3 DEF TokensMinted
  <2>4. CASE \E n \in Tokens : Mint(n, rootOf[t])
    <3>1. PICK n \in Tokens : Mint(n, rootOf[t])
      BY <2>4
    <3>2. rootOf[t] \in Tokens
      BY DEF AdminTypeOK
    <3>3. QED BY <2>1, <2>2, <3>1, <3>2, MintFresh
  <2>5. QED BY <1>4, <2>3, <2>4 DEF Serve
<1>5. ASSUME NEW t \in Tokens, TokenExpires(t) PROVE BrowserSound'
  <2>1. /\ \A u \in Tokens : token'[u] = IF u = t THEN "expired" ELSE token[u]
        /\ denied' = denied \ {t}
        /\ UNCHANGED <<rootOf, cookie, answers, passing, signedOut, crossed>>
    BY <1>5 DEF TokenExpires, AdminTypeOK
  <2>2. QED BY <2>1 DEF TokensMinted, SignedOutSound
<1>6. ASSUME NEW t \in Tokens, SessionAges(t) PROVE BrowserSound'
  BY <1>6 DEF SessionAges, TokensMinted, SignedOutSound
<1>7. ASSUME NEW x \in Tokens \cup {None}, Receive(x) PROVE BrowserSound'
  <2>1. /\ x \in answers /\ answers' = answers \ {x} /\ cookie' = x
        /\ signedOut' = (signedOut /\ (x = None \/ rootOf[x] # x))
        /\ UNCHANGED <<token, rootOf, denied, passing, crossed>>
    BY <1>7 DEF Receive
  <2>2. TokensMinted'
    BY <2>1 DEF TokensMinted
  <2>3. ASSUME signedOut', ~crossed' PROVE x = None
    BY <1>7, <2>1, <2>3 DEF SignedOutSound
  <2>4. None \notin Tokens
    BY AdminAssumption
  <2>5. SignedOutSound'
    BY <2>1, <2>3, <2>4 DEF SignedOutSound
  <2>6. QED BY <2>2, <2>5
<1>8. CASE RequireAdmin
  <2>1. /\ UNCHANGED <<token, rootOf, denied, cookie, signedOut, crossed>>
        /\ answers' \subseteq answers \cup {None}
        /\ Parses(cookie)
        /\ passing' = passing \/ ~IsDenied(cookie)
    BY <1>8 DEF RequireAdmin
  <2>2. None \notin Tokens
    BY AdminAssumption
  <2>3. TokensMinted'
    BY <2>1, <2>2 DEF TokensMinted
  <2>4. signedOut /\ ~crossed => IsDenied(cookie)
    BY <2>1 DEF SignedOutSound, Parses, IsDenied
  <2>5. \A t \in Tokens : t \in answers' => t \in answers
    BY <2>1, <2>2
  <2>6. SignedOutSound'
    BY <2>1, <2>4, <2>5 DEF SignedOutSound
  <2>7. QED BY <2>3, <2>6
<1>9. CASE Logout
  <2>1. /\ UNCHANGED <<token, rootOf, cookie, passing>>
        /\ answers' = answers \cup {None}
        /\ ~crossed' => cookie \in denied' /\ answers \cap Tokens = {} /\ passing = {}
    BY <1>9 DEF Logout, DenyAdminJWT
  <2>2. None \notin Tokens
    BY AdminAssumption
  <2>3. QED BY <2>1, <2>2 DEF TokensMinted, SignedOutSound
<1>10. CASE LockPasses
  BY <1>1, <1>10 DEF LockPasses
<1>11. CASE Distrust
  BY <1>11 DEF Distrust, TokensMinted, SignedOutSound
<1>12. QED
  BY <1>1, <1>2, <1>3, <1>4, <1>5, <1>6, <1>7, <1>8, <1>9, <1>10, <1>11 DEF AdminNext

----------------------------------------------------------------------------
(* The account and its billing.                                            *)
----------------------------------------------------------------------------

\* The rows of Users, and what a handler holds.
Rows == [password : Jobs \cup {None}, hash : Jobs \cup {None},
         verified : BOOLEAN, link : BOOLEAN, rotate : BOOLEAN, disabled : BOOLEAN,
         status : {"free", "incomplete", "past_due", "canceled", "active", "deleted"},
         sub : {"none"} \cup {EventOf[e].sub : e \in Events}, requests : Nat]

Kinds == OwnerKinds \cup AdminKinds \cup {"disable", "login", "forgot", "reset", "patch", "event", "none"}

JobRecords ==
    [at : {"new", "read", "written", "cleared", "signedOut", "done"}, kind : Kinds,
     row : Rows, of : Jobs \cup Keys \cup Events \cup {None}, to : {"none", "on", "off", "expired"}]

\* The handlers that write the whole row have read it before it was deleted.
Writers == OwnerKinds \cup AdminKinds \cup {"reset", "event"}
Sound(x) ==
    /\ x.kind = "event" => x.of \in Events
    /\ x.kind = "patch" => x.to \in {"on", "off", "expired"}
    /\ x.at \in {"new", "done"} => x.row = Deleted
    /\ x.at = "read" /\ x.kind \in Writers => x.row # Deleted

\* What every later proof needs to know of the row and the jobs.
Typed ==
    /\ row \in Rows
    /\ job \in [Jobs -> JobRecords]
    /\ \A j \in Jobs : Sound(job[j])

JobsAreTyped ==
    /\ job' \in [Jobs -> JobRecords]
    /\ \A j \in Jobs : Sound(job'[j])

LEMMA DeletedIsRow == Deleted \in Rows /\ \A v \in BOOLEAN : Registered(v) \in Rows
BY DEF Deleted, Registered, Rows

\* What a handler changes in a row leaves a row, and the columns it does not
\* decide as they were.
LEMMA EditIsRow ==
  ASSUME NEW j \in Jobs, NEW r \in Rows, Typed
  PROVE  Edit(j, r) \in Rows
<1>1. ChangePassword(j, r) \in Rows
  BY DEF Rows, ChangePassword
<1>2. Verify(r) \in Rows /\ Resend(r) \in Rows /\ Unverify(r) \in Rows /\ ForceRotation(r) \in Rows
  BY DEF Rows, Verify, Resend, Unverify, ForceRotation
<1>3. RegenerateKey(j, r) \in Rows /\ RotateKey(j, r) \in Rows
  BY DEF Rows, RegenerateKey, RotateKey
<1>4. QED BY <1>1, <1>2, <1>3 DEF Edit

\* One job at a time.
LEMMA StepIsTyped ==
  ASSUME Typed, NEW j \in Jobs,
         NEW at \in {"written", "cleared", "signedOut", "done"}, Step(j, at)
  PROVE  JobsAreTyped
<1>1. DoneJob \in JobRecords /\ NoJob \in JobRecords
  BY DeletedIsRow DEF DoneJob, NoJob, JobRecords, Kinds
<1>2. /\ [job[j] EXCEPT !.at = at] \in JobRecords
      /\ [job[j] EXCEPT !.at = at].kind = job[j].kind
      /\ [job[j] EXCEPT !.at = at].of = job[j].of
      /\ [job[j] EXCEPT !.at = at].to = job[j].to
      /\ [job[j] EXCEPT !.at = at].at = at
  BY DEF Typed, JobRecords
<1>3. Sound(DoneJob)
  BY DEF DoneJob, NoJob, Sound
<1>4. at # "done" => Sound([job[j] EXCEPT !.at = at])
  BY <1>2 DEF Typed, Sound
<1>5. QED BY <1>1, <1>2, <1>3, <1>4 DEF Step, Typed, JobsAreTyped

LEMMA EditKeeps ==
  ASSUME NEW j \in Jobs, NEW r \in Rows, Typed
  PROVE  /\ Edit(j, r).requests = r.requests
         /\ \A c \in Columns \ Decides(job[j].kind) : Edit(j, r)[c] = r[c]
<1>1. /\ Edit(j, r).requests = r.requests
      /\ Edit(j, r).status = r.status
      /\ Edit(j, r).disabled = r.disabled
  BY DEF Edit, Rows, ChangePassword, Verify, Resend, RegenerateKey, Unverify, ForceRotation, RotateKey
<1>2. "password" \notin Decides(job[j].kind) => Edit(j, r).password = r.password
  BY DEF Edit, Decides, Rows, ChangePassword, Verify, Resend, RegenerateKey, Unverify, ForceRotation, RotateKey
<1>3. "hash" \notin Decides(job[j].kind) => Edit(j, r).hash = r.hash
  BY DEF Edit, Decides, Rows, ChangePassword, Verify, Resend, RegenerateKey, Unverify, ForceRotation, RotateKey
<1>4. "verified" \notin Decides(job[j].kind) => Edit(j, r).verified = r.verified
  BY DEF Edit, Decides, Rows, ChangePassword, Verify, Resend, RegenerateKey, Unverify, ForceRotation, RotateKey
<1>5. "rotate" \notin Decides(job[j].kind) => Edit(j, r).rotate = r.rotate
  BY DEF Edit, Decides, Rows, ChangePassword, Verify, Resend, RegenerateKey, Unverify, ForceRotation, RotateKey
<1>6. QED BY <1>1, <1>2, <1>3, <1>4, <1>5 DEF Columns

LEMMA BilledIsRow ==
  ASSUME NEW r \in Rows, NEW e \in Events
  PROVE  /\ Billed(e, r) \in Rows
         /\ Billed(e, r).requests = r.requests
         /\ \A c \in Columns \ {"status"} : Billed(e, r)[c] = r[c]
<1>1. EventOf[e].type = "updated" => EventOf[e].status \in {"incomplete", "past_due", "canceled", "active"}
  BY BillingAssumption
<1>2. Billed(e, r) \in Rows
  BY <1>1 DEF Billed, Rows
<1>3. /\ Billed(e, r).requests = r.requests /\ Billed(e, r).password = r.password
      /\ Billed(e, r).hash = r.hash /\ Billed(e, r).verified = r.verified
      /\ Billed(e, r).rotate = r.rotate /\ Billed(e, r).disabled = r.disabled
  BY DEF Billed, Rows
<1>4. QED BY <1>2, <1>3 DEF Columns

LEMMA JobIsRow ==
  ASSUME Typed, NEW j \in Jobs
  PROVE  job[j].row \in Rows /\ job[j].kind \in Kinds /\ Update(job[j].row) \in Rows
BY DeletedIsRow DEF Typed, JobRecords, Update

LEMMA BeginIsTyped ==
  ASSUME Typed, NEW j \in Jobs, NEW kind \in Kinds, NEW r \in Rows,
         NEW of \in Jobs \cup Keys \cup Events \cup {None}, NEW to \in {"none", "on", "off", "expired"},
         Begin(j, kind, r, of, to),
         kind = "event" => of \in Events, kind = "patch" => to \in {"on", "off", "expired"}, kind \in Writers => r # Deleted
  PROVE  JobsAreTyped
<1>1. [at |-> "read", kind |-> kind, row |-> r, of |-> of, to |-> to] \in JobRecords
  BY DEF JobRecords
<1>2. Sound([at |-> "read", kind |-> kind, row |-> r, of |-> of, to |-> to])
  BY DEF Sound
<1>3. QED BY <1>1, <1>2 DEF Begin, Typed, JobsAreTyped

LEMMA TypedInit == Init => Typed
<1>1. NoJob \in JobRecords /\ Sound(NoJob)
  BY DeletedIsRow DEF NoJob, JobRecords, Kinds, Sound
<1>2. QED BY <1>1, DeletedIsRow DEF Init, AccountInit, Typed

\* The steps that leave the row and the jobs alone.
Aside ==
    \/ \E j \in Jobs : ResetExpires(j)
    \/ \E s \in sessions : SessionEnds(s)
    \/ \E k \in Keys : CreateKey(k) \/ RetireKey(k) \/ KeyExpires(k) \/ EntryExpires(k)
    \/ \E a \in Calls, k \in Keys : CacheHit(a, k) \/ FindKey(a, k)
    \/ \E a \in Calls : FindParent(a) \/ SetCached(a)

LEMMA AsideKeeps == Aside => UNCHANGED <<row, job>>
BY DEF Aside, ResetExpires, SessionEnds, CreateKey, RetireKey, KeyExpires, EntryExpires, CacheHit, FindKey,
       FindParent, SetCached, tables

----------------------------------------------------------------------------
(* The keys, the cache and the calls.                                      *)

CallRecords ==
    [at : {"new", "found", "checked", "admitted", "served", "refused"},
     key : Keys \cup {None}, seen : Rows]

\* A call that was looked up knows its key, one that was let in its row.
CallSound(c) ==
    /\ c.at \in {"found", "checked"} => c.key \in Keys
    /\ c.at \in {"checked", "admitted"} => c.seen # Deleted

CacheTyped ==
    /\ key \in [Keys -> {"absent", "on", "off", "expired", "gone"}]
    /\ cached \in [Keys -> Rows]
    /\ call \in [Calls -> CallRecords]
    /\ \A a \in Calls : CallSound(call[a])

LEMMA SeenIsTyped == NoEntry \in Rows
BY DeletedIsRow DEF NoEntry

LEMMA CallIsTyped ==
  ASSUME CacheTyped, NEW a \in Calls, NEW c \in CallRecords, CallStep(a, c), CallSound(c)
  PROVE  /\ call' \in [Calls -> CallRecords]
         /\ \A b \in Calls : CallSound(call'[b])
BY DEF CacheTyped, CallStep

\* The calls that end, or are answered from the cache.
LEMMA OverIsTyped ==
  /\ NoCall \in CallRecords /\ Refused \in CallRecords
  /\ Refused.at = "refused" /\ NoCall.at = "new" /\ Refused.seen = Deleted
  /\ [NoCall EXCEPT !.at = "served"].seen = Deleted
  /\ CallSound(NoCall) /\ CallSound(Refused)
  /\ [NoCall EXCEPT !.at = "served"] \in CallRecords
  /\ [NoCall EXCEPT !.at = "served"].at = "served" /\ CallSound([NoCall EXCEPT !.at = "served"])
  /\ \A s \in Rows \ {Deleted} :
        /\ [NoCall EXCEPT !.at = "admitted", !.seen = s] \in CallRecords
        /\ [NoCall EXCEPT !.at = "admitted", !.seen = s].at = "admitted"
        /\ [NoCall EXCEPT !.at = "admitted", !.seen = s].seen = s
        /\ CallSound([NoCall EXCEPT !.at = "admitted", !.seen = s])
BY SeenIsTyped DEF NoCall, NoEntry, Refused, CallRecords, CallSound

LEMMA CacheStartsTyped == Init => CacheTyped
<1> SUFFICES ASSUME Init PROVE CacheTyped
  OBVIOUS
<1>1. /\ key = [k \in Keys |-> "absent"] /\ cached = [k \in Keys |-> NoEntry]
      /\ call = [a \in Calls |-> NoCall]
  BY DEF Init, AccountInit
<1>2. NoCall \in CallRecords /\ CallSound(NoCall)
  BY OverIsTyped
<1>3. NoEntry \in Rows
  BY SeenIsTyped
<1>4. QED BY <1>1, <1>2, <1>3 DEF CacheTyped

LEMMA FoundIsTyped ==
  ASSUME NEW k \in Keys
  PROVE  /\ [NoCall EXCEPT !.at = "found", !.key = k] \in CallRecords
         /\ [NoCall EXCEPT !.at = "found", !.key = k].at = "found"
         /\ [NoCall EXCEPT !.at = "found", !.key = k].key = k
         /\ [NoCall EXCEPT !.at = "found", !.key = k].seen = Deleted
         /\ CallSound([NoCall EXCEPT !.at = "found", !.key = k])
BY SeenIsTyped DEF NoCall, NoEntry, CallRecords, CallSound

LEMMA CheckedIsTyped ==
  ASSUME CacheTyped, NEW a \in Calls, call[a].key \in Keys, NEW s \in Rows \ {Deleted}
  PROVE  /\ [call[a] EXCEPT !.at = "checked", !.seen = s] \in CallRecords
         /\ [call[a] EXCEPT !.at = "checked", !.seen = s].at = "checked"
         /\ [call[a] EXCEPT !.at = "checked", !.seen = s].key = call[a].key
         /\ [call[a] EXCEPT !.at = "checked", !.seen = s].seen = s
         /\ CallSound([call[a] EXCEPT !.at = "checked", !.seen = s])
BY DEF CallRecords, CacheTyped, CallSound

LEMMA CacheTypedAccountStep == Typed /\ CacheTyped /\ AccountNext => CacheTyped'
<1> SUFFICES ASSUME Typed, CacheTyped, AccountNext PROVE CacheTyped'
  OBVIOUS
<1>2. ASSUME NEW j \in Jobs, WriteRow(j) \/ WriteFails(j) \/ (\E done \in BOOLEAN : DropSessions(j, done)) \/ Login(j) \/ Reset(j)
                             \/ StartLogin(j) \/ Forgot(j) \/ ResetExpires(j)
      PROVE  UNCHANGED <<cached, call, key>>
  BY <1>2 DEF WriteRow, WriteFails, DropSessions, Login, Reset, StartLogin, Begin, Forgot,
              ResetExpires, tables
<1>3. ASSUME NEW j \in Jobs, NEW kind \in OwnerKinds \cup AdminKinds, ReadRow(j, kind)
      PROVE  UNCHANGED <<cached, call, key>>
  BY <1>3 DEF ReadRow, Begin, tables
<1>4. ASSUME NEW j \in Jobs, (\E done \in BOOLEAN : DropKeys(j, done)) \/ Remove(j) PROVE CacheTyped'
  <2>1. /\ UNCHANGED <<cached, call>>
        /\ \E done \in BOOLEAN : key' = [k \in Keys |-> IF done /\ k \in Existing THEN "gone" ELSE key[k]]
    BY <1>4 DEF DropKeys, Remove
  <2>2. QED BY <2>1 DEF CacheTyped
<1>5. ASSUME NEW j \in Jobs, ClearCache(j) PROVE CacheTyped'
  <2>1. UNCHANGED <<call, key>> /\ cached' = [k \in Keys |-> NoEntry]
    BY <1>5 DEF ClearCache, NoEntries, tables
  <2>2. QED BY <2>1, SeenIsTyped DEF CacheTyped
<1>6. ASSUME NEW j \in Jobs, NEW to \in {"on", "off", "expired"}, PatchKey(j, to) PROVE CacheTyped'
  BY <1>6 DEF PatchKey, CacheTyped
<1>7. ASSUME NEW j \in Jobs, NEW disabled \in BOOLEAN, SetDisabled(j, disabled)
      PROVE  UNCHANGED <<cached, call, key>>
  BY <1>7 DEF SetDisabled
<1>8. ASSUME NEW j \in Jobs, NEW f \in Jobs, StartReset(j, f) PROVE UNCHANGED <<cached, call, key>>
  BY <1>8 DEF StartReset, Begin, tables
<1>9. ASSUME NEW j \in Jobs, NEW k \in Keys, NEW to \in {"on", "off", "expired"}, StartPatch(j, k, to)
      PROVE  UNCHANGED <<cached, call, key>>
  BY <1>9 DEF StartPatch, Begin, tables
<1>10. ASSUME NEW s \in sessions, SessionEnds(s) PROVE UNCHANGED <<cached, call, key>>
  BY <1>10 DEF SessionEnds
<1>11. ASSUME NEW k \in Keys, CreateKey(k) \/ RetireKey(k) \/ KeyExpires(k) PROVE CacheTyped'
  BY <1>11 DEF CreateKey, RetireKey, KeyExpires, CacheTyped
<1>12. ASSUME NEW k \in Keys, EntryExpires(k) PROVE CacheTyped'
  <2>1. UNCHANGED <<call, key>> /\ cached' = [cached EXCEPT ![k] = NoEntry]
    BY <1>12 DEF EntryExpires, tables
  <2>2. QED BY <2>1, SeenIsTyped DEF CacheTyped
<1>13. ASSUME NEW a \in Calls, NEW k \in Keys, CacheHit(a, k) PROVE CacheTyped'
  <2>1. UNCHANGED <<cached, key>> /\ CallStep(a, [NoCall EXCEPT !.at = "admitted", !.seen = cached[k]])
    BY <1>13 DEF CacheHit, tables
  <2>2. cached[k] \in Rows \ {Deleted}
    BY <1>13 DEF CacheHit, NoEntry, CacheTyped
  <2>3. QED BY <2>1, <2>2, OverIsTyped, CallIsTyped DEF CacheTyped
<1>14. ASSUME NEW a \in Calls, NEW k \in Keys, FindKey(a, k) PROVE CacheTyped'
  <2>1. /\ UNCHANGED <<cached, key>>
        /\ CallStep(a, IF key[k] = "on" THEN [NoCall EXCEPT !.at = "found", !.key = k] ELSE Refused)
    BY <1>14 DEF FindKey, tables
  <2>2. NoEntry \in Rows
    BY SeenIsTyped
  <2>3. CASE key[k] = "on"
    BY <2>1, <2>2, <2>3, FoundIsTyped, CallIsTyped DEF CacheTyped
  <2>4. CASE key[k] # "on"
    BY <2>1, <2>4, OverIsTyped, CallIsTyped DEF CacheTyped
  <2>5. QED BY <2>3, <2>4
<1>15. ASSUME NEW a \in Calls, FindParent(a) PROVE CacheTyped'
  <2>1. /\ UNCHANGED <<cached, key>> /\ call[a].key \in Keys
        /\ \/ row # Deleted /\ CallStep(a, [call[a] EXCEPT !.at = "checked", !.seen = row])
           \/ CallStep(a, Refused)
    BY <1>15 DEF FindParent, tables, CacheTyped, CallSound
  <2>2. row \in Rows
    BY DEF Typed
  <2>3. CASE CallStep(a, Refused)
    BY <2>1, <2>3, OverIsTyped, CallIsTyped DEF CacheTyped
  <2>4. CASE row # Deleted /\ CallStep(a, [call[a] EXCEPT !.at = "checked", !.seen = row])
    BY <2>1, <2>2, <2>4, CheckedIsTyped, CallIsTyped DEF CacheTyped
  <2>5. QED BY <2>1, <2>3, <2>4
<1>16. ASSUME NEW a \in Calls, SetCached(a) PROVE CacheTyped'
  <2>1. /\ key' = key /\ cached' = [cached EXCEPT ![call[a].key] = call[a].seen]
        /\ \/ CallStep(a, [NoCall EXCEPT !.at = "admitted", !.seen = call[a].seen])
           \/ CallStep(a, Refused)
    BY <1>16 DEF SetCached, tables
  <2>2. call[a].seen \in Rows \ {Deleted}
    BY <1>16 DEF SetCached, CacheTyped, CallRecords, CallSound
  <2>3. cached' \in [Keys -> Rows]
    BY <2>1, <2>2 DEF CacheTyped
  <2>4. /\ call' \in [Calls -> CallRecords]
        /\ \A b \in Calls : CallSound(call'[b])
    BY <2>1, <2>2, OverIsTyped, CallIsTyped
  <2>5. QED BY <2>1, <2>3, <2>4 DEF CacheTyped
<1>17. ASSUME NEW j \in Jobs, NEW a \in Calls, Checkout(j, a) PROVE CacheTyped'
  <2>1. UNCHANGED <<cached, key>> /\ CallStep(a, [NoCall EXCEPT !.at = "served"])
    BY <1>17 DEF Checkout, CallStep, tables
  <2>2. QED BY <2>1, OverIsTyped, CallIsTyped DEF CacheTyped
<1>18. CASE UNCHANGED <<cached, call, key>>
  BY <1>18 DEF CacheTyped
<1>19. QED
  BY <1>2, <1>3, <1>4, <1>5, <1>6, <1>7, <1>8, <1>9, <1>10, <1>11, <1>12, <1>13, <1>14, <1>15,
     <1>16, <1>17, <1>18
  DEF AccountNext

\* A checkout works on the row that a call was let in with.
LEMMA CheckoutBegins ==
  ASSUME Typed, CacheTyped, NEW j \in Jobs, NEW a \in Calls, Checkout(j, a)
  PROVE  /\ job[j].at = "new" /\ job'[j].at = "read" /\ job'[j].kind = "checkout"
         /\ job'[j].row = call[a].seen
         /\ call[a].seen \in Rows \ {Deleted}
         /\ \A l \in Jobs \ {j} : job'[l] = job[l]
         /\ JobsAreTyped
<1>1. call[a].seen \in Rows \ {Deleted}
  BY DEF Checkout, CacheTyped, CallRecords, CallSound
<1> DEFINE x == [NoJob EXCEPT !.at = "read", !.kind = "checkout", !.row = call[a].seen]
<1>2. /\ x \in JobRecords /\ x.at = "read" /\ x.kind = "checkout" /\ x.row = call[a].seen
      /\ Sound(x)
  BY <1>1, DeletedIsRow DEF NoJob, JobRecords, Kinds, OwnerKinds, Sound
<1>3. job[j].at = "new" /\ job' = [job EXCEPT ![j] = x]
  BY DEF Checkout, MayStart, First
<1> HIDE DEF x
<1>4. job'[j] = x /\ \A l \in Jobs \ {j} : job'[l] = job[l]
  BY <1>3 DEF Typed
<1>5. JobsAreTyped
  BY <1>2, <1>3 DEF Typed, JobsAreTyped
<1>6. QED BY <1>1, <1>2, <1>3, <1>4, <1>5

LEMMA TypedAccountStep == Typed /\ CacheTyped /\ AccountNext => Typed'
<1> SUFFICES ASSUME Typed, CacheTyped, AccountNext PROVE Typed'
  OBVIOUS
<1>1. ASSUME NEW j \in Jobs, NEW kind \in OwnerKinds \cup AdminKinds, ReadRow(j, kind)
      PROVE  Typed'
  <2>1. /\ row \in Rows /\ kind \in Kinds /\ kind \notin {"event", "patch"}
        /\ row' = row /\ row # Deleted /\ Begin(j, kind, row, None, "none")
    BY <1>1 DEF ReadRow, Begin, Typed, Kinds, tables, OwnerKinds, AdminKinds
  <2>2. QED BY <2>1, BeginIsTyped DEF JobsAreTyped, Typed
<1>2. ASSUME NEW j \in Jobs, WriteRow(j) PROVE Typed'
  <2>1. Edit(j, job[j].row) \in Rows
    BY JobIsRow, EditIsRow
  <2>2. row' \in Rows
    BY <1>2, <2>1, DeletedIsRow DEF WriteRow, Update
  <2>3. \E at \in {"written", "done"} : Step(j, at)
    BY <1>2 DEF WriteRow
  <2>4. QED BY <2>2, <2>3, StepIsTyped DEF JobsAreTyped, Typed
<1>3. ASSUME NEW j \in Jobs, WriteFails(j) \/ (\E done \in BOOLEAN : DropSessions(j, done) \/ DropKeys(j, done)) \/ Login(j) \/ (\E to \in {"on", "off", "expired"} : PatchKey(j, to))
      PROVE  Typed'
  <2>1. row' = row /\ \E at \in {"signedOut", "done"} : Step(j, at)
    BY <1>3 DEF WriteFails, DropSessions, DropKeys, Login, PatchKey, tables
  <2>2. QED BY <2>1, StepIsTyped DEF JobsAreTyped, Typed
<1>4. ASSUME NEW j \in Jobs, ClearCache(j) PROVE Typed'
  <2>1. row' = row /\ \E at \in {"cleared", "done"} : Step(j, at)
    BY <1>4 DEF ClearCache, tables
  <2>2. QED BY <2>1, StepIsTyped DEF JobsAreTyped, Typed
<1>5. ASSUME NEW j \in Jobs, Remove(j) PROVE Typed'
  <2>1. row' = Deleted /\ \E at \in {"written", "done"} : Step(j, at)
    BY <1>5 DEF Remove
  <2>2. QED BY <2>1, StepIsTyped, DeletedIsRow DEF JobsAreTyped, Typed
<1>6. ASSUME NEW j \in Jobs, StartLogin(j) PROVE Typed'
  <2>1. row' = row /\ Begin(j, "login", Deleted, None, "none")
    BY <1>6 DEF StartLogin, Begin, tables
  <2>2. QED BY <2>1, DeletedIsRow, BeginIsTyped DEF JobsAreTyped, Typed, Kinds, Writers, OwnerKinds, AdminKinds
<1>7. ASSUME NEW j \in Jobs, Forgot(j) PROVE Typed'
  <2>1. row' = row
    BY <1>7 DEF Forgot, Begin, tables
  <2>2. \/ Begin(j, "forgot", Deleted, None, "none") \/ Step(j, "done") \/ UNCHANGED job
    BY <1>7 DEF Forgot
  <2>3. QED
    BY <2>1, <2>2, DeletedIsRow, BeginIsTyped, StepIsTyped
    DEF JobsAreTyped, Typed, Kinds, Writers, OwnerKinds, AdminKinds
<1>8. ASSUME NEW j \in Jobs, Reset(j) PROVE Typed'
  <2>1. Edit(j, job[j].row) \in Rows
    BY JobIsRow, EditIsRow
  <2>2. row' \in Rows /\ Step(j, "done")
    BY <1>8, <2>1, DeletedIsRow DEF Reset, Update
  <2>3. QED BY <2>2, StepIsTyped DEF JobsAreTyped, Typed
<1>9. ASSUME NEW j \in Jobs, NEW disabled \in BOOLEAN, SetDisabled(j, disabled) PROVE Typed'
  <2>1. [row EXCEPT !.disabled = disabled] \in Rows
    BY DEF Typed, Rows
  <2>2. /\ DoneJob \in JobRecords /\ [NoJob EXCEPT !.at = "written", !.kind = "disable"] \in JobRecords
        /\ Sound(DoneJob) /\ Sound([NoJob EXCEPT !.at = "written", !.kind = "disable"])
    BY DeletedIsRow DEF DoneJob, NoJob, JobRecords, Kinds, Sound
  <2>3. QED BY <1>9, <2>1, <2>2 DEF SetDisabled, Typed
<1>10. ASSUME NEW j \in Jobs, NEW f \in Jobs, StartReset(j, f) PROVE Typed'
  <2>1. row \in Rows /\ row # Deleted /\ row' = row /\ Begin(j, "reset", row, f, "none")
    BY <1>10 DEF StartReset, Begin, Typed, tables
  <2>2. QED BY <2>1, BeginIsTyped DEF JobsAreTyped, Typed, Kinds, Writers, OwnerKinds, AdminKinds
<1>11. ASSUME NEW j \in Jobs, NEW k \in Keys, NEW to \in {"on", "off", "expired"}, StartPatch(j, k, to)
       PROVE  Typed'
  <2>1. row' = row /\ Begin(j, "patch", Deleted, k, to)
    BY <1>11 DEF StartPatch, Begin, tables
  <2>2. "patch" \in Kinds /\ k \in Jobs \cup Keys \cup Events \cup {None} /\ to \in {"none", "on", "off", "expired"}
    BY DEF Kinds
  <2>3. JobsAreTyped
    BY <2>1, <2>2, DeletedIsRow, BeginIsTyped DEF Writers, OwnerKinds, AdminKinds
  <2>4. QED BY <2>1, <2>3 DEF JobsAreTyped, Typed
<1>12. CASE Aside
  BY <1>12, AsideKeeps DEF Typed
<1>13. ASSUME NEW j \in Jobs, NEW a \in Calls, Checkout(j, a) PROVE Typed'
  <2>1. row' = row /\ JobsAreTyped
    BY <1>13, CheckoutBegins DEF Checkout, tables
  <2>2. QED BY <2>1 DEF JobsAreTyped, Typed
<1>14. QED
  BY <1>1, <1>2, <1>3, <1>4, <1>5, <1>6, <1>7, <1>8, <1>9, <1>10, <1>11, <1>12, <1>13
  DEF AccountNext, Aside

\* The steps of Billing that leave the row and the jobs alone.
Apart ==
    \/ AdminStep \/ AdminIsIn \/ Forget \/ TakeCounts
    \/ \E a \in Calls : TrackAPIUsage(a)

LEMMA ApartKeeps == Apart => UNCHANGED <<row, job>>
BY DEF Apart, AdminStep, AdminIsIn, Forget, TakeCounts, TrackAPIUsage, accountVars, tables

\* The counts that are not yet in the row.
Counting == pending \in Nat /\ flying \in Nat

LEMMA CountingStep == Counting /\ [Next]_vars => Counting'
<1>1. ASSUME NEW j \in Jobs, NEW e \in Events, Webhook(j, e) PROVE UNCHANGED countVars
  BY <1>1 DEF Webhook
<1>2. ASSUME NEW j \in Jobs, EventHandled(j) \/ EventFails(j) PROVE UNCHANGED <<pending, flying>>
  BY <1>2 DEF EventHandled, EventFails, countVars
<1>3. CASE AccountStep \/ AdminStep \/ AdminIsIn \/ Forget \/ MonthlyReset
  BY <1>3 DEF AccountStep, AdminStep, AdminIsIn, Forget, MonthlyReset, countVars, Counting
<1>4. ASSUME Counting, TakeCounts \/ (\E stored \in BOOLEAN : AddCounts(stored)) \/ UNCHANGED vars
      PROVE  Counting'
  BY <1>4 DEF TakeCounts, AddCounts, Uncounted, vars, countVars, Counting
<1>5. ASSUME Counting, NEW a \in Calls, TrackAPIUsage(a) PROVE Counting'
  BY <1>5 DEF TrackAPIUsage, Counting
<1>6. QED BY <1>1, <1>2, <1>3, <1>4, <1>5 DEF Next, Counting, countVars

LEMMA TypedStep == Typed /\ CacheTyped /\ Counting /\ [Next]_vars => Typed'
<1> SUFFICES ASSUME Typed, CacheTyped, Counting, [Next]_vars PROVE Typed'
  OBVIOUS
<1>1. CASE AccountStep
  BY <1>1, TypedAccountStep DEF AccountStep
<1>2. CASE Apart \/ UNCHANGED vars
  BY <1>2, ApartKeeps DEF vars, accountVars, tables, Typed
<1>3. ASSUME NEW j \in Jobs, NEW e \in Events, Webhook(j, e) PROVE Typed'
  <2>1. CASE UNCHANGED accountVars
    BY <2>1 DEF accountVars, tables, Typed
  <2>2. CASE row # Deleted /\ Begin(j, "event", row, e, "none")
    <3>1. row' = row /\ row \in Rows
      BY <2>2 DEF Begin, tables, Typed
    <3>2. QED BY <2>2, <3>1, BeginIsTyped DEF JobsAreTyped, Typed, Kinds
  <2>3. QED BY <1>3, <2>1, <2>2 DEF Webhook
<1>4. ASSUME NEW j \in Jobs, EventHandled(j) PROVE Typed'
  <2>1. Step(j, "done") /\ j \in Handling /\ row' \in {row, Update(Billed(job[j].of, job[j].row))}
    BY <1>4 DEF EventHandled
  <2>2. job[j].of \in Events
    BY <2>1 DEF Handling, Typed, Sound
  <2>3. Billed(job[j].of, job[j].row) \in Rows
    BY <2>2, JobIsRow, BilledIsRow
  <2>4. row' \in Rows
    BY <2>1, <2>3, DeletedIsRow DEF Typed, Update
  <2>5. QED BY <2>1, <2>4, StepIsTyped DEF JobsAreTyped, Typed
<1>5. ASSUME NEW j \in Jobs, EventFails(j) PROVE Typed'
  <2>1. row' = row /\ Step(j, "done")
    BY <1>5 DEF EventFails, tables
  <2>2. QED BY <2>1, StepIsTyped DEF JobsAreTyped, Typed
<1>6. CASE MonthlyReset
  <2>1. [row EXCEPT !.requests = 0] \in Rows
    BY DEF Typed, Rows
  <2>2. QED BY <1>6, <2>1 DEF MonthlyReset, Typed
<1>7. ASSUME NEW stored \in BOOLEAN, AddCounts(stored) PROVE Typed'
  <2>1. [row EXCEPT !.requests = @ + flying] \in Rows
    BY DEF Typed, Rows, Counting
  <2>2. QED BY <1>7, <2>1 DEF AddCounts, Typed
<1>8. QED
  BY <1>1, <1>2, <1>3, <1>4, <1>5, <1>6, <1>7 DEF Next, Apart

LEMMA CacheTypedStep == Typed /\ CacheTyped /\ [Next]_vars => CacheTyped'
<1> SUFFICES ASSUME Typed, CacheTyped, [Next]_vars PROVE CacheTyped'
  OBVIOUS
<1>1. CASE AccountStep
  BY <1>1, CacheTypedAccountStep DEF AccountStep
<1>2. CASE UNCHANGED <<cached, call, key>>
  BY <1>2 DEF CacheTyped
<1>3. CASE AdminStep \/ AdminIsIn \/ Forget \/ TakeCounts \/ UNCHANGED vars
  BY <1>2, <1>3 DEF AdminStep, AdminIsIn, Forget, TakeCounts, vars, accountVars, tables
<1>4. CASE MonthlyReset \/ \E stored \in BOOLEAN : AddCounts(stored)
  BY <1>2, <1>4 DEF MonthlyReset, AddCounts
<1>5. ASSUME NEW j \in Jobs, NEW e \in Events, Webhook(j, e) PROVE CacheTyped'
  BY <1>2, <1>5 DEF Webhook, Begin, accountVars, tables
<1>6. ASSUME NEW j \in Jobs, EventHandled(j) \/ EventFails(j) PROVE CacheTyped'
  BY <1>2, <1>6 DEF EventHandled, EventFails, tables
<1>7. ASSUME NEW a \in Calls, TrackAPIUsage(a) PROVE CacheTyped'
  <2>1. /\ UNCHANGED <<cached, key>>
        /\ CallStep(a, Refused) \/ CallStep(a, [NoCall EXCEPT !.at = "served"])
    BY <1>7 DEF TrackAPIUsage, tables
  <2>2. QED BY <2>1, OverIsTyped, CallIsTyped DEF CacheTyped
<1>8. QED BY <1>1, <1>2, <1>3, <1>4, <1>5, <1>6, <1>7 DEF Next

\* The row, the jobs, the cache, the calls and the counts have their types in every
\* reachable state.
LEMMA AlwaysTyped == Spec => [](Typed /\ Counting /\ CacheTyped)
<1>1. Init => Counting
  BY DEF Init, Counting
<1>2. Init => Typed
  BY TypedInit
<1>3. Init => CacheTyped
  BY CacheStartsTyped
<1>4. Typed /\ Counting /\ CacheTyped /\ [Next]_vars => Typed' /\ Counting' /\ CacheTyped'
  BY TypedStep, CountingStep, CacheTypedStep
<1>5. QED BY <1>1, <1>2, <1>3, <1>4, PTL DEF Spec

----------------------------------------------------------------------------
(* Webhooks.                                                               *)

\* The jobs of the webhooks go on as they were.
SameHandling == \A j \in Jobs :
    /\ j \in Handling' <=> j \in Handling
    /\ j \in Handling => job'[j].of = job[j].of

\* A job that is none of a webhook's before, and takes a step or begins as another.
LEMMA OtherJob ==
  ASSUME Typed, NEW j \in Jobs, j \notin Handling, job'[j].at # "read" \/ job'[j].kind # "event",
         \A l \in Jobs \ {j} : job'[l] = job[l]
  PROVE  SameHandling
BY DEF SameHandling, Handling

LEMMA OtherStep ==
  ASSUME Typed, NEW j \in Jobs, j \notin Handling,
         NEW at \in {"written", "cleared", "signedOut", "done"}, Step(j, at)
  PROVE  SameHandling
<1>1. DoneJob.at = "done" /\ [job[j] EXCEPT !.at = at].at = at
  BY DEF DoneJob, NoJob, Typed, JobRecords
<1>2. job'[j].at = at /\ \A l \in Jobs \ {j} : job'[l] = job[l]
  BY <1>1 DEF Step, Typed
<1>3. QED BY <1>2, OtherJob

LEMMA OtherBegins ==
  ASSUME Typed, NEW j \in Jobs, NEW kind \in Kinds \ {"event"}, NEW r, NEW of, NEW to,
         Begin(j, kind, r, of, to)
  PROVE  SameHandling
<1>1. /\ job'[j].kind = kind /\ job[j].at = "new"
      /\ \A l \in Jobs \ {j} : job'[l] = job[l]
  BY DEF Begin, Typed, MayStart, First
<1>2. j \notin Handling
  BY <1>1 DEF Handling
<1>3. QED BY <1>1, <1>2, OtherJob

LEMMA AccountsHandleNoEvent == Typed /\ CacheTyped /\ AccountNext => SameHandling
<1> SUFFICES ASSUME Typed, CacheTyped, AccountNext PROVE SameHandling
  OBVIOUS
<1>0. "event" \notin OwnerKinds \cup AdminKinds /\ OwnerKinds \cup AdminKinds \subseteq Kinds
  BY DEF OwnerKinds, AdminKinds, Kinds
<1>1. ASSUME NEW j \in Jobs, NEW kind \in OwnerKinds \cup AdminKinds, ReadRow(j, kind)
      PROVE  SameHandling
  BY <1>0, <1>1, OtherBegins DEF ReadRow
<1>2. ASSUME NEW j \in Jobs, WriteRow(j) \/ WriteFails(j) \/ ClearCache(j) \/ (\E done \in BOOLEAN : DropSessions(j, done) \/ DropKeys(j, done))
                             \/ Login(j) \/ Reset(j) \/ (\E to \in {"on", "off", "expired"} : PatchKey(j, to))
      PROVE  SameHandling
  <2>1. j \notin Handling
    BY <1>0, <1>2 DEF WriteRow, WriteFails, ClearCache, DropSessions, DropKeys, Login, LoggingIn,
                      Reset, PatchKey, Handling
  <2>2. \E at \in {"written", "cleared", "signedOut", "done"} : Step(j, at)
    BY <1>2 DEF WriteRow, WriteFails, ClearCache, DropSessions, DropKeys, Login, Reset, PatchKey
  <2>3. QED BY <2>1, <2>2, OtherStep
<1>3. ASSUME NEW j \in Jobs, Remove(j) PROVE SameHandling
  <2>1. j \notin Handling
    BY <1>3 DEF Remove, Handling, MayStart, First
  <2>2. \E at \in {"written", "done"} : Step(j, at)
    BY <1>3 DEF Remove
  <2>3. QED BY <2>1, <2>2, OtherStep
<1>4. ASSUME NEW j \in Jobs, StartLogin(j) PROVE SameHandling
  BY <1>4, OtherBegins DEF StartLogin, Kinds
<1>5. ASSUME NEW j \in Jobs, Forgot(j) PROVE SameHandling
  <2>1. CASE Begin(j, "forgot", Deleted, None, "none")
    BY <2>1, OtherBegins DEF Kinds
  <2>2. CASE UNCHANGED job
    BY <2>2 DEF SameHandling, Handling
  <2>3. CASE job[j].at = "read" /\ reset[j] = "invalidated" /\ Step(j, "done") /\ job[j].kind # "event"
    BY <2>3, OtherStep DEF Handling
  <2>4. QED BY <1>5, <2>1, <2>2, <2>3 DEF Forgot
<1>6. ASSUME NEW j \in Jobs, NEW disabled \in BOOLEAN, SetDisabled(j, disabled) PROVE SameHandling
  <2>1. DoneJob.at = "done" /\ [NoJob EXCEPT !.at = "written", !.kind = "disable"].at = "written"
    BY DEF DoneJob, NoJob
  <2>2. j \notin Handling
    BY <1>6 DEF SetDisabled, Handling, MayStart, First
  <2>3. job'[j].at # "read" /\ \A l \in Jobs \ {j} : job'[l] = job[l]
    BY <1>6, <2>1 DEF SetDisabled, Typed
  <2>4. QED BY <2>2, <2>3, OtherJob
<1>7. ASSUME NEW j \in Jobs, NEW f \in Jobs, StartReset(j, f) PROVE SameHandling
  BY <1>7, OtherBegins DEF StartReset, Kinds
<1>8. ASSUME NEW j \in Jobs, NEW k \in Keys, NEW to \in {"on", "off", "expired"}, StartPatch(j, k, to)
      PROVE  SameHandling
  BY <1>8, OtherBegins DEF StartPatch, Kinds
<1>9. CASE Aside
  BY <1>9, AsideKeeps DEF SameHandling, Handling
<1>10. ASSUME NEW j \in Jobs, NEW a \in Calls, Checkout(j, a) PROVE SameHandling
  <2>1. /\ job[j].at = "new" /\ job'[j].kind = "checkout"
        /\ \A l \in Jobs \ {j} : job'[l] = job[l]
    BY <1>10, CheckoutBegins
  <2>2. QED BY <2>1, OtherJob DEF Handling
<1>11. QED
  BY <1>1, <1>2, <1>3, <1>4, <1>5, <1>6, <1>7, <1>8, <1>9, <1>10 DEF AccountNext, Aside

\* An event that is being handled, or was, is marked or its mark was dropped; one
\* that is handled for the second time has lost its mark; a marked event was handled,
\* or is, or its handler failed.
EventsTraced ==
    /\ \A j \in Handling : job[j].of \in marked \cup forgotten
    /\ handled \subseteq marked \cup forgotten
    /\ \A j \in Handling : job[j].of \in handled => job[j].of \in forgotten
    /\ \A i, j \in Handling : i # j /\ job[i].of = job[j].of => job[i].of \in forgotten
    /\ again \subseteq forgotten
    /\ marked \cup answered \subseteq handled \cup failed \cup {job[j].of : j \in Handling}

LEMMA OthersKeepEvents ==
  ASSUME Typed, EventsTraced, SameHandling, UNCHANGED webhookVars
  PROVE  EventsTraced'
<1>1. {job'[j].of : j \in Handling'} = {job[j].of : j \in Handling}
  BY DEF SameHandling, Handling
<1>2. QED BY <1>1 DEF SameHandling, webhookVars, EventsTraced, Handling

\* A handler that has read its event ends.
LEMMA HandlerEnds ==
  ASSUME Typed, NEW j \in Handling, Step(j, "done")
  PROVE  /\ Handling' = Handling \ {j}
         /\ \A i \in Handling' : job'[i].of = job[i].of
<1>1. DoneJob.at = "done"
  BY DEF DoneJob, NoJob
<1>2. QED BY <1>1 DEF Step, Handling, Typed

LEMMA EventsStep == Typed /\ Counting /\ CacheTyped /\ EventsTraced /\ [Next]_vars => EventsTraced'
<1> SUFFICES ASSUME Typed, Counting, CacheTyped, EventsTraced, [Next]_vars PROVE EventsTraced'
  OBVIOUS
<1>1. CASE AccountStep
  BY <1>1, AccountsHandleNoEvent, OthersKeepEvents DEF AccountStep
<1>2. CASE UNCHANGED <<row, job, webhookVars>>
  BY <1>2, OthersKeepEvents DEF SameHandling, Handling
<1>3. CASE AdminStep \/ AdminIsIn \/ TakeCounts \/ (\E a \in Calls : TrackAPIUsage(a)) \/ UNCHANGED vars
  <2>1. UNCHANGED webhookVars
    BY <1>3 DEF AdminStep, AdminIsIn, TakeCounts, TrackAPIUsage, vars
  <2>2. UNCHANGED <<row, job>>
    BY <1>3, ApartKeeps DEF Apart, vars, accountVars, tables
  <2>3. QED BY <1>2, <2>1, <2>2
<1>4. CASE MonthlyReset \/ \E stored \in BOOLEAN : AddCounts(stored)
  BY <1>4, OthersKeepEvents DEF MonthlyReset, AddCounts, SameHandling, Handling
<1>5. CASE Forget
  <2>1. marked' = {} /\ forgotten' = forgotten \cup marked /\ UNCHANGED <<job, answered, handled, again, failed>>
    BY <1>5 DEF Forget, accountVars
  <2>2. QED BY <2>1 DEF EventsTraced, Handling
<1>6. ASSUME NEW j \in Jobs, NEW e \in Events, Webhook(j, e) PROVE EventsTraced'
  <2>1. UNCHANGED <<handled, again, failed, forgotten>>
    BY <1>6 DEF Webhook
  <2>2. CASE e \in marked /\ answered' = answered \cup {e} /\ UNCHANGED <<marked, accountVars>>
    BY <2>1, <2>2 DEF EventsTraced, Handling, accountVars
  <2>3. CASE e \notin marked /\ marked' = MarkEventProcessed(e) /\ Begin(j, "event", row, e, "none") /\ UNCHANGED answered
    <3>1. /\ job'[j].at = "read" /\ job'[j].kind = "event" /\ job'[j].of = e /\ job[j].at = "new"
          /\ \A l \in Jobs \ {j} : job'[l] = job[l]
      BY <2>3 DEF Begin, Typed, MayStart, First
    <3>2. Handling' = Handling \cup {j} /\ j \notin Handling /\ \A l \in Handling : job'[l] = job[l]
      BY <3>1 DEF Handling
    <3>3. marked' = marked \cup {e}
      BY <2>3 DEF MarkEventProcessed
    <3>4. {job[i].of : i \in Handling} \cup {e} = {job'[i].of : i \in Handling'}
      BY <3>1, <3>2
    <3>5. e \in handled => e \in forgotten
      BY <2>3 DEF EventsTraced
    <3>6. \A i \in Handling : job[i].of = e => e \in forgotten
      BY <2>3 DEF EventsTraced
    <3>7. \A i \in Handling' : i # j => i \in Handling /\ job'[i].of = job[i].of
      BY <3>2
    <3>8. \A i \in Handling' : job'[i].of \in marked' \cup forgotten'
      BY <2>1, <3>1, <3>3, <3>7 DEF EventsTraced
    <3>9. \A i \in Handling' : job'[i].of \in handled' => job'[i].of \in forgotten'
      BY <2>1, <3>1, <3>5, <3>7 DEF EventsTraced
    <3>10. \A i, l \in Handling' : i # l /\ job'[i].of = job'[l].of => job'[i].of \in forgotten'
      BY <2>1, <3>1, <3>6, <3>7 DEF EventsTraced
    <3>11. QED BY <2>1, <2>3, <3>3, <3>4, <3>8, <3>9, <3>10 DEF EventsTraced
  <2>4. QED BY <1>6, <2>2, <2>3 DEF Webhook
<1>7. ASSUME NEW j \in Jobs, EventHandled(j) PROVE EventsTraced'
  <2> DEFINE e == job[j].of
  <2>1. /\ j \in Handling /\ Step(j, "done")
        /\ handled' = handled \cup {e}
        /\ again' = IF e \in handled THEN again \cup {e} ELSE again
        /\ answered' = answered \cup {e}
        /\ UNCHANGED <<marked, failed, forgotten>>
    BY <1>7 DEF EventHandled
  <2>2. Handling' = Handling \ {j} /\ \A i \in Handling' : job'[i].of = job[i].of
    BY <2>1, HandlerEnds
  <2>3. {job[i].of : i \in Handling} \subseteq {job'[i].of : i \in Handling'} \cup {e}
    BY <2>2
  <2> HIDE DEF e
  <2>4. QED BY <2>1, <2>2, <2>3 DEF EventsTraced, e
<1>8. ASSUME NEW j \in Jobs, EventFails(j) PROVE EventsTraced'
  <2> DEFINE e == job[j].of
  <2>1. /\ j \in Handling /\ Step(j, "done") /\ failed' = failed \cup {e}
        /\ UNCHANGED <<marked, answered, handled, again, forgotten>>
    BY <1>8 DEF EventFails
  <2>2. Handling' = Handling \ {j} /\ \A i \in Handling' : job'[i].of = job[i].of
    BY <2>1, HandlerEnds
  <2>3. {job[i].of : i \in Handling} \subseteq {job'[i].of : i \in Handling'} \cup {e}
    BY <2>2
  <2> HIDE DEF e
  <2>4. QED BY <2>1, <2>2, <2>3 DEF EventsTraced
<1>9. QED
  BY <1>1, <1>3, <1>4, <1>5, <1>6, <1>7, <1>8 DEF Next

\* Stripe's deliveries change the account once each, until the marks are dropped,
\* and are answered 200 for a reason: the mark is set before the handler runs.
THEOREM EventsAreOnce == Spec => []EventsApplyOnce
<1>1. Init => EventsTraced
  <2>1. Init => Handling = {}
    BY DEF Init, AccountInit, NoJob, Handling
  <2>2. QED BY <2>1 DEF Init, EventsTraced
<1>2. EventsTraced => EventsApplyOnce
  BY DEF EventsTraced, EventsApplyOnce
<1>3. QED BY <1>1, <1>2, EventsStep, AlwaysTyped, PTL DEF Spec

----------------------------------------------------------------------------
(* Metering.                                                               *)

\* The count of an account as long as no Update wrote an old one back.
CountsAgree ==
    /\ {served, closed, lost} \subseteq Nat
    /\ ~rewritten => served = row.requests + closed + pending + flying + lost

LEMMA CountsStep == Typed /\ Counting /\ CountsAgree /\ [Next]_vars => CountsAgree'
<1> SUFFICES ASSUME Typed, Counting, CountsAgree, [Next]_vars PROVE CountsAgree'
  OBVIOUS
<1>0. /\ row.requests \in Nat /\ pending \in Nat /\ flying \in Nat
      /\ served \in Nat /\ closed \in Nat /\ lost \in Nat /\ Deleted.requests = 0
  BY DEF Typed, Rows, Counting, CountsAgree, Deleted
\* A month is closed, or the account is.
<1>11. ASSUME row'.requests = 0, closed' = closed + row.requests,
              ~rewritten' => ~rewritten, UNCHANGED <<pending, flying, served, lost>>
       PROVE  CountsAgree'
  <2>1. {served', closed', lost'} \subseteq Nat
    BY <1>0, <1>11
  <2>2. ASSUME ~rewritten PROVE served = row.requests + closed + pending + flying + lost
    BY <2>2 DEF CountsAgree
  <2>3. ASSUME ~rewritten' PROVE served' = row'.requests + closed' + pending' + flying' + lost'
    BY <1>0, <1>11, <2>2, <2>3
  <2>4. QED BY <2>1, <2>3 DEF CountsAgree
<1>1. CASE AccountStep
  <2>1. /\ rewritten' = (rewritten \/ (row' # Deleted /\ row'.requests # row.requests))
        /\ closed' = IF row' = Deleted THEN closed + row.requests ELSE closed
        /\ UNCHANGED <<pending, flying, served, lost>>
    BY <1>1 DEF AccountStep
  <2>2. CASE row' = Deleted
    <3>1. row'.requests = 0 /\ closed' = closed + row.requests
      BY <1>0, <2>1, <2>2
    <3>2. QED BY <1>0, <1>11, <2>1, <3>1
  <2>3. CASE row' # Deleted
    BY <1>0, <2>1, <2>3 DEF CountsAgree
  <2>4. QED BY <2>2, <2>3
<1>2. CASE AdminStep \/ AdminIsIn \/ Forget \/ UNCHANGED vars
  <2>1. UNCHANGED countVars
    BY <1>2 DEF AdminStep, AdminIsIn, Forget, vars
  <2>2. row' = row
    BY <1>2, ApartKeeps DEF Apart, vars, accountVars, tables
  <2>3. QED BY <2>1, <2>2 DEF CountsAgree, countVars
<1>3. ASSUME NEW j \in Jobs, NEW e \in Events, Webhook(j, e) PROVE CountsAgree'
  BY <1>3 DEF Webhook, Begin, accountVars, tables, countVars, CountsAgree
<1>4. ASSUME NEW j \in Jobs, EventFails(j) PROVE CountsAgree'
  BY <1>4 DEF EventFails, tables, countVars, CountsAgree
<1>5. ASSUME NEW j \in Jobs, EventHandled(j) PROVE CountsAgree'
  <2>1. UNCHANGED <<pending, flying, served, closed, lost>>
    BY <1>5 DEF EventHandled
  <2>2. CASE UNCHANGED <<row, rewritten>>
    BY <2>1, <2>2 DEF CountsAgree
  <2>3. CASE row' = Update(Billed(job[j].of, job[j].row)) /\ Rewrites(job[j].row)
    <3>1. job[j].of \in Events /\ job[j].row \in Rows
      BY <1>5 DEF EventHandled, Handling, Typed, Sound, JobRecords
    <3>2. Billed(job[j].of, job[j].row).requests = job[j].row.requests
      BY <3>1, BilledIsRow
    <3>3. ~rewritten' => ~rewritten /\ row'.requests = row.requests
      BY <2>3, <3>2 DEF Rewrites, Update
    <3>4. QED BY <2>1, <3>3 DEF CountsAgree
  <2>4. QED BY <1>5, <2>2, <2>3 DEF EventHandled
<1>6. ASSUME NEW a \in Calls, TrackAPIUsage(a) PROVE CountsAgree'
  <2>1. /\ row' = row /\ UNCHANGED <<flying, closed, lost, rewritten>>
        /\ \/ UNCHANGED <<pending, served>>
           \/ pending' = pending + 1 /\ served' = served + 1
    BY <1>6 DEF TrackAPIUsage, tables
  <2>2. QED BY <1>0, <2>1 DEF CountsAgree
<1>7. CASE TakeCounts
  BY <1>0, <1>7 DEF TakeCounts, accountVars, tables, CountsAgree
<1>8. ASSUME NEW stored \in BOOLEAN, AddCounts(stored) PROVE CountsAgree'
  <2>1. /\ flying' = 0 /\ pending' = pending /\ UNCHANGED <<served, closed, rewritten>>
        /\ \/ row' = [row EXCEPT !.requests = @ + flying] /\ lost' = lost
           \/ row' = row /\ lost' = lost + flying
    BY <1>8 DEF AddCounts, Uncounted
  <2>2. [row EXCEPT !.requests = @ + flying].requests = row.requests + flying
    BY DEF Typed, Rows
  <2>3. row'.requests + lost' = row.requests + flying + lost /\ lost' \in Nat /\ row'.requests \in Nat
    <3>1. CASE row' = row /\ lost' = lost + flying
      BY <1>0, <3>1
    <3>2. CASE row' = [row EXCEPT !.requests = @ + flying] /\ lost' = lost
      <4>1. row'.requests = row.requests + flying
        BY <2>2, <3>2
      <4>2. QED BY <1>0, <3>2, <4>1
    <3>3. QED BY <2>1, <3>1, <3>2
  <2>4. {served', closed', lost'} \subseteq Nat
    BY <1>0, <2>1, <2>3
  <2>5. ASSUME ~rewritten PROVE served = row.requests + closed + pending + flying + lost
    BY <2>5 DEF CountsAgree
  <2>6. ASSUME ~rewritten' PROVE served' = row'.requests + closed' + pending' + flying' + lost'
    BY <1>0, <2>1, <2>3, <2>5, <2>6
  <2>7. QED BY <2>4, <2>6 DEF CountsAgree
<1>9. CASE MonthlyReset
  <2>1. /\ closed' = closed + row.requests /\ row' = [row EXCEPT !.requests = 0]
        /\ UNCHANGED <<pending, flying, served, lost, rewritten>>
    BY <1>9 DEF MonthlyReset
  <2>2. [row EXCEPT !.requests = 0].requests = 0
    BY DEF Typed, Rows
  <2>3. row'.requests = 0
    BY <2>1, <2>2
  <2>4. QED BY <1>0, <1>11, <2>1, <2>3
<1>10. QED
  BY <1>1, <1>2, <1>3, <1>4, <1>5, <1>6, <1>7, <1>8, <1>9 DEF Next

\* No request is counted twice, and none is forgotten that a failed statement did not
\* lose: the flush swaps the map before it writes, the monthly reset and the deletion
\* keep what they take away, and whole-row updates are the only other writers.
THEOREM CallsAreCounted == Spec => []CallsAreAccounted
<1>1. Init => CountsAgree
  BY DEF Init, AccountInit, CountsAgree, Registered, Deleted
<1>2. CountsAgree => CallsAreAccounted
  BY DEF CountsAgree, CallsAreAccounted
<1>3. QED BY <1>1, <1>2, CountsStep, AlwaysTyped, PTL DEF Spec

----------------------------------------------------------------------------
(* Decisions about the account.                                            *)

\* The rows that somebody may still write back: those of handlers, and those that a
\* checkout may begin with.
OthersHold(j) ==
    ({job[l].row : l \in Holding \ {j}} \cup {cached[k] : k \in Keys} \cup {call[a].seen : a \in Calls})
        \ {Deleted}
HeldRows ==
    ({job[l].row : l \in Holding} \cup {cached[k] : k \in Keys} \cup {call[a].seen : a \in Calls})
        \ {Deleted}

\* They agree with the decisions, except in the columns that were decided since.
HeldRowsAgree ==
    \A r \in HeldRows, c \in Columns : r[c] = wanted[c] \/ c \in torn

DecisionsAgree == DecisionsOutlast /\ HeldRowsAgree /\ DOMAIN wanted = DOMAIN Deleted

\* What a step may do to the decisions: nothing, while somebody may take the row as
\* it is ...
NothingDecided ==
    /\ UNCHANGED decisions
    /\ \A c \in Columns : row'[c] = row[c]
    /\ HeldRows' \subseteq HeldRows \cup {row}

\* ... or a job decides some columns and writes the others as it holds them, or as
\* they are.
DecidedBy(j, columns) ==
    /\ Decided(j, columns)
    /\ \A c \in Columns \ columns :
        row'[c] = row[c] \/ (j \in Holding /\ row'[c] = job[j].row[c])
    /\ HeldRows' \subseteq OthersHold(j)

LEMMA NothingDecidedKeeps ==
  ASSUME DecisionsAgree, NothingDecided PROVE DecisionsAgree'
<1>1. DecisionsOutlast' /\ DOMAIN wanted' = DOMAIN Deleted
  BY DEF DecisionsAgree, DecisionsOutlast, NothingDecided, decisions
<1>2. HeldRowsAgree'
  <2>1. \A r \in HeldRows \cup {row}, c \in Columns : r[c] = wanted[c] \/ c \in torn
    BY DEF DecisionsAgree, DecisionsOutlast, HeldRowsAgree
  <2>2. HeldRows' \subseteq HeldRows \cup {row} /\ wanted' = wanted /\ torn' = torn
    BY DEF NothingDecided, decisions
  <2>3. QED BY <2>1, <2>2 DEF HeldRowsAgree
<1>3. QED BY <1>1, <1>2 DEF DecisionsAgree

LEMMA OthersAreHeld ==
  ASSUME NEW j \in Jobs
  PROVE  /\ OthersHold(j) \subseteq HeldRows
         /\ j \in Holding => job[j].row \in HeldRows
         /\ OthersHold(j) # {} => Holding \ {j} # {} \/ Remembered
BY DEF OthersHold, HeldRows, Holding, Remembered, NoEntry

LEMMA DecidedKeeps ==
  ASSUME DecisionsAgree, NEW j \in Jobs, NEW columns \in SUBSET Columns, DecidedBy(j, columns)
  PROVE  DecisionsAgree'
<1>0. Columns \subseteq DOMAIN wanted
  BY DEF DecisionsAgree, Columns, Deleted
<1>1. /\ \A c \in Columns : wanted'[c] = IF c \in columns THEN row'[c] ELSE wanted[c]
      /\ DOMAIN wanted' = DOMAIN wanted
      /\ torn' = (torn \ columns) \cup (IF Holding \ {j} # {} \/ Remembered THEN columns ELSE {})
  BY <1>0 DEF DecidedBy, Decided
<1>2. DecisionsOutlast'
  <2>1. ASSUME NEW c \in Columns \ columns PROVE row'[c] = wanted[c] \/ c \in torn
    BY <2>1, OthersAreHeld DEF DecidedBy, DecisionsAgree, DecisionsOutlast, HeldRowsAgree
  <2>2. QED BY <1>1, <2>1 DEF DecisionsOutlast
<1>3. HeldRowsAgree'
  <2>1. ASSUME NEW r \in HeldRows', NEW c \in Columns PROVE r[c] = wanted'[c] \/ c \in torn'
    <3>1. r \in OthersHold(j) /\ r \in HeldRows /\ (Holding \ {j} # {} \/ Remembered)
      BY <2>1, OthersAreHeld DEF DecidedBy
    <3>2. r[c] = wanted[c] \/ c \in torn
      BY <3>1 DEF DecisionsAgree, HeldRowsAgree
    <3>3. QED BY <1>1, <3>1, <3>2
  <2>2. QED BY <2>1 DEF HeldRowsAgree
<1>4. QED BY <1>1, <1>2, <1>3 DEF DecisionsAgree

\* Who holds what is held after a step.
LEMMA HeldByWhom ==
  /\ \A l \in Holding : job[l].row \in HeldRows
  /\ \A k \in Keys : cached[k] \in HeldRows \cup {Deleted}
  /\ \A a \in Calls : call[a].seen \in HeldRows \cup {Deleted}
BY DEF HeldRows, Holding

LEMMA HeldIsHeld ==
  ASSUME \A l \in Holding' : job'[l].row \in HeldRows \cup {row, Deleted},
         \A k \in Keys : cached'[k] \in HeldRows \cup {row, Deleted},
         \A a \in Calls : call'[a].seen \in HeldRows \cup {row, Deleted}
  PROVE  HeldRows' \subseteq HeldRows \cup {row}
BY DEF HeldRows

LEMMA SameHeld ==
  ASSUME UNCHANGED <<job, cached, call>> PROVE HeldRows' = HeldRows
BY DEF HeldRows, Holding

\* Job j leaves the state in which it holds a row; nobody else moves, and no row is
\* cached.
LEMMA OneEnds ==
  ASSUME Typed, NEW j \in Jobs, NEW at \in {"written", "cleared", "signedOut", "done"}, Step(j, at),
         \A k \in Keys : cached'[k] \in {cached[k], Deleted}, call' = call
  PROVE  HeldRows' \subseteq OthersHold(j) /\ OthersHold(j) \subseteq HeldRows
<1>1. DoneJob.at = "done" /\ [job[j] EXCEPT !.at = at].at = at
  BY DEF DoneJob, NoJob, Typed, JobRecords
<1>2. job'[j].at = at /\ \A l \in Jobs \ {j} : job'[l] = job[l]
  BY <1>1 DEF Step, Typed
<1>3. Holding' \subseteq Holding \ {j} /\ \A l \in Holding' : job'[l].row = job[l].row
  BY <1>2 DEF Holding
<1>4. QED BY <1>3, OthersAreHeld DEF HeldRows, OthersHold

LEMMA EndsUndecided ==
  ASSUME Typed, NEW j \in Jobs, NEW at \in {"written", "cleared", "signedOut", "done"}, Step(j, at),
         row' = row, UNCHANGED decisions,
         \A k \in Keys : cached'[k] \in {cached[k], Deleted}, call' = call
  PROVE  NothingDecided
BY OneEnds DEF NothingDecided

\* Job j begins with the row as it is, or with none.
LEMMA BeginsUndecided ==
  ASSUME Typed, NEW j \in Jobs, NEW kind \in Kinds, NEW r \in {row, Deleted}, NEW of, NEW to,
         Begin(j, kind, r, of, to)
  PROVE  NothingDecided
<1>1. job'[j].row = r /\ \A l \in Jobs \ {j} : job'[l] = job[l]
  BY DEF Begin, Typed
<1>2. row' = row /\ UNCHANGED <<decisions, cached, call>>
  BY DEF Begin, tables, history
<1>3. \A l \in Holding' : job'[l].row \in HeldRows \cup {row, Deleted}
  <2>1. ASSUME NEW l \in Holding', l # j PROVE job'[l].row \in HeldRows
    BY <1>1, <2>1, HeldByWhom DEF Holding
  <2>2. QED BY <1>1, <2>1
<1>4. HeldRows' \subseteq HeldRows \cup {row}
  BY <1>2, <1>3, HeldByWhom, HeldIsHeld
<1>5. QED BY <1>2, <1>4 DEF NothingDecided

\* A call steps.
LEMMA CallHolds ==
  ASSUME CacheTyped, NEW a \in Calls, NEW c, CallStep(a, c)
  PROVE  \A b \in Calls : call'[b].seen \in {call[b].seen, c.seen}
BY DEF CacheTyped, CallStep

LEMMA CallForgets ==
  ASSUME CacheTyped, NEW a \in Calls, NEW c, CallStep(a, c), c.seen = Deleted
  PROVE  \A b \in Calls : call'[b].seen \in HeldRows \cup {Deleted}
BY CallHolds, HeldByWhom

LEMMA AccountDecides ==
  ASSUME Typed, CacheTyped, AccountNext
  PROVE  NothingDecided \/ \E j \in Jobs, columns \in SUBSET Columns : DecidedBy(j, columns)
<1> DEFINE Goal == NothingDecided \/ \E j \in Jobs, columns \in SUBSET Columns : DecidedBy(j, columns)
<1>0. OwnerKinds \cup AdminKinds \subseteq Kinds
  BY DEF Kinds
<1>1. ASSUME NEW j \in Jobs, NEW kind \in OwnerKinds \cup AdminKinds, ReadRow(j, kind)
      PROVE  Goal
  BY <1>0, <1>1, BeginsUndecided DEF ReadRow
<1>2. ASSUME NEW j \in Jobs, WriteFails(j) \/ ClearCache(j) \/ (\E done \in BOOLEAN : DropSessions(j, done) \/ DropKeys(j, done))
                             \/ Login(j) \/ (\E to \in {"on", "off", "expired"} : PatchKey(j, to))
      PROVE  Goal
  <2>1. \E at \in {"written", "cleared", "signedOut", "done"} : Step(j, at)
    BY <1>2 DEF WriteFails, ClearCache, DropSessions, DropKeys, Login, PatchKey
  <2>2. row' = row /\ UNCHANGED decisions
    BY <1>2 DEF WriteFails, ClearCache, DropSessions, DropKeys, Login, PatchKey, tables, history
  <2>3. call' = call /\ cached' \in {cached, [k \in Keys |-> Deleted]}
    BY <1>2 DEF WriteFails, ClearCache, DropSessions, DropKeys, Login, PatchKey, NoEntries, NoEntry, tables
  <2>4. \A k \in Keys : cached'[k] \in {cached[k], Deleted}
    BY <2>3
  <2>5. QED BY <2>1, <2>2, <2>3, <2>4, EndsUndecided
<1>3. ASSUME NEW j \in Jobs, WriteRow(j) PROVE Goal
  <2>1. /\ row' = Update(Edit(j, job[j].row)) /\ Decided(j, Decides(job[j].kind))
        /\ job[j].at = "read"
        /\ UNCHANGED <<cached, call>>
        /\ \E at \in {"written", "done"} : Step(j, at)
    BY <1>3 DEF WriteRow
  <2>2. job[j].row \in Rows
    BY DEF Typed, JobRecords
  <2>3. \A c \in Columns \ Decides(job[j].kind) : Edit(j, job[j].row)[c] = job[j].row[c]
    BY <2>2, EditKeeps
  <2>4. Decides(job[j].kind) \in SUBSET Columns
    BY DEF Decides, Columns
  <2>5. j \in Holding
    BY <1>3, <2>1 DEF WriteRow, Holding, Typed, Sound, Writers
  <2>6. \A c \in Columns \ Decides(job[j].kind) :
            row'[c] = row[c] \/ (j \in Holding /\ row'[c] = job[j].row[c])
    BY <2>1, <2>3, <2>5 DEF Update
  <2>7. DecidedBy(j, Decides(job[j].kind))
    BY <2>1, <2>6, OneEnds DEF DecidedBy
  <2>8. QED BY <2>4, <2>7
<1>4. ASSUME NEW j \in Jobs, Reset(j) PROVE Goal
  <2>1. /\ row' = Update(Edit(j, job[j].row)) /\ Decided(j, {"password"})
        /\ job[j].at = "read" /\ job[j].kind = "reset" /\ Step(j, "done")
        /\ UNCHANGED <<cached, call>>
    BY <1>4 DEF Reset
  <2>2. job[j].row \in Rows /\ Decides("reset") = {"password"}
    BY DEF Typed, JobRecords, Decides
  <2>3. \A c \in Columns \ {"password"} : Edit(j, job[j].row)[c] = job[j].row[c]
    BY <2>1, <2>2, EditKeeps
  <2>4. \A c \in Columns \ {"password"} :
            row'[c] = row[c] \/ (j \in Holding /\ row'[c] = job[j].row[c])
    <3>1. j \in Holding
      BY <2>1 DEF Holding, Typed, Sound, Writers
    <3>2. QED BY <2>1, <2>3, <3>1 DEF Update
  <2>5. DecidedBy(j, {"password"})
    BY <2>1, <2>4, OneEnds DEF DecidedBy
  <2>6. QED BY <2>5 DEF Columns
<1>5. ASSUME NEW j \in Jobs, Remove(j) PROVE Goal
  <2>1. /\ Decided(j, Columns) /\ UNCHANGED <<cached, call>>
        /\ \E at \in {"written", "done"} : Step(j, at)
    BY <1>5 DEF Remove
  <2>2. DecidedBy(j, Columns)
    BY <2>1, OneEnds DEF DecidedBy
  <2>3. QED BY <2>2
<1>6. ASSUME NEW j \in Jobs, NEW disabled \in BOOLEAN, SetDisabled(j, disabled) PROVE Goal
  <2>1. DoneJob.row = Deleted /\ [NoJob EXCEPT !.at = "written", !.kind = "disable"].row = Deleted
        /\ DoneJob.at # "read" /\ [NoJob EXCEPT !.at = "written", !.kind = "disable"].at # "read"
    BY DEF DoneJob, NoJob
  <2>2. job'[j].at # "read" /\ \A l \in Jobs \ {j} : job'[l] = job[l]
    BY <1>6, <2>1 DEF SetDisabled, Typed
  <2>3. \A c \in Columns \ {"disabled"} : row'[c] = row[c]
    BY <1>6 DEF SetDisabled, Typed, Rows, Columns
  <2>4. HeldRows' \subseteq OthersHold(j)
    <3>1. Holding' \subseteq Holding \ {j} /\ \A l \in Holding' : job'[l].row = job[l].row
      BY <2>2 DEF Holding
    <3>2. QED BY <1>6, <3>1 DEF SetDisabled, HeldRows, OthersHold
  <2>5. DecidedBy(j, {"disabled"})
    BY <1>6, <2>3, <2>4 DEF SetDisabled, DecidedBy
  <2>6. QED BY <2>5 DEF Columns
<1>7. ASSUME NEW j \in Jobs, StartLogin(j) PROVE Goal
  BY <1>7, BeginsUndecided DEF StartLogin, Kinds
<1>8. ASSUME NEW j \in Jobs, Forgot(j) PROVE Goal
  <2>1. CASE Begin(j, "forgot", Deleted, None, "none")
    BY <2>1, BeginsUndecided DEF Kinds
  <2>2. CASE UNCHANGED <<job, row, cached, call, history>>
    BY <2>2, SameHeld DEF NothingDecided, history
  <2>3. CASE Step(j, "done") /\ UNCHANGED <<row, cached, call, history>>
    BY <2>3, EndsUndecided DEF history
  <2>4. QED BY <1>8, <2>1, <2>2, <2>3 DEF Forgot
<1>9. ASSUME NEW j \in Jobs, NEW f \in Jobs, StartReset(j, f) PROVE Goal
  BY <1>9, BeginsUndecided DEF StartReset, Kinds
<1>10. ASSUME NEW j \in Jobs, NEW k \in Keys, NEW to \in {"on", "off", "expired"}, StartPatch(j, k, to)
       PROVE  Goal
  BY <1>10, BeginsUndecided DEF StartPatch, Kinds
<1>11. CASE Aside
  <2>1. UNCHANGED decisions
    BY <1>11 DEF Aside, ResetExpires, SessionEnds, CreateKey, RetireKey, KeyExpires, EntryExpires,
                 CacheHit, FindKey, FindParent, SetCached, history
  <2>2. UNCHANGED <<row, job>>
    BY <1>11, AsideKeeps
  <2>3. \A k \in Keys : cached'[k] \in HeldRows \cup {row, Deleted}
    <3>1. CASE cached' = cached
      BY <3>1, HeldByWhom
    <3>2. ASSUME NEW k \in Keys, EntryExpires(k) PROVE \A q \in Keys : cached'[q] \in {cached[q], Deleted}
      BY <3>2 DEF EntryExpires, NoEntry, CacheTyped
    <3>3. ASSUME NEW a \in Calls, SetCached(a)
          PROVE  \A q \in Keys : cached'[q] \in {cached[q], call[a].seen}
      BY <3>3 DEF SetCached, CacheTyped
    <3>4. CASE \/ \E j \in Jobs : ResetExpires(j)
               \/ \E s \in sessions : SessionEnds(s)
               \/ \E k \in Keys : CreateKey(k) \/ RetireKey(k) \/ KeyExpires(k)
               \/ \E a \in Calls, k \in Keys : CacheHit(a, k) \/ FindKey(a, k)
               \/ \E a \in Calls : FindParent(a)
      <4>1. cached' = cached
        BY <3>4 DEF ResetExpires, SessionEnds, CreateKey, RetireKey, KeyExpires, CacheHit, FindKey,
                    FindParent
      <4>2. QED BY <3>1, <4>1
    <3>5. QED BY <1>11, <3>2, <3>3, <3>4, HeldByWhom DEF Aside
  <2>4. \A b \in Calls : call'[b].seen \in HeldRows \cup {row, Deleted}
    <3>1. CASE call' = call
      BY <3>1, HeldByWhom
    <3>2. ASSUME NEW a \in Calls, NEW c, CallStep(a, c), c.seen \in HeldRows \cup {row, Deleted}
          PROVE  \A b \in Calls : call'[b].seen \in HeldRows \cup {row, Deleted}
      BY <3>2, CallHolds, HeldByWhom
    <3>3. ASSUME NEW a \in Calls, NEW k \in Keys, CacheHit(a, k)
          PROVE  \A b \in Calls : call'[b].seen \in HeldRows \cup {row, Deleted}
      <4>1. /\ CallStep(a, [NoCall EXCEPT !.at = "admitted", !.seen = cached[k]])
            /\ cached[k] \in Rows \ {Deleted}
        BY <3>3 DEF CacheHit, NoEntry, CacheTyped
      <4>2. [NoCall EXCEPT !.at = "admitted", !.seen = cached[k]].seen = cached[k]
        BY <4>1, OverIsTyped
      <4>3. QED BY <3>2, <4>1, <4>2, HeldByWhom
    <3>4. ASSUME NEW a \in Calls, NEW k \in Keys, FindKey(a, k)
          PROVE  \A b \in Calls : call'[b].seen \in HeldRows \cup {row, Deleted}
      BY <3>2, <3>4, FoundIsTyped, OverIsTyped DEF FindKey
    <3>5. ASSUME NEW a \in Calls, FindParent(a)
          PROVE  \A b \in Calls : call'[b].seen \in HeldRows \cup {row, Deleted}
      <4>1. /\ call[a].key \in Keys
            /\ \/ row # Deleted /\ CallStep(a, [call[a] EXCEPT !.at = "checked", !.seen = row])
               \/ CallStep(a, Refused)
        BY <3>5 DEF FindParent, CacheTyped, CallSound
      <4>2. row # Deleted => [call[a] EXCEPT !.at = "checked", !.seen = row].seen = row
        BY <4>1, CheckedIsTyped DEF Typed
      <4>3. QED BY <3>2, <4>1, <4>2, OverIsTyped
    <3>6. ASSUME NEW a \in Calls, SetCached(a)
          PROVE  \A b \in Calls : call'[b].seen \in HeldRows \cup {row, Deleted}
      <4>1. /\ \/ CallStep(a, [NoCall EXCEPT !.at = "admitted", !.seen = call[a].seen])
               \/ CallStep(a, Refused)
            /\ call[a].seen \in Rows \ {Deleted}
        BY <3>6 DEF SetCached, CacheTyped, CallRecords, CallSound
      <4>2. [NoCall EXCEPT !.at = "admitted", !.seen = call[a].seen].seen = call[a].seen
        BY <4>1, OverIsTyped
      <4>3. QED BY <3>2, <4>1, <4>2, OverIsTyped, HeldByWhom
    <3>7. CASE \/ \E j \in Jobs : ResetExpires(j)
               \/ \E s \in sessions : SessionEnds(s)
               \/ \E k \in Keys : CreateKey(k) \/ RetireKey(k) \/ KeyExpires(k) \/ EntryExpires(k)
      <4>1. call' = call
        BY <3>7 DEF ResetExpires, SessionEnds, CreateKey, RetireKey, KeyExpires, EntryExpires
      <4>2. QED BY <3>1, <4>1
    <3>8. QED BY <1>11, <3>3, <3>4, <3>5, <3>6, <3>7 DEF Aside
  <2>5. \A l \in Holding' : job'[l].row \in HeldRows
    BY <2>2, HeldByWhom DEF Holding
  <2>6. HeldRows' \subseteq HeldRows \cup {row}
    BY <2>3, <2>4, <2>5, HeldIsHeld
  <2>7. QED BY <2>1, <2>2, <2>6 DEF NothingDecided
<1>12. ASSUME NEW j \in Jobs, NEW a \in Calls, Checkout(j, a) PROVE Goal
  <2>1. /\ UNCHANGED <<row, cached, decisions>>
        /\ CallStep(a, [NoCall EXCEPT !.at = "served"])
    BY <1>12 DEF Checkout, CallStep, tables, history
  <2>2. job'[j].row = call[a].seen /\ \A l \in Jobs \ {j} : job'[l] = job[l]
    BY <1>12, CheckoutBegins
  <2>3. \A l \in Holding' : job'[l].row \in HeldRows \cup {Deleted}
    <3>1. ASSUME NEW l \in Holding', l # j PROVE job'[l].row \in HeldRows
      BY <2>2, <3>1, HeldByWhom DEF Holding
    <3>2. QED BY <2>2, <3>1, HeldByWhom
  <2>4. \A b \in Calls : call'[b].seen \in HeldRows \cup {Deleted}
    <3>1. [NoCall EXCEPT !.at = "served"].seen = Deleted
      BY OverIsTyped
    <3>2. QED BY <2>1, <3>1, CallForgets
  <2>5. HeldRows' \subseteq HeldRows \cup {row}
    BY <2>1, <2>3, <2>4, HeldByWhom, HeldIsHeld
  <2>6. QED BY <2>1, <2>5 DEF NothingDecided
<1>13. QED
  BY <1>1, <1>2, <1>3, <1>4, <1>5, <1>6, <1>7, <1>8, <1>9, <1>10, <1>11, <1>12 DEF AccountNext, Aside

LEMMA DecisionsStep == Typed /\ Counting /\ CacheTyped /\ DecisionsAgree /\ [Next]_vars => DecisionsAgree'
<1> SUFFICES ASSUME Typed, Counting, CacheTyped, DecisionsAgree, [Next]_vars PROVE DecisionsAgree'
  OBVIOUS
<1>1. CASE AccountStep
  BY <1>1, AccountDecides, NothingDecidedKeeps, DecidedKeeps DEF AccountStep
<1>2. CASE NothingDecided
  BY <1>2, NothingDecidedKeeps
<1>3. CASE Apart \/ UNCHANGED vars
  <2>1. UNCHANGED <<decisions, cached>>
    BY <1>3 DEF Apart, AdminStep, AdminIsIn, Forget, TakeCounts, TrackAPIUsage, accountVars,
                history, vars
  <2>2. UNCHANGED <<row, job>>
    BY <1>3, ApartKeeps DEF vars, accountVars, tables
  <2>3. \A b \in Calls : call'[b].seen \in HeldRows \cup {Deleted}
    <3>1. ASSUME NEW a \in Calls, TrackAPIUsage(a)
          PROVE  \A b \in Calls : call'[b].seen \in HeldRows \cup {Deleted}
      <4>1. CallStep(a, Refused) \/ CallStep(a, [NoCall EXCEPT !.at = "served"])
        BY <3>1 DEF TrackAPIUsage
      <4>2. [NoCall EXCEPT !.at = "served"].seen = Deleted /\ Refused.seen = Deleted
        BY OverIsTyped
      <4>3. QED BY <4>1, <4>2, CallForgets
    <3>2. CASE AdminStep \/ AdminIsIn \/ Forget \/ TakeCounts \/ UNCHANGED vars
      <4>1. call' = call
        BY <3>2 DEF AdminStep, AdminIsIn, Forget, TakeCounts, accountVars, vars
      <4>2. QED BY <4>1, HeldByWhom
    <3>3. QED BY <1>3, <3>1, <3>2 DEF Apart
  <2>4. \A l \in Holding' : job'[l].row \in HeldRows
    BY <2>2, HeldByWhom DEF Holding
  <2>5. HeldRows' \subseteq HeldRows \cup {row}
    BY <2>1, <2>3, <2>4, HeldByWhom, HeldIsHeld
  <2>6. QED BY <1>2, <2>1, <2>2, <2>5 DEF NothingDecided
<1>4. ASSUME NEW j \in Jobs, NEW e \in Events, Webhook(j, e) PROVE DecisionsAgree'
  <2>1. CASE UNCHANGED accountVars
    BY <1>2, <2>1, SameHeld DEF NothingDecided, accountVars, tables, history
  <2>2. CASE Begin(j, "event", row, e, "none")
    BY <1>2, <2>2, BeginsUndecided DEF Kinds
  <2>3. QED BY <1>4, <2>1, <2>2 DEF Webhook
<1>5. ASSUME NEW j \in Jobs, EventFails(j) PROVE DecisionsAgree'
  BY <1>2, <1>5, EndsUndecided DEF EventFails, tables, history
<1>6. ASSUME NEW j \in Jobs, EventHandled(j) PROVE DecisionsAgree'
  <2>1. CASE UNCHANGED <<row, decisions>>
    BY <1>2, <1>6, <2>1, EndsUndecided DEF EventHandled
  <2>2. CASE row' = Update(Billed(job[j].of, job[j].row)) /\ Decided(j, {"status"})
    <3>1. job[j].of \in Events /\ job[j].row \in Rows /\ job[j].at = "read"
      BY <1>6 DEF EventHandled, Handling, Typed, Sound, JobRecords
    <3>2. \A c \in Columns \ {"status"} : Billed(job[j].of, job[j].row)[c] = job[j].row[c]
      BY <3>1, BilledIsRow
    <3>3. \A c \in Columns \ {"status"} :
              row'[c] = row[c] \/ (j \in Holding /\ row'[c] = job[j].row[c])
      <4>1. j \in Holding
        BY <1>6 DEF EventHandled, Handling, Holding, Typed, Sound, Writers
      <4>2. QED BY <2>2, <3>2, <4>1 DEF Update
    <3>4. Step(j, "done") /\ UNCHANGED <<cached, call>>
      BY <1>6 DEF EventHandled
    <3>5. DecidedBy(j, {"status"})
      BY <2>2, <3>3, <3>4, OneEnds DEF DecidedBy
    <3>6. QED BY <3>5, DecidedKeeps DEF Columns
  <2>3. QED BY <1>6, <2>1, <2>2 DEF EventHandled
<1>7. ASSUME NEW stored \in BOOLEAN, MonthlyReset \/ AddCounts(stored) PROVE DecisionsAgree'
  <2>1. UNCHANGED <<job, cached, call, decisions>>
    BY <1>7 DEF MonthlyReset, AddCounts, history
  <2>2. \A n \in Nat, c \in Columns : [row EXCEPT !.requests = n][c] = row[c]
    BY DEF Typed, Rows, Columns
  <2>3. row.requests + flying \in Nat
    BY DEF Typed, Rows, Counting
  <2>4. \E n \in Nat : row' = row \/ row' = [row EXCEPT !.requests = n]
    BY <1>7, <2>3 DEF MonthlyReset, AddCounts
  <2>5. \A c \in Columns : row'[c] = row[c]
    BY <2>2, <2>4
  <2>6. QED BY <1>2, <2>1, <2>5, SameHeld DEF NothingDecided
<1>8. QED
  BY <1>1, <1>3, <1>4, <1>5, <1>6, <1>7 DEF Next, Apart

\* What was decided of an account last stands, in each column, unless when it was
\* decided somebody held an older row: a handler that had read it before, or a cache
\* entry or a call admitted with one, from which create-checkout-session begins up to
\* a minute later.  Those are the ways in which a whole-row Update undoes a decision.
THEOREM DecisionsStand == Spec => []DecisionsOutlast
<1>1. Init => DecisionsAgree
  <2>1. Init => HeldRows = {}
    BY DEF Init, AccountInit, NoJob, NoCall, NoEntry, Holding, HeldRows
  <2>2. Init => wanted = row /\ row \in {Registered(TRUE), Registered(FALSE)}
    BY DEF Init, AccountInit
  <2>3. \A v \in BOOLEAN : DOMAIN Registered(v) = DOMAIN Deleted
    BY DEF Registered, Deleted
  <2>4. QED BY <2>1, <2>2, <2>3 DEF DecisionsAgree, DecisionsOutlast, HeldRowsAgree
<1>2. DecisionsAgree => DecisionsOutlast
  BY DEF DecisionsAgree
<1>3. QED BY <1>1, <1>2, DecisionsStep, AlwaysTyped, PTL DEF Spec

----------------------------------------------------------------------------
(* Rotation by the owner.                                                  *)

\* The rotations that have written the new key and not yet dropped the sessions.
Regenerating == {j \in Jobs : job[j].kind = "regenerate" /\ job[j].at \in {"written", "cleared"}}

\* Until then sessions and logins may be left of those that a rotation is to end;
\* afterwards, only logins that were under way and sessions that it failed to delete.
VoidSound ==
    /\ \A j \in Jobs : job[j].at = "new" => j \notin void \cup sessions
    /\ None \notin LoggingIn
    /\ Regenerating = {} => void \cap (sessions \cup LoggingIn) \subseteq late

\* The steps that neither void sessions nor drop them.
NothingVoided ==
    /\ UNCHANGED <<void, late>>
    /\ sessions' \subseteq sessions \cup LoggingIn
    /\ Regenerating \subseteq Regenerating'
    /\ \A j \in Jobs : j \in LoggingIn' => j \in LoggingIn \/ job[j].at = "new"
    /\ \A j \in Jobs : job'[j].at = "new" => job[j].at = "new"

LEMMA NothingVoidedKeeps ==
  ASSUME VoidSound, NothingVoided PROVE VoidSound'
<1>1. LoggingIn' \subseteq Jobs
  BY DEF LoggingIn
<1>2. None \notin Jobs
  BY AccountsAssumption
<1>3. \A j \in LoggingIn : job[j].at # "new"
  BY DEF LoggingIn
<1>4. QED BY <1>1, <1>2, <1>3 DEF VoidSound, NothingVoided

\* Of the job that moves only this matters.
LEMMA JobVoidsNothing ==
  ASSUME Typed, NEW j \in Jobs, \A l \in Jobs \ {j} : job'[l] = job[l], job'[j].at # "new",
         j \in Regenerating => j \in Regenerating',
         job'[j].at = "read" /\ job'[j].kind = "login" => job[j].at = "new",
         UNCHANGED <<void, late>>, sessions' \subseteq sessions \cup LoggingIn
  PROVE  NothingVoided
BY DEF NothingVoided, Regenerating, LoggingIn

LEMMA StepVoidsNothing ==
  ASSUME Typed, NEW j \in Jobs, NEW at \in {"written", "cleared", "signedOut", "done"}, Step(j, at),
         j \in Regenerating => at = "cleared",
         UNCHANGED <<void, late>>, sessions' \subseteq sessions \cup LoggingIn
  PROVE  NothingVoided
<1>1. /\ DoneJob.at = "done" /\ [job[j] EXCEPT !.at = at].at = at
      /\ [job[j] EXCEPT !.at = at].kind = job[j].kind
  BY DEF DoneJob, NoJob, Typed, JobRecords
<1>2. /\ job'[j].at = at /\ \A l \in Jobs \ {j} : job'[l] = job[l]
      /\ at = "cleared" => job'[j].kind = job[j].kind
  BY <1>1 DEF Step, Typed
<1>3. j \in Regenerating => j \in Regenerating'
  BY <1>2 DEF Regenerating
<1>4. QED BY <1>2, <1>3, JobVoidsNothing

LEMMA BeginVoidsNothing ==
  ASSUME Typed, NEW j \in Jobs, NEW kind, NEW r, NEW of, NEW to, Begin(j, kind, r, of, to)
  PROVE  NothingVoided
<1>1. job[j].at = "new" /\ job'[j].at = "read" /\ \A l \in Jobs \ {j} : job'[l] = job[l]
  BY DEF Begin, Typed, MayStart, First
<1>2. UNCHANGED <<void, late, sessions>> /\ j \notin Regenerating
  BY <1>1 DEF Begin, tables, history, Regenerating
<1>3. QED BY <1>1, <1>2, JobVoidsNothing

LEMMA VoidAccountStep == Typed /\ CacheTyped /\ VoidSound /\ AccountNext => VoidSound'
<1> SUFFICES ASSUME Typed, CacheTyped, VoidSound, AccountNext PROVE VoidSound'
  OBVIOUS
<1>0. CASE NothingVoided
  BY <1>0, NothingVoidedKeeps
<1>1. ASSUME NEW j \in Jobs, NEW kind \in OwnerKinds \cup AdminKinds, ReadRow(j, kind)
      PROVE  NothingVoided
  BY <1>1, BeginVoidsNothing DEF ReadRow
<1>2. ASSUME NEW j \in Jobs, WriteFails(j) \/ (\E to \in {"on", "off", "expired"} : PatchKey(j, to)) \/ Reset(j) \/ Login(j) \/ (\E done \in BOOLEAN : DropKeys(j, done))
      PROVE  NothingVoided
  <2>1. Step(j, "done") /\ UNCHANGED <<void, late>> /\ sessions' \subseteq sessions \cup LoggingIn
    BY <1>2 DEF WriteFails, PatchKey, Reset, Login, DropKeys, tables, history
  <2>2. j \notin Regenerating
    BY <1>2 DEF WriteFails, PatchKey, Reset, Login, DropKeys, LoggingIn, Regenerating
  <2>3. QED BY <2>1, <2>2, StepVoidsNothing
<1>3. ASSUME NEW j \in Jobs, ClearCache(j) PROVE NothingVoided
  <2>1. UNCHANGED <<void, late>> /\ sessions' \subseteq sessions \cup LoggingIn
    BY <1>3 DEF ClearCache, tables
  <2>2. Step(j, IF job[j].kind = "regenerate" THEN "cleared" ELSE "done")
    BY <1>3 DEF ClearCache
  <2>3. QED BY <2>1, <2>2, StepVoidsNothing DEF Regenerating
<1>4. ASSUME NEW j \in Jobs, WriteRow(j) PROVE VoidSound'
  <2>1. /\ late' = late /\ sessions' = sessions /\ job[j].at = "read"
        /\ void' = IF job[j].kind = "regenerate" THEN void \cup sessions \cup LoggingIn ELSE void
    BY <1>4 DEF WriteRow
  <2>2. Step(j, IF job[j].kind \in Clearing THEN "written" ELSE "done")
    BY <1>4 DEF WriteRow
  <2>3. CASE job[j].kind # "regenerate"
    BY <1>0, <2>1, <2>2, <2>3, StepVoidsNothing DEF Regenerating
  <2>4. CASE job[j].kind = "regenerate"
    <3>1. Step(j, "written")
      BY <2>2, <2>4 DEF Clearing
    <3>2. [job[j] EXCEPT !.at = "written"].at = "written"
          /\ [job[j] EXCEPT !.at = "written"].kind = job[j].kind
      BY DEF Typed, JobRecords
    <3>3. /\ job'[j].at = "written" /\ job'[j].kind = "regenerate"
          /\ \A l \in Jobs \ {j} : job'[l] = job[l]
      BY <2>4, <3>1, <3>2 DEF Step, Typed
    <3>4. j \in Regenerating' /\ LoggingIn' \subseteq LoggingIn
      BY <3>3 DEF Regenerating, LoggingIn
    <3>5. \A l \in Jobs : job'[l].at = "new" => job[l].at = "new" /\ l \notin LoggingIn
      BY <3>3 DEF LoggingIn
    <3>6. QED BY <2>1, <2>4, <3>4, <3>5 DEF VoidSound
  <2>5. QED BY <2>3, <2>4
<1>5. ASSUME NEW j \in Jobs, NEW done \in BOOLEAN, DropSessions(j, done) PROVE VoidSound'
  <2>1. /\ void' = void /\ Step(j, "signedOut") /\ job[j].at = "cleared"
        /\ \/ sessions' = {} /\ late' = late \cup LoggingIn
           \/ sessions' = sessions /\ late' = late \cup LoggingIn \cup sessions
    BY <1>5 DEF DropSessions, NoSession
  <2>2. [job[j] EXCEPT !.at = "signedOut"].at = "signedOut"
    BY DEF Typed, JobRecords
  <2>3. job'[j].at = "signedOut" /\ \A l \in Jobs \ {j} : job'[l] = job[l]
    BY <2>1, <2>2 DEF Step, Typed
  <2>4. LoggingIn' \subseteq LoggingIn
    BY <2>3 DEF LoggingIn
  <2>5. QED BY <2>1, <2>3, <2>4 DEF VoidSound
<1>6. ASSUME NEW j \in Jobs, Remove(j) PROVE NothingVoided
  <2>1. UNCHANGED <<void, late>> /\ sessions' \subseteq sessions \cup LoggingIn
    BY <1>6 DEF Remove
  <2>2. (\E at \in {"written", "done"} : Step(j, at)) /\ j \notin Regenerating
    BY <1>6 DEF Remove, MayStart, First, Regenerating
  <2>3. QED BY <2>1, <2>2, StepVoidsNothing
<1>7. ASSUME NEW j \in Jobs, StartLogin(j) PROVE NothingVoided
  BY <1>7, BeginVoidsNothing DEF StartLogin
<1>8. ASSUME NEW j \in Jobs, Forgot(j) PROVE NothingVoided
  <2>1. CASE Begin(j, "forgot", Deleted, None, "none")
    BY <2>1, BeginVoidsNothing
  <2>2. CASE UNCHANGED <<job, sessions, history>>
    BY <2>2 DEF NothingVoided, history, LoggingIn, Regenerating
  <2>3. CASE job[j].at = "read" /\ Step(j, "done") /\ UNCHANGED <<sessions, history>>
    BY <2>3, StepVoidsNothing DEF Regenerating, history
  <2>4. QED BY <1>8, <2>1, <2>2, <2>3 DEF Forgot
<1>9. ASSUME NEW j \in Jobs, NEW disabled \in BOOLEAN, SetDisabled(j, disabled) PROVE NothingVoided
  <2>1. /\ DoneJob.at = "done"
        /\ [NoJob EXCEPT !.at = "written", !.kind = "disable"].at = "written"
    BY DEF DoneJob, NoJob
  <2>2. job'[j].at \in {"done", "written"} /\ \A l \in Jobs \ {j} : job'[l] = job[l]
    BY <1>9, <2>1 DEF SetDisabled, Typed
  <2>3. UNCHANGED <<void, late, sessions>> /\ j \notin Regenerating
    BY <1>9 DEF SetDisabled, MayStart, First, Regenerating
  <2>4. QED BY <2>2, <2>3, JobVoidsNothing
<1>10. ASSUME NEW j \in Jobs, NEW f \in Jobs, StartReset(j, f) PROVE NothingVoided
  BY <1>10, BeginVoidsNothing DEF StartReset
<1>11. ASSUME NEW j \in Jobs, NEW k \in Keys, NEW to \in {"on", "off", "expired"}, StartPatch(j, k, to)
       PROVE  NothingVoided
  BY <1>11, BeginVoidsNothing DEF StartPatch
<1>12. CASE Aside
  <2>1. UNCHANGED <<void, late>> /\ sessions' \subseteq sessions
    BY <1>12 DEF Aside, ResetExpires, SessionEnds, CreateKey, RetireKey, KeyExpires, EntryExpires,
                 CacheHit, FindKey, FindParent, SetCached, history, tables
  <2>2. QED BY <1>0, <1>12, <2>1, AsideKeeps DEF NothingVoided, LoggingIn, Regenerating
<1>13. ASSUME NEW j \in Jobs, NEW a \in Calls, Checkout(j, a) PROVE NothingVoided
  <2>1. /\ job[j].at = "new" /\ job'[j].at = "read" /\ job'[j].kind = "checkout"
        /\ \A l \in Jobs \ {j} : job'[l] = job[l]
    BY <1>13, CheckoutBegins
  <2>2. UNCHANGED <<void, late, sessions>>
    BY <1>13 DEF Checkout, tables, history
  <2>3. QED BY <2>1, <2>2, JobVoidsNothing DEF Regenerating
<1>14. QED
  BY <1>0, <1>1, <1>2, <1>3, <1>4, <1>5, <1>6, <1>7, <1>8, <1>9, <1>10, <1>11, <1>12, <1>13
  DEF AccountNext, Aside

LEMMA VoidStep == Typed /\ CacheTyped /\ VoidSound /\ [Next]_vars => VoidSound'
<1> SUFFICES ASSUME Typed, CacheTyped, VoidSound, [Next]_vars PROVE VoidSound'
  OBVIOUS
<1>1. CASE AccountStep
  BY <1>1, VoidAccountStep DEF AccountStep
<1>2. CASE UNCHANGED <<job, sessions, void, late>>
  BY <1>2, NothingVoidedKeeps DEF NothingVoided, LoggingIn, Regenerating
<1>3. CASE AdminStep \/ AdminIsIn \/ Forget \/ TakeCounts \/ UNCHANGED vars
  BY <1>2, <1>3 DEF AdminStep, AdminIsIn, Forget, TakeCounts, vars, accountVars, tables, history
<1>4. ASSUME NEW a \in Calls, TrackAPIUsage(a) PROVE VoidSound'
  BY <1>2, <1>4 DEF TrackAPIUsage, tables, history
<1>5. ASSUME NEW j \in Jobs, NEW e \in Events, Webhook(j, e) PROVE VoidSound'
  <2>1. CASE UNCHANGED accountVars
    BY <1>2, <2>1 DEF accountVars, tables, history
  <2>2. CASE Begin(j, "event", row, e, "none")
    BY <2>2, BeginVoidsNothing, NothingVoidedKeeps
  <2>3. QED BY <1>5, <2>1, <2>2 DEF Webhook
<1>6. ASSUME NEW j \in Jobs, EventHandled(j) \/ EventFails(j) PROVE VoidSound'
  <2>1. /\ Step(j, "done") /\ j \notin Regenerating
        /\ UNCHANGED <<void, late>> /\ sessions' = sessions
    BY <1>6 DEF EventHandled, EventFails, Handling, Regenerating, tables, history
  <2>2. QED BY <2>1, StepVoidsNothing, NothingVoidedKeeps
<1>7. ASSUME NEW stored \in BOOLEAN, MonthlyReset \/ AddCounts(stored) PROVE VoidSound'
  BY <1>2, <1>7 DEF MonthlyReset, AddCounts, history
<1>8. QED
  BY <1>1, <1>3, <1>4, <1>5, <1>6, <1>7 DEF Next

\* Once no rotation is under way, no session is left that one of them was to end, but
\* those of logins that had begun before its DeleteAllByUser and stored their session
\* after, and those of a rotation whose DeleteAllByUser failed (its error is ignored).
THEOREM RotationEndsSessions == Spec => []PanicButtonHolds
<1>1. Init => VoidSound
  BY AccountsAssumption DEF Init, AccountInit, NoJob, VoidSound, LoggingIn
<1>2. VoidSound => PanicButtonHolds
  BY DEF VoidSound, PanicButtonHolds, Rotating, Regenerating
<1>3. QED BY <1>1, <1>2, VoidStep, AlwaysTyped, PTL DEF Spec

----------------------------------------------------------------------------
(* The authentication cache.                                               *)

\* Keys whose lookup has passed the checks of the row.
Passed == {call[a].key : a \in {b \in Calls : call[b].at = "checked"}}

\* An entry, or a lookup that will make one, is of a key that would be admitted,
\* unless the key is excused or a handler has yet to clear the cache.
Uncleared == \E j \in Jobs : job[j].at = "written"
CacheSound ==
    ~Uncleared => \A k \in Keys \ excused :
        /\ cached[k] # NoEntry \/ k \in Passed => Allows(row) /\ key[k] = "on"
        /\ k \in Looking => key[k] = "on"

LEMMA NotDeleted == Typed /\ Allows(row) => row # Deleted
BY DEF Allows, Deleted

\* The steps that leave the cache and its lookups alone, and excuse the keys that
\* they withdraw.
Excusing ==
    /\ UNCHANGED <<cached, call>> /\ excused \subseteq excused'
    /\ Uncleared => Uncleared'
    /\ \A k \in Exposed \ excused' :
        /\ Allows(row) => Allows(row')
        /\ key[k] = "on" => key'[k] = "on"

LEMMA PassedLook == Passed \subseteq Looking
BY DEF Passed, Looking

LEMMA ExcusingKeeps == ASSUME CacheSound, Excusing PROVE CacheSound'
<1>1. Passed' = Passed /\ Looking' = Looking
  BY DEF Excusing, Passed, Looking
<1>2. \A k \in Keys : cached[k] # NoEntry \/ k \in Looking => k \in Exposed
  BY DEF Exposed
<1>3. QED BY <1>1, <1>2, PassedLook DEF CacheSound, Excusing

\* A handler reaches its write: the cache is yet to be cleared.
LEMMA WrittenIsUncleared ==
  ASSUME Typed, NEW j \in Jobs, Step(j, "written") PROVE CacheSound'
<1>1. [job[j] EXCEPT !.at = "written"].at = "written"
  BY DEF Typed, JobRecords
<1>2. job'[j].at = "written"
  BY <1>1 DEF Step, Typed
<1>3. QED BY <1>2 DEF CacheSound, Uncleared

LEMMA StepStaysUncleared ==
  ASSUME Typed, NEW j \in Jobs, NEW at \in {"written", "cleared", "signedOut", "done"}, Step(j, at),
         job[j].at # "written"
  PROVE  Uncleared => Uncleared'
BY DEF Uncleared, Step, Typed

LEMMA BeginStaysUncleared ==
  ASSUME Typed, NEW j \in Jobs, NEW kind, NEW r, NEW of, NEW to, Begin(j, kind, r, of, to)
  PROVE  Excusing
<1>1. job[j].at = "new" /\ \A l \in Jobs \ {j} : job'[l] = job[l]
  BY DEF Begin, Typed, MayStart, First
<1>2. UNCHANGED <<cached, call, excused, key, row>>
  BY DEF Begin, tables, history
<1>3. QED BY <1>1, <1>2 DEF Excusing, Uncleared

LEMMA ExcusedRow ==
  ASSUME ExcusesRow PROVE excused \subseteq excused' /\ \A k \in Exposed \ excused' : Allows(row) => Allows(row')
BY DEF ExcusesRow, Excuses

LEMMA CacheAccountStep == Typed /\ CacheTyped /\ CacheSound /\ AccountNext => CacheSound'
<1> SUFFICES ASSUME Typed, CacheTyped, CacheSound, AccountNext PROVE CacheSound'
  OBVIOUS
<1>0. CASE Excusing
  BY <1>0, ExcusingKeeps
<1>1. ASSUME NEW j \in Jobs, NEW kind \in OwnerKinds \cup AdminKinds, ReadRow(j, kind)
      PROVE  Excusing
  BY <1>1, BeginStaysUncleared DEF ReadRow
<1>2. ASSUME NEW j \in Jobs, WriteRow(j) PROVE CacheSound'
  <2>1. CASE job[j].kind \in Clearing
    BY <1>2, <2>1, WrittenIsUncleared DEF WriteRow
  <2>2. CASE job[j].kind \notin Clearing
    <3>1. Step(j, "done") /\ job[j].at = "read" /\ ExcusesRow /\ UNCHANGED <<cached, call, key>>
      BY <1>2, <2>2 DEF WriteRow
    <3>2. QED BY <1>0, <3>1, StepStaysUncleared, ExcusedRow DEF Excusing
  <2>3. QED BY <2>1, <2>2
<1>3. ASSUME NEW j \in Jobs, Reset(j) PROVE Excusing
  <2>1. Step(j, "done") /\ job[j].at = "read" /\ ExcusesRow /\ UNCHANGED <<cached, call, key>>
    BY <1>3 DEF Reset
  <2>2. QED BY <2>1, StepStaysUncleared, ExcusedRow DEF Excusing
<1>4. ASSUME NEW j \in Jobs, WriteFails(j) \/ (\E done \in BOOLEAN : DropSessions(j, done)) \/ Login(j) PROVE Excusing
  <2>1. /\ \E at \in {"signedOut", "done"} : Step(j, at)
        /\ job[j].at # "written" /\ UNCHANGED <<cached, call, key, row, excused>>
    BY <1>4 DEF WriteFails, DropSessions, Login, LoggingIn, tables, history
  <2>2. QED BY <2>1, StepStaysUncleared DEF Excusing
<1>5. ASSUME NEW j \in Jobs, NEW done \in BOOLEAN, DropKeys(j, done) PROVE Excusing
  <2>1. /\ Step(j, "done") /\ job[j].at # "written" /\ UNCHANGED <<cached, call, row>>
        /\ \/ excused' = excused \cup Exposed
           \/ excused' = excused /\ \A k \in Keys : key'[k] = key[k]
    BY <1>5 DEF DropKeys, Excuses
  <2>2. Exposed \subseteq Keys
    BY DEF Exposed, Looking, CacheTyped, CallSound
  <2>3. QED BY <2>1, <2>2, StepStaysUncleared DEF Excusing
<1>6. ASSUME NEW j \in Jobs, Remove(j) PROVE CacheSound'
  <2>1. CASE Step(j, "written")
    BY <2>1, WrittenIsUncleared
  <2>2. CASE MayStart(j) /\ Step(j, "done") /\ Excuses(TRUE)
    <3>1. job[j].at # "written" /\ excused' = excused \cup Exposed /\ UNCHANGED <<cached, call>>
      BY <1>6, <2>2 DEF Remove, MayStart, First, Excuses
    <3>2. QED BY <1>0, <2>2, <3>1, StepStaysUncleared DEF Excusing
  <2>3. QED BY <1>6, <2>1, <2>2 DEF Remove
<1>7. ASSUME NEW j \in Jobs, ClearCache(j) PROVE CacheSound'
  <2>1. cached' = [k \in Keys |-> NoEntry] /\ excused' = Looking /\ call' = call
    BY <1>7 DEF ClearCache, NoEntries
  <2>2. Looking' = Looking /\ Passed' = Passed
    BY <2>1 DEF Looking, Passed
  <2>3. QED BY <2>1, <2>2, PassedLook DEF CacheSound
<1>8. ASSUME NEW j \in Jobs, NEW to \in {"on", "off", "expired"}, PatchKey(j, to) PROVE Excusing
  <2>1. /\ Step(j, "done") /\ job[j].at = "read" /\ UNCHANGED <<cached, call, row>>
        /\ excused' = IF key[job[j].of] = "on" /\ to # "on" THEN excused \cup Exposed ELSE excused
    BY <1>8 DEF PatchKey, Excuses
  <2>2. key' = key \/ key' = [key EXCEPT ![job[j].of] = to]
    BY <1>8 DEF PatchKey
  <2>3. \A k \in Exposed \ excused' : key[k] = "on" => key'[k] = "on"
    BY <2>1, <2>2 DEF CacheTyped, CallSound, Exposed, Looking
  <2>4. QED BY <2>1, <2>3, StepStaysUncleared DEF Excusing
<1>9. ASSUME NEW j \in Jobs, NEW disabled \in BOOLEAN, SetDisabled(j, disabled) PROVE CacheSound'
  <2>1. [NoJob EXCEPT !.at = "written", !.kind = "disable"].at = "written"
    BY DEF NoJob
  <2>2. /\ job' = [job EXCEPT ![j] = IF disabled THEN [NoJob EXCEPT !.at = "written", !.kind = "disable"]
                                     ELSE DoneJob]
        /\ row' = [row EXCEPT !.disabled = disabled]
        /\ UNCHANGED <<cached, call, key, excused>> /\ job[j].at = "new"
    BY <1>9 DEF SetDisabled, MayStart, First
  <2>3. CASE disabled
    <3>1. job'[j].at = "written"
      BY <2>1, <2>2, <2>3 DEF Typed
    <3>2. QED BY <3>1 DEF CacheSound, Uncleared
  <2>4. CASE ~disabled
    <3>1. Allows(row) => Allows(row')
      BY <2>2, <2>4 DEF Allows, Typed, Rows
    <3>2. Uncleared => Uncleared'
      BY <2>2 DEF Uncleared, Typed
    <3>3. QED BY <1>0, <2>2, <3>1, <3>2 DEF Excusing
  <2>5. QED BY <2>3, <2>4
<1>10. ASSUME NEW j \in Jobs, StartLogin(j) PROVE Excusing
  BY <1>10, BeginStaysUncleared DEF StartLogin
<1>11. ASSUME NEW j \in Jobs, Forgot(j) PROVE Excusing
  <2>1. CASE Begin(j, "forgot", Deleted, None, "none")
    BY <2>1, BeginStaysUncleared
  <2>2. CASE UNCHANGED <<job, row, key, cached, call, history>>
    BY <2>2 DEF Excusing, Uncleared, history
  <2>3. CASE job[j].at = "read" /\ Step(j, "done") /\ UNCHANGED <<row, key, cached, call, history>>
    BY <2>3, StepStaysUncleared DEF Excusing, history
  <2>4. QED BY <1>11, <2>1, <2>2, <2>3 DEF Forgot
<1>12. ASSUME NEW j \in Jobs, NEW f \in Jobs, StartReset(j, f) PROVE Excusing
  BY <1>12, BeginStaysUncleared DEF StartReset
<1>13. ASSUME NEW j \in Jobs, NEW k \in Keys, NEW to \in {"on", "off", "expired"}, StartPatch(j, k, to)
       PROVE  Excusing
  BY <1>13, BeginStaysUncleared DEF StartPatch
<1>14. ASSUME \/ \E s \in sessions : SessionEnds(s)
              \/ \E j \in Jobs : ResetExpires(j)
       PROVE  Excusing
  BY <1>14 DEF SessionEnds, ResetExpires, Excusing, Uncleared, history
<1>15. ASSUME NEW k \in Keys, CreateKey(k) \/ RetireKey(k) PROVE Excusing
  <2>1. /\ UNCHANGED <<job, cached, call, row>> /\ excused \subseteq excused'
        /\ Exposed \subseteq excused' \/ key' = [key EXCEPT ![k] = "on"]
    BY <1>15 DEF CreateKey, RetireKey, Excuses, history
  <2>2. Exposed \subseteq Keys
    BY DEF Exposed, Looking, CacheTyped, CallSound
  <2>3. QED BY <2>1, <2>2 DEF Excusing, Uncleared, CacheTyped
<1>16. ASSUME NEW k \in Keys, EntryExpires(k) PROVE CacheSound'
  <2>1. /\ UNCHANGED <<job, call, key, row>> /\ cached' = [cached EXCEPT ![k] = NoEntry]
        /\ excused' = IF k \in Looking THEN excused ELSE excused \ {k}
    BY <1>16 DEF EntryExpires, tables
  <2>2. Looking' = Looking /\ Passed' = Passed
    BY <2>1 DEF Looking, Passed
  <2>3. \A l \in Keys : cached'[l] = IF l = k THEN NoEntry ELSE cached[l]
    BY <2>1 DEF CacheTyped
  <2>4. QED BY <2>1, <2>2, <2>3, PassedLook DEF CacheSound, Uncleared
\* A call that neither looks a key up nor has a check behind it.
<1>17. ASSUME NEW a \in Calls, NEW c \in CallRecords, CallStep(a, c), c.at \notin {"found", "checked"},
              UNCHANGED <<job, cached, key, row, excused>>
       PROVE  CacheSound'
  <2>1. Looking' \subseteq Looking /\ Passed' \subseteq Passed
    BY <1>17 DEF CallStep, CacheTyped, Looking, Passed
  <2>2. QED BY <1>17, <2>1 DEF CacheSound, Uncleared
<1>18. ASSUME NEW a \in Calls, NEW k \in Keys, CacheHit(a, k) PROVE CacheSound'
  <2>1. CallStep(a, [NoCall EXCEPT !.at = "admitted", !.seen = cached[k]])
    BY <1>18 DEF CacheHit
  <2>2. cached[k] \in Rows \ {Deleted}
    BY <1>18 DEF CacheHit, NoEntry, CacheTyped
  <2>3. UNCHANGED <<job, cached, key, row, excused>>
    BY <1>18 DEF CacheHit, tables, history
  <2>4. QED BY <1>17, <2>1, <2>2, <2>3, OverIsTyped
<1>19. ASSUME NEW a \in Calls, NEW k \in Keys, FindKey(a, k) PROVE CacheSound'
  <2>1. UNCHANGED <<job, cached, key, row, excused>>
    BY <1>19 DEF FindKey, tables, history
  <2>2. CASE key[k] # "on"
    BY <1>17, <1>19, <2>1, <2>2, OverIsTyped DEF FindKey
  <2>3. CASE key[k] = "on"
    <3>1. CallStep(a, [NoCall EXCEPT !.at = "found", !.key = k])
      BY <1>19, <2>3 DEF FindKey
    <3>2. call'[a].at = "found" /\ call'[a].key = k /\ \A b \in Calls \ {a} : call'[b] = call[b]
      BY <3>1, FoundIsTyped DEF CallStep, CacheTyped
    <3>3. Looking' \subseteq Looking \cup {k} /\ Passed' \subseteq Passed
      BY <3>2 DEF Looking, Passed
    <3>4. QED BY <2>1, <2>3, <3>3 DEF CacheSound, Uncleared
  <2>4. QED BY <2>2, <2>3
<1>20. ASSUME NEW a \in Calls, FindParent(a) PROVE CacheSound'
  <2>1. UNCHANGED <<job, cached, key, row, excused>> /\ call[a].at = "found"
    BY <1>20 DEF FindParent, tables, history
  <2>2. CASE ~(row # Deleted /\ Allows(row))
    BY <1>17, <1>20, <2>1, <2>2, OverIsTyped DEF FindParent
  <2>3. CASE row # Deleted /\ Allows(row)
    <3>1. CallStep(a, [call[a] EXCEPT !.at = "checked", !.seen = row]) /\ call[a].key \in Keys
      BY <1>20, <2>1, <2>3 DEF FindParent, CacheTyped, CallSound
    <3>2. row \in Rows \ {Deleted}
      BY <2>3 DEF Typed
    <3>3. /\ call'[a].at = "checked" /\ call'[a].key = call[a].key
          /\ \A b \in Calls \ {a} : call'[b] = call[b]
      BY <3>1, <3>2, CheckedIsTyped DEF CallStep, CacheTyped
    <3>4. call[a].key \in Looking
      BY <2>1 DEF Looking
    <3>5. Looking' \subseteq Looking /\ Passed' \subseteq Passed \cup {call[a].key}
      BY <3>3, <3>4 DEF Looking, Passed
    <3>6. QED BY <2>1, <2>3, <3>4, <3>5 DEF CacheSound, Uncleared
  <2>4. QED BY <2>2, <2>3
<1>21. ASSUME NEW a \in Calls, SetCached(a) PROVE CacheSound'
  <2>1. /\ UNCHANGED <<job, key, row, excused>> /\ call[a].at = "checked" /\ call[a].key \in Keys
        /\ cached' = [cached EXCEPT ![call[a].key] = call[a].seen]
        /\ \/ CallStep(a, [NoCall EXCEPT !.at = "admitted", !.seen = call[a].seen])
           \/ CallStep(a, Refused)
    BY <1>21 DEF SetCached, tables, history, CacheTyped, CallSound
  <2>2. call[a].seen \in Rows \ {Deleted}
    BY <2>1 DEF CacheTyped, CallRecords, CallSound
  <2>3. call'[a].at \in {"admitted", "refused"} /\ \A b \in Calls \ {a} : call'[b] = call[b]
    <3>1. /\ [NoCall EXCEPT !.at = "admitted", !.seen = call[a].seen].at = "admitted"
          /\ Refused.at = "refused"
      BY <2>2, OverIsTyped
    <3>2. QED BY <2>1, <3>1 DEF CallStep, CacheTyped
  <2>4. Looking' \subseteq Looking /\ Passed' \subseteq Passed /\ call[a].key \in Passed
    BY <2>1, <2>3 DEF Looking, Passed
  <2>5. \A k \in Keys : k # call[a].key => cached'[k] = cached[k]
    BY <2>1 DEF CacheTyped
  <2>6. QED BY <2>1, <2>4, <2>5 DEF CacheSound, Uncleared
<1>22. ASSUME NEW k \in Keys, KeyExpires(k) PROVE Excusing
  <2>1. /\ UNCHANGED <<job, cached, call, row>> /\ excused' = excused \cup ({k} \cap Exposed)
        /\ key' = [key EXCEPT ![k] = "expired"]
    BY <1>22 DEF KeyExpires
  <2>2. \A q \in Exposed \ excused' : key'[q] = key[q]
    <3>1. Exposed \subseteq Keys
      BY DEF Exposed, Looking, CacheTyped, CallSound
    <3>2. QED BY <2>1, <3>1 DEF CacheTyped
  <2>3. QED BY <2>1, <2>2 DEF Excusing, Uncleared
<1>23. ASSUME NEW j \in Jobs, NEW a \in Calls, Checkout(j, a) PROVE CacheSound'
  <2>1. /\ CallStep(a, [NoCall EXCEPT !.at = "served"])
        /\ UNCHANGED <<cached, key, row, excused>>
    BY <1>23 DEF Checkout, CallStep, tables, history
  <2>2. Looking' \subseteq Looking /\ Passed' \subseteq Passed
    <3>1. [NoCall EXCEPT !.at = "served"].at = "served"
      BY OverIsTyped
    <3>2. call'[a].at = "served" /\ \A b \in Calls \ {a} : call'[b] = call[b]
      BY <2>1, <3>1 DEF CallStep, CacheTyped
    <3>3. QED BY <3>2 DEF Looking, Passed
  <2>3. Uncleared => Uncleared'
    BY <1>23, CheckoutBegins DEF Uncleared
  <2>4. QED BY <2>1, <2>2, <2>3 DEF CacheSound
<1>24. QED
  BY <1>0, <1>1, <1>2, <1>3, <1>4, <1>5, <1>6, <1>7, <1>8, <1>9, <1>10, <1>11, <1>12, <1>13, <1>14,
     <1>15, <1>16, <1>18, <1>19, <1>20, <1>21, <1>22, <1>23
  DEF AccountNext

LEMMA CacheStep == Typed /\ Counting /\ CacheTyped /\ CacheSound /\ [Next]_vars => CacheSound'
<1> SUFFICES ASSUME Typed, Counting, CacheTyped, CacheSound, [Next]_vars PROVE CacheSound'
  OBVIOUS
<1>1. CASE AccountStep
  BY <1>1, CacheAccountStep DEF AccountStep
<1>2. CASE Excusing
  BY <1>2, ExcusingKeeps
<1>3. CASE AdminStep \/ AdminIsIn \/ Forget \/ TakeCounts \/ UNCHANGED vars
  <2>1. UNCHANGED accountVars
    BY <1>3 DEF AdminStep, AdminIsIn, Forget, TakeCounts, vars
  <2>2. QED BY <1>2, <2>1 DEF accountVars, tables, history, Excusing, Uncleared
<1>4. ASSUME NEW j \in Jobs, NEW e \in Events, Webhook(j, e) PROVE Excusing
  <2>1. CASE UNCHANGED accountVars
    BY <2>1 DEF accountVars, tables, history, Excusing, Uncleared
  <2>2. CASE Begin(j, "event", row, e, "none")
    BY <2>2, BeginStaysUncleared DEF Begin, tables
  <2>3. QED BY <1>4, <2>1, <2>2 DEF Webhook
<1>5. ASSUME NEW j \in Jobs, EventHandled(j) PROVE Excusing
  <2>1. Step(j, "done") /\ job[j].at # "written" /\ UNCHANGED <<key, cached, call>>
    BY <1>5 DEF EventHandled, Handling
  <2>2. ExcusesRow \/ UNCHANGED <<row, excused>>
    BY <1>5 DEF EventHandled
  <2>3. QED BY <2>1, <2>2, StepStaysUncleared, ExcusedRow DEF Excusing
<1>6. ASSUME NEW j \in Jobs, EventFails(j) PROVE Excusing
  <2>1. Step(j, "done") /\ job[j].at # "written" /\ UNCHANGED <<key, cached, call, row, excused>>
    BY <1>6 DEF EventFails, Handling, tables, history
  <2>2. QED BY <2>1, StepStaysUncleared DEF Excusing
<1>7. ASSUME NEW stored \in BOOLEAN, MonthlyReset \/ AddCounts(stored) PROVE Excusing
  <2>1. UNCHANGED <<job, key, cached, call, excused>>
    BY <1>7 DEF MonthlyReset, AddCounts, history
  <2>2. \A n \in Nat : Allows([row EXCEPT !.requests = n]) = Allows(row)
    BY DEF Typed, Rows, Allows
  <2>3. row.requests + flying \in Nat
    BY DEF Typed, Rows, Counting
  <2>4. \E n \in Nat : row' = row \/ row' = [row EXCEPT !.requests = n]
    BY <1>7, <2>3 DEF MonthlyReset, AddCounts
  <2>5. Allows(row) => Allows(row')
    BY <2>2, <2>4
  <2>6. QED BY <2>1, <2>5 DEF Excusing, Uncleared
<1>8. ASSUME NEW a \in Calls, TrackAPIUsage(a) PROVE CacheSound'
  <2>1. PICK c \in {Refused, [NoCall EXCEPT !.at = "served"]} : CallStep(a, c)
    BY <1>8 DEF TrackAPIUsage
  <2>2. c.at \in {"refused", "served"}
    BY <2>1, OverIsTyped
  <2>3. UNCHANGED <<job, cached, key, row, excused>>
    BY <1>8 DEF TrackAPIUsage, tables, history
  <2>4. Looking' \subseteq Looking /\ Passed' \subseteq Passed
    BY <2>1, <2>2 DEF CallStep, CacheTyped, Looking, Passed
  <2>5. QED BY <2>3, <2>4 DEF CacheSound, Uncleared
<1>9. QED
  BY <1>1, <1>2, <1>3, <1>4, <1>5, <1>6, <1>7, <1>8 DEF Next

\* When no handler has its cache clearing ahead of it, a cached key is one that the
\* tables would admit, for every key that no other change withdrew, that has not
\* expired since it was cached or looked up (the entry is not checked again), and that
\* nobody was looking up when the cache was cleared.
THEOREM CacheStaysCurrent == Spec => []CacheIsCurrent
<1>1. Init => CacheSound
  <2>1. Init => Looking = {} /\ Passed = {}
    BY DEF Init, AccountInit, NoCall, Looking, Passed
  <2>2. QED BY <2>1 DEF Init, AccountInit, CacheSound
<1>2. Typed /\ CacheSound => CacheIsCurrent
  BY NotDeleted DEF CacheSound, CacheIsCurrent, Rotating, Uncleared
<1>3. QED BY <1>1, <1>2, CacheStep, AlwaysTyped, PTL DEF Spec

----------------------------------------------------------------------------
(* Password resets.                                                        *)

Resetting(j) == job[j].at = "read" /\ job[j].kind = "reset"

\* A token that was used is marked so; a handler that still holds one holds it
\* together with the handler that used it.
ResetSound ==
    /\ reset \in [Jobs -> {"none", "invalidated", "usable", "used"}]
    /\ \A f \in spent : f \in Jobs /\ reset[f] = "used"
    /\ twice \subseteq spent \cap shared /\ shared \subseteq spent
    /\ \A j \in Jobs : Resetting(j) => job[j].of \in Jobs /\ (job[j].of \in spent => job[j].of \in shared)

\* The steps that use no token, bring none back, and begin no reset.
NothingReset ==
    /\ UNCHANGED resets
    /\ reset' \in [Jobs -> {"none", "invalidated", "usable", "used"}]
    /\ \A f \in Jobs : reset[f] = "used" => reset'[f] = "used"
    /\ \A j \in Jobs : Resetting(j)' => Resetting(j) /\ job'[j] = job[j]

LEMMA NothingResetKeeps == ASSUME ResetSound, NothingReset PROVE ResetSound'
BY DEF ResetSound, NothingReset, resets, Resetting

LEMMA StepResetsNothing ==
  ASSUME Typed, NEW j \in Jobs, NEW at \in {"written", "cleared", "signedOut", "done"}, Step(j, at)
  PROVE  \A l \in Jobs : Resetting(l)' => l # j /\ Resetting(l) /\ job'[l] = job[l]
<1>1. DoneJob.at = "done" /\ [job[j] EXCEPT !.at = at].at = at
  BY DEF DoneJob, NoJob, Typed, JobRecords
<1>2. job'[j].at = at /\ \A l \in Jobs \ {j} : job'[l] = job[l]
  BY <1>1 DEF Step, Typed
<1>3. QED BY <1>2 DEF Resetting

LEMMA BeginResetsNothing ==
  ASSUME Typed, ResetSound, NEW j \in Jobs, NEW kind, kind # "reset", NEW r, NEW of, NEW to,
         Begin(j, kind, r, of, to)
  PROVE  NothingReset
<1>1. job'[j].kind = kind /\ \A l \in Jobs \ {j} : job'[l] = job[l]
  BY DEF Begin, Typed
<1>2. UNCHANGED resets /\ reset' = reset
  BY DEF Begin, tables, history
<1>3. QED BY <1>1, <1>2 DEF NothingReset, Resetting, ResetSound

LEMMA ResetAccountStep == Typed /\ CacheTyped /\ ResetSound /\ AccountNext => ResetSound'
<1> SUFFICES ASSUME Typed, CacheTyped, ResetSound, AccountNext PROVE ResetSound'
  OBVIOUS
<1>0. CASE NothingReset
  BY <1>0, NothingResetKeeps
<1>1. ASSUME NEW j \in Jobs, NEW kind \in OwnerKinds \cup AdminKinds, ReadRow(j, kind)
      PROVE  NothingReset
  BY <1>1, BeginResetsNothing DEF ReadRow, OwnerKinds, AdminKinds
<1>2. ASSUME NEW j \in Jobs, WriteRow(j) \/ WriteFails(j) \/ ClearCache(j) \/ (\E done \in BOOLEAN : DropSessions(j, done))
                             \/ (\E done \in BOOLEAN : DropKeys(j, done)) \/ Login(j) \/ (\E to \in {"on", "off", "expired"} : PatchKey(j, to))
      PROVE  NothingReset
  <2>1. \E at \in {"written", "cleared", "signedOut", "done"} : Step(j, at)
    BY <1>2 DEF WriteRow, WriteFails, ClearCache, DropSessions, DropKeys, Login, PatchKey
  <2>2. UNCHANGED resets /\ reset' = reset
    BY <1>2 DEF WriteRow, WriteFails, ClearCache, DropSessions, DropKeys, Login, PatchKey, tables, history
  <2>3. QED BY <2>1, <2>2, StepResetsNothing DEF NothingReset, ResetSound
<1>3. ASSUME NEW j \in Jobs, Remove(j) PROVE NothingReset
  <2>1. (\E at \in {"written", "done"} : Step(j, at)) /\ UNCHANGED resets
    BY <1>3 DEF Remove
  <2>2. reset' = [l \in Jobs |-> IF reset[l] = "usable" THEN "used" ELSE reset[l]]
    BY <1>3 DEF Remove
  <2>3. QED BY <2>1, <2>2, StepResetsNothing DEF NothingReset, ResetSound
<1>4. ASSUME NEW j \in Jobs, StartLogin(j) PROVE NothingReset
  BY <1>4, BeginResetsNothing DEF StartLogin
<1>5. ASSUME NEW j \in Jobs, Forgot(j) PROVE NothingReset
  <2>1. CASE Begin(j, "forgot", Deleted, None, "none")
    BY <2>1, BeginResetsNothing
  <2>2. CASE reset[j] = "none" /\ reset' = [Invalidated EXCEPT ![j] = "invalidated"] /\ UNCHANGED <<job, history>>
    BY <2>2 DEF NothingReset, ResetSound, Resetting, Invalidated, history
  <2>3. CASE reset[j] = "invalidated" /\ reset' = [reset EXCEPT ![j] = "usable"] /\ Step(j, "done") /\ UNCHANGED history
    <3>1. \A f \in Jobs : reset[f] = "used" => reset'[f] = "used"
      BY <2>3 DEF ResetSound
    <3>2. reset' \in [Jobs -> {"none", "invalidated", "usable", "used"}]
      BY <2>3 DEF ResetSound
    <3>3. QED BY <2>3, <3>1, <3>2, StepResetsNothing DEF NothingReset, history
  <2>4. QED BY <1>5, <2>1, <2>2, <2>3 DEF Forgot
<1>6. ASSUME NEW j \in Jobs, NEW f \in Jobs, StartReset(j, f) PROVE ResetSound'
  <2>1. /\ job'[j].of = f /\ \A l \in Jobs \ {j} : job'[l] = job[l]
        /\ UNCHANGED <<reset, resets>> /\ reset[f] = "usable"
    BY <1>6 DEF StartReset, Begin, Typed, tables, history
  <2>2. f \notin spent
    BY <2>1 DEF ResetSound
  <2>3. QED BY <2>1, <2>2 DEF ResetSound, Resetting, resets
<1>7. ASSUME NEW j \in Jobs, Reset(j) PROVE ResetSound'
  <2> DEFINE f == job[j].of
  <2>1. /\ Resetting(j) /\ Step(j, "done") /\ spent' = spent \cup {f}
        /\ twice' = IF f \in spent THEN twice \cup {f} ELSE twice
        /\ shared' = IF \E l \in Holding \ {j} : job[l].kind = "reset" /\ job[l].of = f
                     THEN shared \cup {f} ELSE shared
        /\ reset' = [Invalidated EXCEPT ![f] = "used"]
    BY <1>7 DEF Reset, MarkUsed, Resetting
  <2>2. f \in Jobs /\ (f \in spent => f \in shared)
    BY <2>1 DEF ResetSound
  <2>3. reset' \in [Jobs -> {"none", "invalidated", "usable", "used"}]
    BY <2>1 DEF Invalidated, ResetSound
  <2>4. \A g \in spent' : g \in Jobs /\ reset'[g] = "used"
    BY <2>1, <2>2 DEF Invalidated, ResetSound
  <2>5. \A l \in Jobs : Resetting(l)' => l # j /\ Resetting(l) /\ job'[l] = job[l]
    BY <2>1, StepResetsNothing
  <2>6. \A l \in Jobs : Resetting(l) /\ l # j /\ job[l].of = f => f \in shared'
    BY <2>1 DEF Resetting, Holding, Typed, Sound, Writers
  <2> HIDE DEF f
  <2>7. \A l \in Jobs : Resetting(l)' => job'[l].of \in Jobs /\ (job'[l].of \in spent' => job'[l].of \in shared')
    BY <2>1, <2>5, <2>6 DEF ResetSound
  <2>8. twice' \subseteq spent' \cap shared' /\ shared' \subseteq spent'
    BY <2>1, <2>2 DEF ResetSound
  <2>9. QED BY <2>3, <2>4, <2>7, <2>8 DEF ResetSound
<1>8. ASSUME NEW f \in Jobs, ResetExpires(f) PROVE NothingReset
  BY <1>8 DEF ResetExpires, NothingReset, ResetSound, Resetting, history
<1>9. ASSUME NEW j \in Jobs, NEW disabled \in BOOLEAN, SetDisabled(j, disabled) PROVE NothingReset
  <2>1. DoneJob.at = "done" /\ [NoJob EXCEPT !.at = "written", !.kind = "disable"].at = "written"
    BY DEF DoneJob, NoJob
  <2>2. job'[j].at # "read" /\ \A l \in Jobs \ {j} : job'[l] = job[l]
    BY <1>9, <2>1 DEF SetDisabled, Typed
  <2>3. UNCHANGED resets /\ reset' = reset
    BY <1>9 DEF SetDisabled
  <2>4. QED BY <2>2, <2>3 DEF NothingReset, Resetting, ResetSound
<1>10. ASSUME NEW j \in Jobs, NEW k \in Keys, NEW to \in {"on", "off", "expired"}, StartPatch(j, k, to)
       PROVE  NothingReset
  BY <1>10, BeginResetsNothing DEF StartPatch
<1>11. CASE UNCHANGED <<reset, job, resets>>
  BY <1>0, <1>11 DEF NothingReset, Resetting, ResetSound
<1>12. ASSUME NEW s \in sessions, SessionEnds(s) PROVE UNCHANGED <<reset, job, resets>>
  BY <1>12 DEF SessionEnds, history
<1>13. ASSUME NEW k \in Keys, CreateKey(k) \/ RetireKey(k) \/ KeyExpires(k) \/ EntryExpires(k)
       PROVE  UNCHANGED <<reset, job, resets>>
  BY <1>13 DEF CreateKey, RetireKey, KeyExpires, EntryExpires, tables, history
<1>14. ASSUME NEW a \in Calls, NEW k \in Keys, CacheHit(a, k) \/ FindKey(a, k)
       PROVE  UNCHANGED <<reset, job, resets>>
  BY <1>14 DEF CacheHit, FindKey, tables, history
<1>15. ASSUME NEW a \in Calls, FindParent(a) \/ SetCached(a) PROVE UNCHANGED <<reset, job, resets>>
  BY <1>15 DEF FindParent, SetCached, tables, history
<1>16. ASSUME NEW j \in Jobs, NEW a \in Calls, Checkout(j, a) PROVE NothingReset
  <2>1. job'[j].kind = "checkout" /\ \A l \in Jobs \ {j} : job'[l] = job[l]
    BY <1>16, CheckoutBegins
  <2>2. UNCHANGED <<reset, resets>>
    BY <1>16 DEF Checkout, tables, history
  <2>3. QED BY <2>1, <2>2 DEF NothingReset, Resetting, ResetSound
<1>17. QED
  BY <1>0, <1>1, <1>2, <1>3, <1>4, <1>5, <1>6, <1>7, <1>8, <1>9, <1>10, <1>11, <1>12, <1>13,
     <1>14, <1>15, <1>16
  DEF AccountNext

LEMMA ResetStep == Typed /\ CacheTyped /\ ResetSound /\ [Next]_vars => ResetSound'
<1> SUFFICES ASSUME Typed, CacheTyped, ResetSound, [Next]_vars PROVE ResetSound'
  OBVIOUS
<1>1. CASE AccountStep
  BY <1>1, ResetAccountStep DEF AccountStep
<1>2. CASE UNCHANGED <<reset, job, resets>>
  BY <1>2, NothingResetKeeps DEF NothingReset, Resetting, ResetSound
<1>3. CASE AdminStep \/ AdminIsIn \/ Forget \/ TakeCounts \/ UNCHANGED vars
  BY <1>2, <1>3 DEF AdminStep, AdminIsIn, Forget, TakeCounts, vars, accountVars, tables, history
<1>4. ASSUME NEW a \in Calls, TrackAPIUsage(a) PROVE ResetSound'
  BY <1>2, <1>4 DEF TrackAPIUsage, tables, history
<1>5. ASSUME NEW j \in Jobs, NEW e \in Events, Webhook(j, e) PROVE ResetSound'
  <2>1. CASE UNCHANGED accountVars
    BY <1>2, <2>1 DEF accountVars, tables, history
  <2>2. CASE Begin(j, "event", row, e, "none")
    BY <2>2, BeginResetsNothing, NothingResetKeeps
  <2>3. QED BY <1>5, <2>1, <2>2 DEF Webhook
<1>6. ASSUME NEW j \in Jobs, EventHandled(j) \/ EventFails(j) PROVE ResetSound'
  <2>1. Step(j, "done") /\ UNCHANGED <<reset, resets>>
    BY <1>6 DEF EventHandled, EventFails, tables, history
  <2>2. QED BY <2>1, StepResetsNothing, NothingResetKeeps DEF NothingReset, ResetSound
<1>7. ASSUME NEW stored \in BOOLEAN, MonthlyReset \/ AddCounts(stored) PROVE ResetSound'
  BY <1>2, <1>7 DEF MonthlyReset, AddCounts, history
<1>8. QED
  BY <1>1, <1>3, <1>4, <1>5, <1>6, <1>7 DEF Next

\* The token of a reset mail sets a password once; it does so twice only for two
\* requests that had both found it unused before either marked it.
THEOREM ResetsAreOnce == Spec => []ResetsAreSingle
<1>1. Init => ResetSound
  BY DEF Init, AccountInit, NoJob, ResetSound, Resetting
<1>2. ResetSound => ResetsAreSingle
  BY DEF ResetSound, ResetsAreSingle
<1>3. QED BY <1>1, <1>2, ResetStep, AlwaysTyped, PTL DEF Spec

----------------------------------------------------------------------------
(* The admin's sessions under the account, and the types of the rest.      *)

\* The dashboard takes its own steps, or an admin is inside without them.
LEMMA AdminFrame ==
  [Next]_vars =>
    /\ load' = load
    /\ \/ load.attempts > 0 /\ AdminNext
       \/ AdminIsIn
       \/ UNCHANGED adminVars
<1> SUFFICES ASSUME [Next]_vars
             PROVE  /\ load' = load
                    /\ (load.attempts > 0 /\ AdminNext) \/ AdminIsIn \/ UNCHANGED adminVars
  OBVIOUS
<1>1. CASE AccountStep
  <2>1. ASSUME NEW j \in Jobs, \/ \E kind \in OwnerKinds \cup AdminKinds : ReadRow(j, kind)
                               \/ StartLogin(j) \/ Forgot(j) \/ (\E f \in Jobs : StartReset(j, f))
                               \/ \E k \in Keys, to \in {"on", "off", "expired"} : StartPatch(j, k, to)
        PROVE  UNCHANGED <<load, adminVars>>
    BY <2>1 DEF ReadRow, StartLogin, Forgot, StartReset, StartPatch, Begin
  <2>2. ASSUME NEW j \in Jobs, \/ WriteRow(j) \/ WriteFails(j) \/ ClearCache(j) \/ (\E done \in BOOLEAN : DropSessions(j, done))
                               \/ (\E done \in BOOLEAN : DropKeys(j, done)) \/ Remove(j) \/ Login(j) \/ Reset(j) \/ (\E to \in {"on", "off", "expired"} : PatchKey(j, to))
                               \/ ResetExpires(j) \/ (\E disabled \in BOOLEAN : SetDisabled(j, disabled))
                               \/ (\E a \in Calls : Checkout(j, a))
        PROVE  UNCHANGED <<load, adminVars>>
    BY <2>2 DEF WriteRow, WriteFails, ClearCache, DropSessions, DropKeys, Remove, Login, Reset,
                PatchKey, ResetExpires, SetDisabled, Checkout
  <2>3. ASSUME \/ \E s \in sessions : SessionEnds(s)
               \/ \E k \in Keys : CreateKey(k) \/ RetireKey(k) \/ KeyExpires(k) \/ EntryExpires(k)
               \/ \E a \in Calls, k \in Keys : CacheHit(a, k) \/ FindKey(a, k)
               \/ \E a \in Calls : FindParent(a) \/ SetCached(a)
        PROVE  UNCHANGED <<load, adminVars>>
    BY <2>3 DEF SessionEnds, CreateKey, RetireKey, KeyExpires, EntryExpires, CacheHit, FindKey,
                FindParent, SetCached
  <2>4. QED BY <1>1, <2>1, <2>2, <2>3 DEF AccountStep, AccountNext
<1>2. CASE AdminStep
  BY <1>2 DEF AdminStep, accountVars
<1>3. CASE AdminIsIn
  BY <1>3 DEF AdminIsIn, accountVars
<1>4. ASSUME NEW j \in Jobs, \/ \E e \in Events : Webhook(j, e)
                             \/ EventHandled(j) \/ EventFails(j)
      PROVE  UNCHANGED <<load, adminVars>>
  BY <1>4 DEF Webhook, EventHandled, EventFails, Begin, accountVars
<1>5. ASSUME \/ Forget \/ TakeCounts \/ MonthlyReset \/ UNCHANGED vars
             \/ \E a \in Calls : TrackAPIUsage(a)
             \/ \E stored \in BOOLEAN : AddCounts(stored)
      PROVE  UNCHANGED <<load, adminVars>>
  BY <1>5 DEF Forget, TakeCounts, MonthlyReset, TrackAPIUsage, AddCounts, vars, accountVars
<1>6. QED BY <1>1, <1>2, <1>3, <1>4, <1>5 DEF Next

\* Where an admin is inside RequireAdmin without a session of the model, no browser
\* of the model has signed out.
AdminSound ==
    /\ AdminTypeOK /\ LockSound /\ BrowserSound
    /\ load.attempts \in Nat
    /\ load.attempts = 0 => ~signedOut

LEMMA AdminSoundStep == AdminSound /\ [Next]_vars => AdminSound'
<1> SUFFICES ASSUME AdminSound, [Next]_vars PROVE AdminSound'
  OBVIOUS
<1>1. load' = load
  BY AdminFrame
<1>2. CASE load.attempts > 0 /\ AdminNext
  BY <1>1, <1>2, AdminTypeStep, LockStep, BrowserStep DEF AdminSound
<1>3. CASE AdminIsIn
  <2>1. /\ UNCHANGED <<trusted, token, rootOf, denied, aged, cookie, answers, signedOut, crossed, lockVars>>
        /\ passing' \subseteq Tokens /\ load.attempts = 0
    BY <1>3 DEF AdminIsIn
  <2>2. AdminTypeOK'
    BY <2>1 DEF AdminSound, AdminTypeOK, lockVars
  <2>3. LockSound' /\ BrowserSound'
    BY <2>1 DEF AdminSound, LockSound, Comparing, BrowserSound, TokensMinted, SignedOutSound, lockVars
  <2>4. QED BY <1>1, <2>1, <2>2, <2>3 DEF AdminSound
<1>4. CASE UNCHANGED adminVars
  BY <1>1, <1>4 DEF AdminSound, AdminTypeOK, LockSound, Comparing, BrowserSound, TokensMinted,
                    SignedOutSound, adminVars, tokenVars, lockVars
<1>5. QED BY <1>2, <1>3, <1>4, AdminFrame

\* The bounds of a behaviour are numbers.
LEMMA AdminIsSound == Spec => []AdminSound
<1>1. Init => AdminSound
  <2>1. Init => AdminTypeOK /\ LockSound /\ BrowserSound
    BY AdminTypeInit, LockInit, BrowserInit DEF Init
  <2>2. Init => load.attempts \in Nat /\ ~signedOut
    BY AccountsAssumption DEF Init, AccountInit, AdminInit
  <2>3. QED BY <2>1, <2>2 DEF AdminSound
<1>2. QED BY <1>1, AdminSoundStep, PTL DEF Spec

\* A browser that has logged out stays out until it logs in again, whatever it had on
\* its way, unless the logout met an answer or a request, or stored no denial.
THEOREM LogoutIsFinal == Spec => []LogoutHolds
<1>1. AdminSound => LogoutHolds
  BY BrowserHolds DEF AdminSound
<1>2. QED BY <1>1, AdminIsSound, PTL

\* Beyond the threshold only the guesses count that were being compared when the lock
\* was set.
THEOREM GuessesStop == Spec => []GuessesAreBounded
<1>1. AdminSound => GuessesAreBounded
  BY LockBounds DEF AdminSound
<1>2. QED BY <1>1, AdminIsSound, PTL

\* What TypeOK says of the variables that the invariants above leave out.
RestTyped ==
    /\ load \in Loads /\ sessions \subseteq Jobs \cup {None}
    /\ torn \subseteq Columns /\ excused \subseteq Keys
    /\ void \subseteq Jobs \cup {None} /\ late \subseteq Jobs \cup {None}
    /\ marked \cup answered \cup handled \cup again \cup failed \cup forgotten \subseteq Events
    /\ months \in Nat /\ rewritten \in BOOLEAN

LEMMA RestAccountStep ==
  Typed /\ CacheTyped /\ RestTyped /\ AccountNext =>
    /\ sessions' \subseteq Jobs \cup {None} /\ torn' \subseteq Columns /\ excused' \subseteq Keys
    /\ void' \subseteq Jobs \cup {None} /\ late' \subseteq Jobs \cup {None}
<1> DEFINE Goal == /\ sessions' \subseteq Jobs \cup {None} /\ torn' \subseteq Columns /\ excused' \subseteq Keys
                   /\ void' \subseteq Jobs \cup {None} /\ late' \subseteq Jobs \cup {None}
<1> SUFFICES ASSUME Typed, CacheTyped, RestTyped, AccountNext PROVE Goal
  OBVIOUS
<1>0. Looking \subseteq Keys /\ Exposed \subseteq Keys /\ LoggingIn \subseteq Jobs
  BY DEF Looking, Exposed, LoggingIn, CacheTyped, CallSound
<1>a. \A j, columns : columns \subseteq Columns /\ Decided(j, columns) => torn' \subseteq Columns
  BY DEF Decided, RestTyped
<1>b. \A x : Excuses(x) => excused' \subseteq Keys
  BY <1>0 DEF Excuses, RestTyped
<1>c. \A j \in Jobs : Decides(job[j].kind) \subseteq Columns /\ {"password", "disabled"} \subseteq Columns
  BY DEF Decides, Columns
<1>1. CASE UNCHANGED <<sessions, history>>
  BY <1>1 DEF RestTyped, history, decisions
<1>2. ASSUME NEW j \in Jobs, \/ \E kind \in OwnerKinds \cup AdminKinds : ReadRow(j, kind)
                             \/ StartLogin(j) \/ Forgot(j) \/ (\E f \in Jobs : StartReset(j, f))
                             \/ \E k \in Keys, to \in {"on", "off", "expired"} : StartPatch(j, k, to)
                             \/ WriteFails(j) \/ ResetExpires(j)
      PROVE  UNCHANGED <<sessions, history>>
  BY <1>2 DEF ReadRow, StartLogin, Forgot, StartReset, StartPatch, Begin, WriteFails, ResetExpires, tables
<1>3. ASSUME NEW j \in Jobs, WriteRow(j) PROVE Goal
  <2>1. torn' \subseteq Columns
    BY <1>3, <1>a, <1>c DEF WriteRow
  <2>2. excused' \subseteq Keys
    BY <1>3, <1>b DEF WriteRow, ExcusesRow, RestTyped
  <2>3. void' \subseteq Jobs \cup {None} /\ UNCHANGED <<sessions, late>>
    BY <1>0, <1>3 DEF WriteRow, RestTyped
  <2>4. QED BY <2>1, <2>2, <2>3 DEF RestTyped
<1>4. ASSUME NEW j \in Jobs, Reset(j) PROVE Goal
  <2>1. torn' \subseteq Columns
    BY <1>4, <1>a, <1>c DEF Reset
  <2>2. excused' \subseteq Keys
    BY <1>4, <1>b DEF Reset, ExcusesRow
  <2>3. UNCHANGED <<sessions, void, late>>
    BY <1>4 DEF Reset
  <2>4. QED BY <2>1, <2>2, <2>3 DEF RestTyped
<1>5. ASSUME NEW j \in Jobs, ClearCache(j) \/ (\E done \in BOOLEAN : DropSessions(j, done) \/ DropKeys(j, done)) PROVE Goal
  <2>1. excused' \subseteq Keys
    BY <1>0, <1>5, <1>b DEF ClearCache, DropSessions, DropKeys, RestTyped
  <2>2. /\ UNCHANGED <<torn, void>> /\ sessions' \subseteq sessions
        /\ late' \subseteq late \cup LoggingIn \cup sessions
    BY <1>5 DEF ClearCache, DropSessions, DropKeys, NoSession, tables, decisions
  <2>3. QED BY <1>0, <2>1, <2>2 DEF RestTyped
<1>6. ASSUME NEW j \in Jobs, Remove(j) PROVE Goal
  <2>1. torn' \subseteq Columns
    BY <1>6, <1>a DEF Remove
  <2>2. excused' \subseteq Keys
    BY <1>6, <1>b DEF Remove, RestTyped
  <2>3. UNCHANGED <<sessions, void, late>>
    BY <1>6 DEF Remove
  <2>4. QED BY <2>1, <2>2, <2>3 DEF RestTyped
<1>7. ASSUME NEW j \in Jobs, Login(j) \/ (\E to \in {"on", "off", "expired"} : PatchKey(j, to)) PROVE Goal
  <2>1. excused' \subseteq Keys
    BY <1>7, <1>b DEF Login, PatchKey, history, RestTyped
  <2>2. UNCHANGED <<torn, void, late>> /\ sessions' \subseteq sessions \cup {j}
    BY <1>7 DEF Login, PatchKey, history, decisions
  <2>3. QED BY <2>1, <2>2 DEF RestTyped
<1>8. ASSUME NEW j \in Jobs, NEW disabled \in BOOLEAN, SetDisabled(j, disabled) PROVE Goal
  <2>1. torn' \subseteq Columns
    BY <1>8, <1>a, <1>c DEF SetDisabled
  <2>2. UNCHANGED <<sessions, excused, void, late>>
    BY <1>8 DEF SetDisabled
  <2>3. QED BY <2>1, <2>2 DEF RestTyped
<1>9. ASSUME NEW s \in sessions, SessionEnds(s) PROVE Goal
  BY <1>9 DEF SessionEnds, RestTyped, history, decisions
<1>10. ASSUME NEW k \in Keys, CreateKey(k) PROVE UNCHANGED <<sessions, history>>
  BY <1>10 DEF CreateKey
<1>11. ASSUME NEW k \in Keys, RetireKey(k) \/ KeyExpires(k) \/ EntryExpires(k) PROVE Goal
  <2>1. excused' \subseteq Keys
    BY <1>11, <1>b DEF RetireKey, KeyExpires, EntryExpires, RestTyped
  <2>2. UNCHANGED <<sessions, torn, void, late>>
    BY <1>11 DEF RetireKey, KeyExpires, EntryExpires, tables, decisions
  <2>3. QED BY <2>1, <2>2 DEF RestTyped
<1>12. ASSUME NEW a \in Calls, NEW k \in Keys, CacheHit(a, k) \/ FindKey(a, k)
       PROVE  UNCHANGED <<sessions, history>>
  BY <1>12 DEF CacheHit, FindKey, tables
<1>13. ASSUME NEW a \in Calls, FindParent(a) \/ SetCached(a) PROVE UNCHANGED <<sessions, history>>
  BY <1>13 DEF FindParent, SetCached, tables
<1>14. ASSUME NEW j \in Jobs, NEW a \in Calls, Checkout(j, a) PROVE UNCHANGED <<sessions, history>>
  BY <1>14 DEF Checkout, tables
<1>15. QED
  BY <1>1, <1>2, <1>3, <1>4, <1>5, <1>6, <1>7, <1>8, <1>9, <1>10, <1>11, <1>12, <1>13, <1>14
  DEF AccountNext

LEMMA RestStep == Typed /\ CacheTyped /\ RestTyped /\ [Next]_vars => RestTyped'
<1> SUFFICES ASSUME Typed, CacheTyped, RestTyped, [Next]_vars PROVE RestTyped'
  OBVIOUS
<1>0. load' = load
  BY AdminFrame
<1>1. CASE AccountStep
  <2>1. UNCHANGED webhookVars /\ months' = months /\ rewritten' \in BOOLEAN
    BY <1>1 DEF AccountStep, RestTyped
  <2>2. QED BY <1>0, <1>1, <2>1, RestAccountStep DEF AccountStep, RestTyped, webhookVars
\* The rest leaves the account's history, and changes one thing at most.
<1>2. ASSUME UNCHANGED <<sessions, history>>, months' \in Nat, rewritten' \in BOOLEAN,
             marked' \cup answered' \cup handled' \cup again' \cup failed' \cup forgotten' \subseteq Events
      PROVE  RestTyped'
  BY <1>0, <1>2 DEF RestTyped, history, decisions
<1>3. CASE AdminStep \/ AdminIsIn \/ TakeCounts \/ UNCHANGED vars
  <2>1. UNCHANGED <<accountVars, webhookVars, months, rewritten>>
    BY <1>3 DEF AdminStep, AdminIsIn, TakeCounts, vars, countVars
  <2>2. QED BY <1>2, <2>1 DEF accountVars, tables, webhookVars, RestTyped
<1>4. CASE Forget
  <2>1. UNCHANGED <<accountVars, countVars, answered, handled, again, failed>>
        /\ marked' = {} /\ forgotten' = forgotten \cup marked
    BY <1>4 DEF Forget
  <2>2. QED BY <1>2, <2>1 DEF accountVars, tables, countVars, RestTyped
<1>5. ASSUME NEW a \in Calls, TrackAPIUsage(a) PROVE RestTyped'
  BY <1>2, <1>5 DEF TrackAPIUsage, tables, webhookVars, RestTyped
<1>6. ASSUME NEW j \in Jobs, NEW e \in Events, Webhook(j, e) PROVE RestTyped'
  <2>1. UNCHANGED <<handled, again, failed, forgotten, countVars, sessions, history>>
    BY <1>6 DEF Webhook, Begin, accountVars, tables
  <2>2. marked' \subseteq marked \cup {e} /\ answered' \subseteq answered \cup {e}
    BY <1>6 DEF Webhook, MarkEventProcessed
  <2>3. QED BY <1>2, <2>1, <2>2 DEF countVars, RestTyped
<1>7. ASSUME NEW j \in Jobs, EventFails(j) PROVE RestTyped'
  <2>1. /\ UNCHANGED <<marked, answered, handled, again, forgotten, countVars, sessions, history>>
        /\ failed' = failed \cup {job[j].of}
    BY <1>7 DEF EventFails, tables
  <2>2. job[j].of \in Events
    BY <1>7 DEF EventFails, Handling, Typed, Sound
  <2>3. QED BY <1>2, <2>1, <2>2 DEF countVars, RestTyped
<1>8. ASSUME NEW j \in Jobs, EventHandled(j) PROVE RestTyped'
  <2> DEFINE e == job[j].of
  <2>1. /\ UNCHANGED <<marked, failed, forgotten, months, sessions, void, late>>
        /\ handled' = handled \cup {e} /\ answered' = answered \cup {e}
        /\ again' \subseteq again \cup {e}
    BY <1>8 DEF EventHandled
  <2>2. e \in Events
    BY <1>8 DEF EventHandled, Handling, Typed, Sound
  <2>3. Exposed \subseteq Keys
    BY DEF Exposed, Looking, CacheTyped, CallSound
  <2>4. torn' \subseteq Columns
    BY <1>8 DEF EventHandled, Decided, Columns, decisions, RestTyped
  <2>5. excused' \subseteq Keys /\ rewritten' \in BOOLEAN
    BY <1>8, <2>3 DEF EventHandled, ExcusesRow, Excuses, Rewrites, RestTyped
  <2> HIDE DEF e
  <2>6. QED BY <1>0, <2>1, <2>2, <2>4, <2>5 DEF RestTyped
<1>9. CASE MonthlyReset
  <2>1. UNCHANGED <<sessions, history, webhookVars, rewritten>> /\ months' = months + 1
    BY <1>9 DEF MonthlyReset
  <2>2. QED BY <1>2, <2>1 DEF webhookVars, RestTyped
<1>10. ASSUME NEW stored \in BOOLEAN, AddCounts(stored) PROVE RestTyped'
  BY <1>2, <1>10 DEF AddCounts, webhookVars, RestTyped
<1>11. QED
  BY <1>1, <1>3, <1>4, <1>5, <1>6, <1>7, <1>8, <1>9, <1>10 DEF Next

\* Every variable of the account, its billing and its admin has its type in every
\* reachable state.
THEOREM TypeCorrect == Spec => []TypeOK
<1>1. Init => CountsAgree /\ CacheTyped /\ CacheSound /\ ResetSound /\ RestTyped
  <2>1. Init => CountsAgree
    BY DEF Init, AccountInit, CountsAgree, Registered, Deleted
  <2>2. Init => CacheTyped
    BY CacheStartsTyped
  <2>3. Init => CacheSound
    BY DEF Init, AccountInit, CacheSound, NoCall, Looking, Passed
  <2>4. Init => ResetSound
    BY DEF Init, AccountInit, NoJob, ResetSound, Resetting
  <2>5. Init => RestTyped
    <3> SUFFICES ASSUME Init PROVE RestTyped
      OBVIOUS
    <3>1. load \in Loads /\ sessions = {None} /\ months = 0 /\ rewritten = FALSE
      BY DEF Init, AccountInit
    <3>2. torn = {} /\ excused = {} /\ void = {} /\ late = {}
      BY DEF Init, AccountInit
    <3>3. marked \cup answered \cup handled \cup again \cup failed \cup forgotten = {}
      BY DEF Init
    <3>4. QED BY <3>1, <3>2, <3>3 DEF RestTyped
  <2>6. QED BY <2>1, <2>2, <2>3, <2>4, <2>5
<1>2. AdminSound /\ Typed /\ Counting /\ CountsAgree /\ CacheTyped /\ ResetSound /\ RestTyped => TypeOK
  <2> SUFFICES ASSUME AdminSound, Typed, Counting, CountsAgree, CacheTyped, ResetSound, RestTyped
               PROVE  TypeOK
    OBVIOUS
  <2>1. AdminTypeOK /\ load \in Loads
    BY DEF AdminSound, RestTyped
  <2>2. /\ row.password \in Jobs \cup {None} /\ row.hash \in Jobs \cup {None}
        /\ {row.verified, row.link, row.rotate, row.disabled} \subseteq BOOLEAN
        /\ row.status \in {"free", "incomplete", "past_due", "canceled", "active", "deleted"}
        /\ row.requests \in Nat
    BY DEF Typed, Rows
  <2>3. \A j \in Jobs :
            /\ job[j].at \in {"new", "read", "written", "cleared", "signedOut", "done"}
            /\ job[j].at \in {"new", "done"} => job[j].row = Deleted
    BY DEF Typed, JobRecords, Sound
  <2>4. /\ reset \in [Jobs -> {"none", "invalidated", "usable", "used"}]
        /\ spent \cup twice \cup shared \subseteq Jobs
    BY DEF ResetSound
  <2>5. /\ key \in [Keys -> {"absent", "on", "off", "expired", "gone"}]
        /\ \A a \in Calls : call[a].at \in {"new", "found", "checked", "admitted", "served", "refused"}
    BY DEF CacheTyped, CallRecords
  <2>6. {pending, flying, served, closed, lost, months} \subseteq Nat
    BY DEF Counting, CountsAgree, RestTyped
  <2>7. QED BY <2>1, <2>2, <2>3, <2>4, <2>5, <2>6 DEF TypeOK, RestTyped
<1>3. QED
  BY <1>1, <1>2, CountsStep, CacheStep, ResetStep, RestStep, AlwaysTyped, AdminIsSound, PTL DEF Spec

----------------------------------------------------------------------------
(* The dashboard.                                                          *)
----------------------------------------------------------------------------

\* The dashboard is Billing with runs and edits beside it.
LEMMA DashboardIsBilling == DashboardSpec => Spec
<1>1. DashboardInit => Init
  BY DEF DashboardInit
<1>2. [DashboardNext]_dashboardVars => [Next]_vars
  BY DEF DashboardNext, dashboardVars
<1>3. QED BY <1>1, <1>2, PTL DEF DashboardSpec, Spec

\* The promises of the account, its billing and its admin are kept, each with the
\* exceptions its definition names, while tests run and .env.test is edited.
THEOREM AccountsHold ==
  DashboardSpec => [](LogoutHolds /\ DecisionsOutlast /\ CacheIsCurrent /\ PanicButtonHolds
                      /\ CallsAreAccounted /\ EventsApplyOnce /\ ResetsAreSingle /\ GuessesAreBounded)
<1>1. Spec => [](LogoutHolds /\ GuessesAreBounded)
  BY LogoutIsFinal, GuessesStop, PTL
<1>2. Spec => [](DecisionsOutlast /\ CacheIsCurrent /\ PanicButtonHolds)
  BY DecisionsStand, CacheStaysCurrent, RotationEndsSessions, PTL
<1>3. Spec => [](CallsAreAccounted /\ EventsApplyOnce /\ ResetsAreSingle)
  BY CallsAreCounted, EventsAreOnce, ResetsAreOnce, PTL
<1>4. QED BY <1>1, <1>2, <1>3, DashboardIsBilling, PTL

----------------------------------------------------------------------------
(* Operations.                                                             *)

RunRecords ==
    [status : {"none", "running", "failed", "completed"}, process : {"none", "alive", "gone"},
     children : BOOLEAN, ok : BOOLEAN, cancelled : BOOLEAN,
     ending : {"no", "waited", "told", "complete", "final"}, printed : Nat, unread : Nat,
     scanned : Nat, log : Seq({"error", "line", "complete"}), final : Nat]

\* The states that a run goes through: a process lives only while the run is
\* registered, and what it started outlives it only after a cancellation.
RunSound(x) ==
    /\ x.process = "alive" => x.status = "running"
    /\ x.children => x.process = "alive" \/ (x.process = "gone" /\ x.cancelled)
    /\ x.ending # "no" => x.process = "gone" \/ x.ending = "final"
    /\ x.status = "none" => x.ending = "no" /\ x.process = "none"
    /\ x.status = "running" <=> x.ending # "final" /\ x.status # "none"
    /\ x.final <= Len(x.log)

RunsTyped ==
    /\ operation \in Runs \cup {None}
    /\ run \in [Runs -> RunRecords]
    /\ \A r \in Runs : RunSound(run[r]) /\ (run[r].status = "running" => operation = r)

LEMMA OneRun ==
  ASSUME RunsTyped, NEW r \in Runs, NEW x \in RunRecords, RunSound(x),
         x.status = "running" => run[r].status = "running",
         run' = [run EXCEPT ![r] = x], operation' = operation
  PROVE  RunsTyped'
BY DEF RunsTyped

\* One more event in the log.
LEMMA Appended ==
  ASSUME NEW x \in RunRecords, RunSound(x), NEW event \in {"error", "line", "complete"}
  PROVE  /\ [x EXCEPT !.log = Append(@, event)] \in RunRecords
         /\ RunSound([x EXCEPT !.log = Append(@, event)])
         /\ [x EXCEPT !.log = Append(@, event)].status = x.status
         /\ [x EXCEPT !.log = Append(@, event)].final = x.final
         /\ Len([x EXCEPT !.log = Append(@, event)].log) = Len(x.log) + 1
<1> DEFINE y == [x EXCEPT !.log = Append(@, event)]
<1>1. /\ y.status = x.status /\ y.process = x.process /\ y.children = x.children /\ y.ok = x.ok
      /\ y.cancelled = x.cancelled /\ y.ending = x.ending /\ y.printed = x.printed
      /\ y.unread = x.unread /\ y.scanned = x.scanned /\ y.final = x.final
      /\ y.log = Append(x.log, event)
  BY DEF RunRecords
<1>2. x.log \in Seq({"error", "line", "complete"}) /\ x.final \in Nat
  BY DEF RunRecords
<1>3. Append(x.log, event) \in Seq({"error", "line", "complete"}) /\ Len(Append(x.log, event)) = Len(x.log) + 1
  BY <1>2
<1>4. y \in RunRecords
  BY <1>3 DEF RunRecords
<1>5. Len(x.log) \in Nat
  BY <1>2
<1> HIDE DEF y
<1>6. RunSound(y)
  BY <1>1, <1>2, <1>3, <1>5 DEF RunSound
<1>7. QED BY <1>1, <1>3, <1>4, <1>6 DEF y

\* The end of a run that was registered.
LEMMA Finalized ==
  ASSUME NEW x \in RunRecords, RunSound(x), x.status = "running", x.process # "alive",
         NEW status \in {"failed", "completed"}
  PROVE  /\ [x EXCEPT !.status = status, !.final = Len(x.log), !.ending = "final"] \in RunRecords
         /\ RunSound([x EXCEPT !.status = status, !.final = Len(x.log), !.ending = "final"])
<1> DEFINE y == [x EXCEPT !.status = status, !.final = Len(x.log), !.ending = "final"]
<1>1. /\ y.status = status /\ y.process = x.process /\ y.children = x.children
      /\ y.cancelled = x.cancelled /\ y.ending = "final" /\ y.final = Len(x.log) /\ y.log = x.log
  BY DEF RunRecords
<1>2. Len(x.log) \in Nat
  BY DEF RunRecords
<1>3. y \in RunRecords
  BY <1>2 DEF RunRecords
<1> HIDE DEF y
<1>4. RunSound(y)
  BY <1>1, <1>2 DEF RunSound
<1>5. QED BY <1>3, <1>4 DEF y

\* What a step does to the run it is about.
OneRunStep == \E r \in Runs, x \in RunRecords :
    /\ RunSound(x) /\ run' = [run EXCEPT ![r] = x] /\ operation' = operation
    /\ x.status = "running" => run[r].status = "running"

LEMMA RunsTypedStep == RunsTyped /\ RunStep => RunsTyped'
<1> SUFFICES ASSUME RunsTyped, RunStep PROVE RunsTyped'
  OBVIOUS
<1>a. CASE OneRunStep
  BY <1>a, OneRun DEF OneRunStep
<1>b. \A r \in Runs : run[r] \in RunRecords /\ RunSound(run[r])
  BY DEF RunsTyped
<1>1. ASSUME NEW r \in Runs, Register(r) PROVE RunsTyped'
  <2>1. /\ operation = None /\ operation' = r /\ run[r].status = "none"
        /\ run' = [run EXCEPT ![r] = [run[r] EXCEPT !.status = "running"]]
    BY <1>1 DEF Register, First, RunsTyped
  <2>2. None \notin Runs
    BY RunsAssumption
  <2>3. \A q \in Runs : run[q].status # "running"
    BY <2>1, <2>2 DEF RunsTyped
  <2>4. [run[r] EXCEPT !.status = "running"] \in RunRecords
    BY <1>b DEF RunRecords
  <2>5. RunSound([run[r] EXCEPT !.status = "running"])
    BY <1>b, <2>1 DEF RunRecords, RunSound
  <2>6. \A q \in Runs : q # r => run'[q] = run[q]
    BY <2>1 DEF RunsTyped
  <2>7. run'[r] = [run[r] EXCEPT !.status = "running"] /\ run' \in [Runs -> RunRecords]
    BY <2>1, <2>4 DEF RunsTyped
  <2>8. QED BY <2>1, <2>3, <2>5, <2>6, <2>7 DEF RunsTyped
<1>2. ASSUME NEW r \in Runs, Started(r) PROVE OneRunStep
  <2>1. run' = [run EXCEPT ![r] = [run[r] EXCEPT !.process = "alive", !.children = TRUE]] /\ operation' = operation
        /\ run[r].status = "running" /\ run[r].process = "none"
    BY <1>2 DEF Started, Starting, Becomes
  <2>2. [run[r] EXCEPT !.process = "alive", !.children = TRUE] \in RunRecords
    BY <1>b DEF RunRecords
  <2>3. RunSound([run[r] EXCEPT !.process = "alive", !.children = TRUE])
    BY <1>b, <2>1 DEF RunRecords, RunSound
  <2>4. QED BY <2>1, <2>2, <2>3 DEF OneRunStep
<1>3. ASSUME NEW r \in Runs, StartFails(r) PROVE OneRunStep
  <2>1. run' = [run EXCEPT ![r] = [run[r] EXCEPT !.log = Append(@, "error")]] /\ operation' = operation
    BY <1>3 DEF StartFails, AppendEvent
  <2>2. run[r] \in RunRecords /\ RunSound(run[r])
    BY <1>b
  <2> DEFINE x == [run[r] EXCEPT !.log = Append(@, "error")]
  <2>3. x \in RunRecords /\ RunSound(x) /\ x.status = run[r].status
    BY <2>2, Appended
  <2>4. run' = [run EXCEPT ![r] = x]
    BY <2>1
  <2> HIDE DEF x
  <2>5. QED BY <2>1, <2>3, <2>4 DEF OneRunStep
<1>4. ASSUME NEW r \in Runs, StartFailed(r) PROVE OneRunStep
  <2>1. /\ run[r].status = "running" /\ run[r].process = "none" /\ operation' = operation
        /\ run' = [run EXCEPT ![r] = [run[r] EXCEPT !.status = "failed", !.final = Len(run[r].log), !.ending = "final"]]
    BY <1>4 DEF StartFailed, Finalize
  <2>2. QED BY <1>b, <2>1, Finalized DEF OneRunStep
<1>5. ASSUME NEW r \in Runs, Prints(r) \/ Scan(r) PROVE OneRunStep
  <2>1. run[r].printed + 1 \in Nat /\ run[r].unread + 1 \in Nat /\ run[r].scanned + run[r].unread \in Nat
        /\ run[r].printed \in Nat /\ run[r].scanned \in Nat
    BY <1>b DEF RunRecords
  <2>2. CASE Prints(r)
    <3>1. PICK n \in Nat, m \in Nat : run' = [run EXCEPT ![r] = [run[r] EXCEPT !.printed = n, !.unread = m]]
      BY <2>1, <2>2 DEF Prints, Becomes
    <3>2. operation' = operation
      BY <2>2 DEF Prints, Becomes
    <3>3. /\ [run[r] EXCEPT !.printed = n, !.unread = m] \in RunRecords
          /\ RunSound([run[r] EXCEPT !.printed = n, !.unread = m])
          /\ [run[r] EXCEPT !.printed = n, !.unread = m].status = run[r].status
      BY <1>b DEF RunRecords, RunSound
    <3>4. QED BY <3>1, <3>2, <3>3 DEF OneRunStep
  <2>3. CASE Scan(r)
    <3>1. PICK n \in Nat : run' = [run EXCEPT ![r] = [run[r] EXCEPT !.unread = 0, !.scanned = n]]
      BY <2>1, <2>3 DEF Scan, Becomes
    <3>2. operation' = operation
      BY <2>3 DEF Scan, Becomes
    <3>3. /\ [run[r] EXCEPT !.unread = 0, !.scanned = n] \in RunRecords
          /\ RunSound([run[r] EXCEPT !.unread = 0, !.scanned = n])
          /\ [run[r] EXCEPT !.unread = 0, !.scanned = n].status = run[r].status
      BY <1>b DEF RunRecords, RunSound
    <3>4. QED BY <3>1, <3>2, <3>3 DEF OneRunStep
  <2>4. QED BY <1>5, <2>2, <2>3
<1>6. ASSUME NEW r \in Runs, Pump(r) PROVE OneRunStep
  <2> DEFINE x == [run[r] EXCEPT !.scanned = @ - 1]
  <2>1. run' = [run EXCEPT ![r] = [x EXCEPT !.log = Append(@, "line")]] /\ operation' = operation /\ run[r].scanned > 0
    BY <1>6 DEF Pump, AppendEvent
  <2>2. x \in RunRecords /\ RunSound(x) /\ x.status = run[r].status
    BY <1>b, <2>1 DEF RunRecords, RunSound
  <2> HIDE DEF x
  <2>3. /\ [x EXCEPT !.log = Append(@, "line")] \in RunRecords
        /\ RunSound([x EXCEPT !.log = Append(@, "line")])
        /\ [x EXCEPT !.log = Append(@, "line")].status = run[r].status
    BY <2>2, Appended
  <2>4. QED BY <2>1, <2>3 DEF OneRunStep
<1>7. ASSUME NEW r \in Runs, Exits(r) \/ Killed(r) PROVE OneRunStep
  <2>1. PICK ok \in BOOLEAN, left \in BOOLEAN :
            run' = [run EXCEPT ![r] = [run[r] EXCEPT !.process = "gone", !.children = left, !.ok = ok]]
            /\ (left => run[r].cancelled)
    BY <1>7 DEF Exits, Killed, Becomes
  <2>2. run[r].process = "alive" /\ operation' = operation
    BY <1>7 DEF Exits, Killed, Becomes
  <2>3. [run[r] EXCEPT !.process = "gone", !.children = left, !.ok = ok] \in RunRecords
    BY <1>b DEF RunRecords
  <2>4. RunSound([run[r] EXCEPT !.process = "gone", !.children = left, !.ok = ok])
    BY <1>b, <2>1, <2>2 DEF RunRecords, RunSound
  <2>5. run[r].status = "running"
    BY <1>b, <2>2 DEF RunSound
  <2>6. QED BY <2>1, <2>2, <2>3, <2>4, <2>5 DEF OneRunStep
<1>8. ASSUME NEW r \in Runs, Cancel(r) \/ ChildrenEnd(r) PROVE OneRunStep
  <2>1. /\ \/ run' = [run EXCEPT ![r] = [run[r] EXCEPT !.cancelled = TRUE]]
           \/ run' = [run EXCEPT ![r] = [run[r] EXCEPT !.children = FALSE]]
        /\ operation' = operation
    BY <1>8 DEF Cancel, ChildrenEnd, Becomes
  <2>2. /\ [run[r] EXCEPT !.cancelled = TRUE] \in RunRecords
        /\ [run[r] EXCEPT !.children = FALSE] \in RunRecords
    BY <1>b DEF RunRecords
  <2>3. /\ RunSound([run[r] EXCEPT !.cancelled = TRUE]) /\ RunSound([run[r] EXCEPT !.children = FALSE])
        /\ [run[r] EXCEPT !.cancelled = TRUE].status = run[r].status
        /\ [run[r] EXCEPT !.children = FALSE].status = run[r].status
    BY <1>b DEF RunRecords, RunSound
  <2>4. QED BY <2>1, <2>2, <2>3 DEF OneRunStep
<1>9. ASSUME NEW r \in Runs, Wait(r) PROVE OneRunStep
  <2>1. PICK e \in {"told", "waited"} :
            run' = [run EXCEPT ![r] = [run[r] EXCEPT !.unread = 0, !.ending = e]]
    BY <1>9 DEF Wait, Becomes
  <2>2. run[r].process = "gone" /\ run[r].ending = "no" /\ operation' = operation
    BY <1>9 DEF Wait, Becomes
  <2>3. [run[r] EXCEPT !.unread = 0, !.ending = e] \in RunRecords
    BY <1>b DEF RunRecords
  <2>4. /\ RunSound([run[r] EXCEPT !.unread = 0, !.ending = e])
        /\ [run[r] EXCEPT !.unread = 0, !.ending = e].status = run[r].status
    BY <1>b, <2>2 DEF RunRecords, RunSound
  <2>5. QED BY <2>1, <2>2, <2>3, <2>4 DEF OneRunStep
<1>10. ASSUME NEW r \in Runs, TellError(r) \/ TellComplete(r) PROVE OneRunStep
  <2>1. PICK e \in {"told", "complete"}, event \in {"error", "complete"} :
            run' = [run EXCEPT ![r] = [[run[r] EXCEPT !.ending = e] EXCEPT !.log = Append(@, event)]]
    BY <1>10 DEF TellError, TellComplete, AppendEvent
  <2>2. run[r].ending \in {"waited", "told"} /\ operation' = operation
    BY <1>10 DEF TellError, TellComplete
  <2> DEFINE x == [run[r] EXCEPT !.ending = e]
  <2>3. x \in RunRecords
    BY <1>b DEF RunRecords
  <2>4. RunSound(x) /\ x.status = run[r].status
    BY <1>b, <2>2 DEF RunRecords, RunSound
  <2>5. run' = [run EXCEPT ![r] = [x EXCEPT !.log = Append(@, event)]]
    BY <2>1
  <2> HIDE DEF x
  <2>6. QED BY <2>2, <2>3, <2>4, <2>5, Appended DEF OneRunStep
<1>11. ASSUME NEW r \in Runs, Finish(r) PROVE OneRunStep
  <2>1. PICK status \in {"failed", "completed"} :
            run' = [run EXCEPT ![r] = [run[r] EXCEPT !.status = status, !.final = Len(run[r].log), !.ending = "final"]]
    BY <1>11 DEF Finish, Finalize
  <2>2. run[r].ending = "complete" /\ operation' = operation
    BY <1>11 DEF Finish
  <2>3. run[r].status = "running" /\ run[r].process # "alive"
    BY <1>b, <2>2 DEF RunSound
  <2>4. QED BY <1>b, <2>1, <2>2, <2>3, Finalized DEF OneRunStep
<1>12. ASSUME NEW r \in Runs, Unlock(r) PROVE RunsTyped'
  BY <1>12 DEF Unlock, Finished, RunsTyped
<1>13. ASSUME UNCHANGED <<operation, run>> PROVE RunsTyped'
  BY <1>13 DEF RunsTyped
<1>14. ASSUME NEW s \in Watchers,
              WriteEvent(s) \/ StreamEnds(s) \/ Disconnect(s) \/ \E r \in Runs : Stream(s, r)
       PROVE  UNCHANGED <<operation, run>>
  BY <1>14 DEF WriteEvent, StreamEnds, Disconnect, Stream
<1>15. QED
  BY <1>a, <1>1, <1>2, <1>3, <1>4, <1>5, <1>6, <1>7, <1>8, <1>9, <1>10, <1>11, <1>12, <1>13, <1>14
  DEF RunStep

LEMMA RunsInit == DashboardInit => RunsTyped
<1>1. NewRun \in RunRecords /\ RunSound(NewRun) /\ NewRun.status = "none"
  BY DEF NewRun, RunRecords, RunSound
<1>2. QED BY <1>1 DEF DashboardInit, RunInit, RunsTyped

LEMMA RunsStep == RunsTyped /\ [DashboardNext]_dashboardVars => RunsTyped'
<1>1. RunsTyped /\ UNCHANGED runVars => RunsTyped'
  BY DEF RunsTyped, runVars
<1>2. QED BY <1>1, RunsTypedStep DEF DashboardNext, dashboardVars

\* One operation is at work at a time, but for the children of one that was killed:
\* operationMutex is held until the run is over, and pnpm's own end is all that the
\* run waits for.
THEOREM OperationsAreSingle == DashboardSpec => []OperationsOverlapByCancel
<1>1. RunsTyped => OperationsOverlapByCancel
  <2> SUFFICES ASSUME RunsTyped, NEW r \in Runs, NEW q \in Runs, r # q, Working(r), Working(q)
               PROVE  \E c \in {r, q} : run[c].cancelled /\ run[c].process = "gone"
    BY DEF OperationsOverlapByCancel
  <2>1. \A p \in Runs : RunSound(run[p]) /\ (run[p].status = "running" => operation = p)
    BY DEF RunsTyped
  <2>2. \A p \in Runs : Working(p) /\ ~(run[p].cancelled /\ run[p].process = "gone") => operation = p
    BY <2>1 DEF RunSound, Working
  <2>3. QED BY <2>2
<1>2. QED BY <1>1, RunsInit, RunsStep, PTL DEF DashboardSpec

----------------------------------------------------------------------------
(* .env.test                                                               *)

Settings == Texts \cup {Absent, "no file"}
Files == [listed : SUBSET Versions, urls : [Versions -> Settings]]
Changes == SUBSET (Versions \cup {Listing})
SaverRecords == [at : {"new", "read", "written", "saved", "refused", "failed"},
                 content : Files, wants : Files, odd : Changes]
Value(x) == IF x = Absent THEN "" ELSE Parsed(x)

\* A file with settings, and a request: Absent for the versions it does not post.
IsFile(file) == \A v \in Versions : file.urls[v] # "no file"
IsRequest(wants) == \A v \in Versions : wants.urls[v] \in Texts \cup {Absent}

\* The content of a save is the file as it is, with what the save wants, but for
\* the settings in changed.
Carries(file, content, wants, changed) ==
    /\ IsRequest(wants) /\ IsFile(content)
    /\ content.listed = wants.listed \/ Listing \in changed
    /\ \A v \in Versions \ changed : Value(content.urls[v]) =
            IF wants.urls[v] = Absent THEN Value(file.urls[v]) ELSE Parsed(wants.urls[v])

\* As long as no two saves met: one save at most is under way, with the file it read
\* still the file, and the temporary file is its own or none.
SavesSound ==
    /\ envFile \in Files /\ asked \in Files /\ envTmp \in Files /\ odd \in Changes
    /\ saver \in [Savers -> SaverRecords]
    /\ ~met =>
        /\ IsFile(envFile) /\ (envFile.listed = asked.listed \/ Listing \in odd)
        /\ \A v \in Versions \ odd : Parsed(asked.urls[v]) = Value(envFile.urls[v])
        /\ \A p, q \in Saving : p = q
        /\ \A p \in Savers :
            /\ saver[p].at # "failed"
            /\ saver[p].at \in {"read", "written"} =>
                Carries(envFile, saver[p].content, saver[p].wants, saver[p].odd)
            /\ saver[p].at = "written" => envTmp = saver[p].content

NoLines == [listed |-> {}, urls |-> [v \in Versions |-> Absent]]
Wants(listed, given) ==
    [listed |-> listed,
     urls |-> [v \in Versions |-> IF v \in DOMAIN given THEN given[v] ELSE Absent]]
Changed(given, blind, spill) == spill \cup IF blind THEN Versions \ DOMAIN given ELSE {}

LEMMA MergedCarries ==
  ASSUME NEW file \in Files, IsFile(file), NEW listed \in SUBSET Versions,
         NEW posted \in SUBSET Versions, NEW given \in [posted -> Texts],
         NEW blind \in BOOLEAN, NEW spill \in Changes
  PROVE  Carries(file, Spilled(Merged(IF blind THEN NoLines ELSE file, listed, given), spill),
                 Wants(listed, given), Changed(given, blind, spill))
<1> DEFINE from == IF blind THEN NoLines ELSE file
           content == Spilled(Merged(from, listed, given), spill)
<1>1. /\ Wants(listed, given).listed = listed
      /\ \A v \in Versions : Wants(listed, given).urls[v] = IF v \in posted THEN given[v] ELSE Absent
  BY DEF Wants
<1>2. \A v \in Versions : from.urls[v] = IF blind THEN Absent ELSE file.urls[v]
  BY DEF NoLines
<1> HIDE DEF from
<1>3. /\ Merged(from, listed, given).listed = listed
      /\ \A v \in Versions : Merged(from, listed, given).urls[v] =
            IF v \in posted THEN Line(from.urls[v], given[v]) ELSE from.urls[v]
  BY DEF Merged
<1>4. /\ Listing \notin spill => content.listed = listed
      /\ \A v \in Versions : content.urls[v] =
            IF v \in spill THEN "a" ELSE Merged(from, listed, given).urls[v]
  BY <1>3 DEF Spilled
<1> HIDE DEF content
<1>5. \A v \in posted : given[v] \in Texts /\ given[v] # Absent /\ given[v] # "no file"
  BY DEF Absent, Texts
<1>6. IsRequest(Wants(listed, given))
  BY <1>1, <1>5 DEF IsRequest
<1>7. IsFile(content)
  BY <1>2, <1>3, <1>4, <1>5 DEF IsFile, Line, Absent
<1>8. \A v \in Versions \ Changed(given, blind, spill) :
        Value(content.urls[v]) = IF v \in posted THEN Parsed(given[v]) ELSE Value(file.urls[v])
  <2> SUFFICES ASSUME NEW v \in Versions, v \notin Changed(given, blind, spill)
               PROVE  Value(content.urls[v]) = IF v \in posted THEN Parsed(given[v]) ELSE Value(file.urls[v])
    OBVIOUS
  <2>1. v \notin spill /\ (v \notin posted => ~blind)
    BY DEF Changed
  <2>2. content.urls[v] = IF v \in posted THEN Line(from.urls[v], given[v]) ELSE file.urls[v]
    BY <1>2, <1>3, <1>4, <2>1
  <2>3. v \in posted => Value(Line(from.urls[v], given[v])) = Parsed(given[v])
    BY <1>5 DEF Value, Line, Parsed
  <2>4. QED BY <2>2, <2>3
<1>9. content.listed = Wants(listed, given).listed \/ Listing \in Changed(given, blind, spill)
  BY <1>1, <1>4 DEF Changed
<1>10. \A v \in Versions : Wants(listed, given).urls[v] = Absent <=> v \notin posted
  BY <1>1, <1>5
<1>11. Carries(file, content, Wants(listed, given), Changed(given, blind, spill))
  BY <1>1, <1>6, <1>7, <1>8, <1>9, <1>10 DEF Carries
<1>12. QED BY <1>11 DEF content, from

LEMMA MergedIsFile ==
  ASSUME NEW file \in Files, NEW listed \in SUBSET Versions, NEW posted \in SUBSET Versions,
         NEW given \in [posted -> Texts], NEW blind \in BOOLEAN, NEW spill \in Changes
  PROVE  /\ Spilled(Merged(IF blind THEN NoLines ELSE file, listed, given), spill) \in Files
         /\ Wants(listed, given) \in Files
         /\ Changed(given, blind, spill) \in Changes
<1>1. NoLines \in Files
  BY DEF NoLines, Files, Settings
<1>2. PICK from \in Files : from = IF blind THEN NoLines ELSE file
  BY <1>1
<1>3. \A v \in Versions : v \in posted => Line(from.urls[v], given[v]) \in Settings
  BY <1>2 DEF Line, Settings
<1>4. Merged(from, listed, given) \in Files
  BY <1>2, <1>3 DEF Merged, Files
<1>5. "a" \in Settings
  BY DEF Settings, Texts
<1>6. Spilled(Merged(from, listed, given), spill) \in Files
  BY <1>4, <1>5 DEF Spilled, Files
<1>7. Wants(listed, given) \in Files
  BY DEF Wants, Files, Settings
<1>8. Changed(given, blind, spill) \in Changes
  BY DEF Changed, Changes
<1>9. QED BY <1>2, <1>6, <1>7, <1>8

LEMMA NoFileIsFile == NoFile \in Files /\ \A file \in Files : IsFile(file) => file # NoFile
<1>1. NoFile \in Files
  BY DEF NoFile, Files, Settings
<1>2. PICK v \in Versions : TRUE
  BY RunsAssumption
<1>3. NoFile.urls[v] = "no file"
  BY DEF NoFile
<1>4. QED BY <1>1, <1>3 DEF IsFile

LEMMA SavesInit == DashboardInit => SavesSound
<1> SUFFICES ASSUME DashboardInit PROVE SavesSound
  OBVIOUS
<1>1. /\ envFile = [listed |-> {}, urls |-> [v \in Versions |-> Absent]] /\ envTmp = NoFile
      /\ asked = [listed |-> {}, urls |-> [v \in Versions |-> ""]] /\ odd = {}
      /\ saver = [p \in Savers |-> NoSaver]
  BY DEF DashboardInit, RunInit
<1>2. envFile \in Files /\ IsFile(envFile)
  BY <1>1 DEF Files, Settings, IsFile, Absent
<1>3. asked \in Files
  BY <1>1 DEF Files, Settings, Texts
<1>4. envFile.listed = asked.listed /\ \A v \in Versions : Parsed(asked.urls[v]) = Value(envFile.urls[v])
  BY <1>1 DEF Value, Parsed
<1>5. NoSaver \in SaverRecords /\ NoSaver.at = "new"
  BY NoFileIsFile DEF NoSaver, SaverRecords, Changes
<1>6. QED BY <1>1, <1>2, <1>3, <1>4, <1>5, NoFileIsFile DEF SavesSound, Saving, Changes

LEMMA SavesStep == SavesSound /\ [DashboardNext]_dashboardVars => SavesSound'
<1> SUFFICES ASSUME SavesSound, [DashboardNext]_dashboardVars PROVE SavesSound'
  OBVIOUS
<1>1. CASE UNCHANGED envVars
  BY <1>1 DEF SavesSound, Saving, envVars
<1>2. ASSUME NEW p \in Savers, NEW listed \in SUBSET Versions, NEW posted \in SUBSET listed,
             NEW blind \in BOOLEAN, NEW spill \in SUBSET (Versions \cup {Listing}),
             NEW given \in [posted -> Texts], ReadEnv(p, listed, given, blind, spill)
      PROVE  SavesSound'
  <2> DEFINE content == Spilled(Merged(IF blind THEN NoLines ELSE envFile, listed, given), spill)
             wants == Wants(listed, given)
             changed == Changed(given, blind, spill)
             record == [at |-> "read", content |-> content, wants |-> wants, odd |-> changed]
  <2>1. /\ saver[p].at = "new" /\ saver' = [saver EXCEPT ![p] = record]
        /\ met' = (met \/ Saving # {}) /\ UNCHANGED <<envFile, envTmp, asked, odd>>
    BY <1>2 DEF ReadEnv, Wants, Changed, NoLines
  <2>0. envFile \in Files /\ posted \in SUBSET Versions /\ spill \in Changes
    BY DEF SavesSound, Changes
  <2>2. content \in Files /\ wants \in Files /\ changed \in Changes
    BY <2>0, MergedIsFile
  <2>3. ~met => Carries(envFile, content, wants, changed)
    BY <2>0, MergedCarries DEF SavesSound
  <2> HIDE DEF content, wants, changed
  <2>12. /\ record \in SaverRecords /\ record.at = "read" /\ record.content = content
         /\ record.wants = wants /\ record.odd = changed
    BY <2>2 DEF SaverRecords
  <2> HIDE DEF record
  <2>4. saver'[p] = record /\ \A q \in Savers \ {p} : saver'[q] = saver[q]
    BY <2>1 DEF SavesSound
  <2>5. ~met' => \A q \in Saving' : q = p
    BY <2>1, <2>4 DEF Saving
  <2>6. saver' \in [Savers -> SaverRecords]
    BY <2>1, <2>12 DEF SavesSound
  <2>7. ~met' => ~met /\ \A q \in Savers \ {p} : saver[q].at \notin {"read", "written"}
    BY <2>1 DEF Saving
  <2>8. ~met' => \A q \in Savers :
            /\ saver'[q].at # "failed"
            /\ saver'[q].at \in {"read", "written"} =>
                Carries(envFile', saver'[q].content, saver'[q].wants, saver'[q].odd)
            /\ saver'[q].at = "written" => envTmp' = saver'[q].content
    BY <2>1, <2>3, <2>4, <2>7, <2>12 DEF SavesSound
  <2>9. ~met' => \A q1, q2 \in Saving' : q1 = q2
    BY <2>5
  <2>10. /\ envFile' \in Files /\ asked' \in Files /\ envTmp' \in Files /\ odd' \in Changes
         /\ ~met' => IsFile(envFile)' /\ (envFile'.listed = asked'.listed \/ Listing \in odd')
                      /\ \A v \in Versions \ odd' : Parsed(asked'.urls[v]) = Value(envFile'.urls[v])
    BY <2>1, <2>7 DEF SavesSound, IsFile
  <2>11. QED BY <2>6, <2>8, <2>9, <2>10 DEF SavesSound
<1>6. \A at \in {"saved", "refused", "failed"} :
            [NoSaver EXCEPT !.at = at].at = at /\ [NoSaver EXCEPT !.at = at] \in SaverRecords
  BY NoFileIsFile DEF NoSaver, SaverRecords, Changes
<1>3. ASSUME NEW p \in Savers, WriteTmp(p) PROVE SavesSound'
  <2>1. saver[p].at = "read" /\ UNCHANGED <<envFile, asked, odd, met>>
    BY <1>3 DEF WriteTmp
  <2>2. CASE saver' = [saver EXCEPT ![p].at = "written"] /\ envTmp' = saver[p].content
    <3> DEFINE record == [saver[p] EXCEPT !.at = "written"]
    <3>1. /\ record \in SaverRecords /\ record.at = "written" /\ record.content = saver[p].content
          /\ record.wants = saver[p].wants /\ record.odd = saver[p].odd
      BY DEF SavesSound, SaverRecords
    <3>2. saver' = [saver EXCEPT ![p] = record]
      BY <2>2 DEF SavesSound
    <3> HIDE DEF record
    <3>3. saver'[p] = record /\ \A q \in Savers \ {p} : saver'[q] = saver[q]
      BY <3>2 DEF SavesSound
    <3>4. Saving' = Saving /\ p \in Saving
      BY <2>1, <3>1, <3>3 DEF Saving
    <3>5. ~met => \A q \in Savers \ {p} : saver[q].at # "written"
      BY <3>4 DEF SavesSound, Saving
    <3>6. saver' \in [Savers -> SaverRecords] /\ envTmp' \in Files
      BY <2>2, <3>1, <3>2 DEF SavesSound, SaverRecords
    <3>7. ~met' => \A q \in Savers :
            /\ saver'[q].at # "failed"
            /\ saver'[q].at \in {"read", "written"} =>
                Carries(envFile', saver'[q].content, saver'[q].wants, saver'[q].odd)
            /\ saver'[q].at = "written" => envTmp' = saver'[q].content
      BY <2>1, <2>2, <3>1, <3>3, <3>5 DEF SavesSound
    <3>8. QED BY <2>1, <3>4, <3>6, <3>7 DEF SavesSound, IsFile
  <2>3. CASE saver' = [saver EXCEPT ![p] = [NoSaver EXCEPT !.at = "refused"]] /\ UNCHANGED envTmp
    <3>1. saver'[p].at = "refused" /\ \A q \in Savers \ {p} : saver'[q] = saver[q]
      BY <1>6, <2>3 DEF SavesSound
    <3>2. saver' \in [Savers -> SaverRecords]
      BY <1>6, <2>3 DEF SavesSound
    <3>3. Saving' \subseteq Saving
      BY <3>1 DEF Saving
    <3>4. ~met' => \A q \in Savers :
            /\ saver'[q].at # "failed"
            /\ saver'[q].at \in {"read", "written"} =>
                Carries(envFile', saver'[q].content, saver'[q].wants, saver'[q].odd)
            /\ saver'[q].at = "written" => envTmp' = saver'[q].content
      BY <2>1, <2>3, <3>1 DEF SavesSound
    <3>5. QED BY <2>1, <2>3, <3>2, <3>3, <3>4 DEF SavesSound, IsFile
  <2>4. QED BY <1>3, <2>2, <2>3 DEF WriteTmp
<1>4. ASSUME NEW p \in Savers, Rename(p) PROVE SavesSound'
  <2> DEFINE wants == saver[p].wants
  <2>1. saver[p].at = "written" /\ met' = met
    BY <1>4 DEF Rename
  <2>2. ~met => envTmp = saver[p].content /\ Carries(envFile, saver[p].content, wants, saver[p].odd)
    BY <2>1 DEF SavesSound
  <2>3. ~met => envTmp # NoFile
    BY <2>2, NoFileIsFile DEF SavesSound, Carries
  <2>5. CASE /\ envTmp # NoFile /\ envFile' = envTmp /\ envTmp' = NoFile
             /\ saver' = [saver EXCEPT ![p] = [NoSaver EXCEPT !.at = "saved"]]
             /\ asked' = [listed |-> wants.listed,
                          urls |-> [v \in Versions |-> IF wants.urls[v] = Absent
                                                       THEN asked.urls[v] ELSE wants.urls[v]]]
             /\ odd' = {v \in odd \ {Listing} : wants.urls[v] = Absent} \cup saver[p].odd
    <3>1. saver'[p].at = "saved" /\ \A q \in Savers \ {p} : saver'[q] = saver[q]
      BY <1>6, <2>5 DEF SavesSound
    <3>2. /\ envFile' \in Files /\ envTmp' \in Files
          /\ saver' \in [Savers -> SaverRecords]
      BY <1>6, <2>5, NoFileIsFile DEF SavesSound
    <3>11. wants \in Files /\ saver[p].odd \in Changes
      BY DEF SavesSound, SaverRecords
    <3> HIDE DEF wants
    <3>3. asked' \in Files
      BY <2>5, <3>11 DEF SavesSound, Files
    <3>12. odd' \in Changes
      BY <2>5, <3>11 DEF SavesSound, Changes
    <3>4. \A v \in Versions : asked'.urls[v] = IF wants.urls[v] = Absent THEN asked.urls[v] ELSE wants.urls[v]
      BY <2>5
    <3>5. asked'.listed = wants.listed
      BY <2>5
    <3>6. ~met => (envFile'.listed = asked'.listed \/ Listing \in odd') /\ IsFile(envFile')
      BY <2>2, <2>5, <3>5 DEF Carries
    <3>7. ~met => \A v \in Versions \ odd' : Parsed(asked'.urls[v]) = Value(envFile'.urls[v])
      <4> SUFFICES ASSUME ~met, NEW v \in Versions, v \notin odd'
                   PROVE  Parsed(asked'.urls[v]) = Value(envFile'.urls[v])
        OBVIOUS
      <4>1. v \notin saver[p].odd /\ (wants.urls[v] = Absent => v \notin odd)
        BY <2>5, RunsAssumption DEF Listing
      <4>2. Value(envFile'.urls[v]) = IF wants.urls[v] = Absent THEN Value(envFile.urls[v])
                                      ELSE Parsed(wants.urls[v])
        BY <2>2, <2>5, <4>1 DEF Carries
      <4>3. v \notin odd => Parsed(asked.urls[v]) = Value(envFile.urls[v])
        BY DEF SavesSound
      <4>4. QED BY <3>4, <4>1, <4>2, <4>3
    <3>8. ~met => Saving' = {}
      BY <2>1, <3>1 DEF Saving, SavesSound
    <3>9. ~met => \A q \in Savers : saver'[q].at # "failed" /\ saver'[q].at \notin {"read", "written"}
      BY <3>1, <3>8 DEF Saving, SavesSound
    <3>10. QED BY <2>1, <3>2, <3>3, <3>6, <3>7, <3>8, <3>9, <3>12 DEF SavesSound
  <2>6. CASE /\ envTmp = NoFile /\ saver' = [saver EXCEPT ![p] = [NoSaver EXCEPT !.at = "failed"]]
             /\ UNCHANGED <<envFile, envTmp, asked, odd>>
    BY <1>6, <2>1, <2>3, <2>6 DEF SavesSound
  <2>7. QED BY <1>4, <2>5, <2>6 DEF Rename
<1>5. QED
  <2>1. CASE EnvStep
    <3>1. PICK p \in Savers :
            \/ \E listed \in SUBSET Versions :
                \E posted \in SUBSET listed, blind \in BOOLEAN, spill \in SUBSET (Versions \cup {Listing}) :
                    \E given \in [posted -> Texts] : ReadEnv(p, listed, given, blind, spill)
            \/ WriteTmp(p) \/ Rename(p)
      BY <2>1 DEF EnvStep
    <3>2. CASE WriteTmp(p) \/ Rename(p)
      BY <1>3, <1>4, <3>2
    <3>3. CASE \E listed \in SUBSET Versions :
                \E posted \in SUBSET listed, blind \in BOOLEAN, spill \in SUBSET (Versions \cup {Listing}) :
                    \E given \in [posted -> Texts] : ReadEnv(p, listed, given, blind, spill)
      BY <1>2, <3>3
    <3>4. QED BY <3>1, <3>2, <3>3
  <2>2. EnvStep \/ UNCHANGED envVars
    BY DEF DashboardNext, dashboardVars
  <2>3. QED BY <1>1, <2>1, <2>2

\* What an admin saved is what GET /env shows, as one line without its spaces and
\* quotes, and the rename that ends a save finds its file, as long as no two saves
\* are under way at once: but for settings that a save dropped because it could not
\* read the file, or that the second line of a posted text set.
THEOREM SavesStay == DashboardSpec => []SavesAreKept
<1>1. SavesSound => SavesAreKept
  <2> SUFFICES ASSUME SavesSound, ~met
               PROVE  /\ envFile.listed = asked.listed \/ Listing \in odd
                      /\ \A v \in Versions \ odd : Parsed(asked.urls[v]) =
                            IF v \in DOMAIN Shown(envFile) THEN Shown(envFile)[v] ELSE ""
                      /\ \A p \in Savers : saver[p].at # "failed"
    BY DEF SavesAreKept
  <2>1. \A v \in Versions \ odd : Parsed(asked.urls[v]) = Value(envFile.urls[v])
    BY DEF SavesSound
  <2>2. /\ DOMAIN Shown(envFile) = envFile.listed \cup Referenced(envFile)
        /\ \A v \in DOMAIN Shown(envFile) : Shown(envFile)[v] = Value(envFile.urls[v])
    BY DEF Shown, Value
  <2>3. \A v \in Versions : v \notin DOMAIN Shown(envFile) => envFile.urls[v] = Absent
    BY <2>2 DEF Referenced
  <2>4. QED BY <2>1, <2>2, <2>3 DEF SavesSound, Value
<1>2. QED BY <1>1, SavesInit, SavesStep, PTL DEF DashboardSpec

----------------------------------------------------------------------------
(* Streams.                                                                *)

WatcherRecords ==
    [at : {"off", "open"}, run : Runs \cup {None}, channel : Seq(Nat), closed : BOOLEAN,
     id : Nat, last : Nat \cup {-1}, got : Seq(Nat), told : BOOLEAN, dropped : BOOLEAN]

\* Where a watcher stands in a log of n events, unless its channel overflowed: what
\* it has and what waits in its channel are the log without a gap, up to the end of
\* the log or, once the channel is closed, at least up to the final event.
Follows(w, n, final, status) == ~w.dropped =>
    /\ \A i \in 1 .. Len(w.got) : w.got[i] = i
    /\ w.last = Len(w.got) - 1 /\ Len(w.got) <= n
    /\ w.told => status # "running" /\ Len(w.got) >= final
    /\ w.at = "open" =>
        /\ w.id = Len(w.got)
        /\ \A i \in 1 .. Len(w.channel) : w.channel[i] = w.id + i
        /\ ~w.closed => w.id + Len(w.channel) = n
        /\ w.closed => w.id + Len(w.channel) \in final .. n

\* A watcher on its run x; its channel is closed with the run.
On(w, x) ==
    /\ x.status # "none"
    /\ w.at = "open" => (w.closed <=> x.status # "running")
    /\ Follows(w, Len(x.log), x.final, x.status)

Fresh(w) == w.at = "off" /\ w.got = <<>> /\ w.last = -1 /\ ~w.told

WatchersSound ==
    /\ watcher \in [Watchers -> WatcherRecords]
    /\ \A s \in Watchers : IF watcher[s].run = None THEN Fresh(watcher[s]) ELSE On(watcher[s], run[watcher[s].run])

LEMMA OneMore ==
  ASSUME NEW a \in Nat, NEW b \in Nat, NEW n, a + b = n
  PROVE  n + 1 = a + (b + 1) /\ n \in Nat
OBVIOUS

\* One more event, for a watcher whose channel takes it.
LEMMA Delivered ==
  ASSUME NEW w \in WatcherRecords, NEW n \in Nat, NEW final \in Nat, NEW status,
         Follows(w, n, final, status), w.at = "open", ~w.closed
  PROVE  /\ [w EXCEPT !.channel = Append(@, n + 1)] \in WatcherRecords
         /\ Follows([w EXCEPT !.channel = Append(@, n + 1)], n + 1, final, status)
<1> DEFINE y == [w EXCEPT !.channel = Append(@, n + 1)]
<1>1. /\ y.at = w.at /\ y.run = w.run /\ y.closed = w.closed /\ y.id = w.id /\ y.last = w.last
      /\ y.got = w.got /\ y.told = w.told /\ y.dropped = w.dropped
      /\ y.channel = Append(w.channel, n + 1)
  BY DEF WatcherRecords
<1>2. w.channel \in Seq(Nat) /\ w.got \in Seq(Nat) /\ w.id \in Nat
  BY DEF WatcherRecords
<1>3. /\ y.channel \in Seq(Nat) /\ Len(y.channel) = Len(w.channel) + 1
      /\ \A i \in 1 .. Len(w.channel) : y.channel[i] = w.channel[i]
      /\ y.channel[Len(w.channel) + 1] = n + 1
  BY <1>1, <1>2, AppendProperties
<1>4. y \in WatcherRecords
  BY <1>1, <1>2, <1>3 DEF WatcherRecords
<1> HIDE DEF y
<1>5. Len(w.channel) \in Nat /\ Len(w.got) \in Nat
  BY <1>2
<1>a. w.id \in Nat /\ Len(w.channel) \in Nat
  BY <1>2, <1>5
<1>6. ASSUME ~w.dropped PROVE \A i \in 1 .. Len(y.channel) : y.channel[i] = w.id + i
  <2>0. w.id + Len(w.channel) = n
    BY <1>6 DEF Follows
  <2>1. \A i \in 1 .. Len(w.channel) : w.channel[i] = w.id + i
    BY <1>6 DEF Follows
  <2>2. \A i \in 1 .. Len(y.channel) : i \in 1 .. Len(w.channel) \/ i = Len(w.channel) + 1
    BY <1>3, <1>5
  <2>3. n + 1 = w.id + (Len(w.channel) + 1)
    <3>1. \A a, b \in Nat : a + b = n => n + 1 = a + (b + 1)
      OBVIOUS
    <3>2. QED BY <2>0, <1>a, <3>1, Zenon
  <2>4. QED BY <1>3, <2>1, <2>2, <2>3
<1>7. ASSUME ~y.dropped PROVE Follows(y, n + 1, final, status)
  <2>1. /\ w.id = Len(w.got) /\ w.id + Len(w.channel) = n /\ Len(w.got) <= n
        /\ w.last = Len(w.got) - 1 /\ \A i \in 1 .. Len(w.got) : w.got[i] = i
        /\ w.told => status # "running" /\ Len(w.got) >= final
    BY <1>1, <1>7 DEF Follows
  <2>2. y.id + Len(y.channel) = n + 1 /\ Len(y.got) <= n + 1 /\ ~y.closed
    <3>1. n + 1 = w.id + (Len(w.channel) + 1)
      <4> DEFINE a == w.id
                 b == Len(w.channel)
      <4>1. a \in Nat /\ b \in Nat /\ a + b = n
        BY <1>2, <1>5, <2>1
      <4> HIDE DEF a, b
      <4>2. n + 1 = a + (b + 1)
        BY <4>1
      <4>3. QED BY <4>2 DEF a, b
    <3>2. Len(w.got) <= n + 1
      BY <1>5, <2>1
    <3>3. QED BY <1>1, <1>3, <3>1, <3>2
  <2>3. \A i \in 1 .. Len(y.channel) : y.channel[i] = y.id + i
    BY <1>1, <1>6, <1>7
  <2>4. QED BY <1>1, <2>1, <2>2, <2>3 DEF Follows
<1>8. y.dropped => Follows(y, n + 1, final, status)
  BY DEF Follows
<1>9. QED BY <1>4, <1>7, <1>8 DEF y

\* One more event, for a watcher that is not sent to.
LEMMA LogGrows ==
  ASSUME NEW w \in WatcherRecords, NEW n \in Nat, NEW final \in Nat, NEW status,
         Follows(w, n, final, status), w.at = "open" => w.closed
  PROVE  Follows(w, n + 1, final, status)
<1>1. Len(w.channel) \in Nat /\ Len(w.got) \in Nat /\ w.id \in Nat
  BY DEF WatcherRecords
<1>2. QED BY <1>1 DEF Follows, WatcherRecords

\* An event that finds the channel full.
LEMMA Overflown ==
  ASSUME NEW w \in WatcherRecords
  PROVE  /\ [w EXCEPT !.dropped = TRUE] \in WatcherRecords
         /\ [w EXCEPT !.dropped = TRUE].dropped /\ [w EXCEPT !.dropped = TRUE].run = w.run
         /\ [w EXCEPT !.dropped = TRUE].at = w.at /\ [w EXCEPT !.dropped = TRUE].closed = w.closed
BY DEF WatcherRecords

\* The run is finalized.
LEMMA Closed ==
  ASSUME NEW w \in WatcherRecords, NEW n \in Nat, NEW final \in Nat, NEW status,
         Follows(w, n, final, "running"), w.at = "open", ~w.closed, status # "running"
  PROVE  /\ [w EXCEPT !.closed = TRUE] \in WatcherRecords
         /\ [w EXCEPT !.closed = TRUE].closed
         /\ Follows([w EXCEPT !.closed = TRUE], n, n, status)
<1> DEFINE y == [w EXCEPT !.closed = TRUE]
<1>1. /\ y.at = w.at /\ y.run = w.run /\ y.closed /\ y.id = w.id /\ y.last = w.last
      /\ y.got = w.got /\ y.told = w.told /\ y.dropped = w.dropped /\ y.channel = w.channel
  BY DEF WatcherRecords
<1>2. Len(w.channel) \in Nat /\ Len(w.got) \in Nat /\ w.id \in Nat
  BY DEF WatcherRecords
<1>3. y \in WatcherRecords
  BY DEF WatcherRecords
<1> HIDE DEF y
<1>4. Follows(y, n, n, status)
  BY <1>1, <1>2 DEF Follows
<1>5. QED BY <1>1, <1>3, <1>4 DEF y

\* The first event of the channel is written to the browser.
LEMMA Written ==
  ASSUME NEW w \in WatcherRecords, NEW n \in Nat, NEW final \in Nat, NEW status,
         Follows(w, n, final, status), w.at = "open", w.channel # <<>>,
         NEW channel, NEW got, NEW last, NEW id,
         channel = Tail(w.channel), got = Append(w.got, Head(w.channel)), last = w.id, id = w.id + 1
  PROVE  /\ [w EXCEPT !.channel = channel, !.got = got, !.last = last, !.id = id] \in WatcherRecords
         /\ Follows([w EXCEPT !.channel = channel, !.got = got, !.last = last, !.id = id], n, final, status)
<1> DEFINE y == [w EXCEPT !.channel = channel, !.got = got, !.last = last, !.id = id]
<1>1. /\ y.at = w.at /\ y.run = w.run /\ y.closed = w.closed /\ y.id = id /\ y.last = last
      /\ y.got = got /\ y.told = w.told /\ y.dropped = w.dropped /\ y.channel = channel
  BY DEF WatcherRecords
<1>2. w.channel \in Seq(Nat) /\ w.got \in Seq(Nat) /\ w.id \in Nat
  BY DEF WatcherRecords
<1>3. Len(w.channel) \in Nat /\ Len(w.got) \in Nat /\ Len(w.channel) > 0
  BY <1>2, EmptySeq
<1>4. /\ channel \in Seq(Nat) /\ Len(channel) = Len(w.channel) - 1
      /\ \A i \in 1 .. Len(channel) : channel[i] = w.channel[i + 1]
      /\ Head(w.channel) = w.channel[1] /\ Head(w.channel) \in Nat
  <2> DEFINE s == w.channel
  <2>1. s \in Seq(Nat) /\ s # <<>> /\ channel = Tail(s)
    BY <1>2
  <2> HIDE DEF s
  <2>2. /\ Tail(s) \in Seq(Nat) /\ Len(Tail(s)) = Len(s) - 1
        /\ \A i \in 1 .. Len(Tail(s)) : Tail(s)[i] = s[i + 1]
        /\ Head(s) \in Nat
    BY <2>1, HeadTailProperties
  <2>3. Head(s) = s[1]
    BY <2>1
  <2>4. QED BY <2>1, <2>2, <2>3 DEF s
<1>5. /\ got \in Seq(Nat) /\ Len(got) = Len(w.got) + 1
      /\ \A i \in 1 .. Len(w.got) : got[i] = w.got[i]
      /\ got[Len(w.got) + 1] = w.channel[1]
  BY <1>2, <1>4, AppendProperties
<1>6. id \in Nat /\ last \in Nat
  BY <1>2
<1>7. y \in WatcherRecords
  BY <1>4, <1>5, <1>6 DEF WatcherRecords
<1> HIDE DEF y
<1>8. ASSUME ~w.dropped PROVE Follows(y, n, final, status)
  <2>1. /\ \A i \in 1 .. Len(w.got) : w.got[i] = i
        /\ \A i \in 1 .. Len(w.channel) : w.channel[i] = w.id + i
    BY <1>8 DEF Follows
  <2>2. w.id = Len(w.got) /\ w.last = Len(w.got) - 1 /\ Len(w.got) <= n
    BY <1>8 DEF Follows
  <2>3. w.told => status # "running" /\ Len(w.got) >= final
    BY <1>8 DEF Follows
  <2>4. /\ ~w.closed => w.id + Len(w.channel) = n
        /\ w.closed => w.id + Len(w.channel) \in final .. n
    BY <1>8 DEF Follows
  <2>5. w.channel[1] = w.id + 1
    BY <1>3, <2>1
  <2>6. \A i \in 1 .. Len(got) : got[i] = i
    <3>1. \A i \in 1 .. Len(got) : i \in 1 .. Len(w.got) \/ i = Len(w.got) + 1
      BY <1>3, <1>5
    <3>2. got[Len(w.got) + 1] = Len(w.got) + 1
      BY <1>5, <2>2, <2>5
    <3>3. QED BY <1>5, <2>1, <3>1, <3>2
  <2>7. \A i \in 1 .. Len(channel) : channel[i] = id + i
    <3>1. \A i \in 1 .. Len(channel) : i + 1 \in 1 .. Len(w.channel) /\ i \in Nat
      BY <1>3, <1>4
    <3>2. \A i \in Nat : w.id + (i + 1) = id + i
      <4>1. \A a, i \in Nat : a + (i + 1) = (a + 1) + i
        OBVIOUS
      <4>2. QED BY <1>2, <4>1, Zenon
    <3>3. QED BY <1>4, <2>1, <3>1, <3>2
  <2>8. id + Len(channel) = w.id + Len(w.channel)
    BY <1>2, <1>3, <1>4
  <2>9. w.id + Len(w.channel) <= n
    BY <1>2, <1>3, <2>4
  <2>10. Len(got) <= n /\ last = Len(got) - 1 /\ id = Len(got)
    <3>1. Len(got) = w.id + 1
      BY <1>5, <2>2
    <3>2. \A a, b \in Nat : b > 0 /\ a + b <= n => a + 1 <= n /\ a = (a + 1) - 1
      OBVIOUS
    <3>3. w.id + 1 <= n /\ w.id = (w.id + 1) - 1
      BY <1>2, <1>3, <2>9, <3>2
    <3>4. QED BY <3>1, <3>3
  <2>11. w.told => Len(got) >= final
    BY <1>3, <1>5, <2>3
  <2>12. QED BY <1>1, <2>3, <2>4, <2>6, <2>7, <2>8, <2>10, <2>11 DEF Follows
<1>9. w.dropped => Follows(y, n, final, status)
  BY <1>1 DEF Follows
<1>10. QED BY <1>7, <1>8, <1>9 DEF y

\* The response ends, or breaks.
LEMMA Ended ==
  ASSUME NEW w \in WatcherRecords, NEW n \in Nat, NEW final \in Nat, NEW status,
         Follows(w, n, final, status), w.at = "open", w.closed, w.channel = <<>>, status # "running"
  PROVE  /\ [w EXCEPT !.at = "off", !.told = TRUE] \in WatcherRecords
         /\ Follows([w EXCEPT !.at = "off", !.told = TRUE], n, final, status)
<1> DEFINE y == [w EXCEPT !.at = "off", !.told = TRUE]
<1>1. /\ y.at = "off" /\ y.last = w.last /\ y.got = w.got /\ y.told /\ y.dropped = w.dropped
      /\ y \in WatcherRecords
  BY DEF WatcherRecords
<1> HIDE DEF y
<1>2. w.id \in Nat /\ Len(w.channel) = 0
  BY DEF WatcherRecords
<1>3. ~w.dropped => Len(w.got) >= final
  BY <1>2 DEF Follows
<1>4. Follows(y, n, final, status)
  BY <1>1, <1>3 DEF Follows
<1>5. QED BY <1>1, <1>4 DEF y

LEMMA Broken ==
  ASSUME NEW w \in WatcherRecords, NEW n \in Nat, NEW final \in Nat, NEW status,
         Follows(w, n, final, status), NEW channel, channel = <<>>
  PROVE  /\ [w EXCEPT !.at = "off", !.channel = channel] \in WatcherRecords
         /\ Follows([w EXCEPT !.at = "off", !.channel = channel], n, final, status)
<1> DEFINE y == [w EXCEPT !.at = "off", !.channel = channel]
<1>1. y.at = "off" /\ y.last = w.last /\ y.got = w.got /\ y.told = w.told /\ y.dropped = w.dropped
  BY DEF WatcherRecords
<1>2. y \in WatcherRecords
  BY EmptySeq DEF WatcherRecords
<1> HIDE DEF y
<1>3. Follows(y, n, final, status)
  BY <1>1 DEF Follows
<1>4. QED BY <1>1, <1>2, <1>3 DEF y

\* A watcher that connects has the whole log, and takes the rest from its channel.
LEMMA Opened ==
  ASSUME NEW w \in WatcherRecords, NEW y \in WatcherRecords, NEW n \in Nat, NEW final \in Nat, NEW status,
         Follows(w, n, final, status), final <= n,
         y.channel = <<>>, y.closed <=> status # "running", y.id = n,
         y.told = w.told, y.dropped = w.dropped,
         ~w.dropped => Len(y.got) = n /\ y.last = n - 1 /\ \A i \in 1 .. Len(y.got) : y.got[i] = i
  PROVE  Follows(y, n, final, status)
<1>1. Len(y.channel) = 0 /\ \A i \in 1 .. Len(y.channel) : FALSE
  OBVIOUS
<1>2. y.id + Len(y.channel) = n
  BY <1>1
<1>3. QED BY <1>1, <1>2 DEF Follows

\* The events that a browser has not, as the snapshot has them.
\* The numbers that StartFrom sends.
Since(from, n) == [i \in 1 .. (n - from) |-> from + i]

LEMMA Resumed ==
  ASSUME NEW got \in Seq(Nat), NEW n \in Nat, NEW from \in Nat, NEW sent, sent = Since(from, n),
         Len(got) <= n, from = Len(got), \A i \in 1 .. Len(got) : got[i] = i
  PROVE  /\ sent = <<>> => Len(got) = n
         /\ Len(got \o sent) = n /\ \A i \in 1 .. Len(got \o sent) : (got \o sent)[i] = i
<1>1. n - from \in Nat /\ Len(got) \in Nat
  OBVIOUS
<1>2. sent \in Seq(Nat) /\ Len(sent) = n - from /\ \A i \in 1 .. (n - from) : sent[i] = from + i
  BY <1>1 DEF Since
<1>3. /\ Len(got \o sent) = Len(got) + Len(sent)
      /\ \A i \in 1 .. (Len(got) + Len(sent)) :
            (got \o sent)[i] = IF i <= Len(got) THEN got[i] ELSE sent[i - Len(got)]
  BY <1>2, ConcatProperties
<1>4. Len(got) + Len(sent) = n
  BY <1>1, <1>2
<1>5. sent = <<>> => Len(sent) = 0
  OBVIOUS
<1>6. \A i \in 1 .. n : i > Len(got) => i - Len(got) \in 1 .. (n - from) /\ from + (i - Len(got)) = i
  BY <1>1
<1>7. \A i \in 1 .. n : (got \o sent)[i] = i
  <2>1. \A i \in 1 .. n : i <= Len(got) => i \in 1 .. Len(got)
    BY <1>1
  <2>2. \A i \in 1 .. n : i <= Len(got) \/ i > Len(got)
    BY <1>1
  <2>3. \A i \in 1 .. n : i > Len(got) => ~(i <= Len(got))
    BY <1>1
  <2>4. QED BY <1>2, <1>3, <1>4, <1>6, <2>1, <2>2, <2>3
<1>8. sent = <<>> => Len(got) = n
  BY <1>1, <1>4, <1>5
<1>9. QED BY <1>3, <1>4, <1>7, <1>8

\* What a step of the run r does to the streams: nothing that they see, one more
\* event, or the end.
Silent(r) ==
    /\ run'[r].log = run[r].log /\ run'[r].final = run[r].final /\ watcher' = watcher
    /\ run'[r].status = run[r].status \/ run[r].status = "none"
Logged(r) ==
    /\ Len(run'[r].log) = Len(run[r].log) + 1
    /\ run'[r].final = run[r].final /\ run'[r].status = run[r].status
    /\ watcher' = [s \in Watchers |-> Sent(s, r)]
Finalizes(r) ==
    /\ run[r].status = "running" /\ run'[r].status \notin {"none", "running"}
    /\ Len(run'[r].log) = Len(run[r].log) /\ run'[r].final = Len(run[r].log)
    /\ watcher' = [s \in Watchers |->
                    IF Subscribed(s, r) THEN [watcher[s] EXCEPT !.closed = TRUE] ELSE watcher[s]]

LEMMA RunKeepsWatchers ==
  ASSUME RunsTyped, RunsTyped', WatchersSound, NEW r \in Runs,
         \A q \in Runs : q # r => run'[q] = run[q],
         Silent(r) \/ Logged(r) \/ Finalizes(r)
  PROVE  WatchersSound'
<1>0. \A q \in Runs : run[q] \in RunRecords /\ run[q].log \in Seq({"error", "line", "complete"})
  BY DEF RunsTyped, RunRecords
<1>1. \A q \in Runs : run[q] \in RunRecords /\ Len(run[q].log) \in Nat /\ run[q].final \in Nat
  BY <1>0 DEF RunRecords
<1>2. \A s \in Watchers : watcher[s] \in WatcherRecords
  BY DEF WatchersSound
<1>3. \A s \in Watchers : watcher[s].run = None => Fresh(watcher[s])
  BY DEF WatchersSound
<1>4. \A s \in Watchers : watcher[s].run # None => watcher[s].run \in Runs /\ On(watcher[s], run[watcher[s].run])
  BY <1>2 DEF WatchersSound, WatcherRecords
<1>5. \A s \in Watchers : watcher[s].run \notin {None, r} => run'[watcher[s].run] = run[watcher[s].run]
  BY <1>4
<1>6. None \notin Runs
  BY RunsAssumption
<1>7. CASE Silent(r)
  BY <1>2, <1>3, <1>4, <1>5, <1>7 DEF Silent, WatchersSound, On
<1>8. CASE Logged(r)
  <2> DEFINE n == Len(run[r].log)
  <2>1. watcher' = [s \in Watchers |-> Sent(s, r)]
    BY <1>8 DEF Logged
  <2>2. ASSUME NEW s \in Watchers, Subscribed(s, r), Len(watcher[s].channel) < Buffer
        PROVE  /\ Sent(s, r) \in WatcherRecords /\ Sent(s, r).run = watcher[s].run
               /\ On(Sent(s, r), run'[r])
    <3>1. Sent(s, r) = [watcher[s] EXCEPT !.channel = Append(@, n + 1)]
      BY <2>2 DEF Sent
    <3>2. On(watcher[s], run[r]) /\ watcher[s].at = "open" /\ ~watcher[s].closed
      BY <1>4, <1>6, <2>2 DEF Subscribed
    <3>3. Follows(watcher[s], n, run[r].final, run[r].status)
      BY <3>2 DEF On
    <3>4. Sent(s, r) \in WatcherRecords /\ Follows(Sent(s, r), n + 1, run[r].final, run[r].status)
      <4>1. watcher[s] \in WatcherRecords /\ n \in Nat /\ run[r].final \in Nat
        BY <1>1, <1>2
      <4> HIDE DEF n
      <4>2. /\ [watcher[s] EXCEPT !.channel = Append(@, n + 1)] \in WatcherRecords
            /\ Follows([watcher[s] EXCEPT !.channel = Append(@, n + 1)], n + 1, run[r].final, run[r].status)
        BY <3>2, <3>3, <4>1, Delivered
      <4>3. QED BY <3>1, <4>2
    <3>5. /\ Sent(s, r).run = watcher[s].run /\ Sent(s, r).at = watcher[s].at
          /\ Sent(s, r).closed = watcher[s].closed
      BY <1>2, <3>1 DEF WatcherRecords
    <3>6. QED BY <1>8, <3>2, <3>4, <3>5 DEF Logged, On
  <2>3. ASSUME NEW s \in Watchers, Subscribed(s, r), ~(Len(watcher[s].channel) < Buffer)
        PROVE  /\ Sent(s, r) \in WatcherRecords /\ Sent(s, r).run = watcher[s].run
               /\ On(Sent(s, r), run'[r])
    <3>1. Sent(s, r) = [watcher[s] EXCEPT !.dropped = TRUE]
      BY <2>3 DEF Sent
    <3>2. On(watcher[s], run[r])
      BY <1>4, <1>6, <2>3 DEF Subscribed
    <3>3. /\ Sent(s, r) \in WatcherRecords /\ Sent(s, r).run = watcher[s].run /\ Sent(s, r).dropped
          /\ Sent(s, r).at = watcher[s].at /\ Sent(s, r).closed = watcher[s].closed
      BY <1>2, <3>1, Overflown
    <3>4. QED BY <1>8, <3>2, <3>3 DEF Logged, On, Follows
  <2>4. ASSUME NEW s \in Watchers, ~Subscribed(s, r), watcher[s].run = r
        PROVE  Sent(s, r) = watcher[s] /\ On(watcher[s], run'[r])
    <3>1. Sent(s, r) = watcher[s]
      BY <2>4 DEF Sent
    <3>2. On(watcher[s], run[r])
      BY <1>4, <1>6, <2>4
    <3>3. watcher[s].at = "open" => watcher[s].closed
      BY <2>4 DEF Subscribed
    <3>4. Follows(watcher[s], n, run[r].final, run[r].status)
      BY <3>2 DEF On
    <3>5. Follows(watcher[s], n + 1, run[r].final, run[r].status)
      BY <1>1, <1>2, <3>3, <3>4, LogGrows
    <3>6. QED BY <1>8, <2>1, <3>1, <3>2, <3>5 DEF Logged, On
  <2>5. \A s \in Watchers : watcher[s].run # r => Sent(s, r) = watcher[s]
    BY DEF Sent, Subscribed
  <2>6. ASSUME NEW s \in Watchers
        PROVE  /\ watcher'[s] \in WatcherRecords
               /\ IF watcher'[s].run = None THEN Fresh(watcher'[s]) ELSE On(watcher'[s], run'[watcher'[s].run])
    <3>1. CASE watcher[s].run = r
      BY <1>2, <1>6, <2>1, <2>2, <2>3, <2>4, <3>1
    <3>2. CASE watcher[s].run # r
      BY <1>2, <1>3, <1>4, <1>5, <2>1, <2>5, <3>2 DEF On
    <3>3. QED BY <3>1, <3>2
  <2>7. watcher' \in [Watchers -> WatcherRecords]
    BY <2>1, <2>6
  <2>8. QED BY <2>6, <2>7 DEF WatchersSound
<1>9. CASE Finalizes(r)
  <2> DEFINE n == Len(run[r].log)
             y(s) == [watcher[s] EXCEPT !.closed = TRUE]
  <2>1. watcher' = [s \in Watchers |-> IF Subscribed(s, r) THEN y(s) ELSE watcher[s]]
    BY <1>9 DEF Finalizes
  <2>2. ASSUME NEW s \in Watchers, Subscribed(s, r)
        PROVE  y(s) \in WatcherRecords /\ y(s).run = watcher[s].run /\ On(y(s), run'[r])
    <3>1. On(watcher[s], run[r]) /\ watcher[s].at = "open" /\ ~watcher[s].closed
      BY <1>4, <1>6, <2>2 DEF Subscribed
    <3>2. Follows(watcher[s], n, run[r].final, "running")
      BY <1>9, <3>1 DEF On, Finalizes
    <3>3. /\ y(s) \in WatcherRecords /\ y(s).closed
          /\ Follows(y(s), n, n, run'[r].status)
      BY <1>1, <1>2, <1>9, <3>1, <3>2, Closed DEF Finalizes
    <3>4. y(s).run = watcher[s].run
      BY <1>2 DEF WatcherRecords
    <3>5. QED BY <1>9, <3>3, <3>4, <2>1, <2>2 DEF Finalizes, On
  <2>3. ASSUME NEW s \in Watchers, ~Subscribed(s, r), watcher[s].run = r
        PROVE  On(watcher[s], run'[r])
    <3>1. On(watcher[s], run[r])
      BY <1>4, <1>6, <2>3
    <3>2. watcher[s].at # "open"
      BY <1>9, <2>3, <3>1 DEF Subscribed, On, Finalizes
    <3>3. Follows(watcher[s], n, run[r].final, "running")
      BY <1>9, <3>1 DEF On, Finalizes
    <3>4. Follows(watcher[s], n, n, run'[r].status)
      BY <1>9, <3>2, <3>3 DEF Follows, Finalizes
    <3>5. QED BY <1>9, <3>2, <3>4, <2>1, <2>3 DEF Finalizes, On
  <2>4. ASSUME NEW s \in Watchers
        PROVE  /\ watcher'[s] \in WatcherRecords
               /\ IF watcher'[s].run = None THEN Fresh(watcher'[s]) ELSE On(watcher'[s], run'[watcher'[s].run])
    <3>1. CASE watcher[s].run = r
      BY <1>2, <1>6, <2>1, <2>2, <2>3, <3>1
    <3>2. CASE watcher[s].run # r
      BY <1>2, <1>3, <1>4, <1>5, <2>1, <3>2 DEF Subscribed
    <3>3. QED BY <3>1, <3>2
  <2>5. watcher' \in [Watchers -> WatcherRecords]
    BY <2>1, <2>4
  <2> HIDE DEF y
  <2>6. QED BY <2>4, <2>5 DEF WatchersSound
<1>10. QED BY <1>7, <1>8, <1>9

LEMMA RunEffects ==
  ASSUME RunsTyped, NEW r \in Runs,
         \/ Register(r) \/ Started(r) \/ StartFails(r) \/ StartFailed(r) \/ Unlock(r)
         \/ Prints(r) \/ Scan(r) \/ Pump(r) \/ Exits(r)
         \/ Cancel(r) \/ Killed(r) \/ ChildrenEnd(r)
         \/ Wait(r) \/ TellError(r) \/ TellComplete(r) \/ Finish(r)
  PROVE  (\A q \in Runs : q # r => run'[q] = run[q]) /\ (Silent(r) \/ Logged(r) \/ Finalizes(r))
<1>1. run \in [Runs -> RunRecords] /\ run[r] \in RunRecords /\ RunSound(run[r])
  BY DEF RunsTyped
<1>2. run[r].log \in Seq({"error", "line", "complete"}) /\ Len(run[r].log) \in Nat
  BY <1>1 DEF RunRecords
<1>3. ASSUME NEW x, run' = [run EXCEPT ![r] = x]
      PROVE  run'[r] = x /\ \A q \in Runs : q # r => run'[q] = run[q]
  BY <1>1, <1>3
<1>4. ASSUME NEW x, Becomes(r, x), x.log = run[r].log, x.final = run[r].final, x.status = run[r].status
      PROVE  (\A q \in Runs : q # r => run'[q] = run[q]) /\ Silent(r)
  BY <1>3, <1>4 DEF Becomes, Silent
<1>5. ASSUME NEW x \in RunRecords, NEW event \in {"error", "line", "complete"}, AppendEvent(r, event, x),
             x.log = run[r].log, x.final = run[r].final, x.status = run[r].status
      PROVE  (\A q \in Runs : q # r => run'[q] = run[q]) /\ Logged(r)
  <2> DEFINE z == [x EXCEPT !.log = Append(@, event)]
  <2>1. run' = [run EXCEPT ![r] = z] /\ watcher' = [s \in Watchers |-> Sent(s, r)]
    BY <1>5 DEF AppendEvent
  <2>2. z.log = Append(run[r].log, event) /\ z.final = run[r].final /\ z.status = run[r].status
    BY <1>5 DEF RunRecords
  <2> HIDE DEF z
  <2>3. run'[r] = z /\ \A q \in Runs : q # r => run'[q] = run[q]
    BY <1>3, <2>1
  <2>4. Len(Append(run[r].log, event)) = Len(run[r].log) + 1
    BY <1>2
  <2>5. QED BY <2>1, <2>2, <2>3, <2>4 DEF Logged
<1>6. ASSUME NEW status \in {"failed", "completed"}, Finalize(r, status, run[r]), run[r].status = "running"
      PROVE  (\A q \in Runs : q # r => run'[q] = run[q]) /\ Finalizes(r)
  <2> DEFINE z == [run[r] EXCEPT !.status = status, !.final = Len(run[r].log), !.ending = "final"]
  <2>1. /\ run' = [run EXCEPT ![r] = z]
        /\ watcher' = [s \in Watchers |->
                        IF Subscribed(s, r) THEN [watcher[s] EXCEPT !.closed = TRUE] ELSE watcher[s]]
    BY <1>6 DEF Finalize
  <2>2. z.log = run[r].log /\ z.final = Len(run[r].log) /\ z.status = status
    BY <1>1 DEF RunRecords
  <2> HIDE DEF z
  <2>3. run'[r] = z /\ \A q \in Runs : q # r => run'[q] = run[q]
    BY <1>3, <2>1
  <2>4. QED BY <1>6, <2>1, <2>2, <2>3 DEF Finalizes
<1>7. CASE Register(r)
  <2>1. run' = [run EXCEPT ![r] = [run[r] EXCEPT !.status = "running"]] /\ run[r].status = "none" /\ watcher' = watcher
    BY <1>7 DEF Register, First
  <2>2. /\ [run[r] EXCEPT !.status = "running"].log = run[r].log
        /\ [run[r] EXCEPT !.status = "running"].final = run[r].final
    BY <1>1 DEF RunRecords
  <2>3. QED BY <1>3, <2>1, <2>2 DEF Silent
<1>8. CASE Started(r) \/ Cancel(r) \/ ChildrenEnd(r)
  <2>1. \/ Becomes(r, [run[r] EXCEPT !.process = "alive", !.children = TRUE])
        \/ Becomes(r, [run[r] EXCEPT !.cancelled = TRUE])
        \/ Becomes(r, [run[r] EXCEPT !.children = FALSE])
    BY <1>8 DEF Started, Cancel, ChildrenEnd
  <2>2. \A x \in {[run[r] EXCEPT !.process = "alive", !.children = TRUE], [run[r] EXCEPT !.cancelled = TRUE],
                  [run[r] EXCEPT !.children = FALSE]} :
            x.log = run[r].log /\ x.final = run[r].final /\ x.status = run[r].status
    BY <1>1 DEF RunRecords
  <2>3. QED BY <1>4, <2>1, <2>2
<1>9. CASE Exits(r) \/ Killed(r)
  <2>1. PICK ok \in BOOLEAN, left \in BOOLEAN :
            Becomes(r, [run[r] EXCEPT !.process = "gone", !.children = left, !.ok = ok])
    BY <1>9 DEF Exits, Killed
  <2> DEFINE x == [run[r] EXCEPT !.process = "gone", !.children = left, !.ok = ok]
  <2>2. x.log = run[r].log /\ x.final = run[r].final /\ x.status = run[r].status
    BY <1>1 DEF RunRecords
  <2> HIDE DEF x
  <2>3. Becomes(r, x)
    BY <2>1 DEF x
  <2>4. QED BY <1>4, <2>2, <2>3
<1>10. CASE Prints(r) \/ Scan(r) \/ Wait(r)
  <2>1. PICK a, b, c, e : Becomes(r, [run[r] EXCEPT !.printed = a, !.unread = b, !.scanned = c, !.ending = e])
    <3>1. ASSUME Prints(r)
          PROVE  Becomes(r, [run[r] EXCEPT !.printed = run[r].printed + 1, !.unread = run[r].unread + 1,
                                           !.scanned = run[r].scanned, !.ending = run[r].ending])
      BY <1>1, <3>1 DEF Prints, RunRecords
    <3>2. ASSUME Scan(r)
          PROVE  Becomes(r, [run[r] EXCEPT !.printed = run[r].printed, !.unread = 0,
                                           !.scanned = run[r].scanned + run[r].unread, !.ending = run[r].ending])
      BY <1>1, <3>2 DEF Scan, RunRecords
    <3>3. ASSUME Wait(r)
          PROVE  Becomes(r, [run[r] EXCEPT !.printed = run[r].printed, !.unread = 0,
                                           !.scanned = run[r].scanned,
                                           !.ending = IF run[r].ok THEN "told" ELSE "waited"])
      BY <1>1, <3>3 DEF Wait, RunRecords
    <3>4. QED BY <1>10, <3>1, <3>2, <3>3
  <2> DEFINE x == [run[r] EXCEPT !.printed = a, !.unread = b, !.scanned = c, !.ending = e]
  <2>2. x.log = run[r].log /\ x.final = run[r].final /\ x.status = run[r].status
    BY <1>1 DEF RunRecords
  <2> HIDE DEF x
  <2>3. Becomes(r, x)
    BY <2>1 DEF x
  <2>4. QED BY <1>4, <2>2, <2>3
<1>11. CASE StartFails(r)
  BY <1>1, <1>5, <1>11 DEF StartFails
<1>12. CASE StartFailed(r)
  BY <1>6, <1>12 DEF StartFailed
<1>13. CASE Unlock(r)
  BY <1>13 DEF Unlock, Silent
<1>14. CASE Pump(r)
  <2>1. run[r].scanned \in Nat /\ run[r].scanned > 0
    BY <1>1, <1>14 DEF RunRecords, Pump
  <2>2. PICK m \in Nat : AppendEvent(r, "line", [run[r] EXCEPT !.scanned = m])
    BY <1>14, <2>1 DEF Pump
  <2> DEFINE x == [run[r] EXCEPT !.scanned = m]
  <2>3. x \in RunRecords /\ x.log = run[r].log /\ x.final = run[r].final /\ x.status = run[r].status
    BY <1>1 DEF RunRecords
  <2> HIDE DEF x
  <2>4. AppendEvent(r, "line", x)
    BY <2>2 DEF x
  <2>5. QED BY <1>5, <2>3, <2>4
<1>15. CASE TellError(r) \/ TellComplete(r)
  <2>1. PICK e \in {"told", "complete"}, event \in {"error", "complete"} :
            AppendEvent(r, event, [run[r] EXCEPT !.ending = e])
    BY <1>15 DEF TellError, TellComplete
  <2> DEFINE x == [run[r] EXCEPT !.ending = e]
  <2>2. x \in RunRecords /\ x.log = run[r].log /\ x.final = run[r].final /\ x.status = run[r].status
    BY <1>1 DEF RunRecords
  <2> HIDE DEF x
  <2>3. AppendEvent(r, event, x)
    BY <2>1 DEF x
  <2>4. QED BY <1>5, <2>2, <2>3
<1>16. CASE Finish(r)
  <2>1. Finalize(r, IF run[r].ok THEN "completed" ELSE "failed", run[r]) /\ run[r].ending = "complete"
    BY <1>16 DEF Finish
  <2>2. run[r].status = "running"
    BY <1>1, <2>1 DEF RunSound
  <2>3. QED BY <1>6, <2>1, <2>2
<1>17. QED BY <1>7, <1>8, <1>9, <1>10, <1>11, <1>12, <1>13, <1>14, <1>15, <1>16

LEMMA OneWatcher ==
  ASSUME WatchersSound, NEW s \in Watchers, NEW y \in WatcherRecords,
         IF y.run = None THEN Fresh(y) ELSE On(y, run[y.run]),
         watcher' = [watcher EXCEPT ![s] = y], run' = run
  PROVE  WatchersSound'
<1>1. watcher' \in [Watchers -> WatcherRecords] /\ watcher'[s] = y
      /\ \A q \in Watchers : q # s => watcher'[q] = watcher[q]
  BY DEF WatchersSound
<1>2. QED BY <1>1 DEF WatchersSound

LEMMA StreamKeepsWatchers ==
  ASSUME RunsTyped, WatchersSound, NEW s \in Watchers, NEW r \in Runs, Stream(s, r)
  PROVE  WatchersSound'
<1> DEFINE w == watcher[s]
           n == Len(run[r].log)
           from == w.last + 1
           sent == [i \in 1 .. (n - from) |-> from + i]
           shut == run[r].status # "running"
           open == [w EXCEPT !.at = "open", !.run = r, !.channel = <<>>, !.closed = shut, !.id = n]
<1>1. /\ run[r].status # "none" /\ w.at = "off" /\ w.run \in {None, r} /\ run' = run
      /\ IF sent = <<>> THEN watcher' = [watcher EXCEPT ![s] = open]
                        ELSE watcher' = [watcher EXCEPT ![s] = [open EXCEPT !.got = @ \o sent, !.last = n - 1]]
  BY DEF Stream, Subscribe, StartFrom
<1>2. w \in WatcherRecords
  BY DEF WatchersSound
<1>3. run[r] \in RunRecords /\ RunSound(run[r])
  BY DEF RunsTyped
<1>4. run[r].log \in Seq({"error", "line", "complete"}) /\ run[r].final \in Nat
  BY <1>3 DEF RunRecords
<1>5. n \in Nat /\ run[r].final <= n
  BY <1>3, <1>4 DEF RunSound
<1>6. None \notin Runs
  BY RunsAssumption
<1>7. w.got \in Seq(Nat) /\ Len(w.got) \in Nat
  BY <1>2 DEF WatcherRecords
<1>8. Follows(w, n, run[r].final, run[r].status)
  <2>1. CASE w.run = None
    <3>1. w.at = "off" /\ w.got = <<>> /\ w.last = -1 /\ ~w.told
      BY <2>1 DEF WatchersSound, Fresh
    <3>2. Len(w.got) = 0
      BY <3>1
    <3>3. QED BY <1>5, <3>1, <3>2 DEF Follows
  <2>2. CASE w.run # None
    BY <1>1, <2>2 DEF WatchersSound, On
  <2>3. QED BY <2>1, <2>2
<1> HIDE DEF n, w, shut
<1>9. /\ open \in WatcherRecords /\ open.at = "open" /\ open.run = r /\ open.channel = <<>>
      /\ open.closed = shut /\ open.id = n /\ open.got = w.got /\ open.last = w.last
      /\ open.told = w.told /\ open.dropped = w.dropped
  <2>1. shut \in BOOLEAN
    BY DEF shut
  <2>2. <<>> \in Seq(Nat)
    BY EmptySeq
  <2>3. QED BY <1>2, <1>5, <2>1, <2>2 DEF WatcherRecords
<1>10. ~w.dropped => /\ from \in Nat /\ from = Len(w.got) /\ Len(w.got) <= n
                     /\ w.last = Len(w.got) - 1 /\ \A i \in 1 .. Len(w.got) : w.got[i] = i
  BY <1>7, <1>8 DEF Follows
<1>11. ~w.dropped => /\ sent = <<>> => Len(w.got) = n
                     /\ Len(w.got \o sent) = n /\ \A i \in 1 .. Len(w.got \o sent) : (w.got \o sent)[i] = i
  <2>1. sent = Since(from, n)
    BY DEF Since
  <2> HIDE DEF from, sent
  <2> SUFFICES ASSUME ~w.dropped
               PROVE  /\ sent = <<>> => Len(w.got) = n
                      /\ Len(w.got \o sent) = n /\ \A i \in 1 .. Len(w.got \o sent) : (w.got \o sent)[i] = i
    OBVIOUS
  <2> HIDE DEF open
  <2>2. /\ from \in Nat /\ from = Len(w.got) /\ Len(w.got) <= n
        /\ \A i \in 1 .. Len(w.got) : w.got[i] = i
    BY <1>10
  <2>3. w.got \in Seq(Nat) /\ n \in Nat
    BY <1>5, <1>7
  <2> DEFINE got == w.got
  <2>4. /\ got \in Seq(Nat) /\ n \in Nat /\ from \in Nat /\ sent = Since(from, n)
        /\ Len(got) <= n /\ from = Len(got) /\ \A i \in 1 .. Len(got) : got[i] = i
    BY <2>1, <2>2, <2>3
  <2> HIDE DEF got
  <2>5. /\ sent = <<>> => Len(got) = n
        /\ Len(got \o sent) = n /\ \A i \in 1 .. Len(got \o sent) : (got \o sent)[i] = i
    BY <2>4, Resumed
  <2>6. QED BY <2>5 DEF got
<1>a. from \in Nat
  BY <1>2 DEF WatcherRecords
<1>b. sent # <<>> => n - 1 \in Nat
  <2>1. ~(from < n) => 1 .. (n - from) = {}
    BY <1>5, <1>a
  <2>2. ~(from < n) => sent = <<>>
    BY <2>1
  <2>3. QED BY <1>5, <1>a, <2>2
<1>c. sent \in Seq(Nat)
  BY <1>5, <1>a
<1> HIDE DEF open, sent, from
<1>12. CASE sent = <<>>
  <2>1. watcher' = [watcher EXCEPT ![s] = open]
    BY <1>1, <1>12
  <2>2. ~w.dropped => Len(open.got) = n /\ open.last = n - 1 /\ \A i \in 1 .. Len(open.got) : open.got[i] = i
    BY <1>9, <1>10, <1>11, <1>12
  <2>3. open.closed <=> run[r].status # "running"
    BY <1>9 DEF shut
  <2>4. Follows(open, n, run[r].final, run[r].status)
    BY <1>2, <1>4, <1>5, <1>8, <1>9, <2>2, <2>3, Opened
  <2>5. On(open, run[r])
    BY <1>1, <2>3, <2>4 DEF On, n
  <2>6. QED BY <1>1, <1>6, <1>9, <2>1, <2>5, OneWatcher
<1>13. CASE sent # <<>>
  <2> DEFINE got == w.got \o sent
             y == [open EXCEPT !.got = got, !.last = n - 1]
  <2>1. watcher' = [watcher EXCEPT ![s] = [open EXCEPT !.got = @ \o sent, !.last = n - 1]]
    BY <1>1, <1>13
  <2>2. got \in Seq(Nat)
    BY <1>7, <1>c, ConcatProperties
  <2> HIDE DEF got
  <2>3. /\ y \in WatcherRecords /\ y.at = "open" /\ y.run = r /\ y.channel = <<>>
        /\ y.closed = shut /\ y.id = n /\ y.got = got /\ y.last = n - 1
        /\ y.told = w.told /\ y.dropped = w.dropped
    BY <1>9, <1>13, <1>b, <2>2 DEF WatcherRecords
  <2>4. watcher' = [watcher EXCEPT ![s] = y]
    BY <1>9, <2>1 DEF got
  <2> HIDE DEF y
  <2>5. y.closed <=> run[r].status # "running"
    BY <2>3 DEF shut
  <2>6. ~w.dropped => Len(y.got) = n /\ y.last = n - 1 /\ \A i \in 1 .. Len(y.got) : y.got[i] = i
    BY <1>11, <2>3 DEF got
  <2>7. Follows(y, n, run[r].final, run[r].status)
    BY <1>2, <1>4, <1>5, <1>8, <2>3, <2>5, <2>6, Opened
  <2>8. On(y, run[r])
    BY <1>1, <2>5, <2>7 DEF On, n
  <2>9. QED BY <1>1, <1>6, <2>3, <2>4, <2>8, OneWatcher
<1>14. QED BY <1>12, <1>13

LEMMA WatchersStep == RunsTyped /\ RunsTyped' /\ WatchersSound /\ [DashboardNext]_dashboardVars => WatchersSound'
<1> SUFFICES ASSUME RunsTyped, RunsTyped', WatchersSound, [DashboardNext]_dashboardVars PROVE WatchersSound'
  OBVIOUS
<1>1. CASE UNCHANGED runVars
  BY <1>1 DEF WatchersSound, runVars
<1>2. ASSUME NEW r \in Runs,
             \/ Register(r) \/ Started(r) \/ StartFails(r) \/ StartFailed(r) \/ Unlock(r)
             \/ Prints(r) \/ Scan(r) \/ Pump(r) \/ Exits(r)
             \/ Cancel(r) \/ Killed(r) \/ ChildrenEnd(r)
             \/ Wait(r) \/ TellError(r) \/ TellComplete(r) \/ Finish(r)
      PROVE  WatchersSound'
  <2>1. (\A q \in Runs : q # r => run'[q] = run[q]) /\ (Silent(r) \/ Logged(r) \/ Finalizes(r))
    BY <1>2, RunEffects
  <2>2. QED BY <2>1, RunKeepsWatchers
<1>3. ASSUME NEW s \in Watchers, NEW r \in Runs, Stream(s, r) PROVE WatchersSound'
  BY <1>3, StreamKeepsWatchers
<1>4. \A r \in Runs : Len(run[r].log) \in Nat /\ run[r].final \in Nat
  <2>1. \A r \in Runs : run[r].log \in Seq({"error", "line", "complete"}) /\ run[r].final \in Nat
    BY DEF RunsTyped, RunRecords
  <2>2. QED BY <2>1
<1>5. ASSUME NEW s \in Watchers, watcher[s].at = "open"
      PROVE  /\ watcher[s] \in WatcherRecords /\ watcher[s].run \in Runs /\ watcher[s].run # None
             /\ On(watcher[s], run[watcher[s].run])
  BY <1>5 DEF WatchersSound, WatcherRecords, Fresh
<1>6. ASSUME NEW s \in Watchers, WriteEvent(s) PROVE WatchersSound'
  <2> DEFINE w == watcher[s]
             n == Len(run[w.run].log)
  <2>1. PICK channel, got, last, id :
            /\ channel = Tail(w.channel) /\ got = Append(w.got, Head(w.channel)) /\ last = w.id /\ id = w.id + 1
            /\ watcher' = [watcher EXCEPT ![s] =
                    [w EXCEPT !.channel = channel, !.got = got, !.last = last, !.id = id]]
    <3>1. watcher' = [watcher EXCEPT ![s] =
                    [w EXCEPT !.channel = Tail(w.channel), !.got = Append(w.got, Head(w.channel)),
                              !.last = w.id, !.id = w.id + 1]]
      BY <1>6 DEF WriteEvent
    <3>2. QED BY <3>1
  <2>2. w.at = "open" /\ w.channel # <<>> /\ run' = run
    BY <1>6 DEF WriteEvent
  <2>3. w \in WatcherRecords /\ w.run \in Runs /\ w.run # None /\ On(w, run[w.run])
    BY <1>5, <2>2
  <2>4. Follows(w, n, run[w.run].final, run[w.run].status) /\ n \in Nat /\ run[w.run].final \in Nat
    BY <1>4, <2>3 DEF On
  <2> DEFINE y == [w EXCEPT !.channel = channel, !.got = got, !.last = last, !.id = id]
  <2>5. y.run = w.run /\ y.at = w.at /\ y.closed = w.closed
    BY <2>3 DEF WatcherRecords
  <2>6. watcher' = [watcher EXCEPT ![s] = y]
    BY <2>1
  <2> HIDE DEF w, n
  <2>7. y \in WatcherRecords /\ Follows(y, n, run[w.run].final, run[w.run].status)
    BY <2>1, <2>2, <2>3, <2>4, Written
  <2> HIDE DEF y
  <2>8. On(y, run[y.run])
    BY <2>3, <2>5, <2>7 DEF On, n
  <2>9. QED BY <2>2, <2>3, <2>5, <2>6, <2>7, <2>8, OneWatcher
<1>7. ASSUME NEW s \in Watchers, StreamEnds(s) PROVE WatchersSound'
  <2> DEFINE w == watcher[s]
             n == Len(run[w.run].log)
             y == [w EXCEPT !.at = "off", !.told = TRUE]
  <2>1. w.at = "open" /\ w.closed /\ w.channel = <<>> /\ run' = run
    BY <1>7 DEF StreamEnds
  <2>2. w \in WatcherRecords /\ w.run \in Runs /\ w.run # None /\ On(w, run[w.run])
    BY <1>5, <2>1
  <2>3. watcher' = [watcher EXCEPT ![s] = y]
    BY <1>7, <2>2 DEF StreamEnds, WatchersSound, WatcherRecords
  <2>4. y.run = w.run /\ y.at = "off"
    BY <2>2 DEF WatcherRecords
  <2>5. /\ Follows(w, n, run[w.run].final, run[w.run].status) /\ n \in Nat /\ run[w.run].final \in Nat
        /\ run[w.run].status # "running"
    BY <1>4, <2>1, <2>2 DEF On
  <2> HIDE DEF w, n
  <2>6. y \in WatcherRecords /\ Follows(y, n, run[w.run].final, run[w.run].status)
    BY <2>1, <2>2, <2>5, Ended
  <2> HIDE DEF y
  <2>7. On(y, run[y.run])
    BY <2>2, <2>4, <2>6 DEF On, n
  <2>8. QED BY <2>1, <2>2, <2>3, <2>4, <2>6, <2>7, OneWatcher
<1>8. ASSUME NEW s \in Watchers, Disconnect(s) PROVE WatchersSound'
  <2> DEFINE w == watcher[s]
             n == Len(run[w.run].log)
  <2>1. w.at = "open" /\ run' = run
    BY <1>8 DEF Disconnect
  <2>2. w \in WatcherRecords /\ w.run \in Runs /\ w.run # None /\ On(w, run[w.run])
    BY <1>5, <2>1
  <2>3. PICK channel : channel = <<>> /\ watcher' = [watcher EXCEPT ![s] = [w EXCEPT !.at = "off", !.channel = channel]]
    BY <1>8, <2>2 DEF Disconnect, WatchersSound, WatcherRecords
  <2> DEFINE y == [w EXCEPT !.at = "off", !.channel = channel]
  <2>4. y.run = w.run /\ y.at = "off"
    BY <2>2 DEF WatcherRecords
  <2>5. Follows(w, n, run[w.run].final, run[w.run].status) /\ n \in Nat /\ run[w.run].final \in Nat
    BY <1>4, <2>2 DEF On
  <2>6. watcher' = [watcher EXCEPT ![s] = y]
    BY <2>3
  <2> HIDE DEF w, n
  <2>7. y \in WatcherRecords /\ Follows(y, n, run[w.run].final, run[w.run].status)
    BY <2>2, <2>3, <2>5, Broken
  <2> HIDE DEF y
  <2>8. On(y, run[y.run])
    BY <2>2, <2>4, <2>7 DEF On, n
  <2>9. QED BY <2>1, <2>2, <2>4, <2>6, <2>7, <2>8, OneWatcher
<1>9. RunStep => WatchersSound'
  BY <1>2, <1>3, <1>6, <1>7, <1>8 DEF RunStep
<1>10. QED BY <1>1, <1>9 DEF DashboardNext, dashboardVars

\* A browser that resumes with Last-Event-ID, however often, has each event of the run
\* once and in order, and all that the run told by the time that its stream has ended,
\* unless its channel overflowed: the snapshot and the subscription are one step.
THEOREM StreamsAreWhole == DashboardSpec => []WatchersMissNothing
<1>1. DashboardInit => WatchersSound
  <2>1. NewWatcher \in WatcherRecords /\ NewWatcher.run = None /\ Fresh(NewWatcher)
    BY EmptySeq DEF NewWatcher, WatcherRecords, Fresh
  <2>2. QED BY <2>1 DEF DashboardInit, RunInit, WatchersSound
<1>2. RunsTyped /\ WatchersSound => WatchersMissNothing
  <2> SUFFICES ASSUME RunsTyped, WatchersSound, NEW s \in Watchers, ~watcher[s].dropped
               PROVE  /\ \A i \in 1 .. Len(watcher[s].got) : watcher[s].got[i] = i
                      /\ watcher[s].told => Len(watcher[s].got) >= run[watcher[s].run].final
    BY DEF WatchersMissNothing
  <2>1. CASE watcher[s].run = None
    BY <2>1 DEF WatchersSound, Fresh
  <2>2. CASE watcher[s].run # None
    BY <2>2 DEF WatchersSound, On, Follows
  <2>3. QED BY <2>1, <2>2
<1>3. QED BY <1>1, <1>2, RunsInit, RunsStep, WatchersStep, PTL DEF DashboardSpec
==============================================================================
