----------------------------- MODULE DeviceFlow -----------------------------
(***************************************************************************)
(* Handing out credentials: key requests (handler/key_request.go), pair    *)
(* requests (handler/pair_request.go) and the exchange of a pairing code   *)
(* for a connection token (handler/connection_tokens.go), over the rows of *)
(* their stores in internal/model.                                         *)
(*                                                                         *)
(* An application creates a request row and polls it.  The owner approves  *)
(* it, which creates a credential (an API key, or a pairing code that POST *)
(* /auth/pair turns into a connection token), or denies it.                *)
(*                                                                         *)
(* Every handler reads the row, decides, and writes it by id whatever it   *)
(* has become: no transaction, no condition in the UPDATE.  One action is  *)
(* one SQL statement with the code around it.  A handler that answers an   *)
(* error or a status, and changes nothing, is not a step.                  *)
(***************************************************************************)
EXTENDS FiniteSets

CONSTANTS
    Handlers,  \* the HTTP requests that will be served
    KeyRows,   \* rows of KeyRequests
    PairRows,  \* rows of PairRequests
    Upgrades,  \* the pair requests with upgradeOnly, which yield no code
    None

ASSUME RowsAssumption ==
    /\ KeyRows \cap PairRows = {} /\ Upgrades \subseteq PairRows
    /\ Handlers \cap (KeyRows \cup PairRows) = {}
    /\ None \notin Handlers \cup KeyRows \cup PairRows

Rows == KeyRows \cup PairRows

VARIABLES
    status,  \* the status column of a request row
    grant,   \* approvedKeyId, or pairingCode: the approver that made the credential
    codes,   \* PairingCodes: per handler that made one, what the table holds
    late,    \* the rows, and pairing codes, whose expiresAt has passed
    at,      \* where a handler is
    work,    \* its operation, its row, what it read
    claims,  \* handlers whose write of "exchanged", or "used", took effect
    got      \* the credential, or the pairing code, a handler's answer pays out

vars == <<status, grant, codes, late, at, work, claims, got>>

Statuses == {"absent", "pending", "approved", "denied", "exchanged", "expired"}

NoWork == [op |-> "none", on |-> None, saw |-> "absent", grant |-> None, seen |-> {}]

TypeOK ==
    /\ status \in [Rows -> Statuses]
    /\ grant \in [Rows -> Handlers \cup {None}]
    /\ codes \in [Handlers -> {"absent", "fresh", "used"}]
    /\ late \subseteq Rows \cup Handlers
    /\ at \in [Handlers -> {"new", "read", "granted", "claimed", "done"}]
    /\ work \in [Handlers -> [op : {"none", "approve", "deny", "retrieve", "code", "pair"},
                              on : Rows \cup Handlers \cup {None},
                              saw : Statuses \cup {"fresh"},
                              grant : Handlers \cup {None},
                              seen : SUBSET Handlers]]
    /\ claims \subseteq Handlers
    /\ got \in [Handlers -> Handlers \cup {None}]

Init ==
    /\ status = [r \in Rows |-> "absent"]
    /\ grant = [r \in Rows |-> None]
    /\ codes = [h \in Handlers |-> "absent"]
    /\ late = {}
    /\ at = [h \in Handlers |-> "new"]
    /\ work = [h \in Handlers |-> NoWork]
    /\ claims = {}
    /\ got = [h \in Handlers |-> None]

\* What a handler that looks at the clock takes the status of a row for.
Effective(r) == IF r \in late /\ status[r] = "pending" THEN "expired" ELSE status[r]

Goes(h, to) == at' = [at EXCEPT ![h] = to]

Pays(h) == got[h] # None

Paid == {h \in Handlers : Pays(h)}

\* A handler fetches x and goes on to decide.  "seen": who had claimed x, or been
\* paid for it, by then.
Fetch(h, op, x, saw, g) ==
    /\ at[h] = "new"
    /\ Goes(h, "read")
    /\ work' = [work EXCEPT ![h] = [op |-> op, on |-> x, saw |-> saw, grant |-> g,
                                    seen |-> {k \in claims \cup Paid : work[k].on = x}]]
    /\ UNCHANGED <<status, grant, codes, late, claims, got>>

----------------------------------------------------------------------------
(* The request rows.                                                       *)

Create(r) ==
    /\ status[r] = "absent"
    /\ status' = [status EXCEPT ![r] = "pending"]
    /\ UNCHANGED <<grant, codes, late, at, work, claims, got>>

\* Ten minutes pass for a request, five or ten for a pairing code.  Nothing looks at
\* the expiry of a request that was decided or a code that was used.
Expire(x) ==
    /\ x \notin late
    /\ IF x \in Rows THEN status[x] = "pending" ELSE codes[x] = "fresh"
    /\ late' = late \cup {x}
    /\ UNCHANGED <<status, grant, codes, at, work, claims, got>>

FetchToApprove(h, r) == Effective(r) = "pending" /\ Fetch(h, "approve", r, "pending", None)

\* Mutant: a request that has been decided can be denied.
FetchToDenyAny(h, r) ==
    status[r] # "absent" /\ Fetch(h, "deny", r, Effective(r), None)

\* Denying does not look at the clock.
FetchToDeny(h, r) == status[r] = "pending" /\ Fetch(h, "deny", r, Effective(r), None)

\* The approval creates the API key, or the pairing code.  An upgrade creates
\* nothing: it has updated the settings of the world instead.
CreateCredential(h) ==
    /\ at[h] = "read" /\ work[h].op = "approve"
    /\ Goes(h, "granted")
    /\ codes' = IF work[h].on \in PairRows \ Upgrades
                THEN [codes EXCEPT ![h] = "fresh"] ELSE codes
    /\ UNCHANGED <<status, grant, late, work, claims, got>>

\* UpdateStatus, or SetApproved: one UPDATE writes the status and the credential.
RecordApproval(h) ==
    /\ at[h] = "granted"
    /\ status' = [status EXCEPT ![work[h].on] = "approved"]
    /\ grant' = [grant EXCEPT ![work[h].on] = IF work[h].on \in Upgrades THEN None ELSE h]
    /\ Goes(h, "done")
    /\ UNCHANGED <<codes, late, work, claims, got>>

RecordDenial(h) ==
    /\ at[h] = "read" /\ work[h].op = "deny"
    /\ status' = [status EXCEPT ![work[h].on] = "denied"]
    /\ Goes(h, "done")
    /\ UNCHANGED <<grant, codes, late, work, claims, got>>

\* The INSERT of a credential, or the UPDATE that records the decision, fails: an
\* error is answered.  A credential already made stays in its table.
DecisionFails(h) ==
    /\ at[h] = "granted" \/ (at[h] = "read" /\ work[h].op \in {"approve", "deny"})
    /\ Goes(h, "done")
    /\ UNCHANGED <<status, grant, codes, late, work, claims, got>>

\* A status poll, or the exchange of the web flow's code, finds the row approved.
\* (The exchange code is written with the credential, so it always names the
\* latest one.)  A key that was deleted meanwhile is not paid out.
FetchToRetrieve(h, r) ==
    status[r] = "approved" /\ Fetch(h, "retrieve", r, "approved", grant[r])

\* The row becomes "exchanged" and the credential is answered; it is answered too
\* when the UPDATE fails.
MarkExchanged(h) ==
    /\ at[h] = "read" /\ work[h].op = "retrieve"
    /\ \/ /\ status' = [status EXCEPT ![work[h].on] = "exchanged"]
          /\ claims' = claims \cup {h}
       \/ UNCHANGED <<status, claims>>
    /\ got' = [got EXCEPT ![h] = work[h].grant]
    /\ Goes(h, "done")
    /\ UNCHANGED <<grant, codes, late, work>>

----------------------------------------------------------------------------
(* Pairing codes.                                                          *)

\* The owner asks for a pairing code in the dashboard.
CreateCode(h) ==
    /\ at[h] = "new"
    /\ codes' = [codes EXCEPT ![h] = "fresh"]
    /\ work' = [work EXCEPT ![h].op = "code"]
    /\ Goes(h, "done")
    /\ UNCHANGED <<status, grant, late, claims, got>>

\* POST /auth/pair finds the code, in time and not used.
FetchToPair(h, k) ==
    codes[k] = "fresh" /\ k \notin late /\ Fetch(h, "pair", k, "fresh", None)

\* Mutant: a code that cleanup deleted is put back, unused.
MarkUsedReinserts(h) ==
    /\ at[h] = "read" /\ work[h].op = "pair"
    /\ codes' = [codes EXCEPT ![work[h].on] = IF @ = "absent" THEN "fresh" ELSE "used"]
    /\ claims' = claims \cup {h}
    /\ Goes(h, "claimed")
    /\ UNCHANGED <<status, grant, late, work, got>>

\* MarkUsed updates by id: it succeeds when the code is used already, and when
\* cleanup has deleted it.
MarkUsed(h) ==
    /\ at[h] = "read" /\ work[h].op = "pair"
    /\ codes' = [codes EXCEPT ![work[h].on] = IF @ = "absent" THEN @ ELSE "used"]
    /\ claims' = claims \cup {h}
    /\ Goes(h, "claimed")
    /\ UNCHANGED <<status, grant, late, work, got>>

\* The connection token is stored and answered.
IssueToken(h) ==
    /\ at[h] = "claimed"
    /\ got' = [got EXCEPT ![h] = work[h].on]
    /\ Goes(h, "done")
    /\ UNCHANGED <<status, grant, codes, late, work, claims>>

\* The UPDATE fails, or the INSERT of the token does: the code is spent for nothing.
PairingFails(h) ==
    /\ at[h] = "claimed" \/ (at[h] = "read" /\ work[h].op = "pair")
    /\ Goes(h, "done")
    /\ UNCHANGED <<status, grant, codes, late, work, claims, got>>

----------------------------------------------------------------------------
(* The hourly cleanup: one statement per table.                            *)

CleanupRequests(table) ==
    /\ status' = [r \in Rows |-> IF r \in table THEN Effective(r) ELSE status[r]]
    /\ UNCHANGED <<grant, codes, late, at, work, claims, got>>

CleanupCodes ==
    /\ codes' = [k \in Handlers |-> IF codes[k] = "used" \/ k \in late THEN "absent" ELSE codes[k]]
    /\ UNCHANGED <<status, grant, late, at, work, claims, got>>

----------------------------------------------------------------------------
HandlerStep(h) ==
    \/ \E r \in Rows : FetchToApprove(h, r) \/ FetchToDeny(h, r) \/ FetchToRetrieve(h, r)
    \/ \E k \in Handlers : FetchToPair(h, k)
    \/ CreateCredential(h) \/ RecordApproval(h) \/ RecordDenial(h) \/ DecisionFails(h)
    \/ MarkExchanged(h)
    \/ CreateCode(h) \/ MarkUsed(h) \/ IssueToken(h) \/ PairingFails(h)

Next ==
    \/ \E r \in Rows : Create(r)
    \/ \E x \in Rows \cup Handlers : Expire(x)
    \/ \E h \in Handlers : HandlerStep(h)
    \/ CleanupRequests(KeyRows) \/ CleanupRequests(PairRows) \/ CleanupCodes

Spec == Init /\ [][Next]_vars

----------------------------------------------------------------------------
(* Properties.                                                             *)

Twins(h, g) ==
    /\ h # g /\ Pays(h) /\ got[h] = got[g]
    /\ (work[h].op = "pair") <=> (work[g].op = "pair")

\* A retrieval that was answered although the UPDATE to "exchanged" failed.
Unmarked(h) == work[h].op = "retrieve" /\ Pays(h) /\ h \notin claims

\* One credential is paid out twice, or one pairing code yields two tokens, by two
\* handlers that overlapped (neither was paid, or had its claim written, when the
\* other read the row), or else because the UPDATE of the first one failed: the poll
\* and the exchange only log that failure and answer the key, the row stays
\* "approved", and whoever asks next is paid again.  Otherwise a poll or an exchange
\* that starts after the key was retrieved gets nothing, and a POST /auth/pair that
\* starts after the code yielded a token gets nothing whatever fails, whatever
\* cleanup, expiry, late approvals and failing statements do in between.
SharedOnlyByOverlapOrFailure ==
    \A h, g \in Handlers : Twins(h, g) /\ h \in work[g].seen => Unmarked(h)

\* The life of a request.  (An expired one can still be denied until the cleanup.)
LegalMoves == {<<"absent", "pending">>, <<"pending", "approved">>, <<"pending", "denied">>,
               <<"pending", "expired">>, <<"expired", "denied">>, <<"expired", "expired">>,
               <<"approved", "exchanged">>}

\* A decision is final, except against a handler that had read the row before: every
\* other change of a row is a legal move, and an approval that was recorded is never
\* replaced by another.  The handlers check the status when they read, and their
\* unconditional UPDATE comes later.
DecisionsStand ==
    [][\A r \in Rows :
         (status'[r] # status[r] \/ grant'[r] # grant[r]) =>
             \/ <<Effective(r), status'[r]>> \in LegalMoves
             \/ \E h \in Handlers : /\ at[h] # "done" /\ at'[h] = "done"
                                    /\ work[h].on = r /\ work[h].saw # Effective(r)
      ]_vars

\* "The key is returned exactly once - the status becomes `exchanged` immediately
\* after" (docs/md/authentication.md:131).
KeyReturnedOnce ==
    \A h, g \in Handlers :
        ~(/\ h # g /\ work[h].op = "retrieve" /\ work[g].op = "retrieve"
          /\ Pays(h) /\ got[h] = got[g] /\ work[h].on \in KeyRows)

\* "If two concurrent requests hit this endpoint with the same code, only one will
\* succeed at marking it used" (connection_tokens.go, POST /auth/pair).
OneMarksUsed ==
    \A h, g \in claims : (work[h].op = "pair" /\ work[g].op = "pair" /\ h # g)
                         => work[h].on # work[g].on
=============================================================================
