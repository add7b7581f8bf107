------------------------------ MODULE Accounts ------------------------------
(***************************************************************************)
(* One account: its row in Users, its dashboard sessions, scoped keys and  *)
(* password-reset tokens, and the authentication cache of one instance     *)
(* (handler/auth.go, handler/admin_users.go, handler/admin_keys.go,        *)
(* middleware/auth.go, model/user.go, api_key.go, session.go,              *)
(* password_reset.go).                                                     *)
(*                                                                         *)
(* UserStore.Update writes every column of the row as the handler read it, *)
(* some time before (a bcrypt comparison lies between): each handler is a  *)
(* job that reads the row in one step and writes it in another.            *)
(* SetDisabled and the counters write one column.  What a handler does     *)
(* after the write (the cache, the sessions, the keys) are steps of their  *)
(* own.                                                                    *)
(*                                                                         *)
(* A job names what it makes: a new password or master key, the session of *)
(* a login, a reset token.  The sockets and connection tokens that a       *)
(* rotation also ends are in Revocation.                                   *)
(***************************************************************************)
EXTENDS AdminSessions

CONSTANTS
    Jobs,   \* runs of handlers that change the account, numbered as they begin
    Keys,   \* scoped keys
    Calls,  \* API calls with a scoped key, numbered as they come
    Loads   \* bounds: which kinds of jobs, how many jobs and calls occur in one
            \*   behaviour

ASSUME AccountsAssumption ==
    /\ Jobs \subseteq Nat /\ Calls \subseteq Nat /\ None \notin Jobs \cup Keys
    /\ IsFiniteSet(Jobs) /\ IsFiniteSet(Calls)
    /\ \A l \in Loads : l.attempts \in Nat

VARIABLES
    load,     \* the load of this behaviour
    row,      \* the row of Users, or Deleted
    job,      \* the handlers
    sessions, \* Sessions, by the login that made them
    reset,    \* PasswordResetTokens, by the job that made them
    key,      \* ApiKeys: absent, on, off, expired, gone
    cached,   \* authCacheMap: the row that a scoped key's entry holds
    call,     \* API calls in AuthMiddleware
    wanted,   \* history: what the latest decision set each column to
    torn,     \* history: columns decided while somebody else held an older row
    excused,  \* history: keys exposed to a change that clears no cache entry
    void,     \* history: logins that a rotation by the owner was to end
    late,     \* history: logins under way when a rotation dropped the sessions,
              \*   or all of them when it could not
    spent,    \* history: reset tokens used once
    twice,    \* history: reset tokens used again
    shared    \* history: reset tokens that two resets held at once

tables == <<row, sessions, reset, key>>
decisions == <<wanted, torn>>
resets == <<spent, twice, shared>>
history == <<decisions, excused, void, late, resets>>
accountVars == <<load, tables, job, cached, call, history>>

Deleted == [password |-> None, hash |-> None, verified |-> FALSE, link |-> FALSE,
            rotate |-> FALSE, disabled |-> TRUE,
            status |-> "deleted", sub |-> "none", requests |-> 0]
Registered(verified) ==
    [Deleted EXCEPT !.verified = verified, !.link = ~verified,
                    !.disabled = FALSE, !.status = "free"]
NoJob == [at |-> "new", kind |-> "none", row |-> Deleted, of |-> None, to |-> "none"]
DoneJob == [NoJob EXCEPT !.at = "done"]
NoEntry == Deleted
NoCall == [at |-> "new", key |-> None, seen |-> NoEntry]

\* The handlers of the owner (with a session, a link or a password), of an admin.
OwnerKinds == {"change", "verify", "resend", "regenerate", "remove", "checkout"}
AdminKinds == {"force", "rotate", "unverify"}
\* The handlers that call InvalidateCachedAuthForUser after their write.
Clearing == {"regenerate", "remove", "force"}

\* What each decides of the row.
Decides(kind) ==
    CASE kind \in {"change", "reset"} -> {"password"}
      [] kind \in {"verify", "unverify"} -> {"verified"}
      [] kind \in {"regenerate", "rotate"} -> {"hash", "rotate"}
      [] kind = "force" -> {"rotate"}
      [] OTHER -> {}
Columns == {"password", "hash", "verified", "rotate", "disabled", "status"}

\* What each changes in the row it read: POST /auth/change-password and
\* reset-password, GET /auth/verify, POST /auth/resend-verification ...
ChangePassword(j, r) == [r EXCEPT !.password = j]
Verify(r) == [r EXCEPT !.verified = TRUE, !.link = FALSE]
Resend(r) == [r EXCEPT !.link = TRUE]
RegenerateKey(j, r) == [r EXCEPT !.hash = j, !.rotate = FALSE]
\* ... and the admin's PATCH, force-rotation and rotate-key.
Unverify(r) == [r EXCEPT !.verified = FALSE]
ForceRotation(r) == [r EXCEPT !.rotate = TRUE]
RotateKey(j, r) == [r EXCEPT !.hash = j, !.rotate = FALSE]

Edit(j, r) ==
    CASE job[j].kind \in {"change", "reset"} -> ChangePassword(j, r)
      [] job[j].kind = "verify" -> Verify(r)
      [] job[j].kind = "resend" -> Resend(r)
      [] job[j].kind = "regenerate" -> RegenerateKey(j, r)
      [] job[j].kind = "unverify" -> Unverify(r)
      [] job[j].kind = "force" -> ForceRotation(r)
      [] job[j].kind = "rotate" -> RotateKey(j, r)
      [] OTHER -> r

AccountInit ==
    /\ load \in Loads
    /\ \E verified \in BOOLEAN : row = Registered(verified)
    /\ job = [j \in Jobs |-> NoJob]
    /\ sessions = {None}  \* the one that the registration minted
    /\ reset = [j \in Jobs |-> "none"]
    /\ key = [k \in Keys |-> "absent"]
    /\ cached = [k \in Keys |-> NoEntry]
    /\ call = [a \in Calls |-> NoCall]
    /\ wanted = row
    /\ torn = {} /\ excused = {} /\ void = {} /\ late = {}
    /\ spent = {} /\ twice = {} /\ shared = {}

----------------------------------------------------------------------------
(* Helpers.                                                                *)

\* The checks that AuthMiddleware and SessionOnlyMiddleware make of a row.
Allows(r) == r.verified /\ ~r.rotate /\ ~r.disabled

LoggingIn == {j \in Jobs : job[j].at = "read" /\ job[j].kind = "login"}
Holding == {j \in Jobs : job[j].at = "read" /\ job[j].row # Deleted}
\* Rows held by others: cache entries, and calls that may begin a checkout.
Remembered == (\E k \in Keys : cached[k] # NoEntry) \/ (\E a \in Calls : call[a].seen # NoEntry)
MayStart(j) ==
    /\ Cardinality({l \in Jobs : job[l].at # "new"}) < load.jobs
    /\ First(j, {l \in Jobs : job[l].at = "new"})

\* Mutant: whoever rewrites the row enables the account.
UpdateEnabling(r) == IF row = Deleted THEN Deleted ELSE [r EXCEPT !.disabled = FALSE]
\* UserStore.Update: the whole row; no row matches once it is deleted.
Update(r) == IF row = Deleted THEN Deleted ELSE r

\* A decision about columns, taken by job j (history).
Decided(j, columns) ==
    /\ wanted' = [c \in DOMAIN wanted |-> IF c \in columns THEN row'[c] ELSE wanted[c]]
    /\ torn' = (torn \ columns) \cup (IF Holding \ {j} # {} \/ Remembered THEN columns ELSE {})

\* Keys whose cache entry, or whose lookup, may outlive a change.
Looking == {call[a].key : a \in {b \in Calls : call[b].at \in {"found", "checked"}}}
Exposed == {k \in Keys : cached[k] # NoEntry} \cup Looking
Excuses(withdrawn) == excused' = IF withdrawn THEN excused \cup Exposed ELSE excused
\* A row written without clearing the cache.
ExcusesRow == Excuses(Allows(row) /\ ~Allows(row'))

Step(j, at) == job' = [job EXCEPT ![j] = IF at = "done" THEN DoneJob ELSE [@ EXCEPT !.at = at]]

----------------------------------------------------------------------------
(* Handlers that rewrite the row.                                          *)

\* lookupUserByAuth, the link's token, FindByEmail and the password, RequireAdmin:
\* what lets the handler of a kind in, and then the row it works on.
MayRead(kind) ==
    CASE kind \in {"change", "remove"} -> sessions # {}
      [] kind = "checkout" -> sessions # {} /\ Allows(row)
      [] kind = "verify" -> row.link /\ ~row.verified
      [] kind = "resend" -> sessions # {} /\ ~row.verified
      [] kind \in AdminKinds -> passing # {} /\ trusted
      [] OTHER -> TRUE

Begin(j, kind, r, of, to) ==
    /\ kind \in load.kinds /\ MayStart(j)
    /\ job' = [job EXCEPT ![j] = [at |-> "read", kind |-> kind, row |-> r, of |-> of, to |-> to]]
    /\ UNCHANGED <<load, tables, cached, call, history, adminVars>>

ReadRow(j, kind) ==
    /\ kind \in OwnerKinds \cup AdminKinds
    /\ row # Deleted /\ MayRead(kind)
    /\ Begin(j, kind, row, None, "none")

\* POST /api/subscriptions/create-checkout-session with a scoped key works on the
\* row that AuthMiddleware let the call in with, a cached one perhaps.
Checkout(j, a) ==
    /\ "checkout" \in load.kinds /\ MayStart(j)
    /\ call[a].at = "admitted"
    /\ job' = [job EXCEPT ![j] = [NoJob EXCEPT !.at = "read", !.kind = "checkout",
                                              !.row = call[a].seen]]
    /\ call' = [call EXCEPT ![a] = [NoCall EXCEPT !.at = "served"]]
    /\ UNCHANGED <<load, tables, cached, history, adminVars>>

\* The handlers that end with the write: change-password, verify,
\* resend-verification, create-checkout-session (with the new customer's id), the
\* admin's PATCH and rotate-key, and, before its cache is cleared, force-rotation
\* and regenerate-key.
WriteRow(j) ==
    /\ job[j].at = "read" /\ job[j].kind \in (OwnerKinds \cup AdminKinds) \ {"remove"}
    /\ row' = Update(Edit(j, job[j].row))
    /\ Step(j, IF job[j].kind \in Clearing THEN "written" ELSE "done")
    /\ Decided(j, Decides(job[j].kind))
    /\ IF job[j].kind \in Clearing THEN UNCHANGED excused ELSE ExcusesRow
    /\ void' = IF job[j].kind = "regenerate" THEN void \cup sessions \cup LoggingIn ELSE void
    /\ UNCHANGED <<load, sessions, reset, key, cached, call, late, resets, adminVars>>

\* The statement fails: the handler gives up (change-password does not look).  A
\* checkout whose customer exists writes nothing.
WriteFails(j) ==
    /\ job[j].at = "read" /\ job[j].kind # "event"
    /\ Step(j, "done")
    /\ UNCHANGED <<load, tables, cached, call, history, adminVars>>

\* Mutant: the entries are looked for under the wrong key and stay.
EntriesStay == cached
\* InvalidateCachedAuthForUser: every entry of the user.
NoEntries == [k \in Keys |-> NoEntry]

\* The cache is cleared; a lookup that has passed its checks will put
\* its entry back (history).
ClearCache(j) ==
    /\ job[j].at = "written"
    /\ cached' = NoEntries
    /\ excused' = Looking
    /\ Step(j, IF job[j].kind = "regenerate" THEN "cleared" ELSE "done")
    /\ UNCHANGED <<load, tables, call, decisions, void, late, resets, adminVars>>

\* Mutant: the first session is taken for the caller's own and stays.
AllButFirst == sessions \cap {None}
\* SessionStore.DeleteAllByUser.
NoSession == {}

\* regenerate-key goes on, whether the statements are done or fail: the sessions ...
DropSessions(j, done) ==
    /\ job[j].at = "cleared"
    /\ sessions' = IF done THEN NoSession ELSE sessions
    /\ late' = late \cup LoggingIn \cup (IF done THEN {} ELSE sessions)
    /\ Step(j, "signedOut")
    /\ UNCHANGED <<load, row, reset, key, cached, call, decisions, excused, void, resets, adminVars>>

\* ... and ApiKeyStore.DeleteAllByUser.
Existing == {k \in Keys : key[k] \in {"on", "off", "expired"}}
DropKeys(j, done) ==
    /\ job[j].at = "signedOut"
    /\ key' = [k \in Keys |-> IF done /\ k \in Existing THEN "gone" ELSE key[k]]
    /\ Excuses(done)
    /\ Step(j, "done")
    /\ UNCHANGED <<load, row, sessions, reset, cached, call, decisions, void, late, resets, adminVars>>

\* POST /admin/api/users/{id}/disable and /enable: one column; only disabling
\* clears the cache.
SetDisabled(j, disabled) ==
    /\ "disable" \in load.kinds /\ MayStart(j)
    /\ passing # {} /\ trusted /\ row # Deleted
    /\ row' = [row EXCEPT !.disabled = disabled]
    /\ job' = [job EXCEPT ![j] = IF disabled THEN [NoJob EXCEPT !.at = "written", !.kind = "disable"]
                                 ELSE DoneJob]
    /\ Decided(j, {"disabled"})
    /\ UNCHANGED <<load, sessions, reset, key, cached, call, excused, void, late, resets, adminVars>>

\* DELETE /auth/account: one transaction, then the cache.  DELETE on the admin's
\* side: two statements, and the cache entries stay.
Remove(j) ==
    /\ \/ /\ job[j].at = "read" /\ job[j].kind = "remove"
          /\ Step(j, "written")
          /\ UNCHANGED excused
       \/ /\ "expel" \in load.kinds /\ MayStart(j) /\ row # Deleted
          /\ passing # {} /\ trusted
          /\ Step(j, "done")
          /\ Excuses(TRUE)
    /\ key' = [k \in Keys |-> IF k \in Existing THEN "gone" ELSE key[k]]
    /\ reset' = [l \in Jobs |-> IF reset[l] = "usable" THEN "used" ELSE reset[l]]
    /\ row' = Deleted
    /\ Decided(j, Columns)
    /\ UNCHANGED <<load, sessions, cached, call, void, late, resets, adminVars>>

----------------------------------------------------------------------------
(* Sessions and password resets.                                           *)

\* POST /auth/login: the row and the password, then the session.
StartLogin(j) ==
    /\ row # Deleted
    /\ Begin(j, "login", Deleted, None, "none")

Login(j) ==
    /\ j \in LoggingIn
    /\ sessions' = sessions \cup {j}
    /\ Step(j, "done")
    /\ UNCHANGED <<load, row, reset, key, cached, call, history, adminVars>>

\* POST /auth/logout, the expiry after 30 days with runTokenCleanup, and
\* tryBearerAuth, which deletes a session whose user is gone.
SessionEnds(s) ==
    /\ s \in sessions
    /\ sessions' = sessions \ {s}
    /\ UNCHANGED <<load, row, reset, key, job, cached, call, history, adminVars>>

Invalidated == [l \in Jobs |-> IF reset[l] = "usable" THEN "used" ELSE reset[l]]

\* POST /auth/forgot-password and the admin's send-password-reset: older tokens
\* are marked used, then the new one is stored.
Forgot(j) ==
    \/ /\ row # Deleted
       /\ Begin(j, "forgot", Deleted, None, "none")
    \/ /\ job[j].at = "read" /\ job[j].kind = "forgot" /\ reset[j] = "none"
       /\ reset' = [Invalidated EXCEPT ![j] = "invalidated"]
       /\ UNCHANGED <<load, row, sessions, key, job, cached, call, history, adminVars>>
    \/ /\ job[j].at = "read" /\ job[j].kind = "forgot" /\ reset[j] = "invalidated"
       /\ reset' = [reset EXCEPT ![j] = "usable"]
       /\ Step(j, "done")
       /\ UNCHANGED <<load, row, sessions, key, cached, call, history, adminVars>>

\* POST /auth/reset-password: an unused token and its user's row ...
StartReset(j, f) ==
    /\ reset[f] = "usable" /\ row # Deleted
    /\ Begin(j, "reset", row, f, "none")

\* MarkUsed and InvalidateForUser.
MarkUsed(j) == [Invalidated EXCEPT ![job[j].of] = "used"]

\* ... then, in one transaction that does not look at the token again, the row,
\* MarkUsed and InvalidateForUser.  The sessions stay.
Reset(j) ==
    /\ job[j].at = "read" /\ job[j].kind = "reset"
    /\ row' = Update(Edit(j, job[j].row))
    /\ reset' = MarkUsed(j)
    /\ Step(j, "done")
    /\ Decided(j, {"password"})
    /\ ExcusesRow
    /\ LET f == job[j].of IN
        /\ spent' = spent \cup {f}
        /\ twice' = IF f \in spent THEN twice \cup {f} ELSE twice
        /\ shared' = IF \E l \in Holding \ {j} : job[l].kind = "reset" /\ job[l].of = f
                     THEN shared \cup {f} ELSE shared
    /\ UNCHANGED <<load, sessions, key, cached, call, void, late, adminVars>>

ResetExpires(f) ==
    /\ reset[f] = "usable"
    /\ reset' = [reset EXCEPT ![f] = "used"]
    /\ UNCHANGED <<load, row, sessions, key, job, cached, call, history, adminVars>>

----------------------------------------------------------------------------
(* Scoped keys: /auth/api-keys behind SessionOnlyMiddleware, and the       *)
(* admin's PATCH and DELETE.  None of them touches the cache:              *)
(* InvalidateCachedAuth has no caller.                                     *)

Manages == sessions # {} /\ row # Deleted /\ Allows(row)
AdminManages == passing # {} /\ trusted

CreateKey(k) ==
    /\ "keys" \in load.kinds /\ Manages /\ key[k] = "absent"
    /\ key' = [key EXCEPT ![k] = "on"]
    /\ UNCHANGED <<load, row, sessions, reset, job, cached, call, history, adminVars>>

\* DELETE, of the owner and of the admin, and the owner's POST .../regenerate,
\* after which the row has another key.
RetireKey(k) ==
    /\ "keys" \in load.kinds /\ (Manages \/ AdminManages) /\ k \in Existing
    /\ key' = [key EXCEPT ![k] = "gone"]
    /\ Excuses(TRUE)
    /\ UNCHANGED <<load, row, sessions, reset, job, cached, call, decisions, void, late, resets, adminVars>>

\* ExpiresAt passes; the cache entry is not looked at.
KeyExpires(k) ==
    /\ "expiry" \in load.kinds /\ key[k] \in {"on", "off"}
    /\ key' = [key EXCEPT ![k] = "expired"]
    /\ excused' = excused \cup ({k} \cap Exposed)
    /\ UNCHANGED <<load, row, sessions, reset, job, cached, call, decisions, void, late, resets, adminVars>>

\* PATCH reads the key's row and writes it back, enabled or as it was read, with
\* the expiry that the owner posts or the one it read; a key that was
\* regenerated or deleted meanwhile is not brought back.
StartPatch(j, k, to) ==
    /\ \/ Manages /\ (to = "expired" => key[k] = "expired")
       \/ AdminManages /\ (to = "expired" <=> key[k] = "expired")
    /\ k \in Existing
    /\ Begin(j, "patch", Deleted, k, to)

\* (The expiry may have passed since it was read.)
PatchKey(j, to) ==
    /\ job[j].at = "read" /\ job[j].kind = "patch"
    /\ LET k == job[j].of IN
        /\ to = job[j].to \/ (to = "expired" /\ key[k] = "expired")
        /\ key' = IF k \in Existing THEN [key EXCEPT ![k] = to] ELSE key
        /\ Excuses(key[k] = "on" /\ to # "on")
    /\ Step(j, "done")
    /\ UNCHANGED <<load, row, sessions, reset, cached, call, decisions, void, late, resets, adminVars>>

----------------------------------------------------------------------------
(* AuthMiddleware, with a scoped key.                                      *)

NewCall(a, k) ==
    /\ First(a, {b \in Calls : call[b].at = "new"})
    /\ Cardinality({b \in Calls : call[b].at # "new"}) < load.calls
    /\ key[k] # "absent"

Refused == [NoCall EXCEPT !.at = "refused"]
CallStep(a, c) == call' = [call EXCEPT ![a] = c]

\* A cached key is admitted on the row it was cached with: whether it has expired
\* or reached its own limit since is not looked at.
CacheHit(a, k) ==
    /\ NewCall(a, k) /\ cached[k] # NoEntry
    /\ CallStep(a, [NoCall EXCEPT !.at = "admitted", !.seen = cached[k]])
    /\ UNCHANGED <<load, tables, job, cached, history, adminVars>>

\* FindByKey, Enabled and IsExpired.
FindKey(a, k) ==
    /\ NewCall(a, k) /\ cached[k] = NoEntry
    /\ CallStep(a, IF key[k] = "on" THEN [NoCall EXCEPT !.at = "found", !.key = k] ELSE Refused)
    /\ UNCHANGED <<load, tables, job, cached, history, adminVars>>

\* The parent user and its three checks.
FindParent(a) ==
    /\ call[a].at = "found"
    /\ CallStep(a, IF row # Deleted /\ Allows(row)
                   THEN [call[a] EXCEPT !.at = "checked", !.seen = row] ELSE Refused)
    /\ UNCHANGED <<load, tables, job, cached, history, adminVars>>

\* setCachedAuth, on a row that may have changed since; then the key's own
\* monthly limit, which no later call of the entry is checked against.
SetCached(a) ==
    /\ call[a].at = "checked"
    /\ cached' = [cached EXCEPT ![call[a].key] = call[a].seen]
    /\ \/ CallStep(a, [NoCall EXCEPT !.at = "admitted", !.seen = call[a].seen])
       \/ CallStep(a, Refused)
    /\ UNCHANGED <<load, tables, job, history, adminVars>>

\* The entry's TTL of one minute passes.
EntryExpires(k) ==
    /\ cached[k] # NoEntry
    /\ cached' = [cached EXCEPT ![k] = NoEntry]
    /\ excused' = IF k \in Looking THEN excused ELSE excused \ {k}
    /\ UNCHANGED <<load, tables, job, call, decisions, void, late, resets, adminVars>>

AccountNext ==
    \/ \E j \in Jobs, kind \in OwnerKinds \cup AdminKinds : ReadRow(j, kind)
    \/ \E j \in Jobs : \/ WriteRow(j) \/ WriteFails(j) \/ ClearCache(j) \/ Remove(j)
                      \/ StartLogin(j) \/ Login(j) \/ Forgot(j) \/ Reset(j) \/ ResetExpires(j)
    \/ \E j \in Jobs, done \in BOOLEAN : DropSessions(j, done) \/ DropKeys(j, done)
    \/ \E j \in Jobs, a \in Calls : Checkout(j, a)
    \/ \E j \in Jobs, disabled \in BOOLEAN : SetDisabled(j, disabled)
    \/ \E j, f \in Jobs : StartReset(j, f)
    \/ \E j \in Jobs, to \in {"on", "off", "expired"} :
        PatchKey(j, to) \/ \E k \in Keys : StartPatch(j, k, to)
    \/ \E s \in sessions : SessionEnds(s)
    \/ \E k \in Keys : CreateKey(k) \/ RetireKey(k) \/ KeyExpires(k) \/ EntryExpires(k)
    \/ \E a \in Calls, k \in Keys : CacheHit(a, k) \/ FindKey(a, k)
    \/ \E a \in Calls : FindParent(a) \/ SetCached(a)

----------------------------------------------------------------------------

\* What an admin, the owner or Stripe decided last stands (a disabled account
\* stays disabled, a new master key or password stays the key), unless somebody
\* held an older row when it was decided: a handler that had read it before, or
\* a cache entry or a call let in with one, from which a checkout may begin up to
\* a minute later.  Every Update writes all the columns.
DecisionsOutlast == \A c \in Columns : row[c] = wanted[c] \/ c \in torn

Rotating == \E j \in Jobs : job[j].at \in {"written", "cleared", "signedOut"}

\* Once disabling, forcing a rotation, rotating or deleting the account has
\* cleared the cache, no entry admits a key that the tables would refuse, except
\* for keys that were being looked up then, that a handler which clears nothing
\* withdrew, or that expired after they were cached; those last for the TTL.
CacheIsCurrent ==
    \A k \in Keys : cached[k] # NoEntry /\ k \notin excused /\ ~Rotating
        => key[k] = "on" /\ row # Deleted /\ Allows(row)

\* A rotation by the owner whose DeleteAllByUser succeeds ends every session that
\* was there when the new key was written, and every login that had begun by
\* then, except for one that stores its session after the sessions were dropped.
\* (The error is ignored: the sessions of a rotation that fails there stay.)
PanicButtonHolds == ~Rotating => void \cap sessions \subseteq late

\* A reset token changes the password once, unless two resets held it at once.
ResetsAreSingle == twice \subseteq shared
=============================================================================
