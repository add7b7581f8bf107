---------------------------- MODULE AdminSessions ----------------------------
(***************************************************************************)
(* The admin dashboard's sessions: the login with its lockout              *)
(* (handler/admin_auth.go, middleware/admin_ratelimit.go), the JWT cookie  *)
(* that RequireAdmin slides forward and that logout denies                 *)
(* (middleware/admin_auth.go, model/jwt_denylist.go), as one browser of    *)
(* one admin sees them.  Answers travel: a cookie is set when its response *)
(* arrives.                                                                *)
(***************************************************************************)
EXTENDS Integers, FiniteSets

CONSTANTS
    Tokens,     \* jti's, numbered as they are minted
    Attempts,   \* login attempts, numbered as they begin
    Threshold,  \* ADMIN_LOCKOUT_THRESHOLD
    None        \* no cookie

ASSUME AdminAssumption ==
    /\ Tokens \subseteq Nat /\ Attempts \subseteq Nat /\ IsFiniteSet(Attempts)
    /\ None \notin Tokens /\ Threshold \in Nat \ {0}

VARIABLES
    trusted,   \* the admin's row: role "admin" and not disabled
    token,     \* JWTs: unused, valid, expired
    rootOf,    \* the token of the login that a token's session began with
    denied,    \* JWTDenylist
    aged,      \* sessions (by root) past SessionMaxHrs
    cookie,    \* the browser's admin cookie
    answers,   \* Set-Cookie headers on their way: a token, or None for a clear
    passing,   \* tokens of requests that passed the denylist and role checks
    attempt,   \* login attempts: new, comparing, done
    failures,  \* AdminLockoutTracker: failures of the e-mail
    locked,    \* lockedUntil is set and not passed
    signedOut, \* history: the browser logged out, no login's answer came since
    crossed,   \* history: a logout met a response or a request, or stored no denial
    excess     \* history: attempts that were comparing when the lock was set

tokenVars == <<trusted, token, rootOf, denied, aged, cookie, answers, passing, signedOut, crossed>>
lockVars == <<attempt, failures, locked, excess>>
adminVars == <<tokenVars, lockVars>>

AdminTypeOK ==
    /\ trusted \in BOOLEAN /\ locked \in BOOLEAN
    /\ signedOut \in BOOLEAN /\ crossed \in BOOLEAN
    /\ token \in [Tokens -> {"unused", "valid", "expired"}]
    /\ rootOf \in [Tokens -> Tokens]
    /\ denied \subseteq Tokens /\ aged \subseteq Tokens /\ passing \subseteq Tokens
    /\ cookie \in Tokens \cup {None} /\ answers \subseteq Tokens \cup {None}
    /\ attempt \in [Attempts -> {"new", "comparing", "done"}]
    /\ failures \in Nat /\ excess \in Nat

AdminInit ==
    /\ trusted = TRUE
    /\ token = [t \in Tokens |-> "unused"]
    /\ rootOf = [t \in Tokens |-> t]
    /\ denied = {} /\ aged = {} /\ answers = {} /\ passing = {}
    /\ cookie = None
    /\ attempt = [a \in Attempts |-> "new"]
    /\ failures = 0 /\ excess = 0
    /\ locked = FALSE /\ signedOut = FALSE /\ crossed = FALSE

----------------------------------------------------------------------------
(* Login.                                                                  *)

\* Ids are given in order.
First(n, unused) == n \in unused /\ \A m \in unused : n <= m

Comparing == {a \in Attempts : attempt[a] = "comparing"}

\* IsLocked, then the row is read and bcrypt compares, for a while.
Attempt(a) ==
    /\ First(a, {b \in Attempts : attempt[b] = "new"}) /\ ~locked
    /\ attempt' = [attempt EXCEPT ![a] = "comparing"]
    /\ UNCHANGED <<tokenVars, failures, locked, excess>>

\* RecordFailure locks from Threshold failures on.
Locks(n) == n >= Threshold

\* RecordFailure: an unknown e-mail, a disabled account, a wrong password.
RecordFailure(a) ==
    /\ attempt[a] = "comparing"
    /\ attempt' = [attempt EXCEPT ![a] = "done"]
    /\ failures' = failures + 1
    /\ locked' = (locked \/ Locks(failures + 1))
    /\ excess' = IF Locks(failures + 1) /\ ~locked THEN Cardinality(Comparing) - 1 ELSE excess
    /\ UNCHANGED tokenVars

\* The lock window has passed: the next IsLocked, or the cleanup loop, forgets it.
LockPasses ==
    /\ locked
    /\ locked' = FALSE /\ failures' = 0 /\ excess' = 0
    /\ UNCHANGED <<tokenVars, attempt>>

Mint(t, root) ==
    /\ First(t, {u \in Tokens : token[u] = "unused"})
    /\ token' = [token EXCEPT ![t] = "valid"]
    /\ rootOf' = [rootOf EXCEPT ![t] = root]
    /\ answers' = answers \cup {t}

\* RecordSuccess forgets the failures, and a lock that came meanwhile;
\* IssueAdminJWT.  A right password of a user who is no admin records neither.
Admit(a, t) ==
    /\ attempt[a] = "comparing"
    /\ attempt' = [attempt EXCEPT ![a] = "done"]
    /\ \/ /\ trusted
          /\ Mint(t, t)
          /\ failures' = 0 /\ locked' = FALSE /\ excess' = 0
       \/ ~trusted /\ UNCHANGED <<token, rootOf, answers, failures, locked, excess>>
    /\ UNCHANGED <<trusted, denied, aged, cookie, passing, signedOut, crossed>>

----------------------------------------------------------------------------
(* Requests with the cookie.                                               *)

IsDenied(t) == t \in denied

\* ParseAdminCookie: the signature and the expiry, nothing else.
Parses(t) == t \in Tokens /\ token[t] = "valid"

\* RequireAdmin: a denied or too old session loses its cookie, a demoted or
\* disabled admin is refused, anyone else goes on to the handler.
RequireAdmin ==
    /\ Parses(cookie)
    /\ \/ /\ IsDenied(cookie) \/ rootOf[cookie] \in aged
          /\ answers' = answers \cup {None}
          /\ UNCHANGED passing
       \/ /\ ~IsDenied(cookie) /\ rootOf[cookie] \notin aged
          /\ trusted
          /\ passing' = passing \cup {cookie}
          /\ UNCHANGED answers
    /\ UNCHANGED <<trusted, token, rootOf, denied, aged, cookie, signedOut, crossed, lockVars>>

\* The rest of the request, with refreshAdminJWT when the token is about to
\* expire: a new jti for the same session, while the old one stays valid.
Serve(t) ==
    /\ t \in passing
    /\ passing' = passing \ {t}
    /\ \/ \E n \in Tokens : rootOf[t] \notin aged /\ Mint(n, rootOf[t])
       \/ UNCHANGED <<token, rootOf, answers>>
    /\ UNCHANGED <<trusted, denied, aged, cookie, signedOut, crossed, lockVars>>

\* Mutant: logout clears the cookie and denies nothing.
DenyNothing(jti) == denied
\* DenyAdminJWT adds the jti of the cookie, and of no other token of the session.
DenyAdminJWT(jti) == denied \cup {jti}

\* POST /admin/auth/logout: the cookie must parse (it may be denied already); a
\* failed Add is only logged and the cookie is cleared all the same.
Logout ==
    /\ Parses(cookie)
    /\ \E stored \in BOOLEAN :
        /\ denied' = IF stored THEN DenyAdminJWT(cookie) ELSE denied
        /\ crossed' = (crossed \/ ~stored \/ answers \cap Tokens # {} \/ passing # {})
    /\ answers' = answers \cup {None}
    /\ signedOut' = TRUE
    /\ UNCHANGED <<trusted, token, rootOf, aged, cookie, passing, lockVars>>

\* A response reaches the browser and sets or clears the cookie; a late one of
\* a request that was served before overwrites whatever came since.
Receive(x) ==
    /\ x \in answers
    /\ answers' = answers \ {x}
    /\ cookie' = x
    /\ signedOut' = (signedOut /\ (x = None \/ rootOf[x] # x))
    /\ UNCHANGED <<trusted, token, rootOf, denied, aged, passing, crossed, lockVars>>

\* Time: a token expires, a session passes SessionMaxHrs; runAdminCleanup drops
\* the denials of expired tokens.
TokenExpires(t) ==
    /\ token[t] = "valid"
    /\ token' = [token EXCEPT ![t] = "expired"]
    /\ denied' = denied \ {t}
    /\ UNCHANGED <<trusted, rootOf, aged, cookie, answers, passing, signedOut, crossed, lockVars>>

SessionAges(t) ==
    /\ token[t] # "unused" /\ rootOf[t] = t /\ t \notin aged
    /\ aged' = aged \cup {t}
    /\ UNCHANGED <<trusted, token, rootOf, denied, cookie, answers, passing, signedOut, crossed, lockVars>>

\* Another admin takes the role away, or disables the account.
Distrust ==
    /\ trusted
    /\ trusted' = FALSE
    /\ UNCHANGED <<token, rootOf, denied, aged, cookie, answers, passing, signedOut, crossed, lockVars>>

AdminNext ==
    \/ \E a \in Attempts : Attempt(a) \/ RecordFailure(a)
    \/ \E a \in Attempts, t \in Tokens : Admit(a, t)
    \/ \E t \in Tokens : Serve(t) \/ TokenExpires(t) \/ SessionAges(t)
    \/ \E x \in Tokens \cup {None} : Receive(x)
    \/ LockPasses \/ RequireAdmin \/ Logout \/ Distrust

----------------------------------------------------------------------------

\* The lock counts what was checked before it: beyond Threshold, only guesses
\* that were already being compared when the lock was set (IsLocked is asked
\* before the comparison, RecordFailure called after it).
GuessesAreBounded == failures <= Threshold + excess

\* After a logout the browser stays signed out until it logs in again, unless
\* the logout crossed a request whose answer still carried a refreshed token:
\* only the presented jti is denied, and the late Set-Cookie wins.
LogoutHolds == signedOut /\ ~crossed => ~(Parses(cookie) /\ cookie \notin denied)
=============================================================================
