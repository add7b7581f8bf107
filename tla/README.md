# Formal models of the Foundry REST API relay

This directory holds TLA+ models of the Go relay in `src/go-relay`, the TLC
configurations that check them on small instances, and proofs that the TLA+
proof system checks. It is kept beside the code: every definition that models
code is listed in `PROJECT.json` ("map") with the lines it stands for.

## 1. The system

A Foundry VTT world runs a browser module that dials the relay and keeps one
WebSocket open (`/relay`). Applications reach the world through the relay, by
the REST API, by a client WebSocket API, by server-sent events, or from another
module ("remote-request"). The relay correlates what an application asked with
what the module answers. Several relay instances can run side by side; they
share a database and, optionally, Redis.

### Components

Paths are under `src/go-relay/internal`.

| Component | Code | State it keeps | Operations | What makes it correct |
|---|---|---|---|---|
| Client registry | `ws/manager.go`, `relay.go`, `client.go` | client ID → connection, groups by API key, gauge, per connection: connected, recorded token | add (evicting a stale connection, or rejecting), remove by ID, remove if it is that connection, disconnect by token / client / key, clean up | its two maps agree, a displaced connection is closed, only its owner, a replacement or a removal of its ID ends a registration |
| Revocation | `handler/{connection_tokens,self_unpair,auth}.go`, `ws/manager.go`, the loop of `server/server.go` | rows, messages on their way, snapshot of the loop | revoke, self-unpair, delete a known client, regenerate the key, hear a command, reconcile | a revoked connection is closed |
| Pending requests | `ws/{pending,message_handlers,client_api,remote_request}.go`, `handler/helpers/route.go` | request id → channel, timers, a semaphore | store, send, resolve, time out, cancel, clean up | one verdict per call, of its own id; nobody waits for ever |
| Credential flows | `handler/{key_request,pair_request,connection_tokens}.go` and their stores | request rows, pairing codes | create, approve, deny, poll, exchange, pair, expire | a credential goes to one caller, or to callers that overlap; decisions are final |
| Headless sessions | `worker/headless.go` | sessions, pending sessions, launch queue, cool-downs, a shared Chrome | launch, auto-start, end, client disconnected, clean up | one launch per world, no tab leaks, the slot is freed |
| Routing directory | `ws/manager.go` (Redis), `middleware/forwarder.go`, callbacks of `server/server.go` | `client:*:instance`, `isOnline` | set, delete, look up, forward, probe, reset at start | the instances agree on where a world is |
| Interactive sessions | `ws/interactive_sessions.go`, `client_api.go`, `message_handlers.go` | sessions by id, limit per key | start, confirm, frame, input, end, time out, kill | whoever is at the other end learns of the end |
| SSE and subscriptions | `handler/helpers/sse.go`, `handler/sse.go`, `ws/client_api.go`, `server/server.go` | lists of subscribers, cancel functions, counts told to the module | subscribe, leave, fan out, tell counts, close for a client | each subscriber is served once, the module knows who listens |
| Notifications, alerts | `service/notification*.go`, `alerts/alerts.go` | batches, debounce times, settings, trackers | add, flush, dispatch, put settings, track | one message per topic and window, nobody hears what they turned off |
| Cross-world tunnel | `ws/remote_request.go`, `model/known_client.go`, `handler/connection_tokens.go`, parts of `worker/headless.go` | allow-lists, rates, seed tokens | request, permit, auto-start, forward, edit, delete | an action goes only where the owner allowed it |
| Accounts and auth cache | `handler/{auth,admin_users,admin_keys}.go`, `middleware/auth.go`, `model/user.go` and others | the row of a user, sessions, keys, reset tokens, cached verdicts | change, verify, regenerate, remove, disable, force, log in, reset | what was decided last stands, what was withdrawn admits nobody |
| Admin sessions | `handler/admin_auth.go`, `middleware/admin_auth.go`, `model/jwt_denylist.go` | JWT cookie, denylist, failures | log in, refresh, log out, lock | a logout holds, guesses are bounded |
| Billing and counts | `handler/stripe.go`, `counter`, `cron`, `middleware` | subscription columns, processed events, counter in memory | webhook, count, flush, reset monthly | an event applies once, every call is counted |
| Test runner | `handler/admin_testrunner.go` | one operation, its processes, log, streams, `.env.test` | start, print, cancel, stream, save | one at a time, streams are whole, saves are kept |
| Rate limits per address, database and stores, REST routes, dashboard listings | `middleware`, `database`, `model`, `handler` | rows, counters | create, read, update, delete | not modelled, see section 5 |

### How they interact

* The registry calls the server's `OnClientRemoved` **while it holds its mutex**;
  this ends interactive sessions and headless sessions of the client. Other
  callbacks run in goroutines after the unlock: the Redis entries, the online
  flag, the streams of the world, the counts of subscribers.
* A route looks a client up in the registry, stores a channel in the pending
  table, sends through the client, and waits. The client's read pump resolves
  the table from the answer.
* A revocation handler writes the database and broadcasts a command over Redis;
  each instance closes what its own registry selects. A loop of every instance
  compares its registry with the database.
* Approving a request writes a credential row; the poll of the application
  reads it and marks the request.
* A remote-request reads the owner's settings, may auto-start a headless browser
  (which then dials the relay as an ordinary module), is counted in a batch and
  told in one summary.
* A handler of the account reads its row, works, and writes all of its columns;
  webhooks and the monthly reset write the same row; the authentication cache
  and the sessions are cleared in statements of their own.

### What is hard

* **A pointer, or an ID, outliving what it named.** The registry is keyed by
  client ID and goroutines hold `*Client`. Whatever looks an ID up a second time
  may find another connection.
* **Work after the unlock.** Gauge, Redis keys, online flag, counts of
  subscribers, notices to viewers and the removal of dead clients all happen
  after the mutex is released.
* **Errors that are only logged, or not looked at**: of Redis, of the mark of an
  exchanged key, of the rows that a pairing writes, of the sessions that a rotation
  drops, of a message put into a full channel. What follows goes on as if it were done.
* **Deletion by id.** Everybody who deletes from the pending table does so by
  request id, and HTTP ids are only unique per type and millisecond.
* **Read, decide, write by id.** Handlers use no transaction and no condition in
  the UPDATE, and rewrite columns they did not decide about; some write what was
  read, or approved, minutes before (a cached account, the settings of a pairing code).
* **Check, then record, in two steps**: debounce, limits of sessions, the mark
  of a webhook, the auth cache.
* **Fire and forget.** A disconnect command, or a message to a full queue, may
  never arrive.
* **Two mutexes in two orders** between registry and headless manager.

PROJECT.json ("hazards") lists these at their lines, with the properties that
would fail. A hazard without a property carries a note that says why.

## 2. Modules

| Module | Models | Kind |
|---|---|---|
| `ClientRegistry` | registry, connection handler, pumps, cleanup | component |
| `Revocation` | revocation handlers, disconnect channel, reconciliation | composes with `ClientRegistry` (EXTENDS) |
| `RequestReply` | what a caller of the module is promised | abstract specification |
| `PendingRequests` | pending table, three kinds of caller, the answer handlers, cleanup | implements `RequestReply` |
| `DeviceFlow` | key requests, pair requests, pairing codes | component |
| `Headless` | headless sessions: launch slots, tabs, session map, the two mutexes | component |
| `Directory` | Redis entries, online flag, forwarding, probes, a crash | component, several instances |
| `InteractiveSessions` | interactive viewing sessions from both ends | component |
| `Subscriptions` | streams, socket subscriptions, fan-out, counts | component |
| `Notifications` | batches, debounce, destinations, alerts | component |
| `Tunnel` | remote-requests, the owner's settings, auto-start, seed tokens | composes with `Notifications` (EXTENDS) |
| `AdminSessions` | the admin's login, cookie, logout, lock | component |
| `Accounts` | the row of an account, its sessions, keys, resets, the auth cache | over `AdminSessions` (EXTENDS) |
| `Billing` | webhooks, counted calls, the monthly reset | over `Accounts` (EXTENDS) |
| `AdminRuns` | test runs, their streams, `.env.test` | over `Billing` (EXTENDS) |
| `*Proofs` | theorems about the module whose name they begin with; `CallerProofs`: about `PendingRequests` and `Subscriptions`; `DashboardProofs`: about `AdminSessions`, `Accounts`, `Billing` and `AdminRuns`; `ClientRegistryProofs`: also about `Revocation`; `TunnelProofs`: about `Tunnel` and so `Notifications` | proofs |
| `MC*` | values of the constants, symmetry, what may occur together | model checking |

Where a module has a constant `Loads`, a behaviour begins with the choice of a
`load`, which says how many of which actors take part in it. It bounds the runs,
not the code: the proofs are for any set of loads.

A variable marked *history* records what happened and guards nothing. Most of
them name an exception that a property makes, so that the property says exactly
in which crossing of two actors the code gives its promise up.

### ClientRegistry

A *connection* (an element of `Conns`) is one WebSocket. It is an identity of
its own because the code's trouble comes from goroutines holding a `*Client`
while the registry is keyed by client ID. What a connection presents (instance,
client ID, key, host, token) is fixed when it dials (`req`).

One action is one critical section of `ClientManager.mu`, or the stretch after
it that touches shared state. `AddClient` is thus two actions: the part under
the mutex (`AddFresh`, `AddEvicting` or `AddRejected`, sharing `Insert`) and
`FinishAdd` (gauge). `SetClientConnectionTokenID`, which the handler calls next,
looks up by ID again and is an action of its own. The evicted connection's
goroutine is the set `evicting`, closed by `DisconnectWithReason`; `writePump`
then closes the socket, the read pump fails and calls `RemoveClientIfMatch`
(`ReadPumpExits`, `FinishRemove`). `CleanupInactiveClients` is a scan followed
by one `RemoveClient` per ID, each with its own unlocked tail. The other callers of
`RemoveClient` by ID are `EndSession` of the headless manager, which does not look at the
registry, and those that disconnect the client they looked up first (`ForceDisconnect`: two
handlers of the administrator, and the reconciliation with a client of its snapshot);
`ending` is their local state, and `RemoveEnded`, `FinishRemoveEnded` the removal. One such
caller is at work at a time on an instance, beside the cleanup.

`lost` is a history variable: connections that `RemoveClient` took out while
they were alive.

Left out: message contents, Redis keys (in `Directory`), metadata,
the send buffer, the ping loop (part of `SocketFails`), callbacks other than
through the registry's own state. `Authenticate` has a free verdict, because the
database decides; `Revocation` constrains it.

What ends a registration is thus an action property with three cases
(`RegistrationEndsByOwnerOrName`). It is not true that nobody but the owner does: whoever
named an ID may hit the connection that took it since.

### Revocation

Extends the registry with the rows of tokens and keys, and four handlers. Each
handler does two things (rows and broadcast, in an order that differs), so each
is an action and a *second half* that is pending in `halves`; a crash between the
two is a second half that never runs, for which no fairness is assumed. A
broadcast closes what is local and puts a command in the inbox of *some* other
instances: losing a message and never publishing it are the same choice. The
reconciliation loop is a snapshot and then, per connection, skip or disconnect,
`RemoveClient` by ID, and the gauge.

Of the registry's callers of `RemoveClient` the composition has the cleanup and its own
reconciliation; `EndSession` and the administrator's disconnects are left to
`ClientRegistry`.

Simplifications: a regenerated key's successor is not modelled (no connection
could carry it before the call); the key's hash and its tokens go in one step;
`DeleteKnownClient` may find any of the world's tokens in Redis.

### PendingRequests and RequestReply

A *caller* is one request: HTTP, client WebSocket, or remote. `Store` overwrites
whatever the table holds under the id; `IdAt` is the id: the millisecond for
HTTP callers (all of one type), unique for the rest. The answer to a request
goes by id only: `Take` is the single critical section of `Resolve`/`ResolveRaw`,
`Load`/`DeleteLoaded` the two of the handlers for files and screenshots, and
`Deliver` the non-blocking send outside the lock. `CleanupStale` collects
overdue entries under the lock and sends each a 408 afterwards. A WebSocket
client's read pump handles one message at a time (`PumpIsFree`), takes a slot
after it has sent, and cancels all when it closes.

`RequestReply` states the promise without the table: a call has one verdict,
once; an answer comes only to a call that was sent, and answers that of a call
with the same id. `PendingRequests` implements it with the refinement mapping
at the end of the module (`start`, `open`, `sent`, `told`).

### DeviceFlow

A *handler* is one HTTP request. It reads a row (`Fetch...`), and then writes it
by id whatever it has become; each SQL statement is an action. A credential is
named by the handler that created it. Requests that end in an error before they
change anything are not steps. `claims` and `work[h].seen` are history: whose
mark took effect, and which handlers of the row had been paid, or had marked it, when a
handler read. `MarkExchanged` may fail, which the poll and the exchange only log: the
answer goes out, and the row pays the next caller too.

Left out: which client ID a pairing reuses, the cross-world settings that an approval and
a code carry (in `Tunnel`), secrets and code verifiers, which decide only *whether* a request is
refused. `Upgrades` is empty in the runs.

### Headless

A *launch* (an element of `Launches`) is one call: of `AutoStartForKnownClient`,
or of `LaunchSession` if it is in `Direct`. It names its own launch queue,
pending entry, tab and session, which in the code are keyed by a fresh UUID or
held by the goroutine. `at` is where the call is. A critical section of
`launchQueuesMu`, of `failureCooldownsMu` or of `HeadlessManager.mu` is one
action, except two in which a second mutex is asked for, and there the holder is
state: `hmu` is the launch that sweeps stale sessions (it asks
`ClientManager.GetClient` for each), and `cmu` whoever removes a client (under
the registry's mutex, `OnClientRemoved` asks for the manager's). Everything
else that needs one of the two waits until it is free.

`Found` and `Establish` are separate, as the poll reads the registry before it
takes its own mutex; so are `Sweep`, which counts, and `Establish`, which stores.
`EndSession` is four actions: take the session out, close its tab, remove the
client, forget it in Redis. `counted` is history: the launches whose session had
been stored when a launch counted.

Left out: what happens in a page (login, choosing a world: `LogIn` succeeds or
`BrowsingFails`), the start and restart of the shared browser, `Shutdown`, and
the rows of headless connection tokens (in `Tunnel`). `LastActivity` is set when a session is
stored and never again, so the clean-up of inactive sessions ends any session
after a while: `EndSession` is always possible. What
`checkGlobalSessionCap` counts is the set `global`; `PassGlobalCap` is always possible
because the check passes when Redis fails.

### Directory

Per instance, `local` is the registry's map; `entry` is the Redis key
`client:<id>:instance`, which `AddClient` sets (`Announce`, with `SetEntry`) and a
removal deletes (`Unlink`, then `ClearEntry`) **after** the lock. Either may fail, which the
code logs at most. `joins` and `leaves` are the goroutines of
`OnClientConnected` and `OnClientRemoved`, which look the row of `KnownClients` up
and write its flag in separate statements, any of which may fail and end the goroutine
there. Others write the same row: the upsert of a pairing leaves `IsOnline` unset and so
clears the flag of a connected world (`Pair`), and the owner may delete it (`DeleteRow`).
`Crash` empties an instance and leaves
entries behind; its restart runs `ResetAllOnline`. `Expire` is the expiry of an
entry that no pong refreshes any more, or whose refreshes fail. A request (`Arrive`,
`Route`, `Handle`) asks what `forwarder.go` asks; its read of the entry, and its forward,
may fail. The probes are the operators of the module's first section (`ok`: whether Redis
answers). `redis` is whether the deployment has Redis, `forwards` whether it also has the
AppName without which `forwarder.go` forwards nothing. `upsets` counts the crashes, failed
calls and writes of others, up to the load's.

`crossed`, `mixed` are history: ids with two connections, or two goroutines, under way at
once. So are `stale` and `unnamed`: entries that a crash or a failed DEL left behind, and
hosts that a failed SET, or failed refreshes, left without one; `wrong`, flags that a failed
call or another writer left wrong; `retold`, ids whose row was deleted, not found or not
written. What is set right again by the next write that succeeds leaves `stale`, `unnamed`
and `wrong` again: the properties except a world only while it is in them.

Left out: the `apikey:*` keys, which are stored under the hash of the key while the
forwarder reads them under the key itself, so that no reader finds one.

### InteractiveSessions

`table` is `InteractiveSessionManager.sessions`. The handler of a viewer's
`interactive-session-start` is three steps (`LookUp`, `Create`, `SendStart`), as it
looks the module up before it creates the session and sends afterwards; that of
an input is two. The module's read pump (`ModuleSends`, `HandlerWrites`,
`HandlerDone`) finds the session, changes the table, writes to the viewer's socket
and only then removes the session. `Disconnect` is a removal of the module,
`Connect` a registration that evicts, which tells the sessions nothing, `CleanUp` the
timeout loop and `Kill` the admin. `notices` are the viewers still to be told after
the unlock, `writing` the writes to a viewer's socket that are under way. A viewer may stop
reading (`Stall`, `Resume`): no write has a deadline, so a write to it does not return until
it reads again. The end that a viewer causes is passed on by a `Send` whose result nobody
looks at (`PassEnd`): a full channel, or a client that is on its way out, drops it.

`dropped` is history: the sessions that a timeout or the admin took out, of which
the relay does not tell the module. `unheard` is: those whose end could not be passed on.

### Subscriptions

The lists (`chatSSE`, ..., `wsEvents`) are slices with their array, length and
capacity, because a fan-out copies the slice header under the lock and walks the
array after it, while a removal shifts the same array in place: `arr`, `Appended`,
`Without`, and `fan.frozen` for an array that has been replaced meanwhile. A stream is
resolved, armed (its cancel function registered), admitted below the limit, open,
removed; a socket subscribes and unsubscribes in one message each. The count is
computed in the critical section's caller and sent later (`Emit`), and
`OnClientConnected` sends all counts of a channel in a loop of its own (`SyncRead`,
`SyncSend`). `CloseForClientID` cancels what is registered.

`late`, `doubt`, `steady`, `shifted` are history: streams that registered after a
close, channels where counts crossed or were dropped, subscribers that were
there for the whole walk, lists shifted under it.

### Notifications and Tunnel

`Notifications` is the batcher (`Added`, `Flush`), the dispatcher (`Notify`, then
`Look` and `Record` as the two steps of the debounce, then the sends to account, key
and world, each reading its settings when it comes to it), the three settings
tables, and `Track` of the alerts with its clock of ticks.

`Tunnel` extends it. `handleRemoteRequest` is one action per read of the database:
`LookUpToken`, `CheckPermissions` (allow-list, scope and hourly limit), `Recheck`
(is the token still there), `FindTarget`, then either `SendAction`, `Forwarded` or
`AutoStart`, the wait, and `FinishLog`, which adds to the batch. The dashboard
handlers read a row in one step and write it in another (`StartPatch`/`WritePatch`;
`StartDelete`, `DeleteRow`, `ReadSiblings` and one `CleanSibling` per world for the
deletion). The approval of a pair request writes the reach of a paired world at once
(`ApproveUpgrade`), or stores it with a pairing code and writes it to the world that is
known already (`ApprovePairing`); that is one step, as what it has read is only the row's
id. The code is exchanged later (`Exchange`: the upsert of the row, `Grant`: the settings of
the code), over whatever has been decided since. A deleted world that connects with a token
left to it, or is paired again, is there again, as another row (`made`) with no reach of its
own. A launch mints a seed token and succeeds or fails.

`lawful`, `doomed`, `torn`, `wish` are history: requests the owner allowed at some
time of their life, requests whose token was deleted before it was checked again,
worlds whose reach is given up (decided while another handler held the older row or was
deleting a world that is named, written by a code older than the decision, or not written
because that failed), the latest decision. So are
those of the debounce: `passed` (the notices of a topic's window), `overlapped` (notices
that looked while another had looked and not yet recorded), `resettled` (topics whose
account's settings changed within the window, or while a notice was between its look and
its record: it records with the settings it read before).

One code is outstanding at a time, which neither expires nor is thrown away unused; the
token that a pairing makes is not among `Tokens`.

### AdminSessions, Accounts, Billing, AdminRuns

Four modules, each extending the one before, because they write the same row or are
reached through the same login; one run checks the top, `DashboardSpec`.

* `AdminSessions`: one browser of one admin. A response with a `Set-Cookie` travels
  (`answers`), so a refresh that was under way arrives after a logout. A login
  asks for the lock, compares for a while, and records afterwards.
* `Accounts`: a *job* is one handler of the account. It reads the row (`ReadRow`) and
  writes all its columns (`WriteRow`: `UserStore.Update`), then clears the cache, drops
  the sessions, drops the keys, as far as its kind does so; dropping may fail, which is not
  looked at. Logins, resets and patches of keys have actions of their own, `SetDisabled`
  writes one column. An API call with a scoped key finds the key, then the user, then fills
  the cache (`FindKey`, `FindParent`, `SetCached`) and is let in or meets the key's own
  limit, or hits the cache, which looks at neither expiry nor limit. The cache holds rows:
  a checkout (`Checkout`) works on the row its call was let in with and writes it back whole,
  up to a minute after it was read. Keys expire (`KeyExpires`), and their owner may give
  them another expiry. The cached row is shared by pointer in the code; a checkout that
  changes it changes a column (Stripe's customer) that no decision here is about.
* `Billing`: `Webhook` marks the event, then its handler rewrites the row
  (`EventHandled`) or fails. `TrackAPIUsage` counts in memory, `TakeCounts` empties the
  counter, `AddCounts` adds to the row or fails, `MonthlyReset` writes zero.
* `AdminRuns`: a run has a process, children that may outlive it, a pipe, two pumps
  taken as one, a log. `Cancel` kills the process and not the children; `Wait` closes the
  pipe, then the error and the completion are appended and the run finalized. A
  browser's stream may break and resume from its `Last-Event-ID`. A save of
  `.env.test` reads, writes the temporary file, renames it. What is posted is written as it
  is and parsed when it is read (`Texts`, `Parsed`): spaces and quotes go, and a second line
  is a line of the file of its own, of any key (`Spilled`; a list of versions that is set this
  way is taken to be empty). A file that cannot be read counts as empty, and every line that
  is not posted is dropped. A post names the list of versions, as the dashboard's page does;
  that list is plain. A line has less than the 64 KB at which the scanner of the code stops.

History: `wanted` and `torn` (latest decision of a column; columns decided while
another job held an older row), `excused`, `void`, `late`, `spent`, `twice`, `shared`,
`handled`, `failed`, `forgotten`, `served`, `closed`, `lost`, `rewritten`, `met`, `odd`
(settings that a save changed and was not asked to), `crossed`, `excess`, `asked`.

Left out: e-mails, bcrypt, what a test prints, Stripe's own pages, the daily counts and those
of the WebSocket API, the sockets that a rotation also closes (in `Revocation`).

## 3. Runs

| Run | Question | Properties | Outcome |
|---|---|---|---|
| `registry` | Do two maps and gauge stay consistent, and who can end a registration, whoever wins the races for a client ID? | `GroupsMatchClients`, `GaugeAccounts`, `DisplacedIsClosed`, `RegistrationEndsByOwnerOrName` | hold |
| `revocation` | Is a connection with a revoked token closed although broadcasts are lost, and does every dead connection end? | `RevokedIsClosedUnlessLost`, `EveryConnectionEnds` | hold |
| `pending` | Is every waiter answerable, nothing left in the table, no slot kept, the promise kept, and does every request end without help? | `TableFollowsCallers`, `SlotsAreHeld`, `ImplementsRequestReply`, `EveryRequestEnds` | hold |
| `device_flow` | Can handlers that do *not* overlap share a credential, when all statements succeed, or overturn a decision? | `SharedOnlyByOverlapOrFailure`, `DecisionsStand` | hold: they cannot |
| `headless` | Is every tab accounted for, is there one launch per world, who can exceed the limit, is every slot resolved unless the mutexes cross? | `TabsAreAccountedFor`, `OneLaunchPerWorld`, `OverLimitOnlyByOverlap`, `SlotIsResolvedUnlessCrossed` | hold |
| `headless_deadlock` | Is a slot always resolved, as the comment says? | `SlotIsResolved` | **violated** |
| `directory` | Do the instances agree on where a world is once the late writes are over, up to which crossings and failures, and is a world that stays reached? | `InstancesAgree`, `FlagFollowsPresence`, `SteadyIsReached` | hold |
| `interactive` | Does everyone learn of the end of a session, unless the message of it was dropped, and does a pending one go, unless a viewer holds the cleanup up? | `ViewersAreTold`, `NothingStreamsUnwatched`, `PendingIsSettled` | hold |
| `subscriptions` | Does the module learn the counts, are streams cut, is each subscriber served once? | `CountsReachTheModule`, `StreamsAreCut`, `SteadyAreServedOnce` | hold |
| `accounts` | Do decisions, logouts, rotations, counts, events, runs and saves keep what they promise, and up to which crossings? | `LogoutHolds`, `DecisionsOutlast`, `CacheIsCurrent`, `PanicButtonHolds`, `CallsAreAccounted`, `EventsApplyOnce`, `OperationsOverlapByCancel`, `WatchersMissNothing`, `SavesAreKept` | hold |
| `accounts_retry` | Is a webhook that failed handled by the retry, as the comment says? | `RetriesAreHandled` | **violated** |
| `tunnel` | Does an action only go where the owner allowed it, do edits stand, and is everything told, once? | `DebounceHolds`, `OwnersHearWhatTheyAsk`, `TunnelObeysTheOwner`, `ReachIsAsDecided`, `SeedsAreAccounted`, `EveryRequestIsCounted` | hold |

The properties are stated, each with the behaviour it is about, at the end of
the modules. Three more are stated there, and hold on the instances of the runs of
their modules: `NewWorldOnce` (`Directory`), `ListsHoldTheOpen` (`Subscriptions`),
`AlertsAreEarned` (`Notifications`). To check one, put it into the run's
configuration. `ResetsAreSingle` and `GuessesAreBounded` are proved.

Six configurations are kept beside the runs. Each checks one stronger statement, that a
comment or the documentation makes, and TLC shows the crossing that violates it:

| Configuration | Statement | The weaker property that holds |
|---|---|---|
| `MCClientRegistryCleanup` | `CleanupRemovesOnlyInactive` | `DisplacedIsClosed` |
| `MCRevocationTokens` | `RevokedIsClosed` | `RevokedIsClosedUnlessLost` |
| `MCDeviceFlowOnce` | `KeyReturnedOnce` | `SharedOnlyByOverlapOrFailure` |
| `MCDeviceFlowPairing` | `OneMarksUsed` | `SharedOnlyByOverlapOrFailure` |
| `MCInteractiveSessionsWriter` | `OneWriterPerSocket` | none: two goroutines may write one socket |
| `MCSubscriptionsOn` | `ListenedChannelIsOn` | `CountsReachTheModule` |

### Disagreements with the code's own words

The first two are findings of a run, the next six of the configurations above.

1. The sweep of stale sessions holds `HeadlessManager.mu` and takes
   `ClientManager.mu` in `GetClient`; the removal of a client holds the second
   and takes the first in `OnClientRemoved`. A world that disconnects while a
   launch sweeps can stop both for good, and with them everything that needs the
   registry. This takes two goroutines and one stored session.
2. "Return 500 so Stripe will retry" (`stripe.go:295`): the event is marked before
   its handler runs, so the retry finds the mark and is answered 200.
3. `CleanupInactiveClients` collects IDs of dead clients, unlocks, and removes
   by ID. A module that reconnects in between is taken out of the registry
   although it is alive: it keeps its socket and is unreachable until it
   reconnects by itself.
4. The reconciliation loop does not catch "anything the broadcast missed". It
   sees registered connections and the token recorded on them, and 3. and
   `SetClientConnectionTokenID` by ID make a connection escape either.
5. A poll and an exchange, or two polls, that overlap both return the key; and so does every
   poll after one whose UPDATE to "exchanged" failed (`key_request.go:139-143`).
6. `MarkUsed` has no condition: two concurrent pairings both succeed.
7. A frame for a viewer is written by the module's read pump straight to the
   connection, an answer by `clientWSState.send` under its mutex, a notice by the
   goroutine that removed the session: two writers on one socket, which
   `client_api.go:580` says the library answers with a panic.
8. A channel with a listener can stay disabled in the module: the counts of two
   subscribers are sent after the lock and may arrive in the other order.

Seen while reading, not stated as properties:

* Headless: `docs/md/configuration.md:140` describes the limit of sessions as one per
  instance, and the code counts those of one account, long before it stores the new
  one; `:141` speaks of inactivity, and nothing updates `LastActivity`; a session that
  the sweep drops stays in the Redis set `headless:global_sessions`; the comment at
  `headless.go:1329` says that the cleanup loop revokes the headless token, and
  nothing does (`SeedsAreAccounted` counts them). Seed tokens have no client id, so
  that deleting a known client leaves them.
* Directory: `ResetAllOnline` at a start without a reachable Redis marks the worlds
  of other instances offline; the refresh of a pong only extends an entry that is
  there, so a failed SET leaves a world without one until it reconnects. A world that is
  paired again while it is connected is shown as offline until its next connection, and a
  world whose pairing made its row is never told as new.
* Interactive: the cleanup loop, and the removal of a client (under `ClientManager.mu`, by
  `OnClientRemoved`), write to viewers' sockets without a deadline: a viewer that stops
  reading holds up the first for as long, and with the second the whole registry.
* Pairing: the reach that was approved with a code is written when the code is exchanged, up to
  five minutes later, over a decision made meanwhile, and may name a deleted world; a deleted
  world comes back with its old client ID.
* Accounts: `InvalidateCachedAuth` (`middleware/auth.go:93`) has no caller; an admin's
  rotation or deletion of a key clears no cache and ends no session or token; the
  "panic button" (`handler/auth.go:555`) does not end a login that is under way, nor any
  session when its DELETE fails, and an older `Update` may write the old hash back; a
  checkout writes a row that may be a minute old over a ban or a rotation; a cached key is
  admitted past its expiry and its monthly limit for up to a minute.
* Stripe: `statusPriority` (`stripe.go:26`) guards only updates of a subscription; the
  handlers of deletions and payments write unconditionally.
* Notifications: `EventRemoteRequest` is "always-on" by its comment
  (`notification_dispatcher.go:29`), and the account's toggle is asked; the debounce stores a time although nothing may be sent, and its `Load` and
  `Store` are two steps where the comment wants concurrent calls suppressed;
  `alerts.Track` is a window that restarts, not a sliding one; the batcher's
  `Shutdown` has no caller; a `PUT` of settings fills what is missing with defaults.
* Remote-requests: the comment on `rateBuckets` (`remote_request.go:36`) says token id,
  the caller passes the world's row.
* Test runner: the status "cancelled" is never set; the grace period after `SIGTERM` never
  happens, since `cancel()` has killed the process; `operationMutex` is released while
  children of a cancelled run still work; a save that cannot read `.env.test` replaces it.
* Cron: the lock of a daily or monthly reset is deleted when it is done, so an
  instance whose clock is behind resets again.

### Bounds, and why they are enough

* Registry: three connections of one host (the stale one, its replacement and the
  replacement's replacement), or two when two hosts take part, or a caller other than the
  cleanup removes by ID (`FewAtOnce`: a removal, and the connection it hits instead), one client
  ID on one instance (IDs and instances do not interact in this module), two keys, two
  tokens. Connections are symmetric; symmetry is used only where no liveness is checked.
* Revocation: two connections of one world on the first of two instances, one
  revocation: a second one only deletes what is already deleted, or is about another
  credential.
* Pending: pairs of callers (`OneGroup`): two HTTP callers that may share a
  millisecond, two WebSocket callers for one slot, two of different kinds; `MaxClock = 2`
  leaves time for a timer after each. A third caller adds no new relation between two.
* Credential flow: four handlers, one row of each kind: two approvers and two
  retrievers, or an approver, a code and two pairings.
* Headless: two auto-starts and one `LaunchSession` of one world, limit 1: a
  launch, one that joins or follows it, and one that competes for the limit and
  for the client. The deadlock needs two auto-starts.
* Directory: one world that connects to two instances from two hosts, in three loads: three
  times (an old connection, its replacement, one more whose late writes meet both) with one
  upset (a crash, a failed call or a write of another handler); twice with a request and an
  upset, where requests are forwarded and where not (`ForwardsIfAsked`); twice with two
  upsets, such as a SET and a later DEL that fail.
* Interactive: two sessions of one viewer where one is allowed, a module that connects
  twice, one input: a session of the connection before, and one refused. Two writes are under
  way at a time, and an answer to the viewer alone (`FewWrites`): it changes nothing else.
* Subscriptions: limit 2, three streams and two sockets on a lenient and a strict channel, in
  four loads: the module comes and goes; a full list under a fan-out; a filtered and a
  foreign stream; two sockets of different channels in the shared list.
* Accounts: fourteen loads. Any two handlers, the three that most often meet, logins
  around a rotation, three resets, two calls around what should end them, three calls around a
  flush and a reset, two deliveries with another handler, up to three logins and three tokens
  of the admin, two operations, two saves, a checkout beside a handler. Of two saves that
  meet, or that follow one which changed more than was asked, those that post one value and
  read the file (`FewOdd`). Threshold 2, monthly limit 1, a channel of
  two events, so that each limit is reached and passed.
* Tunnel: eight loads. Two requests against a limit of one, for a world that is
  elsewhere or off; one while settings are patched, approved or paired or worlds deleted; two
  handlers of any of these kinds, with a world that comes back; two
  notifications while their settings change; alerts with threshold 2, window and
  cool-down of one tick, four ticks.

`MaxClock`, `MaxRevocations`, `MaxConnects`, `MaxInputs`, `MaxFaults`, `MaxTime`,
`MaxTargets`, `MaxConns`, the constraints of the MC modules and the loads are bounds of the models; `Slots`, `MaxPerKey`,
`MaxSessions`, `Limit`, `Threshold`, `Buffer` are the code's own capacities, made small.

### Fairness

* Pending: weak fairness of the clock and of each caller's own next step. None
  of answers, of cancellation, of `CleanupStale`, so the liveness property says
  that the callers' own timers suffice.
* Revocation: weak fairness of the connection goroutines, the cleanup ticker and the loop;
  strong fairness of a disconnection by the loop, which says that the loop's database
  query does not fail for ever. None of dialing, authentication, socket failures,
  broadcasts and second halves.
* Headless: strong fairness of an auto-start's progress, since each step has a
  timeout of its own and both mutexes go to whoever keeps asking (Go's mutexes
  hand over to a waiter that has starved for a millisecond); of a direct launch
  only that its sweep, which holds the mutex, goes on; weak fairness of a removal
  in progress. None of worlds connecting, of failures, of sessions being ended.
* Interactive: weak fairness of time, of the cleanup's ticker and of its writes. A write to a
  viewer that has stopped reading is not enabled, so no fairness makes it return: the
  property says that a session goes *or the loop is held up by such a viewer*
  (`CleanupIsHeldUp`), which the code does not prevent. Neither the module nor the viewer
  has to move.
* The other modules state safety only: what must eventually happen in them is a
  goroutine that runs to its end.

## 4. Proofs

Each invariant is proved by an initial step, a step lemma with one case per
action (or, where many actions disturb nothing, by a lemma about what a step can do
to an entry, a slot, a row, a watcher, from which the invariants follow), and PTL.
All theorems are for any values of the constants that satisfy the modules' `ASSUME`s:
finiteness of the sets that are counted, naturals for the limits, and that the special
values (`None`, `NoConn`, ...) are not members of the sets they stand beside.

`ClientRegistryProofs`, for any connections, instances, IDs, keys, hosts, tokens:

* `TypeCorrect`, and `RegistryIsSound`: a registered connection was accepted, under its own
  client ID on its own instance, and has not removed itself (`RegistrySound`). It is the
  strengthening the others need: pointers in the map only name connections
  whose `req` agrees with the slot.
* `GroupsAreComplete`, and with one key per id `GroupsAreSound`, together `GroupsMatch`
  (`GroupsMatchClients`). The hard step is `AddEvicting`, which replaces the holder by one
  of possibly another key, and `Deregister`, which removes the ID from the group of the
  holder's key only.
* `DisplacedAreClosed`, `TokensAreTraced`, and the action property
  `RegistrationsEndByOwnerOrName`, which holds of the steps of all callers of `RemoveClient`.
* `StandingAreReached`, of `Revocation` (`RSpec`): a running connection that nobody is
  closing, and that no removal by client ID took out alive, is selected by every disconnect
  command that comes to its instance (by client ID, by key and, once its pumps run, by its
  own token) and is in the next snapshot of the reconciliation, which condemns it if its
  credentials are revoked; or a displaced connection of its client ID recorded its token
  on it (`RevocationReaches`). This is the safety under the liveness that TLC checks:
  whatever is left open is within reach. The inductive steps of the registry's invariants
  are lemmas about the kinds of step there are (`KindOfStep`, `RecordStep`), and
  `RevocationIsOfAKind` says that disconnecting, reconciling and removing by ID are steps
  of those kinds. The two small instances of `Revocation` satisfy the inductive invariant
  and the property.
* `GaugeIsRight` (`GaugeAccounts`), from `GaugeSound`: the property is a balance of four
  finite sets, and each action moves at most one connection between them, so one lemma
  per kind of move (`OneMore`, `OneLess`) carries it. What the property leaves open is that
  the sets are finite; that is part of the invariant.

`CallerProofs` is about what callers wait for, answers and events. Of `PendingRequests`,
for any callers of the three kinds, any capacity of the semaphore and any bound of the
clock:

* `TypeAndSlots`, `SlotsNeverLeak`: type correctness needs that the semaphore
  counts the waiting goroutines, since its release subtracts one.
* `TableIsSound`, the inductive invariant `Sound`: an entry is that of a caller
  of that id that has not ended; an answer on its way, in a channel or in a
  verdict belongs to a request of the same id; and a caller for which a response
  exists has left the table. The last part is what makes the first inductive:
  `Receive` ends without deleting, and is right to, because whoever sent has
  taken the entry out before.
* `NoMixUp`, `TableIsLeftClean`, `NobodyIsForgotten`, `TableIsFaithful`.
* `PromiseIsKept`: `Spec => ImplementsRequestReply`, the refinement: one abstract
  step, or a stutter, per action.

Of `Subscriptions`, for any streams, sockets, channels, filters, limit and loads:

* `ListsAreTheOpen`, `ListsHold`. The lemmas `AppendedShape`, `ShiftedShape` and
  `WithoutShape` say what `append` and the in-place removal do to a slice (its cells beyond
  the length included); from them `ListSound`: a list holds its open subscriptions once
  each, and *every* cell of its array, used or left over, is of that list. The leftover
  cells matter because a walk may still read them.
* `CutsReach` (`StreamsAreCut`), from `CutSound`: a handler past `RegisterSSECancel` is
  registered or cancelled, and once the world is offline and closed, whatever is still
  registered, or about to be, came too late.
* `CountsAreRight` (`CountsReachTheModule`), from `CountSound`: while a channel is not in
  doubt, every count on its way is the present one; and with none on its way the module
  has it, or has been told nothing and a connection is still to read. Entries and exits of
  another channel do not change the count, though they may shift the shared list of
  socket subscriptions (`OthersStay`, a bijection of indices).
* `EventsAreServedOnce` (`SteadyAreServedOnce`), from `WalkInv`: the walk's array, shared or
  detached by a reallocation, keeps the walked cells distinct and in place unless somebody
  left that list (`WalkSound`); who is still to be visited has nothing, who was served has
  one copy (`ServedSound`); and whoever was there from the start has one or is to be
  visited (`SteadySound`). It says so of one fan-out at a time, which is what the read pump
  does.

`HeadlessProofs`, for any launches, worlds, accounts and limit: `TypeCorrect`;
`SlotsAreSound`, the inductive invariant of the launch queue (an auto-start that has not
resolved owns its slot; a slot has such an owner; who joined waits for one), and from
it `LaunchesAreExclusive` and `NobodyIsStranded`; `NoTabIsLeaked`. The session limit,
`OnlyOverlapExceedsTheLimit` (`OverLimitOnlyByOverlap`), from `LimitSound`. The
property speaks of the sessions there are; the invariant of *every* set of an account's
sessions in which any two took turns (`TurnsFit`), since a set of launches that overlapped
becomes one that took turns when a session ends. Whoever has passed its count found
fewer than the limit among those it saw (`PassedBelow`), and only sees launches that
have stored (`CountsAreLate`).

`DirectoryProofs`, for any instances, worlds, connections and requests, with the types
(`Consistent`) as the ground:

* `AllInstancesAgree` (`InstancesAgree`), from `RouteOK`: a world whose Redis calls did not
  cross is on one instance; its entry names that instance, or an addition is about to write
  it, or a SET or its refreshes failed (`unnamed`); and without a host there is no entry, or
  a removal is about to delete it, or a crash or a failed DEL left it (`stale`). A crash is treated by its effects on one world (`CrashEffects`).
* `TheFlagIsRight` (`FlagFollowsPresence`) and `NewWorldsAreToldOnce`, from `FlagOK`: the
  goroutines of a world that were not mixed follow one another, and the last of them whose
  write succeeded decides the flag, unless another writer came since (`wrong`).
* `SteadyRequestsArrive` (`SteadyIsReached`), from `RequestOK`: the world of a steady request
  stays where it is, and the request is there after one hop.

`TunnelProofs`, for any requests, worlds, tokens, handlers, notices and settings:

* `ReachStands` (`ReachIsAsDecided`), from `ReachSound`. `Settled`: a row says what was
  decided last, but for references to deleted worlds that are being cleaned up and for worlds
  that are `torn`, among them those that an older code is exchanged for;
  `HoldsTrue`: what a handler has read of a row still stands when it writes it, unless
  another handler wrote; `EditSound`: which rows a handler holds.
* `OwnerIsObeyed` (`TunnelObeysTheOwner`), from `Obeys`: a request past its permission check
  is one the owner allowed, and one past the second look had its token then.
* `SeedsBalance` (`SeedsAreAccounted`): the balance is inductive with the types of the launches
  (`SeedsSound`).
* `WindowsHold` and `OwnersHear` (`DebounceHolds`, `OwnersHearWhatTheyAsk`), from
  `HearingSound`: `WindowSound` takes in the notices that have looked and not recorded;
  `OpenedByHeard` says who opened a window, `ReadsFresh` and `SendsAsked` what a notice
  still knows of the settings it read. The attempt found the history too weak: with
  three notices of one topic, one that had looked could record an old setting after the
  window ended, in twelve steps that the run's two notices do not reach. `resettled` now keeps a
  topic while a notice is between look and record.
* `RequestsAreCounted` (`EveryRequestIsCounted`), from `CountsSound`: the requests that
  ended with a known user are as many as there are in the batches, in the notices under
  way, in what was sent and in what was not asked for. Each step moves its amount from one
  of these to another: one more in a batch, a whole batch into a notice, a notice to an
  account or into silence. That needs the sums over the batches and the notices: `SumOver`
  is a fold, and its lemmas (`SumTakes`, `SumChanges`, `SumGrows`, ...) come by induction
  over the subsets of a finite set (`SubsetInduction`: were there one outside the set in
  question, there would be a smallest).
* `AlertsFireWhenEarned` (`AlertsAreEarned`), from `AlertsSound`: the tracker counts
  no call from before its window (`Seen`, a sum over the ticks), and what fired, fired no
  later than the time it remembers.

`DeviceFlowProofs`, for any handlers and rows: `TypeCorrect`, `LatecomersGetNothing`
(`SharedOnlyByOverlapOrFailure`) and the action property `DecisionsAreFinal`, from
`FlowSound`: what a handler is about from the moment it fetched (`Begun`), that whoever
pairs found the code unused and a claim spends it (`Paired`), and that a credential
that was paid out and marked is in no approved row again (`Retrieved`), although every UPDATE
is unconditional: a handler that approves writes a credential of its own.

`InteractiveSessionsProofs`, for any sessions, viewers and limits: `TypeCorrect` with
the limit per key, `EveryEndIsAnnounced` (`ViewersAreTold`), `StreamsAreWatched`
(`NothingStreamsUnwatched`). The strengthening is an order of events that no handler
enforces: the module can only speak of a session whose start message it got, which is
the last thing the start handler does, and a viewer cannot end one or hang up before
that handler is over (`StartsSound`, `StreamsSound`). Ends that could not be passed on are
`unheard`.

`DashboardProofs` begins with lemmas about the admin's browser and lock. Of `Billing`, and
so of the two modules below it:

* `EventsAreOnce` (`EventsTraced`: an event that is or was handled is marked, or its
  mark was dropped, and two jobs share one only then), `CallsAreCounted` (inductive with
  the types);
* `DecisionsStand` (`HeldRowsAgree`: a job, a cache entry and a call that was let in hold, in
  every column that is not torn, what was decided last), `RotationEndsSessions` (`VoidSound`), `ResetsAreOnce`
  (`ResetSound`);
* `CacheStaysCurrent` (`CacheSound`): an entry, or a call that is about to fill one,
  agrees with the tables, or its key is excused, or some job is still to clear the
  cache. The calls that have passed their checks have to be in the invariant:
  they fill the cache after it was cleared.
* `LogoutIsFinal`, `GuessesStop`, `TypeCorrect`.

It carries these over to `DashboardSpec` of `AdminRuns` (`AccountsHold`) and adds
`OperationsAreSingle` (`RunSound`: how the lock, the process and its ending go
together), `SavesStay` (`SavesSound`: until two saves met, the temporary file is that
of the one under way, and the file parses to what was asked but for the settings in `odd`) and `StreamsAreWhole` (`WatchersSound`: what a browser got, then
what is in its channel, is a run of numbers that ends at the log's end, or the stream is
closed and the run final).

Only model-checked: liveness under fairness (`EveryConnectionEnds`,
`RevokedIsClosedUnlessLost`, `EveryRequestEnds`, `SlotIsResolvedUnlessCrossed`,
`PendingIsSettled`), which is out of the prover's reach, as is ENABLED, and stays with TLC.
Every invariant and every action property that a run checks is a theorem too. The proofs
do not lean on the machine: each leaf was proved within a fifth of the prover's default
time.

## 5. Not modelled, and what remains

* Rate limits per address: a counter per address and window under one mutex, one critical
  section that nothing else reads.
* Schema, migrations and SQL text: each module models the rows and statements that it
  needs. The declarative REST routes are instances of the pending helper, which is
  modelled. The dashboard's listings keep no state. The documentation generator
  (`cmd/docgen`) is a tool of the build.
* Headless: what Chrome does in a page, the restart of the shared browser, `Shutdown`.
  They are external, or stop everything at once.
* Notifications and alerts: the sending itself (Discord, SMTP), the table of alert
  configurations.
* A regenerated key's successor (no connection could carry it before the call), which
  client ID a pairing reuses.

What would come next: as a module, one socket's writers, send buffer and ping loop; as a
refinement, the batcher and dispatcher of `Notifications` against a queue that tells each
event once.
