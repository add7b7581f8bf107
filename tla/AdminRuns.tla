------------------------------ MODULE AdminRuns ------------------------------
(***************************************************************************)
(* What an admin who is inside RequireAdmin runs from the dashboard: one   *)
(* test suite or documentation build at a time, its output as server-sent  *)
(* events that a browser may resume, and the edits of .env.test            *)
(* (handler/admin_testrunner.go).                                          *)
(*                                                                         *)
(* A line of output has no content, and stdout and stderr are one: what is *)
(* told apart is where a line is: in the pipe, scanned by a pump, in the   *)
(* run's log, in a subscriber's channel.  A child of pnpm may outlive it.  *)
(***************************************************************************)
EXTENDS Billing, Sequences

CONSTANTS
    Runs,     \* operations, numbered as they are registered
    Watchers, \* EventSources, each on one run
    Buffer,   \* what a subscriber's channel holds (2048)
    Savers,   \* POSTs of /env
    Versions  \* Foundry versions that .env.test has settings for

ASSUME RunsAssumption ==
    /\ Runs \subseteq Nat /\ None \notin Runs /\ IsFiniteSet(Runs)
    /\ Buffer \in Nat \ {0} /\ IsFiniteSet(Versions) /\ Versions # {}
    /\ "TEST_FOUNDRY_VERSIONS" \notin Versions

VARIABLES
    operation, \* operationMutex: the run it is locked for, or None
    run,       \* the registry of runs, with their processes
    watcher,   \* streams, as the browser and the handler see them
    envFile,   \* .env.test
    envTmp,    \* .env.test.tmp, or NoFile
    saver,     \* POSTs of /env under way
    asked,     \* history: what the saves that succeeded asked for
    odd,       \* history: settings that a save changed and was not asked to
    met        \* history: two saves were under way at once

runVars == <<operation, run, watcher>>
envVars == <<envFile, envTmp, saver, asked, odd, met>>
dashboardVars == <<vars, runVars, envVars>>

\* ending: how far the goroutine behind command.Wait has come.
NewRun == [status |-> "none", process |-> "none", children |-> FALSE, ok |-> TRUE,
           cancelled |-> FALSE, ending |-> "no", printed |-> 0, unread |-> 0, scanned |-> 0,
           log |-> <<>>, final |-> 0]
\* last: the Last-Event-ID the browser would send, -1 for none.
NewWatcher == [at |-> "off", run |-> None, channel |-> <<>>, closed |-> FALSE,
               id |-> 0, last |-> -1, got |-> <<>>, told |-> FALSE, dropped |-> FALSE]
Absent == "absent"
NoFile == [listed |-> {}, urls |-> [v \in Versions |-> "no file"]]
NoSaver == [at |-> "new", content |-> NoFile, wants |-> NoFile, odd |-> {}]

RunInit ==
    /\ operation = None
    /\ run = [r \in Runs |-> NewRun]
    /\ watcher = [s \in Watchers |-> NewWatcher]
    /\ envFile = [listed |-> {}, urls |-> [v \in Versions |-> Absent]]
    /\ envTmp = NoFile
    /\ saver = [p \in Savers |-> NoSaver]
    /\ asked = [listed |-> {}, urls |-> [v \in Versions |-> ""]]
    /\ odd = {} /\ met = FALSE

----------------------------------------------------------------------------
(* The log of a run and its subscribers.                                   *)

\* Channels that the run still sends to: those of browsers that have gone too,
\* which nobody reads and which need no state.
Subscribed(s, r) == watcher[s].at = "open" /\ watcher[s].run = r /\ ~watcher[s].closed

\* appendEvent: each subscriber gets the event, unless its channel is full.
Sent(s, r) ==
    IF ~Subscribed(s, r) THEN watcher[s]
    ELSE IF Len(watcher[s].channel) < Buffer
         THEN [watcher[s] EXCEPT !.channel = Append(@, Len(run[r].log) + 1)]
         ELSE [watcher[s] EXCEPT !.dropped = TRUE]

\* The run as it becomes, with one more event.
AppendEvent(r, event, becomes) ==
    /\ run' = [run EXCEPT ![r] = [becomes EXCEPT !.log = Append(@, event)]]
    /\ watcher' = [s \in Watchers |-> Sent(s, r)]

Finalize(r, status, becomes) ==
    /\ run' = [run EXCEPT ![r] =
                [becomes EXCEPT !.status = status, !.final = Len(becomes.log), !.ending = "final"]]
    /\ watcher' = [s \in Watchers |->
                    IF Subscribed(s, r) THEN [watcher[s] EXCEPT !.closed = TRUE] ELSE watcher[s]]

Becomes(r, becomes) == run' = [run EXCEPT ![r] = becomes] /\ UNCHANGED <<operation, watcher>>

----------------------------------------------------------------------------
(* Operations.                                                             *)

\* POST /run and /docs/run: TryLock, and launchProcess registers the run before
\* it starts the process.
Register(r) ==
    /\ passing # {} /\ operation = None
    /\ r <= load.runs /\ First(r, {q \in Runs : run[q].status = "none"})
    /\ operation' = r
    /\ run' = [run EXCEPT ![r].status = "running"]
    /\ UNCHANGED watcher

Starting(r) == run[r].status = "running" /\ run[r].process = "none" /\ run[r].log = <<>>

Started(r) ==
    /\ Starting(r) /\ ~run[r].cancelled
    /\ Becomes(r, [run[r] EXCEPT !.process = "alive", !.children = TRUE])

\* Start fails, always so once the context was cancelled; the handler unlocks
\* after launchProcess has finalized the run.
StartFails(r) ==
    /\ Starting(r)
    /\ AppendEvent(r, "error", run[r])
    /\ UNCHANGED operation
StartFailed(r) ==
    /\ run[r].status = "running" /\ run[r].process = "none" /\ run[r].log # <<>>
    /\ Finalize(r, "failed", run[r])
    /\ UNCHANGED operation

Prints(r) ==
    /\ run[r].process = "alive" /\ run[r].printed < load.lines
    /\ Becomes(r, [run[r] EXCEPT !.printed = @ + 1, !.unread = @ + 1])

\* pumpReader: the scanner reads ahead, the events follow one by one.
Scan(r) ==
    /\ run[r].unread > 0
    /\ Becomes(r, [run[r] EXCEPT !.unread = 0, !.scanned = @ + run[r].unread])
Pump(r) ==
    /\ run[r].scanned > 0
    /\ AppendEvent(r, "line", [run[r] EXCEPT !.scanned = @ - 1])
    /\ UNCHANGED operation

Exits(r) ==
    /\ run[r].process = "alive"
    /\ \E ok \in BOOLEAN :
        Becomes(r, [run[r] EXCEPT !.process = "gone", !.children = FALSE, !.ok = ok])

\* POST /run/{id}/cancel: the context's cancellation kills pnpm, which may have
\* no time to end what it started; the status is read without the lock.
Cancel(r) ==
    /\ passing # {}
    /\ run[r].status = "running" /\ ~run[r].cancelled
    /\ Becomes(r, [run[r] EXCEPT !.cancelled = TRUE])
Killed(r) ==
    /\ run[r].process = "alive" /\ run[r].cancelled
    /\ \E left \in BOOLEAN :
        Becomes(r, [run[r] EXCEPT !.process = "gone", !.children = left, !.ok = FALSE])
ChildrenEnd(r) ==
    /\ run[r].process = "gone" /\ run[r].children
    /\ Becomes(r, [run[r] EXCEPT !.children = FALSE])

\* command.Wait closes the pipes, read or not; then the events of the end, among
\* which the pumps may still append what they had scanned.
Wait(r) ==
    /\ run[r].process = "gone" /\ run[r].ending = "no"
    /\ Becomes(r, [run[r] EXCEPT !.unread = 0, !.ending = IF run[r].ok THEN "told" ELSE "waited"])
TellError(r) ==
    /\ run[r].ending = "waited"
    /\ AppendEvent(r, "error", [run[r] EXCEPT !.ending = "told"])
    /\ UNCHANGED operation
TellComplete(r) ==
    /\ run[r].ending = "told"
    /\ AppendEvent(r, "complete", [run[r] EXCEPT !.ending = "complete"])
    /\ UNCHANGED operation
Finish(r) ==
    /\ run[r].ending = "complete"
    /\ Finalize(r, IF run[r].ok THEN "completed" ELSE "failed", run[r])
    /\ UNCHANGED operation

\* Mutant: the handler unlocks when it returns.
FinishedOnceStarted(r) == run[r].process # "none"
\* waitForRunComplete
Finished(r) == run[r].status # "running"

Unlock(r) ==
    /\ operation = r /\ Finished(r)
    /\ operation' = None
    /\ UNCHANGED <<run, watcher>>

----------------------------------------------------------------------------
(* Streams.                                                                *)

\* Mutant: the browser gets its last event again.
StartFromLast(s) == IF watcher[s].last >= 0 THEN watcher[s].last ELSE 0
\* Last-Event-ID, plus one.
StartFrom(s) == watcher[s].last + 1

\* SnapshotAndSubscribe, at once; the channel of a finished run is closed from
\* the start.
Subscribe(s, r) ==
    [watcher[s] EXCEPT !.at = "open", !.run = r, !.channel = <<>>,
                       !.closed = run[r].status # "running", !.id = Len(run[r].log)]

\* GET /run/{id}/stream: the events of the snapshot from StartFrom on.  Event i
\* of the log (from 0) is number i + 1 here, and its id is i.
Stream(s, r) ==
    /\ passing # {} /\ run[r].status # "none"
    /\ watcher[s].at = "off" /\ watcher[s].run \in {None, r}
    /\ LET sent == [i \in 1 .. (Len(run[r].log) - StartFrom(s)) |-> StartFrom(s) + i] IN
        watcher' = [watcher EXCEPT ![s] =
            IF sent = <<>> THEN Subscribe(s, r)
            ELSE [Subscribe(s, r) EXCEPT !.got = @ \o sent, !.last = Len(run[r].log) - 1]]
    /\ UNCHANGED <<operation, run>>

\* The ids count what was taken from the channel.
WriteEvent(s) ==
    /\ watcher[s].at = "open" /\ watcher[s].channel # <<>>
    /\ LET w == watcher[s] IN
        watcher' = [watcher EXCEPT ![s] =
            [w EXCEPT !.channel = Tail(w.channel), !.got = Append(w.got, Head(w.channel)),
                      !.last = w.id, !.id = w.id + 1]]
    /\ UNCHANGED <<operation, run>>

\* The channel is closed and drained: the response ends.
StreamEnds(s) ==
    /\ watcher[s].at = "open" /\ watcher[s].closed /\ watcher[s].channel = <<>>
    /\ watcher' = [watcher EXCEPT ![s].at = "off", ![s].told = TRUE]
    /\ UNCHANGED <<operation, run>>

\* The connection is lost; the EventSource will try again.
Disconnect(s) ==
    /\ watcher[s].at = "open" /\ ~(watcher[s].closed /\ watcher[s].channel = <<>>)
    /\ watcher' = [watcher EXCEPT ![s].at = "off", ![s].channel = <<>>]
    /\ UNCHANGED <<operation, run>>

----------------------------------------------------------------------------
(* .env.test: a setting for each version, and TEST_FOUNDRY_VERSIONS, which  *)
(* every POST names.                                                       *)

\* What is posted and written, as it is: nothing, a value, the value in quotes or
\* between spaces, the value and a second line.
Texts == {"", "a", "quoted", "split"}
\* parseDotEnv: one line is read, without the spaces and the quotes.
Parsed(text) == IF text = "" THEN "" ELSE "a"
Listing == "TEST_FOUNDRY_VERSIONS"

\* A key without a line is appended only with a value.
Line(old, new) == IF old = Absent /\ new = "" THEN Absent ELSE new

\* Mutant: the file is written with the posted keys only.
MergedAlone(file, listed, given) ==
    [listed |-> listed,
     urls |-> [v \in Versions |-> IF v \in DOMAIN given THEN given[v] ELSE Absent]]
\* writeDotEnvKeys: the keys of the listed versions are on the whitelist
\* (expandedEnvKeys); those that were posted are written, the other lines stay.
Merged(file, listed, given) ==
    [listed |-> listed,
     urls |-> [v \in Versions |-> IF v \in DOMAIN given THEN Line(file.urls[v], given[v])
                                 ELSE file.urls[v]]]

\* The second line of a posted text is a line of the file, of any key.
Spilled(file, spill) ==
    [listed |-> IF Listing \in spill THEN {} ELSE file.listed,
     urls |-> [v \in Versions |-> IF v \in spill THEN "a" ELSE file.urls[v]]]

\* versionsInFile
Referenced(file) == {v \in Versions : file.urls[v] # Absent}

\* GET /env: the settings of the listed versions and of those the file refers to.
Shown(file) ==
    [v \in file.listed \cup Referenced(file) |->
        IF file.urls[v] = Absent THEN "" ELSE Parsed(file.urls[v])]

Saving == {p \in Savers : saver[p].at \in {"read", "written"}}

\* POST /env: the file is read, if it can be (it counts as empty if not), and
\* merged with what was posted, ...
ReadEnv(p, listed, given, blind, spill) ==
    /\ passing # {} /\ saver[p].at = "new" /\ Cardinality({q \in Savers : saver[q].at # "new"}) < load.saves
    /\ spill # {} => \E v \in DOMAIN given : given[v] = "split"
    /\ LET file == IF blind THEN [listed |-> {}, urls |-> [v \in Versions |-> Absent]] ELSE envFile
           wants == [listed |-> listed,
                     urls |-> [v \in Versions |-> IF v \in DOMAIN given THEN given[v] ELSE Absent]]
       IN saver' = [saver EXCEPT ![p] =
            [at |-> "read", content |-> Spilled(Merged(file, listed, given), spill), wants |-> wants,
             odd |-> spill \cup IF blind THEN Versions \ DOMAIN given ELSE {}]]
    /\ met' = (met \/ Saving # {})
    /\ UNCHANGED <<envFile, envTmp, asked, odd>>

\* ... written to the one temporary file, or not, ...
WriteTmp(p) ==
    /\ saver[p].at = "read"
    /\ \/ /\ saver' = [saver EXCEPT ![p].at = "written"]
          /\ envTmp' = saver[p].content
       \/ /\ saver' = [saver EXCEPT ![p] = [NoSaver EXCEPT !.at = "refused"]]
          /\ UNCHANGED envTmp
    /\ UNCHANGED <<envFile, asked, odd, met>>

\* ... and whatever is in that file is renamed: another save's content, or
\* nothing when another save has renamed it already.
Rename(p) ==
    /\ saver[p].at = "written"
    /\ \/ /\ envTmp # NoFile
          /\ envFile' = envTmp /\ envTmp' = NoFile
          /\ saver' = [saver EXCEPT ![p] = [NoSaver EXCEPT !.at = "saved"]]
          /\ asked' = [listed |-> saver[p].wants.listed,
                       urls |-> [v \in Versions |-> IF saver[p].wants.urls[v] = Absent
                                                    THEN asked.urls[v] ELSE saver[p].wants.urls[v]]]
          /\ odd' = {v \in odd \ {Listing} : saver[p].wants.urls[v] = Absent} \cup saver[p].odd
       \/ /\ envTmp = NoFile
          /\ saver' = [saver EXCEPT ![p] = [NoSaver EXCEPT !.at = "failed"]]
          /\ UNCHANGED <<envFile, envTmp, asked, odd>>
    /\ UNCHANGED met

----------------------------------------------------------------------------

RunStep ==
    \/ \E r \in Runs :
        \/ Register(r) \/ Started(r) \/ StartFails(r) \/ StartFailed(r) \/ Unlock(r)
        \/ Prints(r) \/ Scan(r) \/ Pump(r) \/ Exits(r)
        \/ Cancel(r) \/ Killed(r) \/ ChildrenEnd(r)
        \/ Wait(r) \/ TellError(r) \/ TellComplete(r) \/ Finish(r)
        \/ \E s \in Watchers : Stream(s, r)
    \/ \E s \in Watchers : WriteEvent(s) \/ StreamEnds(s) \/ Disconnect(s)

EnvStep ==
    \E p \in Savers :
        \/ \E listed \in SUBSET Versions :
            \E posted \in SUBSET listed, blind \in BOOLEAN, spill \in SUBSET (Versions \cup {Listing}) :
                \E given \in [posted -> Texts] : ReadEnv(p, listed, given, blind, spill)
        \/ WriteTmp(p) \/ Rename(p)

DashboardInit == Init /\ RunInit

DashboardNext ==
    \/ Next /\ UNCHANGED <<runVars, envVars>>
    \/ RunStep /\ UNCHANGED <<vars, envVars>>
    \/ EnvStep /\ UNCHANGED <<vars, runVars>>

DashboardSpec == DashboardInit /\ [][DashboardNext]_dashboardVars

----------------------------------------------------------------------------

Working(r) == run[r].process = "alive" \/ run[r].children

\* operationMutex "ensures only one operation runs at a time": two are at work
\* only when one of them was cancelled and its children outlived pnpm.
OperationsOverlapByCancel ==
    \A r, q \in Runs : r # q /\ Working(r) /\ Working(q) =>
        \E c \in {r, q} : run[c].cancelled /\ run[c].process = "gone"

\* A browser whose channel never overflowed has the events of the log from the
\* first on, each once and in order, however often its connection broke; when
\* its stream has ended it has all that were there when the run was finalized.
WatchersMissNothing ==
    \A s \in Watchers : ~watcher[s].dropped =>
        /\ \A i \in 1 .. Len(watcher[s].got) : watcher[s].got[i] = i
        /\ watcher[s].told => Len(watcher[s].got) >= run[watcher[s].run].final

\* What was saved is shown, as one line without its spaces and quotes, until it is
\* saved anew, and no save finds its temporary file gone: until two saves are under
\* way at once (they share that file), and except for settings that a save which
\* could not read the file dropped, or that the second line of a posted text set.
SavesAreKept ==
    ~met =>
        /\ envFile.listed = asked.listed \/ Listing \in odd
        /\ \A v \in Versions \ odd :
            Parsed(asked.urls[v]) = IF v \in DOMAIN Shown(envFile) THEN Shown(envFile)[v] ELSE ""
        /\ \A p \in Savers : saver[p].at # "failed"
=============================================================================
