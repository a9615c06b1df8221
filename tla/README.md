# DuckRun in TLA+

TLA+ modules of DuckRun, a job scheduler for .NET with an optional cluster
mode over Redis and a central Control Dashboard; TLC configurations that check
them on small instances; proofs, checked by TLAPS, of their main properties for
every value of the constants. Source paths are relative to `src/`; short names
such as `JobExecutor.cs` are unique up to the two hosts, `NuGet - DuckRun.Core`
(modern .NET, "Core") and `NuGet - DuckRun.Framework` (classic ASP.NET).

    tlc -workers 2 -config MC_JobSlots_cluster.cfg MC_JobSlots.tla
    tlapm JobSlots_proofs.tla

`PROJECT.json` lists the components, the runs, the mutants that each property
is known to reject, the source lines of every definition, the hazards, the
findings and the theorems.

## 1. The system

| Component | State | Operations | Talks to |
|---|---|---|---|
| Job discovery, configuration | immutable after start | `JobScanner`, builders | every other part reads it |
| Scheduler (`DuckRunSchedulerService`, `SchedulerLoop`) | table of next runs, whether it led in the last round | one loop: lead?, due jobs, slot, `Task.Run` of the run | coordinator, slot gate, executor |
| Slot gate and trackers (`JobSlotGate`, `ConcurrencyTracker`, `JobSlot`) | a counter per job and process | acquire, release | coordinator |
| Coordinator (`RedisClusterCoordinator`, `LocalClusterCoordinator`) | `_isLeader`; in Redis: leader key with a TTL, a sorted set of slots per job, a heartbeat key per node | maintenance tick, three Lua scripts, release on stop | Redis |
| Executor (`JobExecutor`) | `_live`: a token source per run in progress; the `JobRun` object | create, continue, cancel | store, console store, reporter |
| Controller (`DuckRunController`) | none | trigger, cancel | gate, executor |
| Run store (memory, EF Core, EF6) | the run records | add, update, queries; replay of interrupted runs on boot | database |
| Console store (memory, EF Core, EF6) | buckets of lines and their order; or a channel and a batch | append, flush loop | database |
| Reporter (`GrpcDashboardReporter`) | two channels, handshake flag | enqueue, two flush loops, handshake and heartbeat loops | ingest service over gRPC |
| Hosts (`DuckRunServiceCollectionExtensions`, `DuckRunInstance`) | the application's and the scheduler's tokens | start, stop in an order | scheduler, coordinator, reporter, bootstrap |
| Ingest service (`IngestServiceImpl`, `ApiKeyAuthInterceptor`) | rows of runs, log lines, nodes, job definitions; API keys | handshake, heartbeat, runs, logs | dashboard database |
| Groups and projects (`GroupEndpoints`, `ProjectEndpoints`) | a tree kept as parent ids with redundant paths and depths | create, rename, move, delete | dashboard database |
| Embedded dashboard (`duckrun.js`, `DashboardEndpoints`) | in the page: selected job and run, rows, console, what is drawn | two timers, select, trigger, cancel | run store, console store, controller |
| Web frontend of the Control Dashboard (`ControlDashboard-Frontend`) | a cache of answers by key, mutations under way, the location, the open edit form | 11 pages, 15 queries, 12 mutations, gate | the dashboard's HTTP endpoints |
| Authentication (`AuthEndpoints`) | a cookie | login, logout, me | frontend |
| Indicators, live updates (`KpiEndpoints`, `ControlHub`) | none of their own | reading | frontend |

What is hard about each of them, and what makes it correct:

* **Slots.** Any number of callers race on a counter without a lock; a second
  permit comes from a script whose call can be late, lost or answered after the
  caller gave up; entries expire by the clocks of different machines. Permits
  must be conserved on every path, and the cluster must stay below the limit.
* **Lead.** Who leads is a cached answer about a key with a time to live. Ticks
  take time, throw, are cut off by a stop. At most one node may fire crons, the
  key must never be taken from a live holder, and somebody must lead again.
* **Runs.** A run is cancelled, times out, fails in its constructor, in its
  arguments or in the job, while saves fail before or after their commit, the
  host stops or dies. Slots must come back, an outcome must stay what it was
  saved as, a finished record must say how the run ended, the dashboard must not
  be ahead of the store, and a restart must close what was interrupted and
  nothing else.
* **Console lines.** Threads race to make a bucket while another one evicts;
  a flush fails although it may have committed. No bucket may leak, no line may
  be stored twice or out of order, the loop must survive its failures.
* **Reporting.** A call that the client gave up still runs on the dashboard and
  is overtaken by the next one. A finished run must stay finished, lines must
  appear once, the final record must arrive.
* **Groups.** Each change of name or parent rewrites a subtree that is selected
  by a path prefix. Paths and depths must agree with the parents, and a group
  must never come to be below itself.

* **Embedded page.** Timers and clicks start overlapping requests, their answers
  come in any order, and each is drawn into a state that has moved on. What is
  shown must not go back, must belong together, and must become true at rest.
* **Frontend.** Which of its data a page refetches is decided by keys that the
  mutations' hooks and the queries' hooks must agree on, while answers, polls,
  invalidations, redirects and an expiring session race. The user's own writes
  must show, polled pages must catch up, the gate must decide, signing out must
  leave nothing behind, a form must stay with what it was opened for.

## 2. The modules

| Module | Of | Content |
|---|---|---|
| `Permits` | - | abstract: pools of `Capacity` permits, taken and given back |
| `JobSlots` | slots | `ConcurrencyTracker`, `JobSlotGate`, `JobSlot`, `RedisSlot`, the `AcquireSlot` script, Redis on the wire, clocks, crashes; refines `Permits` twice |
| `LeaderLease` | lead | `RedisClusterCoordinator`, its two leader scripts, the scheduler as far as it follows the lead, both hosts' stop orders |
| `RunLifecycle` | runs | both executors, both controllers, the task around a run, the stores, the host and the replay on boot |
| `Reporting` | reporting | `GrpcDashboardReporter`'s channels and flush loops, `SendRuns`, `SendLogs`, the API key |
| `NodeStatus` | reporting | `GrpcDashboardReporter`'s handshake and heartbeat loops, `Handshake`, `SendHeartbeat`, the rows of nodes and job definitions |
| `ConsoleStores` | console | `InMemoryConsoleStore` and `EfCoreConsoleStore`/`Ef6ConsoleStore` |
| `Forest` | - | abstract: a forest of nodes whose subtrees move whole |
| `GroupTree` | groups | the group and project endpoints over the dashboard's context; refines `Forest` |
| `EmbeddedDashboard` | embedded page | `duckrun.js` step by step between its awaits, and what `DashboardEndpoints` answer |
| `Hooks` | frontend | `api/hooks.ts`: the queries by their keys, what each mutation invalidates, and what its endpoint changes |
| `Pages` | frontend | the routes; what each page reads, links to and lets the user do |
| `ControlFrontend` | frontend | the cache, renderings, gate, session and mutations around `Pages` |
| `MC_*` | - | model values, symmetry and the homes of attempts or runs for TLC |
| `*_proofs` | - | theorems about the module of that name; `Cluster_proofs` about `LeaderLease` and `NodeStatus` |

The components meet in few places, and each module keeps its neighbour as the
smallest thing that matters: `RunLifecycle` has a slot as a member of a set,
whose handing out is `JobSlots`; `LeaderLease` knows of the scheduler that it
runs, fails (an exception out of the gate) or is off; `Reporting` takes the
sequence of states that `RunLifecycle` shows a run can report.

### JobSlots

`phase[a]` is the position of the call `a` in `TryAcquireAsync`
(`ConcurrencyTracker.cs:10-18`: `ReadCount`, `CompareExchange`; without Redis the
call is then admitted, otherwise `NoDatabase`, or `SendAcquire` and one of
`Granted`, `RefusedRemotely`, `AcquireThrows`; then `Dispose`, whose remove is a
message of its own). `count[n]` is the tracker's `_active`,
`members` the sorted set of Redis with the scores in `expires`,
`acquires` and `removes` the scripts and commands on their way, so that Redis
may run them at any later time, after the caller's timeout as well. `clock` and
the constants `Skew` stand for the machines' clocks. A limit of 0 is read
as "no limit" by the tracker (`Cap` is `IntMax`) and as 0 by the script.

### LeaderLease

A tick is `BeginTick`, `SendRefresh` (the heartbeat was written), `EvalRefresh`
at Redis, `TickEnds` or `TickThrows`. Time is relative: `left` is the key's time
to live, `age[n]` the time since the tick began or since the last one ended, so
the model needs no bound on the length of a behaviour. `GenericHost` has the
processes under the generic host of Core, which stops hosted services in reverse
order; the others are under `DuckRunInstance`, and one cluster may have both.
`SlotErrors` has those whose slot gate may throw. A node that is gone and comes back has a new id; what is left
of the old one belongs to `Ghost`.

### RunLifecycle

`pc[r]` follows the task of one run; `obj[r]` is the executor's object, `saved[r]`
the store's copy (the same object in `InMemoryJobRunStore`), `reported[r]` the
last thing told to the reporter. `Framework` switches between the two executors
where their code differs. `Faults` names what may go wrong; crashes always may.
`SaveThrows` covers a save that fails before and one that fails after the commit.

### Reporting

`TryWrite` puts an item in the channel, a flush loop takes up to `Batch` of
them, the call becomes one of `MaxOpen` handlers on the dashboard that read row
after row (`orig`, `edit`) and save once. EF Core updates only the columns that
differ from what was read, which `Saved` models and on which `FinishedStays`
depends. A call can fail for the client at any time while its handler goes on.

### NodeStatus

Each process has two loops, each with at most one call it awaits (`current`).
A call that failed for the loop may go on at the dashboard: the handler queries
the node's row, then one job definition after another, and saves once. `Conflict` is
the refusal of a unique index, after which nothing of the request is written;
`Written` changes only the columns that differ from what was read. The processes
of a project run the same version of the application, so a job definition exists
or does not; its columns and the times of a node have no property.

### ConsoleStores

Each thread is somewhere in `Append`: `TryGetValue`, `GetOrAdd`, `TrackNewRun`
and `TryRemove` under the lock, `AppendToBucket`. The eviction between the two
parts of `TrackNewRun` is visible to threads that append without the lock.
A process has one store: the initial state picks it, so one run covers both.

### GroupTree

A request is planned (a handler reads, decides, and changes what its context
tracks) and later saved in one transaction, or refused by an index or a row that
is gone (`SaveThrows`). Paths are sequences of slugs, so that
"starts with the path of the group and a slash" is a prefix of a sequence.
`ImplementsForest` says that the handlers, which decide from paths and depths, act
as if they worked on the parents only.

### EmbeddedDashboard

The script is single-threaded, so a step is what runs between two awaits. `call`
has a slot per async call under way, `Asking` what it awaits; the answer is made
(`Serve`, at the process) and handed on (`Arrive`) in two steps, between which
everything else may happen. `runs`, `console`, `selectedJob` and `selectedRunId`
are the state object; `heading` and `panel` are what the document shows, which
only `renderDetail` and `renderRunDetail` write. A run is how far it has come
(`Level`), and rows and lines are functions of that. `late` and `crossed` are
history: calls that a later answer has overtaken, and calls during which another
job was selected.

### Hooks, Pages and ControlFrontend

`Hooks` translates keys and invalidations as they stand in `hooks.ts`; a key
names its hook. `Changes(m)` is read from the endpoints: whose answers differ
once `m` is done. `Pages` has a record per page of the queries it observes, the
links it shows and the mutations it offers; a link or button in a table's row is
there only when that table's query has data (`of`).

`ControlFrontend` is the life of one query, any one, next to `/auth/me`, in the cache
that all pages share: queries do not touch one another, so following each in
turn (`bound.key`) says what following all says. An entry has its `data`
(`"none"`, `"current"`, or `"old"` since the server would answer otherwise), its
request (`flight`), and `missed`, which is history: a refetch joined a request whose
answer was already old, the answer to a write was lost, or the hook that wrote had been
rendered with another group (`Diverted`). `Render` ends every step that changes what is observed: it
mounts (`Watch`, `Mounted`), unmounts, drops the callbacks of mutations whose page is
gone (`Stays`) and the form (`Form`). `frozen` is what `qc.clear()` does to observers
that are not told: the gate goes on showing the page, or waiting. `left`
is where the user signed out. TanStack Query and React Router are external; what
is used of them is `Fetched`, `Refetched`, `Mounted`, `Rendered`, `Kept`, each by
the documented behaviour that the code relies on.

## 3. The runs

| Run | Instance | Shows |
|---|---|---|
| `slots_cluster` | 2 nodes, 2 + 1 calls, limit 1, TTL 3, runs of at most 1, clocks 1 apart, 4 time units | with runs shorter than the TTL the cluster keeps the limit; permits are conserved on every path, races for the counter and crashes included; the gate implements `Permits` on each node and for the cluster |
| `lease` | 2 nodes, one under each host, lease 4, ticks of at most 1, 3 faults, fair | at most one leader, a process that the generic host is stopping aside; the key is never stolen; somebody leads again and again |
| `lease_dead_loop` | 2 nodes under Framework, 1 fault, fair | finding: no node leads any more |
| `runs_framework` | 3 runs, limit 2, inserts fail | a finished record has an outcome, which stays; the replay closes exactly what was interrupted; an open record is a run in progress |
| `runs_core` | 2 runs, Core, limit 1, updates fail, fair | the limit holds; the dashboard is never ahead of the store; every slot comes back |
| `reporting` | 1 run, 1 line, batches of 2, 2 overlapping calls per channel, fair | no line twice, `FinishedAt` is never lost, only a call that was given up can turn a row back, a final record arrives |
| `nodes` | 1 process, 2 jobs, 2 overlapping calls per loop, 1 fault, fair | "connected" means registered; the handshake goes on until the jobs are there; the row ends up saying who leads, though late calls say otherwise |
| `console` | 3 threads, 3 runs, 2 buckets of 1 line, batch 2, 5 lines, fair | no bucket is lost; their number is bounded; the oldest goes, and only when the store is full; lines are stored once, in order, eventually |
| `groups` | 5 groups, 2 projects, 2 slugs, depth 3, one request at a time | paths, depths and parents agree; no cycle, no orphan, no twins |
| `groups_concurrent` | 2 groups, two requests | finding: two moves make a cycle |
| `embedded` | 2 jobs, 2 runs of one, a poll, two clicks' calls, two console calls, up to 3 clicks, a failing request, fair | rows and lines go back only through an overtaken answer; two jobs mix only through an answer that crossed a selection; at rest the page is right |
| `frontend` | each of 18 queries, 2 groups, a project, a run, 2 mutations at a time, up to 3 clicks (4 with one mutation at a time around a group's members), fair | own writes show; polled pages catch up; the gate decides; nothing is left after signing out; a form reaches another group by a link only |

Why these bounds are enough. Each is the smallest at which everything the
properties speak of happens: two nodes for the lead, one under each host, with three
faults, so that a node stops while the other fails and a third comes back; three calls with two of them on one node, so that calls compete for
the counter of a node and for the set of the cluster; two runs for a limit of
one and three for a limit of two; three runs for two buckets, so that a run is evicted and comes
back, with three threads, so that one makes, one evicts and one appends; five
lines for batches of two, so that the channel is longer than a batch; two
overlapping calls per channel or loop, because a third adds nothing to "newer" and
"older"; five groups at a limit of three levels, so that a subtree of two levels
can be moved both to where it fits and to where it does not (the code's limit is
10). `nodes` has one process: another one meets it only at the job definitions, where
two handshakes of one process, the given up one and its successor, already
conflict in the same way. A `Ttl` of 3 with runs of 1 and clocks that differ by 1 has slack of one
unit; `Horizon` bounds the clock so that an entry can expire and its place be
given away. `MaxFaults` bounds stops, crashes and exceptions together (in `NodeStatus` calls and
transactions that fail; stops and conflicts are free there). A job without Redis
(`UsesRedis` false) takes no run of its own: the counter behaves in the same way,
and what is proved of it covers both.

`EmbeddedDashboard` and `ControlFrontend` choose one member of `Bounds` at the start, so
that one run covers several instances whose product would be too large. For the page these are four:
three overlapping calls that list runs with three clicks; two of those with
two console calls; one of each with three clicks; and one with a failing request. Two
calls of a kind make every order of two answers. For the frontend there is one for every query that a
page reads: those that mutations change with two or three clicks (submit, go
somewhere, submit again, or sign out twice), those that are polled with a
report of the runtimes and a failing request, an expired session or a browser that was
offline. Two groups give a link from one to the other; two mutations at
a time give one that overtakes another. `hooks` says which mutations the user's clicks
call: all of them, but for two instances. The members of a group have a second one, with
four clicks and `useAddGroupMember` only: write, go to the other group, leave, come back.
The projects of a group are followed for three clicks with the two hooks that matter to
that list, the creation of a project and the logout.

Deadlock is checked except in `console`, `reporting` and `frontend`, which stop by
themselves when their lines are written and their loops have ended, or when
the user's clicks are used up on a page that polls nothing.

**Fairness.** `LeaderLease`: time passes, Redis answers what it was sent, and a
running process goes on with its tick and its stop; nothing is assumed of
starts, crashes and exceptions. `RunLifecycle`: the thread pool runs what it was
given, the store answers, the timer fires, and a job whose token is signalled
ends; the job has a timeout, without which a slot may be kept for ever by design.
`Reporting` and `NodeStatus`: the loops are tasks of the pool, and a handler of the
dashboard ends. `ConsoleStores`: the flush loop. `EmbeddedDashboard`: the two timers, the server's
answers, and their arrival. `ControlFrontend`: answers and their arrival, the poll of the
followed query, the end of a staleTime, redirects, and the end of a mutation; nothing
is assumed of the user, of failures or of the session. All of it is weak fairness.

## 4. The proofs

What is proved holds for any number of nodes, calls, runs, threads and lines, any
limits and any durations, under the constants' assumptions in the modules.

**JobSlots_proofs.** `LocalInv` says that a node's counter is the number of its
calls that own a permit; a successful compare-and-swap changes both. From it:
`Conservation`, and `LocalPoolImplemented` (every step is a step of `Permits` or
leaves the holders alone). `WireInv` says who owns which entry and message in
Redis; from it `DisposeIsClean` and `RefusalsAreJustified`. `TimeInv` says that a
call that runs was granted its entry less than `RunBound` ago by true time, so
its entry has not been pruned by anybody's clock: `ClusterSafety` and
`ClusterPoolImplemented` need `ShortRuns` (`Ttl` exceeds `RunBound` by more than
the clocks differ) and Redis in use.

**Cluster_proofs.** `KeyNeverStolen` needs nothing. `LeaseInv` bounds, for a
node that leads, the key's remaining time from below by the time until its next
answer is due; under `InTimeForLease`, "two ticks and the pause between them are
shorter than the lease", it gives `LeaderHoldsKey` and `OneLeader` for any mix of the
two hosts, a process that the generic host is stopping (`Leaving`) aside. With the same
hypothesis `LeadIsAPermit`: the nodes that fire crons implement `Permits` with one pool of
one permit, so that the lead passes on only after it was given back or lost.

The second half of the module is about `NodeStatus` (`NS`), under that module's own
assumption on its constants as a hypothesis. `ConnectedIsRegistered` says that a process that was told that it is
connected is in the dashboard, with its runtime and all its jobs. It is not inductive: the
handshake's transaction writes what differs from rows that it read before, and adds only
the jobs that it did not find. `NodeInv` therefore adds that what a handler has read as present still is
(`ReadBefore`: no step takes a row or a runtime away), that every job a
handshake has asked for is in the table or among those it is going to add
(`JobsFound`), that a process whose handshake loop has not begun sends no heartbeats
either (`StartedTogether`), and the types (`NodeTypeCorrect`), which tie each loop to the call it awaits.

**RunLifecycle_proofs.** `RunInv` joins types, what each position of a run implies
about its object and its stamps, who has a slot, and how `reported` follows
`saved`. `NeverOverCap` and `ReportsFollow` hold whatever saves fail, and so do the two
theorems about slots. `SlotsHaveTheirRuns` is the safety half of `SlotsComeBack`: a slot
that is out belongs to a run at work, or it was lost (`Lost`) in one of two ways that the
code has, a `TriggerAsync` that ends after the gate without its run (section 5) or a cron
run whose task a stopping scheduler never starts. `SlotsArePermits`: seen from
the slots, every step of the module is a step of `Permits`, one pool per process, which is
what `JobSlots` shows of the gate itself.
`HostInv` (only the processes of a node's own host touch its runs) gives
`ReplayIsExact` for Framework on a database of its own; `OutcomeInv` and
`StoreInv` give `FinishedSaysHow` and `OutcomeIsFinal` if no `UpdateAsync`
throws. `FlightInv` gives `OpenRowsAreRuns` for either product, whichever processes
share a store: a run has no record before its `AddAsync`; in a database an unfinished
record is `Pending` or `Running`, the two states the replay looks for; and on a process
whose replay is over, a run past its finally block left a finished record, or one that
`AddAsync` stored while it threw and that nobody was told of. It needs two hypotheses.
With `SavesWork` (no `UpdateAsync` throws) the finally block's save is what closes the row. With `NobodyGivesUp` (no caller cancels the
token it gave to `TriggerAsync`) a run that was stored is started; otherwise its row
stays `Pending` (section 5, `DuckRunController.cs:33`). `runs_framework`, which checks
the property, has neither fault, so that the theorem says for all sizes what the run
says for its own.

**Reporting_proofs.** `EditInv` says what an entity that a handler tracks can
differ in from what it read: `FinishedAt` is never cleared by an edit, therefore
by no save, in whatever order overlapping handlers read and save
(`FinishedNeverUndone`). `LinesInv` says that the numbers of the lines shown, of the
batches under way and of the channel are apart (`NoLineTwice`). `OrderInv` gives
`OnlyStragglersRegress`: by the rank of a state, what is stored or held by any call
comes before what is still in the channel, and the call that the loop awaits
holds nothing older than the rows or than any other call. A save that turns a row back is
therefore that of another call. `FinalInv` gives `FinalNotForgotten`, the safety half of
`FinalArrives`: the final record of a run is in the channel, in the call that the loop
awaits, in the row, or counted in `lost`. Its other parts say why no step lets it slip: a call is
awaited only by the loop that sends it, and only while it sends (`CurrentSent`), so that each end of a
call is either an answer or a failure that counts; in a batch nothing follows the final record of a
run (`FinalLast`), so that no later record of the call covers it; and an UPDATE that leaves
`FinishedAt` out because it was read as set finds it set (`FinalEdit`, with `FinishedKept`).

**ConsoleStores_proofs.** `LockInv` (one thread evicts at a time) and `ApartInv`
(a run is in the list, or at its maker, or at the evictor, and in one of these
only) make `BucketsTracked` inductive. `BuffersStayBounded` follows by counting:
the buckets outside of the list map one to one to threads in `TrackNewRun`;
`EvictsOnlyWhenFull` because an evicted run has just been pushed out of a list of
`MaxRuns` different runs. `FlowInv` says that table, batch and channel, one after
the other, are increasing (`InsertedInOrder`). `LineInv` gives `NoLineForgotten`, the
safety half of `LinesStored`: channel, batch, table and the lines given up with a warning
together are exactly the lines written, and the loop does not end before `Dispose`. What a stop can
cost is therefore what is still in the channel then (section 5).

**EmbeddedDashboard_proofs.** `PageInv` joins the types with what history says of
a call that has been answered: unless it is in `late`, its answer is at least as
far as what is shown of the same job or run; unless it is in `crossed`, its job is the
selected one. Levels only rise, so an answer that is not overtaken can only be
ahead: `GoesBack` and `Mixed`, for any number of calls, jobs and runs.

**ControlFrontend_proofs.** `PageInv` says that an open form's page is on the
screen; a page is on the screen at a location of the routes and is unmounted when
the kind of location changes, so that only a group's page can hand its form to another
group (`FormStaysWithItsPage`). `SignInv` says that since the user signed out there
is no session, no entry has data and none of the requests in the air can bring
any; every step either `Keeps` an entry or is the answer to a login
(`SignedOutIsForgotten`). `OwnInv` says that a watched entry that is behind (`Behind`: old and
idle, or an old answer in the air) is excused or has a write `done` that changes it and
whose answer is to come (`OwnWritesAreShown`). Two lemmas carry it. `WritesCovered`: the keys
that a hook invalidates cover what its endpoint changes, by prefix, for every hook and
query but those that are polled, unless the hook was rendered with another group.
`RenderedOwn`: who begins to watch a query fetches it, so an entry that is watched
and behind after a rendering was so before. All three hold for whichever query is followed,
hence for all. `TypeCorrect` is what these invariants say of the cache, the location and the
mutations together with the types of the rest (`RestOK`).

**GroupTree_proofs.** `TreeInv` says that the rows are a tree whose paths agree with
it (`TreeOK`), and that what a request is going to save would again be one, or would
be refused by an index, and would be a step of a forest (`Good`). It is inductive
while one request is handled at a time, which is a hypothesis of every theorem of
the module but one (`OneAtATime`): `groups_concurrent` shows what happens without it. The
lemmas about the requests are about a single state. That a subtree keeps its shape
under a new path (`MovedTree`) needs no induction over the tree: the parent of a
group whose path begins with the path of `g` is `g` or has such a path as well
(`PathUp`), and a group whose parent is one of these is one of these (`PathDown`),
so that each rewritten path can be compared with its parent's, which is rewritten
alike. `PathDown` also says that the paths below `g` are closed under "is the parent
of", which is how `Forest` defines a subtree (`GroupsAreAForest`). `NoCycles`
follows from the depths. `TypeCorrect` has no hypothesis: however many requests overlap,
an UPDATE of the columns that one has changed, over a row that another has changed since,
leaves a row (`SavedRows`), and `RewritePathsAsync` makes rows of whatever it finds
(`RewriteRows`).

**Only model-checked.** What needs fairness: `Reelection`, `SlotsComeBack`,
`FinalArrives`, `LinesStored`, `JobsRegistered`, `LeaderShown`, `ScreenCatchesUp`,
`PolledCatchUp`, `GateDecides`. What three of these rest on is proved, as safety:
`SlotsHaveTheirRuns`, `FinalNotForgotten` and `NoLineForgotten` say that nothing is lost on the
way, fairness that it gets there. Every invariant, every action property and every refinement that a
passing run checks is stated by a theorem, and the type invariant of every module that has
behaviours is proved. None of the modules uses a recursive operator, so
that theorems can be added to any of them.

## 5. Disagreements

Two are runs of their own, listed under "findings" in `PROJECT.json`: a scheduler
loop of Framework that ended in an exception leaves its coordinator leading
(`lease_dead_loop`), and two moves at the same time make a cycle of groups
(`groups_concurrent`). The others were seen with the same modules under other
constants, or follow from a definition one can read:

* `RedisLuaScripts.cs:29`. A slot's TTL is given once (`SlotTtl`, one hour) and
  never renewed. A run that takes longer is pruned, and the cluster exceeds the
  limit that README.md:256 promises. (`JobSlots` with `RunBound > Ttl` violates
  `ClusterCap`; hence `ShortRuns`.)
* `DuckRunServiceCollectionExtensions.cs:43`, `RedisClusterCoordinator.cs:72`.
  Under the generic host the coordinator stops, and gives the key back, before
  the scheduler does, and `_isLeader` stays true: for that long two nodes fire
  crons, against README.md:255. (`AtMostOneLeader` excepts `Leaving` nodes for this
  reason and is violated without that exception.) The same order at start makes the scheduler run before the
  coordinator's first tick, which is harmless.
* `DuckRunController.cs:33`. `Task.Run` takes the caller's token; a task
  that never starts does not run its finally block and the slot is kept until the
  process ends. (`RunLifecycle` with the fault `"giveup"` violates `SlotsComeBack`.)
  An exception out of `AddAsync` in `TriggerAsync` does the same.
* `JobExecutor.cs:79` of Core. An exception of `BuildArguments` is caught by
  nobody; the finally block stamps `FinishedAt` on a run that is `Pending`.
  (`RunLifecycle` with `Framework = FALSE` violates `FinishedIsTerminal`.)
* `JobExecutor.cs:72` and `:107`. A run that cannot be constructed gets `FinishedAt`
  twice and is saved twice; `TypeOK` records it.
* `JobExecutor.cs:18`. A cancel between the run's record and its entry in `_live` is
  lost.
* `SchemaBootstrap.cs:92`. The replay closes every open row, so two live processes
  on one database close each other's runs when one of them boots. (`RunLifecycle`
  with two homes violates `ReplaysOnlyStuck`.)
* `EfCoreConsoleStore.cs:92`. The finally block flushes one batch; lines beyond
  `ConsoleFlushBatchSize` in the channel are lost at every stop.
* `GroupEndpoints.cs:219`, `DashboardDbContext.cs:63`. Two requests at a time can also
  leave an orphan (delete a group while something moves into it) and twins at
  the top (the unique index does not see rows without a parent).
* `GroupDetailPage.tsx:42`. A link from `/groups/A` to `/groups/B` keeps the component and
  its open edit form: B's page then shows A's name and slug, and saving
  writes them to B. `EditStraysByLink` says that this is the only way.
* `AuthGate.tsx:17`, `LoginPage.tsx:14`. The gate turns away when `/auth/me` has an
  error, the login page lets through when it has data. After a refetch that failed it has
  both, and the two send the user to each other, for good when the session
  has expired. `GateDecides` names this case.
* `hooks.ts:60`. `qc.clear()` tells no observer: the page of the user who has signed
  out stays on the screen until the next navigation; a second sign out while the gate
  waits leaves it waiting for ever. The late answer to an earlier login brings the
  user back. The first two are cases of `SignedOutForgets` and `GateDecides`.
* `hooks.ts:184`, `:88`. A refetch that joins a first load whose answer is already
  made, and a mutation whose answer was lost, leave older data on the page until it is
  mounted again (`missed` in `OwnWritesShow`). `useProjectJobs` is not polled, and `useMoveProject`
  (`hooks.ts:192`) is used by no page. Outside of a project the sidebar asks for the
  project with the empty id, which is `GET /api/projects/`.
* `hooks.ts:150`, `:159`. A hook invalidates what it was last rendered with. Who writes to the
  members of A, follows a link to B (the component stays mounted), leaves it and comes back to A
  before the answer sees A's members as they were, because the answer invalidates those
  of B. For the other hooks of the page the key of all groups, which they invalidate as well,
  covers it. (`OwnWritesShow` without `Diverted` is violated by this with four clicks.)
* `duckrun.js:213`, `:222`. An overtaken poll shows a finished run as running, and the
  rows of one job stand under the heading of another until the next poll; a click on such a row selects a
  run of the wrong job, which stays selected. `duckrun.js:227`: when the store has
  evicted the selected run, its label stands over the lines of the run before it.
* `README.md:338` says that the console is streamed via SignalR; the frontend polls it
  (`hooks.ts:226`), and no page joins `ControlHub`.
* `JobExecutor.cs`, `AddAsync` that throws after the commit: the row stays `Pending` with
  nobody working on it until the next boot, which `OpenMeansInFlight` excepts.
* `format.ts:26`, `duckrun.js:47`: 119.6 s is shown as "1m 60s". `NodesPage.tsx:36` holds
  the browser's clock against the server's `lastSeen`.
* `JobSlotGate.cs:18`. A limit of 0 means "no limit" to the tracker and "nothing" to
  Redis.

## 6. Not modelled

Reflection over assemblies and the options builders run once, before anything
else, and are constants here. Cron expressions (Cronos), gRPC, EF Core, Redis,
ASP.NET, TanStack Query and React Router are external and modelled only by what
the code relies on. Of the Control Dashboard's reading endpoints the frontend's model has
whether an answer is still what the server would give, not its content; the
indicators are sums over rows. `ControlHub` has no client. Of authentication the
session is modelled as the browser meets it, not cookies or password hashes. In the
frontend the text of fields, formatting, error messages and what other users change are
left out (what the runtimes report is in). Where a page is still shown after signing out,
an observer whose query was dropped fetches again when the page is left, or with the frame; that any other
rendering of the page would make it fetch is left out, as there is no session then. The node heartbeat key in Redis has no
reader but a page. The landing page, its documentation page and scene are
presentation without any state of the product; the sample application, the tests and
the deployment files are not part of the program.

## 7. Plan

The order in which the modules were written is that of section 2: what the
product promises across processes first (slots, lead), then the run, then what
is shown of it, then the dashboard's own data. Next:

1. `RunHistory`: `InMemoryJobRunStore`, its list and its eviction against
   `UpdateAsync`; the size of the store.
2. `Schedule`: the table of next runs over the lead (which tick is fired twice or
   by nobody when the lead changes).
3. More about `GroupTree` without `OneAtATime`, where so far only the types are proved:
   which pairs of requests may overlap and leave the paths right.
