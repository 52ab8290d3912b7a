# Formal models of meshtest

meshtest watches the connectivity of a mesh of machines. Every *node* pings and
HTTP-checks its peers once per interval and submits the results to a *leader*;
the leader keeps them in memory and in day files, tells the nodes who their
peers are and how to run, and answers the *dashboard's* queries over 90 minutes,
90 hours and 90 days. The Go implementation (`internal/`, `cmd/`) is the current
one; `mesh_status/` and `node.py` are its Python predecessors.

This directory holds TLA+ models of that system, the TLC configurations that
check them, and TLAPS proofs about them.

## Inventory

| Part | State | Operations | Talks to | What is hard | What makes it correct |
|---|---|---|---|---|---|
| Result store (`internal/leader/results.go`) | `results` per node, `dayAggregates` per day | `Add`, `Query90m/90h/90d` | handlers, flush loop (one mutex) | results move between two maps while windows slide | each copy is counted once, in every window |
| Persistence (`persistence.go`) | day files, `lastFlushTimestamp` (per process) | `AppendResults`, `ReadResults`, `LoadIntoMemory`, `flushOnce`, `FlushLoop` | result store, file system | crashes, write errors, late results, clock skew, several processes over the same files | what was answered 202 is on disk after a flush, once, and visible after a restart |
| Handlers (`handlers.go`) | `CheckInterval`, `BufferSize`, `peersCh` | register, submit, data, updateConfig, start, stop | all of the leader | one goroutine per request; partial updates; stop while serving | an update is applied and announced, or neither |
| Registry (`registry.go`) | node IP to port, URL, last seen | `Register`, `Get`, `AllIPs`, `PeerDicts` | handlers, push | in memory only; registration as a side effect of a submit | an entry leads to its node; the mesh recovers from a restart |
| Peer push (`peerpush.go`) | token channel of capacity 1 | `ListenForPeerPush`, `PushPeersToAll`, `notifyNode` | nodes, over HTTP | coalesced notifications, reads under separate locks, time-outs, no retry | every change reaches every reachable node |
| Node submit (`node.go`) | `resultBuffer`, `BufferSize` | `SubmitResults`, `bufferResults` | leader, push listener | outages, lost answers, a size that changes during the POST | no result is lost that fits the buffer; order is kept |
| Node check cycle (`node.go`, `ping.go`, `httpcheck.go`) | peers copy, semaphore, channel, WaitGroup | `RunCheckCycle` | `ping`, peers | concurrent workers closing down | ends, one result per target, at most ten at a time |
| Node peers and configuration (`node.go`, `listener.go`, `cmd/node/main.go`) | `Peers`, `CheckInterval`, `BufferSize` | `Register`, `FetchPeers`, `UpdatePeers`, `UpdateConfig` | leader | three writers of `Peers` in any order | converges to the registry |
| Python leader (`mesh_status/`) | `_results`, `_day_aggregates`, `_registry`, day files | as the Go leader | Python nodes | a flush task nobody awaits, everything flushed every time | no day goes missing |
| Python node (`node.py`, `register.py`) | deque of cycles, peers | `run`, `submit_results`, `handle_update_peers` | leader | iterations that raise, empty cycles, lost answers | the newest cycles are safe |
| Dashboard (`frontend/src`) | answers on the page, selected tab | `refresh`, `renderMatrix`, cards, bars | leader | requests that fail or take long, a leader that restarts | draws answers that belong together, never older ones over newer, and catches up |
| Scripts (`start.sh`, `entrypoint.sh`, `deploy/`) | container state | install, start | Docker | | |

## The modules

### `ResultsStore` - the store, the day files and the life of the leader

Every measured check is an identity `c`. The maps of the code become counts per
check: `results[c]` (copies in the raw store, by their `IsExtra` flag),
`dayAggregates[c]` (how often it was counted into a day), `disk[c]` (lines in the
day files). `stamp[c]` is the node's `Timestamp`, zero until measured.
`ResultsStore.mu` is held over the whole of `Add`, `flushOnce` and
`LoadIntoMemory`, so each is one action:

* `Submit(S)` is `HandleSubmit` with any set of checks, new, buffered or repeated;
  `Measure(c)` fixes the stamp, up to `Skew` ahead of the leader's clock;
* `FlushOnce(F)` is `flushOnce`, with its early return, the batch, the move to the
  aggregates and the unconditional advance of `lastFlushTimestamp`; the checks in
  `F` meet a write error. `FlushTick` is the timer of `FlushLoop`, `Stop` the flush
  of `Leader.Stop`;
* `NewLeader` loads the files and starts; `Exit` ends a stopped process;
  `Crash(W)` kills a process at any time, also inside a flush that has written `W`;
* `Tick` moves the clock; the timer is served within its second.

`Ledger` is the abstract promise of the store, without windows, days, flags or clocks:
a process takes up checks of its log with all their copies (`Start`), counts one more
copy for each check it accepts (`Accept`), writes what it owes completely and once
(`Save`), and leaves its log behind (`End`). `ImplementsLedger` states that `ResultsStore`
implements it with `memory <- raw and aggregated copies`, `log <- lines on disk`,
`owed <- fresh \ overdue`, `saved <- what this process has written`; the move of old
results to the aggregates, the clock and the measuring are invisible to it.

History variables record what the properties compare with: `acked` (accepted
submits), `base` (copies this process loaded or accepted), `written`, and the
four excuses for a check not to be on disk: `fresh` (no flush since), `overdue`
(accepted after the flush that would have taken it, or too old), `failed` (write
error) and `lost` (its process ended first). The sets of excuses are as small as
the code allows: each has a violation run or a hazard showing that it is needed.

### `NodeSubmit` and `Outbox` - a node's buffer

Checks are numbered in order of measurement. The two critical sections of
`SubmitResults` and `bufferResults` (`Post`, `BufferResults`) and the POST between
them are separate steps; the listener changes `BufferSize` at any moment
(`UpdateConfig`); a request is accepted, refused, lost, answered without the
answer arriving, or abandoned by the 10 s time-out and handled later
(`HandleLate`). `Outbox` is the abstract promise: checks are held in order, let go
only when all of them are received, shed only when too many. `ImplementsOutbox`
states that `NodeSubmit` implements it under `made <- measured`, `held <- buffer
followed by payload`, `size <- BufferSize`.

### `PeerPush` - peers and configuration

The leader's `HandleRegister` and `HandleUpdateConfig` with each lock section and
channel operation a step of its own, the token channel of capacity one, the push
goroutine with its separate reads of peers, interval and size, pushes under way
(awaited, or given up after 5 s and applied later), the node's listener (peers,
then configuration), and the node's own `Register` and `FetchPeers`, whose answers
are snapshots applied later. A configuration value is its version number; a
node's own defaults equal the leader's (10 s, 20000), version 0.

### `CheckCycle` - the fan-out of a check cycle

`RunCheckCycle` as main goroutine, workers and closer over a semaphore, a
buffered channel and a WaitGroup; peers are replaced meanwhile. The model's
`Limit` is 10 in the code.

### `Queries` - what `GET /data` answers

EXTENDS `ResultsStore`, which says how often each query counts a check
(`Query90m`, `Query90h`, `Query90d`); `Queries` groups the counts by pair, hour and day
(`InHour`, `InDay`), takes the pair statuses from them (`checkPairStatus`) and rounds
percentages (`safePct`). Answers are sets and functions: the order of the entries is
left out. What a query answers is a function of the store, so there are no actions of
its own; its properties are checked in every state of the store.

### `DayFile` - the files below the lines

`ResultsStore` takes a day file for a bag of lines and a day for a day. `DayFile` goes
below: a file is a sequence of pieces, each what one `Encode` left of a record
(all of it, a part, or all but the newline), and `ReadFile` is what the scanner and
the JSON decoder make of them; a calendar gives each day 23, 24 or 25 hours, and
`TimesOpened` is how often the loop of `ReadResults`, which adds 24 hours at a time,
opens a day. Both are pure functions, evaluated over all files and calendars in
the bounds.

### `Mesh` - nodes and leader over restarts

The main loop of `cmd/node` (`Register`, then `FetchPeers`, `RunCheckCycle`, submit) of
several nodes against one leader whose registry, token and configuration are gone
when its process ends. An entry of the registry is a port and whether it has a
URL, written by `HandleRegister` with the node's port and by `HandleSubmit` with the
leader's default port. A URL is taken to lead to the node's own listener, as the two
settings of `cmd/node` should; a submit that is lost before the leader handles it is
left out, only its answer can be lost. Whether a node has results to submit (`held`)
decides whether it can be registered again. A push is one step here and a cycle has
one result or none; `PeerPush`, `CheckCycle` and `NodeSubmit` have their parts.

### `Dashboard` - the page

`refresh` of `frontend/src/main.ts` with its four requests, `setInterval`, the abort
of each request after `FETCH_TIMEOUT` and the rendering of all four answers at once.
`Tick` moves the browser's timers, five seconds at a time: a request is open one
tick at most, a refresh comes every two (a background tab, whose timers the browser
slows down, is left out). Of an answer are kept the nodes, which are the rows and
columns of the matrix (`NodesShown`), the number of changes the leader had seen (`rev`)
and its age, the last two only for the properties.

### `PyMesh` - the Python predecessors

`start.sh` and `Dockerfile.leader` still run the Python programs. `PyMesh` composes one
Python node and the store of the Python leader. The node's `run()` is three steps
(`FetchPeers`, `RunCheckCycle`, and `Submit` or `SubmitFailed`); its deque holds cycles,
the empty ones too, and drops the oldest. The leader's `flush_loop` writes
everything in memory each time (`Flush`), ends for good when a write raises
(`FlushRaises`), and is not run at the end of a process (`Exit`). The store is kept as
sets of checks: how often a line is repeated is not told apart. Lines are written
whole or not at all; the part of a line a death can leave would matter to `DaysShown`
only as the first line of a day file.

### MC modules and mutants

`MCResultsStore`, `MCMesh`, `MCDashboard` and `MCPeerPush` hold what only TLC needs:
the values of the instances, a symmetry set, and the statements of documents and
tests that the code does not keep. `MCResultsStore` composes `Queries` (so
`ResultsStore`) and `DayFile`. Definitions under a comment "Mutant" are wrong variants of the definition
after them. They are used by nothing; with one of them in the place of the right
one the property named for it in `PROJECT.json` fails, which shows that the
property depends on that line of the code.

## The runs

| Run | Shows | Bounds |
|---|---|---|
| `store` | `CountedOnce`, `RecentStaysRaw`, `Durable`, `Visible`, `WrittenOnce` through flushes, write errors, a stop, crashes and a second process; `HoursAddUp`, `StatusSurvives`, `FailureShows` for the queries; `TornWriteCost`, `DaysReadOnce` for the files; `ImplementsLedger` | 2 checks of one pair (one extra, one with HTTP failed), window 2, retention 4, days of 2, hours of 1, flush every 2, clock 5 to 10, 2 submits per check, 2 processes; buckets of 1 to 1999 checks; files of up to 6 writes, windows of 4 days |
| `submit` | `HeldInOrder`, `ShortOutageLosesNothing`, `ForgottenIsDelivered`, `BufferBounded`, `ImplementsOutbox`, `EventuallyDelivered` | 4 checks in cycles of up to 2, sizes 1 to 3, 1 abandoned request at a time |
| `push` | `QuiescentInSync`, `NeverBack` | 2 nodes, 2 clients, 1 further version of each value, 1 failing push, 1 node restart; symmetric nodes and clients (6.3 million states) |
| `converge` | `PeersConverge`, `ConfigArrives` | 2 nodes, 1 client, 1 update, 1 failing push |
| `check_cycle` | `AllChecked`, `PoolBounded`, `NoSendAfterClose`, `NoneLeftBehind`, `CycleEnds` | up to 2 peers and 1 extra target, semaphore of 2 |
| `mesh` | `RegisteredInSync`, `MeshRecovers` | 2 nodes, each with or without a URL, one with extra targets; 1 update, 1 lost call, 1 restart of the leader and 1 of a node |
| `dashboard` | `ShownTogether`, `ShownNeverBack`, `PageCatchesUp` | 2 machines, 2 of the 4 requests, ticks of 5 s, 2 changes of the leader, 2 failing requests |
| `python` | `NewestKept`, `DaysShown` | 3 checks, a deque of 2 cycles, window 2, retention 4, days of 2, flush every 2, clock 4 to 9, 2 processes (6.5 million states) |
| `late_results`, `restart_doubles` | what documents and tests say of the store and the code does not do | as `store`, 1 submit per check, up to 3 processes |
| `wrong_port` | a node is checked at a port it does not listen on | 2 nodes, no failures |
| `cached_data` | a page whose leader does not answer goes blank | as `dashboard` |

Every passing run also checks the type invariant of its module where it checks
invariants.

Why the bounds are enough: in `store` the clock passes two flush intervals after
a check has left the raw window, crosses day boundaries, and reaches the end of
the retention, with a crash or stop between any two steps; two checks suffice
because checks interact only through `lastFlushTimestamp`, the emptiness test of
`flushOnce` and shared batches. The theorems below cover all other values,
including clock skew, which no run uses. In `submit` the buffer is exceeded, and
a size shrinks below what is held. In `push` a second change can come in at each
point of a round of pushes. In `check_cycle` there are more targets than tokens.
In `mesh` a node can be registered by either handler before and after a restart of
the leader or its own, with a push lost at any point. In `dashboard` the four
requests are handled by the same lines, so two show every order of their answers;
two changes are enough for an answer of before, between and after them. In `DayFile`
a torn write has every neighbourhood within three pieces, and a change of clocks
comes before, in and after the days read. In `python` the deque overflows, with empty
cycles too, and a check ages out of the window and its day out of the retention.

Deadlock is checked everywhere except in the runs of `ResultsStore` and `PyMesh`, where
the clock and the number of processes are bounded and the system may simply be off.

## Fairness

* `NodeSubmit`: weak fairness of each step of the main loop (it has no blocking
  step but the POST, which the client's 10 s time-out ends) and strong fairness
  of `HandleSubmit`: a leader to which requests are sent again and again handles
  one of them. Without it the leader may be down for good.
* `PeerPush`: weak fairness of the push goroutine (its POST ends after 5 s), of
  the listener and of handlers that have begun; strong fairness of answers to a
  node that keeps asking.
* `CheckCycle`: weak fairness of each goroutine; `ping` and the HTTP client end by
  their time-outs.
* `Mesh`: weak fairness of the push goroutine and of each node's loop, whose calls
  end by their time-outs, and of starting the leader and the nodes again
  (`--restart unless-stopped` in the commands of its README); calls are lost finitely
  often.
* `Dashboard`: weak fairness of timers and rendering, which the browser's event loop
  serves, and of the leader's answers; finitely many requests fail.

## What is proved

### The store

`ResultsStore_proofs` proves, for every set of checks, every window, retention, day
length and flush interval allowed by `StoreAssumption`, and any number of
processes and submits:

* `StoreTypes`, `ViewsCountOnce`, `ViewsKeepRecent`, `AcceptedIsDurable` for any skew of
  the nodes' clocks;
* `AcceptedIsVisible`, `CopiesWrittenOnce` and `StoreImplementsLedger` under `Skew = 0`.

The assumptions are that the flush interval is no longer than the raw window and
the raw window no longer than the retention (1 h, 90 h and 90 d in the code).

None of these invariants is inductive. `StoreInv` adds: what is in memory is
exactly what was loaded or accepted (`MemoryConserved`), only results older than
the window are aggregated (`OnlyOldAggregated`), no flush is late
(`FlushOnTime`), and an accepted check is on disk *or* sits in the raw store above
`lastFlushTimestamp` and young enough to be still in the window when the timer
fires (`PendingOrDurable`). This last part is the heart of the argument for
`Durable`: it says why one flush is enough. `SyncedInv` adds, for clocks in step,
that no stamp is in the future, that what a process owes its view it has loaded,
and that copies written and copies a flush may still write never exceed what the
process holds (`WriteBudget`), which is what a stamp in the future breaks.

`StoreImplementsLedger` says that under `Skew = 0` every behaviour of the store is one
of `Ledger`. The step simulation has a lemma per action of the store
(`NewLeaderStarts`, `SubmitAccepts`, `FlushSaves`, `ForgetEnds`) and needs one more
invariant, `OwedIsPending`: what is owed is in the raw store, newer than the last
flush and young enough for the coming one. That a flush writes all copies of a
check, and none a second time, follows from `OnlyOldAggregated` and `WriteBudget`
(`BatchIsUnsaved`).

### The answers and the files

`Queries_proofs` proves the properties of `Queries` and `DayFile`, over the store's
invariant and for any pairs, hours and windows of `QueriesAssumption` (the day is a
number of hours, the 90 minutes lie within the 90 hours, and the checks are finitely
many):

* `StatusIsKept` (`StatusSurvives`) under `Skew = 0`. It needs one more invariant,
  `FlagsKept`: a check that is not of an extra target has no copy that is marked as
  extra. The reverse fails, as loading drops the mark.
* `HoursAgreeWithDays` (`HoursAddUp`) for any skew. Of each check in the window both
  answers count the same, since nothing recent is aggregated (`WindowCounts`); a day's
  checks are those of its hours (`DayOfHours`); and sums by hour add up (`SumByKey`).
* `RoundingShows` (`FailureShows`), from `MixedIsShown`: any bucket of fewer than 2000
  checks that has a success and a failure is shown above 0 % and below 100 %.
* `TornWritesCostOne` (`TornWriteCost`) for files of any length: a whole record that is
  lost stands behind a write that was cut short (`LostFollowsCut`).
* `DaysAreReadOnce` (`DaysReadOnce`) for any number of days: a step of 24 hours meets
  every day that is as long (`Opened`).

Sums and midnights are recursive. The induction they need is over a set, not over a
formula: `SubsetInduction` and `IntervalInduction` apply the library's theorem that a
well-founded relation has a minimal element in every set (`WFMin`) to the set of
counterexamples. With them `FoldIsSum` identifies the fold of the community modules, and
`BeginsExists` and `BeginsAgree` the recursive function of `Midnight`.

### A node's buffer

`NodeSubmit_proofs` proves `SubmitTypes`, `HeldStaysInOrder`, `ShortOutageIsSafe`,
`NothingIsForgotten`, `BufferStaysBounded` and the refinement `NodeImplementsOutbox`, for
any number of checks and requests given up and any sizes of at least one.
`SubmitInv` is the conjunction of these properties with what makes them inductive: each
critical section has moved everything to one place, so nothing waits in the buffer while
a payload is posted (`PhaseOK`); the i-th check that is held is at least i after the last
confirmed one (`HeldIsRecent`), which turns the length of what is held into a bound on
what an outage may measure; late requests carry measured checks only
(`SentIsMeasured`); and the size in force is between the smallest and the largest so
far (`SizesOK`). The simulation has a case per action: `BufferResults`, which keeps a
prefix, is the only one that sheds.

### The dashboard

`Dashboard_proofs` proves `DashboardTypes` (with it that refreshes do not overlap),
`ViewsOfOneRefresh` (`ShownTogether`) and `PageNeverGoesBack`, for any requests, machines
and numbers of changes and failures, if the time-out is below the interval (5 s and
10 s in the code). `DashboardInv` ties the age of the open refresh to the timer and
bounds the ages of its answers by it (`RefreshOK`), which makes what is drawn together
belong together, and orders the revisions from the page over the answers received to
the leader (`RevisionsOK`): this order holds because a refresh starts after the one
before has drawn, the only thing that keeps old answers off the page.

### The Python programs

`PyMesh_proofs` proves `PyTypes`, `NewestIsKept` and `DaysAreShown` for a deque of any
size, any windows (the raw one within the retention) and any number of processes. Times
start above zero, which stands for "not measured". `PyInv` compares the last cycles and
the deque from their ends (`RecentOK`): what is in the one and beyond the other was
accepted; and it says where an accepted check is, in memory, in a file or lost with its
process, and that loading and ageing leave each day of the retention its evidence
(`LeaderOK`).

### The check cycle

`CheckCycle_proofs` proves `CycleTypes`, `ChecksBounded`, `ChannelSafe`, `CyclesEndClean`
and `ResultsComplete` for any targets, numbers of peers and extra targets, and any
semaphore of at least one token. `CycleInv` says why: the WaitGroup counter is the
number of workers that have not passed `wg.Done` and the semaphore the number of those
that hold a token (`Counted`); the workers begun are the first `spawned` (`Started`);
`ch` is closed only after all have begun, with the counter at zero (`Phases`); and a
result that was sent is in `ch` or in its place in `results` (`Delivered`). The counting
steps rest on the library's facts about the cardinality of finite sets.

### The push protocol

`PeerPush_proofs` proves `PushTypes`, and, assuming that no request has a bad
`buffer_size`, `NoChangeLost`: `QuiescentInSync` for any nodes and clients and any
number of updates, failing pushes and restarts. `PushInv` accounts for every difference between leader
and node: a node that can be reached has the leader's values, or a handler or a
token will cause another round, or the round under way has yet to read the values for
it (`ChangeIsOwed`). A push read before a change is followed by another round
(`StalePushIsFollowed`), which covers a node whose earlier push had failed, and the
only push awaited is the last one posted (`AwaitedIsPosted`).

`NodesNeverGoBack` (`NeverBack`) needs no such assumption. `PushIsNewest` says why: nothing
in flight or applied is newer than the leader's configuration, and while the round is at
a node, the values it has read so far are at least as new as the node's and as those of
any push to it still under way. A push that is awaited is the one of the round, so what
it brings is newer; only one that was given up can be older.

Nothing else is assumed of the instance. For `NoChangeLost`, without the assumption on `buffer_size`
TLC refutes `QuiescentInSync`: with `Sizes = {"none", "bad"}`, one node and one client,
a refused update leaves the leader with an interval no token announces.

### The mesh

`Mesh_proofs` proves `MeshTypes` and `KnownNodesInSync` (`RegisteredInSync`) for any nodes,
ports, URLs and extra targets and any number of updates, lost calls and restarts.
`MeshInv` adds that every entry, whichever handler wrote it, leads to its node's
listener (`AddressRight`: the default port a submit writes does no harm, because such
a node has a URL and pushes go there), and that between rounds every node
the round is not about to reach has the leader's configuration (`ChangeIsOwed`).

### Only model-checked

The liveness properties (`EventuallyDelivered`, `PeersConverge`, `ConfigArrives`,
`CycleEnds`, `MeshRecovers`, `PageCatchesUp`): they rest on fairness, so on ENABLED, which
is out of the prover's reach. All invariants, action properties and refinements of the
passing runs are proved. Each inductive invariant was model-checked on the instances of
the runs before it was proved.

## Disagreements between documents and code

Four have a violation run each, described with its quotation under `findings` in
`PROJECT.json`:

* `late_results`: results that reach the leader after the flush that follows their
  measurement are never written;
* `restart_doubles`: a restarted leader writes what it loaded once more and counts it
  twice after the next start;
* `wrong_port`: a submit with a URL registers the node with the leader's default port,
  where its peers then check it;
* `cached_data`: the indicator says "showing cached data" (`main.ts:99`), and the
  documents ask to "keep stale data visible", but a refresh without answers draws empty
  lists, so the page goes blank.

The others were met while modelling and have no run of their own:

* the extra mark is lost on load (`persistence.go:137`), so after a restart checks of
  extra targets count for the pair status, from which `README.md:84` excludes them;
* a failed write is not retried: the Go leader moves on (`persistence.go:224`), the flush
  task of the Python leader ends, although
  `.planning/milestones/v0.1-phases/03-CONTEXT.md:27` says "retry next cycle"; `failed` and
  `lost` excuse it;
* the Python leader writes everything in memory at each flush, so a line is repeated
  every hour and counted as often after a restart; its 90-day answer leaves out what
  is raw of a day that has aggregates; a Python node that gets no node list at all
  does not check, so has nothing to buffer for a leader that is down;
* a refused configuration update has been half applied (`handlers.go:169`);
* a full node buffer keeps the oldest results of what it holds (`node.go:104`), where the
  Python node's deque keeps the newest;
* `WrittenOnce` needs `Skew = 0`: a check stamped one second ahead of the leader's clock
  is written by two flushes;
* a day of 23 hours can be skipped and one of 25 read twice (`DaysReadOnce` bounds it to
  those days);
* from 2000 checks on, 5.5 hours at the default interval, a bucket with a failure can
  show 100 % (`FailureShows` holds below);
* nodes without a URL stay unknown to a restarted leader until they are started again,
  and without one node that has a URL and extra targets the mesh may stay empty (the
  precondition of `MeshRecovers`);
* the Go leader answers statuses as `src_ip`, `dst_ip`, `type` and `ok` (`models.go:44`),
  one for each kind of check; the matrix and the cards look for `node_ip`, `target_ip`,
  `ping_status` and `http_status` (`types.ts:17-22`, `matrix.ts:6-8` and `48`), so the
  matrix draws every pair as pending. The models abstract from the fields of an answer.

## Not modelled

* Of the Python programs: registrations and pushes (several may overlap, unlike in the
  Go leader), the 90-minute and 90-hour answers, `calculate_status`, requests handled
  after the node has given them up, and the end of a node process.
* What the dashboard's views make of an answer (dots, cards, bars, uptime map):
  functions from one answer to HTML, without state that lasts; and its tabs.
* Hostname and last-seen time of a registry entry, which nothing reads; the order
  of the entries of an answer.
* `ping` and its output, latencies, serving of static files, installation scripts.
* Signals and the order of a node's shutdown: its buffer is in memory only and goes
  with the process.
* Lost request bodies, malformed JSON and HTTP status texts: a request is well-formed
  or is refused before it changes any state.

## Plan

Done: all modules, and proofs of every safety property the runs check. What is left, in
this order:

1. theorems that say more than the runs: `Ledger` for a bounded skew, with what a clock
   that runs ahead costs stated; that `PyMesh` implements an abstract promise of its own;
2. the overlapping pushes of the Python leader;
3. end-to-end delivery, composing `Outbox` and `Ledger`.
