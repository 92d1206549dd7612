# BitBake in TLA+

The repository is a build environment for hvisor images: a copy of Yocto's *poky*
(`bitbake/`, `meta*/`, `scripts/`, `documentation/`) and a few shell scripts that call it
(`start.sh`, `build_linux.sh`, `build_rootfs.sh`). The program in it, with state, processes
and messages of its own, is **BitBake** (`src/bitbake`): a server reads recipes, derives a
graph of tasks and has workers execute it; clients send it commands and watch its events.
This project models that program. The recipes under `meta*/` are its input, the scripts
around it are sequential text processing.

Contents

1. [The system](#1-the-system): components, state, interactions, what is hard
2. [The modules](#2-the-modules) and how they correspond to the code
3. [The runs](#3-the-runs): questions, bounds, results
4. [Fairness](#4-fairness)
5. [Proofs](#5-proofs)
6. [Findings and divergences](#6-findings-and-divergences)
7. [What is not modelled](#7-what-is-not-modelled)
8. [Plan](#8-plan)

To check a run, `tlc -config <cfg> <module>` with the names of section 3; to check proofs, `tlapm`
on each of `LockfileProofs.tla`, `RunQueueProofs.tla`, `RunQueueSceneProofs.tla`,
`HashServProofs.tla`, `BitbakeWorkerProofs.tla`, `ServerProofs.tla`, `CookerParserProofs.tla`,
`PRServProofs.tla`.

## 1. The system

```
   UI clients  --commands-->  bitbake server (cooker)  --runtask...-->  bitbake-worker
   (knotty,..) <--events----  RunQueue, one thread     <--events,code-  forks one process
                                 |      |      |                        per task
                 PR server <-----+      |      +-----> hash equivalence server
                                 parser processes      (also asked by other builders)
         all of them: lock files, sqlite tables and cache files on one disk
```

Paths are relative to `src/bitbake`. *M* marks what is modelled now.

| component | state it keeps | operations | talks to |
|---|---|---|---|
| File locks *M* (`lib/bb/utils.py` 453-531) | a file at a path, open descriptors, `flock`s | `lockfile`, `unlockfile`, death of a holder | everybody who shares files: server start, fetchers, caches, tasks with `[lockfiles]` |
| Run queue execution *M* (`lib/bb/runqueue.py` 1263-2672) | two queues of tasks (scene queue, run queue), counters, hashes, pending migrations, stamps | `execute_runqueue`, task results, new unihashes, stop requests | workers, hash server, metadata callbacks, UI |
| Worker *M* (`bin/bitbake-worker`, `runqueue.py` 1258-1390, 3045-3114) | queue of bytes from the server, `build_pids`, `build_pipes`, reply queue of a second thread, one process per task | runtask, newtaskhashes, finishnow, quit, SIGTERM, reaping | server by two pipes, tasks by a pipe each |
| Hash equivalence server *M* (`lib/hashserv`) | table `tasks_v2`, connections | get, report, report-equiv | the builders' signature generators |
| Signatures, unihashes *M in part* (`lib/bb/siggen.py`) | `taskhash`, local `unitaskhashes`, `unihash` of each task | `get_unihash`, `report_unihash`, `report_unihash_equiv` | run queue, hash server |
| Task graph construction (`runqueue.py` 415-1256) | the graph, weights, setscene data | `prepare` | task data, cooker |
| Schedulers (`runqueue.py` 119-404) | priority lists, buildable list | `next` | run queue |
| Server process and clients *M* (`lib/bb/server/process.py`, `lib/bb/main.py`) | `bitbake.lock`, socket, queued connections, idle functions | start, accept, idle loop, exit, client retry | UI clients, cooker |
| Commands, cooker state *M in part* (`lib/bb/command.py`, `lib/bb/cooker.py`) | `state` (initial, parsing, running, shutdown, ...), the one asynchronous command | sync and async commands, `shutdown`, `clientComplete` | server loop, run queue |
| Parser processes *M* (`lib/bb/cooker.py` 1898-2260) | jobs, result queue with its threads, write lock and pipe, quit queue | parse, shutdown | cooker |
| Events, UI queues *M in part* (`lib/bb/event.py`, `lib/bb/ui/uievent.py`) | handlers, queue before a UI exists, per-UI queue with a condition | fire, register, wait | every component |
| PR server *M* (`lib/prserv`) | table of revisions, uncommitted transaction, request queue | `getPR`, export, import | `package.bbclass` of builders |
| Shared caches *M in part* (`lib/bb/cache.py` 777-877, `codeparser.py`, `checksum.py`) | a cache file, one file of extras per process | `save_extras`, `save_merge` | parsers, file locks |
| Persistent data (`lib/bb/persist_data.py`) | sqlite tables | get/set | fetchers, hash server's clients |
| Disk monitor *M in part* (`lib/bb/monitordisk.py`) | thresholds, what was already reported | `check` | run queue |
| Data store, parsing, providers, fetchers, UIs, Toaster, metadata, scripts, vendored libraries | - | text and data processing, network I/O, web pages | - |

### What makes each component hard, and what makes it correct

**File locks.** The lock is a file its holder removes. `flock` locks an inode, callers mean a
path: between open, flock, stat, and another process's unlink, the inode can be replaced. A
reader promotes its lock before unlinking and may lose it. Correct: two holders are both
readers; the file of a holder stays at the path; somebody always gets the lock.

**Run queue execution.** One thread, but two queues that decide about the same tasks, results
in any order, hashes that change under tasks already decided, failures with and without
`--continue`, stop requests, deferrals that wait for each other. Correct: a task runs once,
after all it depends on, with its inputs there; a package is not unpacked while what it
stands for is being built; decisions are made once and are not contradicted by later hashes;
the build ends, and Complete and Failed mean what they say.

**Worker.** Three kinds of processes and two threads connected by pipes that fill up, events
that must come before the exit code, `waitpid(-1)` at two places, signals sent to groups that
may not exist yet, and either end dying at any point. Correct: nothing lost, nothing doubled,
nobody waits for ever, no task survives its worker unnoticed.

**Hash equivalence.** Builders that share nothing but the server report, lose answers, and
report again; one request changes what another is told. Correct: one output has one unihash,
and what has been said of a taskhash or an output stays true.

**Server, commands, events.** A client that connects while the server is leaving, or gives up
while it is still queued; a lock that outlives its owner in the processes it has forked; a
client that leaves and resets the state while the idle function of its command goes on; events
fired when nobody is there. Correct: one server per build directory, whose socket is the one at
the path; an accepted command has its end; a stop that was acknowledged is obeyed; whoever has
connected is answered or disconnected, and whoever waits for an end gets one.

**Parsers and the cache they share.** Joining a process that still has results for a full pipe;
a parser killed with the lock under which all write, in the middle of a result, or between two
steps of saving; a forced shutdown, which waits for nobody, so that parsers go on and save
behind the server's back. Correct: every recipe is counted once; a shutdown that was not forced
leaves nothing of the parsers, since what is left keeps `bitbake.lock`; what a parser found is in the
cache or waits whole for the next merge; parsing and its end come to an end, but for the hangs
that killed and blocked writers cause, which are named.

**PR server.** Two threads on one database connection, answers sent before the commit, signal
handlers that commit between two statements of the other thread. Correct: the numbers rise
and none is given to two outputs; what was answered is committed before the next request;
a server told to quit ends, as long as the threads it needs for that have not been ended by
a signal before.

The hazards are listed one by one, each with its line and the properties that cover
it, in `PROJECT.json`.

## 2. The modules

| module | what it is | code |
|---|---|---|
| `RWLock` | abstract: a readers/writer lock named by a path | what callers of `lockfile` rely on |
| `Lockfile` | `lockfile`, `unlockfile`, one action per system call; implements `RWLock` | `utils.py` 453-531 |
| `SceneGraph` | the task graph, and the scene queue's graph in closed form | `build_scenequeue_data` 2691-2875 |
| `TaskOrder` | abstract: a task starts once, after what it depends on | what a build promises |
| `RunQueue` | `RunQueueExecute` and the loop that calls it; implements `TaskOrder` | `runqueue.py` 1263-2672, 2877-2928 |
| `TaskService` | abstract: a task sent reports events, then one exit code | what the run queue counts on |
| `BitbakeWorker` | server end, worker with two threads, processes; implements `TaskService` | `bitbake-worker`, `runQueuePipe` |
| `UnihashMap` | abstract: two maps written once, requests that may arrive late | what builders count on |
| `HashServ` | server table, connections, builders; implements `UnihashMap` | `hashserv`, `siggen.py` 448-633 |
| `ServerProcess` | clients, servers, `bitbake.lock`, socket, commands, cooker state | `process.py`, `main.py` 377-475, `command.py`, `cooker.py` 185-215, 316, 1380-1470, 1640-1670, `event.py`, `knotty.py` |
| `CookerParser` | parsers, result queue, quit queue, shutdown, cache files | `cooker.py` 1898-2180, `cache.py` 777-877 |
| `PRServ` | the two threads of the PR server, its table, signals, restarts | `prserv/serv.py`, `prserv/db.py` |
| `MCRunQueue`, `MCHashServ` | graphs, sets and symmetries for TLC | - |
| `LockfileProofs`, `RunQueueProofs`, `RunQueueSceneProofs`, `HashServProofs`, `BitbakeWorkerProofs`, `ServerProofs`, `CookerParserProofs`, `PRServProofs` | theorems and proofs; `RunQueueSceneProofs` extends `RunQueueProofs` with what takes the scene queue's decisions into account | - |

`BitbakeWorker` and `RunQueue` meet at `TaskService`: the events and exit codes that the
former delivers in order are the actions `SceneExit`, `TaskExit`, `TaskExitFails` and
`TaskRehash` of the latter. `HashServ` justifies what `RunQueue` assumes about hashes: nothing
but that a task in `Rehashing` may report any of them. `ServerProcess` takes `bitbake.lock` in one
step, which is what `Lockfile` implements; its idle functions `run` and `build` are the life
of `CookerParser` (which is `Parse`, step by step) and of `RunQueue`. What `CleanEnd` says of the parsers,
that none is left, has as its exceptions what the variable `lost` of `ServerProcess` keeps: parsers
that outlived a forced shutdown, and those of a `CookerParser` that was forgotten.

### Lockfile

`pc[p]` is where process `p` is between `open` and `close`, `fd[p]` the inode behind its
descriptor, `mode[p]` the flock it has, `disk` the inode at the path. `Call` takes the three
arguments from the caller; `Open`, `Flock`, `FlockFails`, `Exists`, `Compare`, `Drop`,
`ReturnNone`, `Unlock`, `Unlink`, `Close` are the system calls in their order, `Crash` is the
death of a process at any of them (the kernel drops descriptor and lock, the file stays).
A fresh inode is any that is neither open nor at the path, so inode numbers are reused, as
file systems do.

### RunQueue

`execute()` is called again and again by the server's idle loop. It is one thread, so a call
is a sequence of stages (`phase`): read the pipes, act on new hashes
(`process_possible_migrations`), look at one setscene task, update the holdoff sets, start
one ordinary task, or find that there is nothing to do. Each stage is an action per
outcome, and the actions have the names of the functions or of what they decide: `Rehash`,
`Migrate`, `UpdateMigrated`, `SceneNotNeeded`, `SceneFails`, `SceneCurrent`, `SceneStart`,
`UpdateHoldoff`, `SceneDone`, `TaskNotAllowed`, `TaskSkip`, `TaskNoExec`, `TaskStart`,
`WaitForActive`, `BreakDeferral`, `Finished`. Variables keep the names of the attributes
(`runq_buildable`, `tasks_covered`, `holdoff_tasks`, ...), `sq` gathers those of the scene
queue (`sq_live`, `scenequeue_covered`, ...). Where the code walks a list sorted for
reproducibility and takes the first element that fits, the model takes any that fits: what
holds of the model holds for every order. Whether the cache has an output
(`BB_HASHCHECK_FUNCTION`) and whether a dependency is needed by a setscene task
(`BB_SETSCENE_DEPVALID`) are the metadata's answers and left open.

What comes from outside is in `outside`. `Call(stop)` is the user's stop request. `DiskFull` is
the disk monitor, which between two calls does what a request does, once for each of its two
actions. `WorkerDies` is one of the worker processes (there is one for each
multiconfig, and more for fakeroot) that exits: what it had in hand is never reported.
`pipe.read()` looks at all of them before it reads, so that each action that begins to read takes the
state through `Polled`, which is `finish_now()`; `NoticedAgain` is the same for the
pipes read after the first. Three writes to a worker are not protected: new
hashes, a setscene task, a task. Before the death is noticed they raise a `BrokenPipeError`, which
`execute_runqueue()` turns into the end of the build (phase `raised`). As the server cannot tell
which tasks the dead worker had, the model lets results come from any of the others, or none.

A stamp is its base, its kind and its hash; times are not modelled. `SceneGraph` gives the
scene queue's graph (`sq_revdeps`, `sq_harddeps`, `sq_covered_tasks`, `unskippable`) as least
sets with a property, not by the collapsing loops of the code.

### BitbakeWorker

`cmd` and `pipe` are the two pipes with the server, `out[t]` the pipe of task `t`. The main
thread's `pc` goes round select, handlers, pipes, reap; its `queue` is the byte queue as a
sequence of items, and `AfterItem` models that `handle_item` looks at the start of the queue
once and then takes everything up to the next end tag. A loop over the tasks is one step per
task: `Pipes` over what `select` found (`ready`), `Kill` with `Wait`, and then `Drain`, over `left` in
`handle_finishnow`. `Flush` is the second thread. The life
of a forked process is `forked`, `bound` (has asked for SIGTERM when its parent dies), `leader`
(`setsid`), `working`, dead but uncollected (`exited`, `killed`), `gone`.

### HashServ

One task and one method: taskhashes of different tasks share no rows. `rows` is the table in
the order of its ids; the handlers are operators from the table to a table and an answer, as
the code runs each of them, its commit included, without yielding. A builder sends, and has
in `req`, one request at a time; `_send_wrapper`'s attempts are `Again` and `GiveUp`, and what
was sent over a connection that the client closed stays in `stray` until the server reads
it or does not. The builder's phases are the three callers in `siggen.py` and the one in
`process_possible_migrations`. A unihash is a taskhash, as only taskhashes are ever
proposed. In `UnihashMap` a request takes effect once between call and return; one that was
sent again or given up may take effect once more at any later time, and that is harmless
because the maps are written once.

### ServerProcess

`cl[c]` is a client: `pc` follows `setup_bitbake()` (`try`: take the lock; `start`, `ready`: fork a
server and wait for its word; `look`, `waitlock`, `unlock`: a server is there or is going;
`connect`), then `connectProcessServer()` (`reply`, `closing`) and the UI (`setup`, `sent`, `wait`,
`stopping`; `leaving` for `bitbake -m`). `Retry` is the `except` clause around one attempt. `sv[s]` is a
server: its `pc` goes round `accept`, `control`, `command`, `idle`, and `ready` is what the `select` at
the end of the last round found, which is all that a round looks at. `backlog` are connections
not yet accepted, `queue` is `controllersock`'s queue of accepted ones, served newest first, `control` the
client in charge, `pipe` the commands it has written. A closed connection is `Gone` in all
of these (`Departed`), and the server notices when it next reads.

`RunCommand` gives, for each command and state of the cooker, the possible states and replies;
`buildTargets` sets the asynchronous command and the idle function `run`, which is
`runAsyncCommand()`: one call of `updateCache()` (`Parse`), then the command, which leaves `build` behind.
`Finish` is `finishAsyncCommand()`, and `Tell` the end event. `held` is an end event kept for the next
UI (`event.py` 192-220). `Quits`, `UnlinkSocket`, `CookerShutdown`, `CloseLock`, `Relock` are the end of
`ProcessServer.main()` and of `BitBakeServer`'s child in their order. `lost` are servers whose parser
processes nobody waits for: they inherited the descriptor of `bitbake.lock`, and keep it. They are
forgotten when a new `CookerParser` takes the place of theirs, or left by a forced shutdown
(`MayLeaveParsers`: `stateForceShutdown`, an error of the parsing, the end of a server whose
parsing goes on).

### CookerParser

`parser[p]` is a process: `jobs` it has still to do, the `job` in hand, `buffer` what it has put into the
queue and its thread has not begun to write, `found` what its caches hold. The thread takes the write
lock that all parsers share (`writing`), writes a result in two parts (`WriteFirst`, `WriteRest`;
`sent`), as a message is its size and its bytes, and gives the lock back. `pipe` are the results of
which something is in the pipe, `reading` that the server has the first part of the first one;
`InPipe` counts parts, of which `Capacity` fit. `Die` is a kill at any point: the lock, and half a
result, stay as they are. `flush` is `results.join_thread()`, `save` the two halves of
`save_extras()`, of which the first leaves a file that cannot be read.

`main` is the server: `parse` (`parse_next`), `drain`, `join`, then the merge. `Shutdown` puts one
order to quit per parser, which a `get_nowait()` may miss (`StartJob` does not look at `tokens`).
`get()` has a timeout only until it sees something (`GetBegins`), and then waits for the rest without
one (`GetEnds`). `Drained` is the 0.25 s in which nothing comes, possible whenever the pipe is
empty, whatever the parsers have yet to put. `Joined` is the loop of joins: without limit, or, when the shutdown
is forced, no condition at all. `join(.1)` returns in any case, and the SIGTERM of
`terminate()` meets the handler that a parser has inherited from the cooker (`cooker.py` 232,
309-314) and does not reset: it sets a state nobody in the parser looks at. A parser that was busy goes
on: it finishes its recipe, gets its order to quit, writes what it can, and saves, before, after or
while the server merges, which the lock `cachefile.lock` keeps apart (`Unlocked`). `Stopped` names
the states in which the server is done or hangs, so that the check for deadlocks covers any other.

### PRServ

`rows` is the table as the connection sees it, `disk` as committed, `tx` whether a transaction
is open, `dirty` the table's own flag. A sync is a commit and a `BEGIN`, two statements
between which the other thread may run; `BEGIN` inside a transaction raises, which ends the
thread it is raised in (`SyncBegins`, `SignalRaises`). The variables of `history` are not in the code: they
record what was answered, so that `NumbersRise` can be said. The number of a row that is not the
highest is replaced on the next request (`getValue`), as in the code without history.

## 3. The runs

All were run with `tlc -workers 2`; states are distinct states. Every property has a mutant of
a modelled definition that breaks it in the same run (`PROJECT.json`, "mutants").

| run | module, cfg | states | question and answer |
|---|---|---|---|
| `lockfile` | `Lockfile`, `Lockfile.cfg` | 51 000 | two processes with any arguments, crashes anywhere: `LockSafety` (at most one writer, the file of a holder stays), it implements `RWLock`, and the retry loop always lets somebody in (`SomebodyGetsIt`) |
| `runqueue` | `MCRunQueue`, `RQTool.cfg` | 527 000 | two recipes, an image with nothing to run, a tool that setscene variants depend on; `--continue`, failures, stop requests, full disks, changing hashes: order (`OrderSafety`, `ImplementsTaskOrder`), inputs (`InputsAvailable`), decisions (`DecidedOnce`), the end (`FailedHasReason`, `NothingLeftBehind`, `BuildsWhatItCan`) |
| `runqueue_migrations` | `MCRunQueue`, `RQLate.cfg` | 71 000 | a package that covers three tasks, of which two were asked for and one changes its hash as it runs, and a worker that may die: `Isolation`, `CompleteMeansBuilt`, `DecisionsStand` (what was passed over is not asked for again) |
| `runqueue_twins` | `MCRunQueue`, `RQTwin.cfg` | 73 000 | one recipe in three multiconfigs with one hash, two of which share work directory and stamps: `OneAtATime`, `DistinctStamps`, and every build ends (`Ends`) |
| `runqueue_settings` | `MCRunQueue`, `RQSettings.cfg` | 123 000 | one thread, setscene enforcement, `--force`, pressure, stop requests, full disks, a worker that may die: `ThreadLimit`, `ForcedTargetsRun`, and the build ends (`Ends`) |
| `worker` | `BitbakeWorker`, `Worker.cfg` | 727 000 | two tasks, one of which changes hashes, ordinary and forced ends, death of the server or of the worker at any point: `WorkerSafety` (each task is accounted for, nothing is lost), `HashesCurrent`, `ChildrenKnown`, `ImplementsTaskService`, `EndIsReported`, `NobodyBlocks` |
| `hashserv` | `MCHashServ`, `HashServ.cfg` | 870 000 | two builders, three taskhashes with outputs that vary, answers lost, requests repeated, given up and late: `HashSafety`, `UnwantedOnlyAfterFallback`, `ImplementsUnihashMap` |
| `server` | `ServerProcess`, `Server.cfg` | 183 000 | two clients, one of which may be killed and the other may be `bitbake -m`, two servers, one of which may be killed: one server at a time (`ServerSafety`), commands (`CommandKept`), stops (`StopHonoured`), answers (`ClientHeard`), ends (`UIComesBack`) |
| `parsing` | `CookerParser`, `Parsing.cfg` | 306 000 | two parsers, either of which may be killed at any point, three recipes, a pipe that one result fills, errors, a stop at any time: every recipe counted once (`ParsingSafety`), none left after an ordinary shutdown and nothing saved that is lost (`CleanEnd`), `ParsingEnds`, `ShutdownEnds` |
| `prserv` | `PRServ`, `PRServ.cfg` | 508 000 | two checksums, imports, both signals at any time, kills and restarts: `PRSafety` (numbers rise), `AnswersCommitted`, `QuitEnds` |
| `runqueue_both` | `MCRunQueue`, `RQTwinBoth.cfg` | - | violates `DecidedOnce`: finding 1 |
| `worker_garbled` | `BitbakeWorker`, `WorkerGarbled.cfg` | - | violates `EndsWhenTold`: finding 2 |

A property that is the conjunction of a module's type invariant and its safety invariants
(`LockSafety`, `OrderSafety`, `WorkerSafety`, `HashSafety`, `ServerSafety`, `ParsingSafety`,
`PRSafety`) is split again in its module, where each part has its own name and comment; so is
`DecisionsStand`.

### Why the bounds are enough

*Lock.* Two processes and three inodes: one process that releases and one that waits make
every stale inode, and a fresh one is left. The worst case of safety needs three processes
(one that releases, one that has locked the old inode, one that has created a new file);
three together with progress exceed five minutes, and the safety part and the refinement
are proved for any number. There is no symmetry, which is unsound for liveness.

*Run queue.* The graphs are the smallest in which the decisions meet: a setscene task that covers
several tasks; a task needed by a covered and by an uncovered one; explicit setscene dependencies;
twins that share hash and stamp; targets in the middle of the graph. The properties are also proved
for every graph, under the hypotheses of section 5; what is left to TLC alone is `Ends`, twins in
threes, twins whose hashes change, and the end under enforcement. Two hashes suffice as a change and
a change back are the cases. `MaxUnderflow` bounds how far `stats.active` is followed below zero (a
task failed under enforcement without having been started decrements it), and is not reached in the
passing runs without enforcement. One death is enough: a second one finds the build being ended.
`Ends` is checked twice, for the deadlocks of deferrals (`runqueue_twins`) and for what ends a build
from outside (`runqueue_settings`).

*Worker.* Two tasks give every pair of ages and fates; a server pipe of one reply and a
command pipe of two items make both ends block; `MaxHashes` = 1 gives the one change that can
fall between two runtasks. Either end may be killed but not both in one behaviour: after
the death of one, the death of the other leaves nothing to be checked but the orphans, which
`OnlyElderOrphans` covers.

*Hash equivalence.* Two builders with two builds each suffice for a repeated report that
comes after another builder's; three taskhashes let the unihash of an output, the builder's and
the other's all differ. `Tries` is 2 instead of 4, as the third and fourth attempts repeat
the second; two values of the clock give rows of one time and rows of different times; one
stray request at a time. The theorems of section 5 do without all of these bounds.
Deadlock is not checked there (`CHECK_DEADLOCK FALSE`): builders stop after `MaxBuilds`
builds. All other passing runs check it.

*Server.* Two clients are the one that starts a server and the one that finds it; two server
identities are one that goes and one that comes, as an identity that has ended is used again.
`Tries` is 1: an attempt that fails is repeated from its beginning, with the other processes in
any state, which is a state another client may be in; the safety theorems hold for any
number of attempts. `Timeout` FALSE is the default, in which the server leaves with its last
client. One client may be killed at any point, and one server.

*Parsing.* Two parsers and three recipes, so that one parser has two of them and is ended between
them; a pipe of two parts, which one result fills, so that a thread waits for room between two
results and within one, and a join may wait for a thread that has no room; either parser may be
killed, or both. All the exceptions of `ShutdownEnds` are reached: half a result read in the
drain, a join of a parser blocked by a full pipe with nobody dead, one of a parser that waits for
a dead one's lock. So are a parser that saves after the merge, one that is stuck after it, and a
merge that fails in an ordinary shutdown.

*PR server.* Two checksums are what a number can be shared by; a table up to `MaxValue` = 2 has a
row passed by another and raised again over it; an import of 1 makes two rows equal; two
requests on the way let one wait while the other is worked on. The number of restarts,
signals and kills is not bounded.

## 4. Fairness

*Lock* (`FairSpec`): each process that is in a call or has the lock takes its steps (weak
fairness per process), as the kernel schedules it and callers release in a `finally` clause or
after a short section; no process is obliged to call. `SomebodyGetsIt` also assumes that
crashes stop some time: processes that die one after the other for ever do keep a waiter out.

*Run queue* (`FairSpec`): weak fairness of what the server does on its own, as its loop calls
`execute_runqueue` whenever it was told to come back, and strong fairness of the exit of
each task: a task ends some time, and its result is read, although not in every round.
Once a worker has died that is not assumed of any task, so that `Ends` then rests on the death
being noticed. Nothing obliges a task to succeed, a hash to change, a user to stop or a
worker to die.

*Worker* (`Fairness`): the server's write, read and return from `_teardown_worker`, the
worker's main thread, its second thread, and the delivery of a SIGTERM that was sent. A task
is *not* assumed to end. Therefore `EndIsReported` says that a task that did end is reported
although the others hang, and `WorkerGoes` that forced ends work on tasks that hang.

*Server* (`FairSpec`): weak fairness of each client (which reads its replies, events and the end
of its connection; not of Ctrl-C, a kill, or of giving up after 60 s) and of each server's loop; and
strong fairness of what ends some time although not in every round: parsing, a build, the time a
server waits for a first UI. A client that has connected is therefore heard without its 60 s.
`ClientHeard` excepts parser processes that nobody waits for, which keep the lock from the server that
wants to end (section 6).

*Parsing* (`FairSpec`): weak fairness of each parser, of its queue's thread, and of the server. A
recipe is parsed in finite time. Kills and stops are not obliged to come. Threads that wait for the
write lock are not promised that they ever get it (weak fairness does not, when it comes and goes);
there are finitely many results, so none needs it.

*PR server* (`FairSpec`): weak fairness of both threads; strong fairness of the main thread's
return from its loop and of its end, and of its passing on of a request, since
signals may come for ever, but each is handled, and the thread is not interrupted by one at every
chance it has to go on. While a signal is handled the main thread takes no other step.

*Hash equivalence*: no liveness is claimed. The attempts are counted, so a builder cannot
wait for ever by construction.

## 5. Proofs

| theorem | states | for |
|---|---|---|
| `LockfileProofs!LockSafetyTheorem` | `LockSafety` | any processes, inodes, crashes |
| `LockfileProofs!RefinementTheorem` | `ImplementsRWLock` | same |
| `RunQueueProofs!OrderSafetyTheorem` | `OrderSafety` | every graph, setting, order of results, user |
| `RunQueueProofs!OrderTheorem` | `ImplementsTaskOrder` | same |
| `RunQueueProofs!EnforcementTheorem` | `EnforcementHolds`: under enforcement only listed tasks run | same |
| `RunQueueProofs!CompleteTheorem` | `CompleteMeansBuilt` | same |
| `RunQueueProofs!ThreadTheorem` | `ThreadLimit` | `~Enforce` |
| `RunQueueSceneProofs!IsolationTheorem` | `Isolation` | every graph, setting, order of results, user |
| `RunQueueSceneProofs!NeverTooLateTheorem` | `NeverTooLate` | same |
| `RunQueueSceneProofs!FailedTheorem` | `FailedHasReason` | `Acyclic`, `SceneAcyclic`, `SetsceneOnly => Setscene # {}` |
| `RunQueueSceneProofs!NothingLeftTheorem` | `NothingLeftBehind` | `Acyclic`, `~Enforce` |
| `RunQueueSceneProofs!ContinueTheorem` | `BuildsWhatItCan` | those of `FailedTheorem`, `~Enforce`, no `[number_threads]` |
| `RunQueueSceneProofs!DecidedOnceTheorem` | `DecidedOnce` | behaviours without one of three steps (`DecidesTwice`) |
| `RunQueueSceneProofs!DecisionsTheorem` | `DecisionsStand` | same, `OneLayer` |
| `RunQueueSceneProofs!InputsTheorem` | `InputsAvailable` | same, `OneLayer` |
| `RunQueueSceneProofs!UniqueTheorem` | the last three | every behaviour; `Rehashing = {}`, `UniqueIndex`, `OneLayer` |
| `RunQueueSceneProofs!DistinctTheorem` | `DistinctStamps` | `Rehashing = {}` |
| `RunQueueSceneProofs!OneAtATimeTheorem` | `OneAtATime` | `Rehashing = {}`, `Pairs` |
| `RunQueueSceneProofs!ForcedTheorem` | `ForcedTargetsRun` | `EnforcesTasksOnly`, `FreshTargets` |
| `RunQueueSceneProofs!SceneAcyclicTheorem` | `SceneAcyclic` | `Acyclic`, `OneLayer` |
| `HashServProofs!HashSafetyTheorem` | `HashSafety` | any builders, hashes, attempts, late requests, clock |
| `HashServProofs!MapTheorem` | `ImplementsUnihashMap` | `~SetBack` |
| `HashServProofs!UnwantedTheorem` | `UnwantedOnlyAfterFallback` | `~SetBack` |
| `BitbakeWorkerProofs!WorkerSafetyTheorem` | `WorkerSafety` | any tasks, sizes of the pipes, changes of hashes, deaths |
| `BitbakeWorkerProofs!HashesCurrentTheorem` | `HashesCurrent` | same |
| `BitbakeWorkerProofs!ChildrenKnownTheorem` | `ChildrenKnown` | same |
| `BitbakeWorkerProofs!ServiceTheorem` | `ImplementsTaskService` | same |
| `ServerProofs!ServerSafetyTheorem` | `ServerSafety` | any clients, servers, attempts, kills, time-outs |
| `ServerProofs!CommandKeptTheorem` | `CommandKept` | same |
| `ServerProofs!StopTheorem` | `StopHonoured` | same |
| `CookerParserProofs!ParsingSafetyTheorem` | `ParsingSafety` | any number of parsers and recipes, any pipe, any deaths |
| `CookerParserProofs!CleanEndTheorem` | `CleanEnd` | same |
| `PRServProofs!PRSafetyTheorem` | `PRSafety` | any checksums, imports, signals, kills, restarts |
| `PRServProofs!CommittedTheorem` | `AnswersCommitted` | same |

The assumptions are those named beside the constants, which TLC evaluates in every run:
`NoInodeAssumption` (no descriptor is not an inode), `GraphAssumption` (the shape of the graph;
*not* that it is acyclic), `RunQueueAssumption`, `WorkerAssumption` (the pipes hold something),
`HashServAssumption`, `ServerAssumption` (clients, servers and the two markers differ),
`ParserAssumption`, `PRAssumption` (`NoRow` is not a number).

**Lockfile.** `MutualExclusion`, the core of `LockSafety`, says nothing of the processes about to
hold the lock or about to unlink the file. The strengthening says which flock a process has at each
position (`ModeAtPC`), that flocks on one inode exclude each other (`FlocksExclude`), and that the
inode of a holder *or of the process about to unlink* is the one at the path (`HolderOwnsFile`): the
last is what the promotion before the unlink is for.

**RunQueue.** `IInv` has six parts: `FlowOK`, `FlagsOK`, `QueueOK`, `SceneOK`, `CoverOK`, `HashOK`.
`QueueOK` nests the sets of the run queue (in hand or complete, running, buildable) and
contains `DependencyOrder`, which only a completion can bring about. Lemmas on `UpdateCounters`,
`Skip`, `FailOutright` and `UpdateSceneData` say what these operators leave alone (`SameWork`), so
that each action needs to be looked at once. The order theorem follows from
`QueueOK`: a step that makes a task running finds it buildable. `CompleteTheorem` needs
that CleanUp, left alone, is entered with a failed task on record, and that only a death makes
`execute()` raise (`RaisedIsDeath`); `ThreadTheorem` needs that
the two counters count at least what is in hand, which is false under enforcement (below).

**RunQueue, the scene queue.** The theorems of `RunQueueSceneProofs` rest on a description of what
one call decides (`Decides`: which tasks, which become buildable, which ordinary tasks are done
with), shown once for each of the operators that decide, and on what takes decisions back
(`Reopened`).

- `IsolationTheorem`: `SInv` says that of the tasks an undecided setscene task stands for none is under way
  (`Quiet`), that what is at a worker is undecided, and that what is done with is closed downwards
  (`DoneClosed`). A migration waits until nothing it reopens is under way, which is the condition the code
  checks; that no ordinary task is started between the reopening and the next decision takes the
  set of held back tasks to be up to date whenever one is chosen (`FreshOK`).
- `FailedTheorem`, `NothingLeftTheorem`, `ContinueTheorem` are about the end. Everything a queue
  waits for is in hand, or there is something it can start: a set of tasks without a cycle has a
  first one. As long as nothing has failed the counters are what is in hand (`HandsInv`); a call
  that gets to a stage had nothing left to do in the one before (`StageInv`); and what has ended was
  empty or forced (`EndInv`).
- `DecidedOnceTheorem`, `DecisionsTheorem`, `InputsTheorem`: `CoverInv` (nothing is both covered and
  not, what is not needed is covered), `StandInv` (who needs it is covered too) and `AvailInv` (what
  is covered has a stamp, nothing to run, or nobody who needs it; what was skipped is covered).
- `DistinctTheorem`, `OneAtATimeTheorem`: `StillInv` says that without changes every hash and stamp
  stays the first one, nothing is reopened, and the stamps in hand are of different files; `TwinInv`
  that a deferred task waits for its twin and its twin for nobody.
- `ForcedTheorem`: `ForceInv`, that no target gets a stamp or is covered other than by having run.

The hypotheses, each with its reason in the code:

- `Acyclic`: `prepare()` ends with an error on a graph with a cycle (`runqueue.py` 597-615, 1053-1069).
- `SceneAcyclic`: the order of the scene queue mixes the order of the graph, reversed, with the
  explicit dependencies between setscene tasks, and nothing checks *that* order.
  `SceneAcyclicTheorem` shows that it follows when no setscene task others depend on explicitly
  depends on one itself (`OneLayer`). So it is in the metadata, where only `useradd.bbclass` 174-175
  and `sysvinit` declare such dependencies, on `base-passwd`, `pseudo-native`, `shadow-native` and
  `shadow-sysroot`, which declare none. `DecisionsTheorem` needs `OneLayer` itself: the middle of a
  chain is passed over as soon as the one it depends on is covered, whoever needs it.
- `SetsceneOnly => Setscene # {}`: where no task has a setscene variant `--setscene-only` ends in
  the sanity checks (section 6).
- no `[number_threads]` with `--continue`: a task that failed counts as under way for good (section 6).
- `~Enforce`: under setscene enforcement the counters are wrong and a build ends sooner (section 6).
- `[][~DecidesTwice]_vars`: no step is one of `ForcesCovered`, `FindsFailed` or `FailsFound`, the
  three ways in which what is decided is decided again the other way (section 6, finding 1 and the
  notes). The condition is exact: from a state in which `DecidedOnce` holds, a step decides twice
  exactly when `DecidedOnce` fails after it, which TLC confirmed on the four graphs. So the theorem
  is not that `DecidedOnce` holds, but that it has these exceptions and no others. `RQTool`,
  `RQLate` and `RQSettings` have no such step, `RQTwin` has the first. `UniqueTheorem` names
  constants under which there is none.
- `Rehashing = {}`: no task reports a new unihash, as without a hash equivalence server.
  `UniqueIndex`: no two setscene tasks of a recipe have one hash, as without multiconfig. `Pairs`:
  no three of them have one. That `Pairs` is needed TLC shows: of three twins whose configurations
  depend on each other crosswise, two run together after a deadlock of deferrals was broken.
- `FreshTargets`: `--force` gives the targets new hashes (`invalidate_task`, `runqueue.py` 908-920,
  1200), so no earlier build has left their stamps, and stamps are shared across multiconfigs only.
  `EnforcesTasksOnly`: what enforcement refuses are ordinary tasks; without it the theorem is false
  (section 6).

The hypotheses hold in the instances TLC checks the properties on (`Acyclic`, `OneLayer`,
`SceneAcyclic` and the absence of limits in all four runs, `~Enforce` in all but `RQSettings`,
`UniqueIndex` and `Pairs` in all but `RQTwin`, `EnforcesTasksOnly` and `FreshTargets` in
`RQSettings`), with one exception: `Rehashing = {}` holds in `RQSettings` only, while `OneAtATime`
and `DistinctStamps` are run in `RQTwin`, with three twins and changing hashes. There TLC and the
theorems cover different ground.

**HashServ.** The strengthening says that the rows of one output agree on its unihash
(`OneUnihash`), and that what a builder was told is what the table says (`ToldOK`). `HasOldest` is
part of the invariant: that a nonempty set of rows has an oldest one would need an induction over
the table; that an append preserves it does not. `HashSafetyTheorem` holds for any clock because all
rows of an output agree, so that the order in which they are found does not matter. `MapTheorem`
needs `TimeOK`, that no row is from the future: a new row is then not before any other. That is
exactly what a clock that is set back breaks. `UnwantedTheorem` needs `TimeOK` for the same reason:
`WantInv` says that what a builder knows of a covered task, if it is not the taskhash, is what the
table says of it, and that the answer to `report-equiv` is too.

**BitbakeWorker.** All that is on its way to the worker is one sequence (`Asked`: queue, pipe, the
server's hand) and all that is on its way back another (`Answers`: pipe, replies not yet sent), so
that a step leaves a sequence alone, takes its first element or puts something behind its last, and
the lemmas speak of places. `Accounted` says that a task is in *one* place; that it is in no two
follows from what is on the way being of the right tasks (`Asks`: a runtask is of a task not yet
forked, `Replied`: an exit code is of one that was collected and is the last of its task), and that
it is in one at all from `Somewhere`, which holds as long as nobody wants the end. `HashesCurrent`
needs `Tables`: the tables on their way are in order, newer than the worker's, and a runtask comes
after its own. For `NothingLost` the events a task has fired are cut in three (`Kept`): what the
server has heard, what is in `Answers` at increasing places, and what is in the task's pipe. That
cannot be said by filtering `Answers`, as a filter is recursive, hence the sequence of places. It
holds of a task even when the worker is gone, provided its exit code is on the way or has arrived:
what is lost with the worker then lies behind it.

**ServerProcess.** `OneServer` speaks of servers in their loop. The strengthening follows the lock
through everybody's hands (`LockOK`): a client that is about to start a server, or to give the lock
back, has it; a server has it from its fork until `CloseLock`, and up to the unlinking of the socket
the socket at the path is its own. Nobody else can then be in these places, and a server that is
there cannot lose the socket to another. `CommandKept` needs `ServerOK`, one clause per server: a
command and its idle function come and go in the same step, whoever is `control`, and `DataOK`, that
what the last `select` found is still there when the round gets to it. `StopHonoured` says nothing
of how a reply is known to answer a stop. `PInv` keeps that account for each client and server:
where the client waits, whether its command is in the pipe, in a server's hands, or answered, and
that it is the one it awaits the reply of (`Placed`, `Queued`, `Spoken`, `Working`, `Served`). A
reply to `stateShutdown` then means that the server is stopping (`Stopped`), and the only step that
begins a build is not taken while it is.

**CookerParser.** `EachRecipeOnce` compares a counter with a set, so what is proved is where a
recipe can be: among the jobs of its parser, in its hand, in its buffer, in the pipe, or taken, and
in one of these at a time. Whatever is received is then new, and `count` is the size of `parsed`
(`JobsOK`, `BuffersOK`, `PipeOK`, `CountOK`; `QueueOK` says what holds of the lock, the parts and
the pipe: half a result is the last one of the pipe, and its writer, alive or dead, has the lock).
`CleanEnd` needs `EndInv`: a parser that saves has a torn file, one that has ended by itself before the
merge a whole one. That the merge does not take a file away between its two halves is what the lock is for.

**PRServ.** The answer is the highest number or above it, and `Highest` is a CHOOSE: that the table
has a maximum would need an induction over the checksums. Instead the invariant has that the rows
have some bound (`TableOK`), which a step that writes one row preserves; that a bounded set of
numbers has a largest follows from the well-foundedness of `<` (`Largest`). Two
rows are equal only when their number was imported (`TableOK`); the file is behind the table only between
an answer and its commit (`handler = "sync"`), so that a kill can take back nothing else.
`NumbersRise` follows, over restarts too: what is read again is what was committed.

**Only model-checked**: everything temporal under fairness (`SomebodyGetsIt`, `Ends`,
`EndIsReported`, `NobodyBlocks`, `UIComesBack`, `ClientHeard`, `ParsingEnds`, `ShutdownEnds`,
`QuitEnds`), which is out of this prover's reach. Every other property of the passing runs is
proved, some of them under hypotheses: beyond these, `OneAtATime` and `DistinctStamps` are only
checked when hashes change (and `OneAtATime` for three twins). `NothingLeftBehind` and
`BuildsWhatItCan` under enforcement, `ForcedTargetsRun` where enforcement refuses setscene tasks,
and `DecidedOnce` after a `DecidesTwice` step do not hold, or are not claimed.

## 6. Findings and divergences

Found by a run (lines are of `src/bitbake`):

1. `lib/bb/runqueue.py` 2249: to break a deadlock of deferrals `execute()` fails the task that
   is waited for, even when it is covered: it is then both covered and not covered, which 2035
   calls a bug (`runqueue_both`).
2. `bin/bitbake-worker` 403: a `newtaskhashes` that the worker reads between two `runtask`s
   is unpickled as one, and the exception ends the worker in the middle of the build
   (`worker_garbled`).

Seen while modelling and proving, with no run of their own; the models follow the code:

- `DecidedOnce` fails in two more ways than finding 1, which is `ForcesCovered`. `FindsFailed`: a
  deferred task fails because what it depends on explicitly does, and stays in `sq_deferred`; when
  the task it waits for ends, `update_scenequeue_data()` (`runqueue.py` 1986) looks at it again,
  finds its stamp current and skips it. `FailsFound`: a migrated task is found in order under its
  new hash, by a stamp of an earlier build, and then failed outright because an explicit dependency
  has failed (2522-2529). `DecidedOnceTheorem` shows that there are no others.
- Where setscene enforcement refuses setscene tasks, one that fails sets CleanUp with no failed task
  on record (`sq_check_taskfail`, 2581); when the scene queue is over by then the build ends as
  Complete, and with `--force` the target has not run. `runqueue_settings` lists all its setscene
  tasks; with the tool taken off the list TLC finds it.
- A migrated task is deferred only behind a hash known when the build began (`runqueue.py`
  2519), so two tasks that change to one hash run at once, which 1982 wants to prevent. In
  `runqueue_twins` the packages have one hash when the build begins, and `OneAtATime` holds.
- With `--continue` a failed task keeps its slot of `[number_threads]` for good (`runqueue.py` 216);
  `BuildsWhatItCan` is checked without such limits.
- An end event fired without a UI is kept and given to the next one (`event.py` 220), whose
  knotty (`knotty.py` 734) takes it for its own and leaves. `UIComesBack` says only that a UI gets away.
- A `terminateServer` that arrives together with the end of its connection is dropped: the
  control socket is looked at first (`process.py` 173, before 211), and `disconnect_client` closes the
  pipe. `bitbake -m` does just that (`main.py` 481).
- A leaving client resets the configuration (`cooker.py` 1664) although its build goes on; the
  comment at 316 assumes that no build does. The next `updateCache()` parses again and forgets the
  `CookerParser` it had, whose processes keep `bitbake.lock` until they end. With a full pipe
  they do not, and the server that wants to end waits for its own lock (`process.py` 257).
- A shutdown of the parsers may hang (`cooker.py` 2070-2083), for which `ShutdownEnds` has two
  exceptions. `HalfRead`: a parser was killed in the middle of a result; `get()` has no timeout once it
  has seen the beginning. `JoinsWriter`: the drain goes on only until nothing comes for 0.25 s, so a parser
  that takes longer for its recipe is joined with results that nobody reads; when they do not fit into
  the pipe, or when a killed parser has kept the write lock, the join (2083) is for ever. The comment
  at 2070 says that there *might* be deadlocks without the drain; with it there are fewer.
- A forced shutdown ends no parser (2080-2081; see `Joined` in section 2): one that is busy for longer
  than 0.1 s survives it with `bitbake.lock`, and saves its file after the merge, where the next
  merge finds it. When it has more to write than the pipe holds it never ends, and the server waits for
  its own lock (`process.py` 257), as in the case before. `NoneLeft` is about ordinary shutdowns for this
  reason, and `ClientHeard` excepts what is in `lost`.
- `parse_generator()` counts to the number of recipes (`cooker.py` 2116): when a parser was killed with a
  recipe, half a result or the write lock it never gets there. `ParsingEnds` names this exception.
- A torn file of extras makes `save_merge()` raise or skip the file, depending on where it is torn
  (`cache.py` 855-870); when it raises, the file stays, and every later merge raises too.
- knotty notices the death of its server only when it next sends a command.
- A SIGTERM or SIGINT of the PR server commits and begins (`serv.py` 109, `db.py` 61) while the handler
  thread may be in a transaction: one of the two `BEGIN`s raises and ends its thread. If it is the
  handler, the server accepts and never answers; if it is the main thread, it answers what it
  has and never accepts. SIGTERM after quit writes to a pipe that is closed, which raises too.
  None of this loses a number, which is what `PRSafety` and `AnswersCommitted` show. It does keep a
  server from ending: a SIGTERM whose `BEGIN` raises has not set `quitflag` yet, the main thread is gone
  and nothing looks at the flag again; a request to quit that is sent when the handler thread is gone
  is not served. `QuitEnds` is about every SIGTERM (`TermEnds`) and every request to quit
  (`RequestEnds`) and names these two exceptions, `MainLost` and `HandlerLost`.
- An import may give one number to two checksums (`db.py`, `importone` only raises its own
  row), hence the exception in `NumbersRise`.
- With a chain of `[depends]` between setscene variants the task in its middle may be passed over
  without a look at who needs it (`runqueue.py` 2080, 2821); `NotNeededByAnyone` is checked on a
  graph without such lines, and proved where they are one layer deep.
- With `--setscene-only`, where no task has a setscene variant, `sqdone` is set from the start
  (1544), the end at 2167 is never reached, and the sanity checks fail the build for tasks that
  "never ran".
- The scheduler takes the stamps once (`runqueue.py` 141), so `DistinctStamps` is stated for ordinary
  tasks only as long as no hash has changed.
- Under setscene enforcement a build that ended for it counts as complete, hence the condition
  `~Enforce` in `CompleteMeansBuilt`, and `sqdone` in `ForcedTargetsRun` (see also above). A refused
  task was never active, but `taskFailed()` lowers the counter (2003): the end of the build may
  leave a task in hand, and with `--continue` the limit of threads may be exceeded. With
  `--continue` the refused task also stays buildable (2185) and is refused again for ever.
- `pending_hash_index` contains the literal `"taskname"` (77), where its comment (72) says that the
  names are compared.
- After the death of a worker, as after ABORT of the disk monitor, `finish_now()` makes the state
  Complete when nothing has failed (`runqueue.py` 1884-1889): the build is then reported with no failure
  and `interrupted = 0`. `CompleteMeansBuilt` excepts it (`Undisturbed`). A death that is found
  by a write instead (2143-2146, 2230-2233, 2432) ends in an exception, which the idle function of
  `cooker.py` 1435 does not catch, and so in the end of the server.
- `report_unihash_equiv` does nothing when the answer is neither what the builder had nor what
  it wanted ("TODO: What to do here?", `siggen.py` 627). `UnwantedOnlyAfterFallback` says when that
  can be: only after the builder had to take the taskhash for want of an answer.
- `hashserv/tests.py` expects that the first unihash of a taskhash stays. The order is by local
  time of day (`server.py` 321); with `SetBack = TRUE`, that is when the clock goes back, as
  local time does in autumn, `ImplementsUnihashMap` fails.
- `lockfile(block=True, retry=False)` returns `None` when the file was replaced in between
  (`utils.py` 516), where 459 says that it returns when the lock is had.
- `worker_flush` ignores EPIPE (`bitbake-worker` 106): a worker that is about to exit, with replies
  left for a server that has died, spins for ever and keeps its tasks alive. `WorkerGoes`
  names this exception.
- A task whose parent dies between `fork` and `prctl` is an orphan (`utils.py` 1536). It dies of
  EPIPE with its first event, unless a task forked later has inherited the reading end of
  its pipe: `OnlyElderOrphans` is what is left of "no task survives the worker".
- `handle_finishnow` waits with `waitpid(-1)`: what it collects is any child, whose exit
  code is never sent. `WaitEnds` says that it does not wait for one that will not die.

## 7. What is not modelled

Within the modelled components:

- *Lockfile*: creating the directory, cutting long names, errors that end the caller
  (unwritable directory).
- *RunQueue*: modification times of stamps, the stamp cache, `nostamp`; which worker has which
  task; a fakeroot worker that cannot be started; dry runs; the disk
  monitor's readings and warnings; wording and counters of progress.
- *BitbakeWorker*: set-up items and ping, partial messages, a `fork` that fails, fakeroot
  workers, grandchildren, a child that still has its parent's SIGTERM handler, and items of
  kind finishnow or quit garbled as in finding 2.
- *HashServ*: messages in chunks, several tasks and methods in one table, statistics, the
  client's two modes (its mode is not restored after a failed attempt, `client.py` 66-69, so that
  the attempts that follow fail in turn), the loss of committed rows when the
  power fails (`synchronous` is off).

- *ServerProcess*: the XMLRPC interface and observers; signals to the server; what the commands that
  neither change the state nor start something read and write; several UIs' event masks;
  the 60 s of a reply as a time (giving up may happen at any moment instead); the
  `updateCacheSync()` before a command that needs the configuration, and the reset in `setFeatures`,
  which may raise, and then make the reply an error (`command.py` 73-84, `cooker.py` 325). The
  shutdown of the parsers is one step there and ends; where it may hang is in `CookerParser`. Of
  what a surviving parser has inherited only the lock is modelled, not the listening socket and
  the connections.
- *CookerParser*: what a recipe parses to; the profile option; a parser that raises outside
  `parse()`; the bytes of a result beyond its two parts. One cache file stands for the two that are
  saved alike.
- *PRServ*: several versions and architectures (their rows never meet); the history mode, which no
  server is started in; `export` and `dump_db`, which only read; an exception in a request; the pid
  file and the daemon commands. A commit is one step: `synchronous` is off and the journal is in
  memory (`db.py` 259-260), so that a kill in the middle of one may damage the file.

Components without a module are in `PROJECT.json` with the reason. Copying and expanding of
data, parsing of recipes, choice of providers, fetching, user interfaces, Toaster, metadata
and scripts are sequential text or data processing, or I/O: most of the repository's Python is
of these kinds, so that the models stand for a small share of its lines. The first rows of the
plan below are what is left of BitBake's concurrency.

## 8. Plan

Done: `Lockfile` over `RWLock`; `RunQueue` over `SceneGraph` and `TaskOrder`; `BitbakeWorker` over
`TaskService`; `HashServ` over `UnihashMap`; `ServerProcess`; `CookerParser`; `PRServ`; the proofs
of section 5.

To come, in this order:

1. `EventQueue`: `BBUIEventQueue` with lock and event; no sleep while an event is queued.
2. Two servers one after the other and the cache they share, over `RWLock`: nothing but a duplicate
   is lost. `PersistData`: two writers of one key.
3. `SceneGraphBuild`: the loops of `build_scenequeue_data` as functions, compared
   with the closed forms of `SceneGraph` on all small graphs.
4. The client's modes and several tasks in `HashServ`.
5. `Timeout` = TRUE and more attempts in the run of `ServerProcess`.

Theorems to come: `OneAtATime` of `RunQueue` with changing hashes, when all that change to a hash
were known to have it; an abstract specification of the server (one command at a time, each answered
and ended) that `ServerProcess` implements; one of the PR server, a map whose values rise.

Runs are kept few. New ones take the place of those whose properties are
proved in general, or share a configuration with a neighbour.
