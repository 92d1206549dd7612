------------------------------ MODULE RunQueue ------------------------------
(***************************************************************************)
(* RunQueueExecute: the server's loop that runs the tasks of a build.      *)
(*                                                                         *)
(* Two queues are worked on at once.  The scene queue decides, for every   *)
(* task that has a setscene variant, whether the variant covers it (its    *)
(* output came from the cache) or not; the run queue runs the ordinary     *)
(* tasks, in dependency order, as soon as it is known that they are not    *)
(* covered.  Running a task may change its hash (hash equivalence), which  *)
(* changes the hash of what depends on it and reopens decisions.           *)
(*                                                                         *)
(* The server has one thread: a call of execute() is a sequence of stages, *)
(* followed by the variable phase, that nothing interleaves with.  The     *)
(* results of tasks are taken from the workers' pipes at a few places, in  *)
(* any order.                                                              *)
(*                                                                         *)
(* Where the code walks a sorted list or a set and takes the first element *)
(* that fits, the model takes any element that fits.                       *)
(***************************************************************************)
EXTENDS SceneGraph

CONSTANTS
    NoTask,
    Hashes,             \* unihashes
    InitHash,           \* InitHash[t]: the unihash of t when the build starts
    Pn,                 \* Pn[t]: the recipe name
    File,               \* File[t]: the recipe file
    StampBase,          \* tasks with one base share their stamp files
    NoExec,             \* tasks that have nothing to run
    Enforce,            \* BB_SETSCENE_ENFORCE
    Whitelisted,        \* the tasks setscene enforcement lets run
    OldStamps,          \* possible sets of stamps left by earlier builds
    TaskName,           \* TaskName[t]
    NumberThreads,      \* NumberThreads[n]: [number_threads], 0 when not set
    NumberTasks,        \* BB_NUMBER_THREADS
    Abort,              \* FALSE for --continue
    Forced, SkipSetscene, SetsceneOnly,
    Pressure,           \* BB_PRESSURE_MAX_* are set
    Rehashing,          \* tasks that may report a new unihash while they run
    MayStop,            \* the user may ask the build to stop
    WorkerMayDie,
    DiskMonitor,        \* BB_DISKMON_DIRS is set
    MaxUnderflow        \* bound: how far below 0 stats.active is followed

ASSUME RunQueueAssumption ==
    /\ NoTask \notin Tasks
    /\ InitHash \in [Tasks -> Hashes]
    /\ NoExec \subseteq Tasks
    /\ NumberTasks \in Nat \ {0}
    /\ {Abort, Forced, SkipSetscene, SetsceneOnly, Pressure, MayStop, Enforce,
        WorkerMayDie, DiskMonitor} \subseteq BOOLEAN
    /\ MaxUnderflow \in Nat \ {0}

VARIABLES
    phase,              \* the stage of execute() the server is in
    state,              \* RunQueue.state
    interrupted,        \* what buildTargetsIdle was asked: 0, 1 (stop), 2 (now)
    worker,             \* the workers are there to be read from
    died,               \* one of them has died
    full,               \* what the disk monitor has done: 1 (STOPTASKS), 2 (ABORT)
    runq_buildable, runq_running, runq_complete, runq_tasksrun, failed_tids,
    active,             \* stats.active
    live,               \* the ordinary tasks the workers have in hand
    sq,                 \* the scene queue
    sqdone,
    tasks_covered, tasks_notcovered, holdoff_tasks,
    unihash, updated_taskhash_queue, pending_migrations,
    todo, changed, update_tasks,    \* locals of process_possible_migrations()
    stampfiles,         \* the stamps on disk
    build_stamps

runqVars  == <<runq_buildable, runq_running, runq_complete, runq_tasksrun,
               failed_tids, active, live>>
coverVars == <<tasks_covered, tasks_notcovered, holdoff_tasks>>
migrVars  == <<pending_migrations, todo, changed, update_tasks>>
hashVars  == <<unihash, updated_taskhash_queue, migrVars>>
stampVars == <<stampfiles, build_stamps>>

outside   == <<interrupted, worker, died, full>>

vars == <<phase, state, outside, runqVars, sq, sqdone, coverVars, hashVars,
          stampVars>>

Decided(s) == s.covered \cup s.notcovered

\* Mutant: one task too many.
OneTooMany == active + sq.active <= NumberTasks

\* can_start_task()
CanStartTask == active + sq.active < NumberTasks

-----------------------------------------------------------------------------
(* Stamps.  A stamp file belongs to a task, or to its setscene variant, and *)
(* carries the unihash in its name.  Times are not modelled.                *)

Stamp(t, kind, h) == <<StampBase[t], kind, h>>

HasStamp(files, t, kind) == Stamp(t, kind, unihash[t]) \in files

\* check_stamp_task(): its own stamp is there, and those of its dependencies in
\* the same recipe, a setscene stamp being as good.
StampCurrent(files, t) ==
    /\ HasStamp(files, t, "task")
    /\ \A d \in Depends[t] : File[d] = File[t] => \/ HasStamp(files, d, "task")
                                                  \/ HasStamp(files, d, "setscene")

\* The same with recurse=True.
StampCurrentRecurse(files, t) ==
    \A x \in Reach({t}, [u \in Tasks |-> {d \in Depends[u] : /\ File[d] = File[u]
                                                             /\ HasStamp(files, d, "task")}]) :
        StampCurrent(files, x)

\* make_stamp() removes the stamps of other hashes, and an ordinary task's also
\* those of the setscene variant.
MakeStamp(files, t, kind, h) ==
    {f \in files : f[1] # StampBase[t] \/ (kind = "setscene" /\ f[2] = "task")}
        \cup {Stamp(t, kind, h)}

\* build_stamps keeps two tasks that share a stamp, and a work directory, from
\* running at once.
\* Mutant: nobody looks.
NeverBusy(s) == FALSE

StampBusy(s) == \E b \in build_stamps : b[2] = s

-----------------------------------------------------------------------------
(* Decisions of the scene queue: operators on the record sq *)

\* scenequeue_updatecounters() for the tasks of N, just decided: the setscene
\* tasks nobody undecided needs become buildable, and the ordinary tasks below
\* N that no undecided task needs are done with.
UpdateCounters(s, N, failed) ==
    LET released ==
            {d \in Setscene : /\ sq_revdeps[d] \subseteq Decided(s)
                              /\ \E x \in N : /\ d \in sq_deps[x]
                                              /\ ~(failed /\ d \in sq_harddeps[x])}
        WalkedDown(Y) ==
            \A d \in Tasks \ (Setscene \cup s.done) :
                /\ Revdeps(d) \subseteq s.done \cup Y
                /\ Revdeps(d) \cap Y # {}
                => d \in Y
        walked == {t \in Tasks : \A Y \in SUBSET Tasks :
                                     N \subseteq Y /\ WalkedDown(Y) => t \in Y}
    IN  [s EXCEPT !.buildable = @ \cup released,
                  !.done = @ \cup walked,
                  !.holdoff_need_update = @ \/ N # {}]

\* sq_task_completeoutright()
CompleteOutright(s, t) ==
    UpdateCounters([s EXCEPT !.covered = @ \cup {t}], {t}, FALSE)

\* Mutant: the skipped tasks are not marked buildable.
SkipUnmarked(s, T) ==
    UpdateCounters([s EXCEPT !.running = @ \cup T, !.covered = @ \cup T], T, FALSE)

\* sq_task_skip(), for each task of T.
Skip(s, T) ==
    UpdateCounters([s EXCEPT !.running = @ \cup T, !.buildable = @ \cup T,
                             !.covered = @ \cup T], T, FALSE)

\* Mutant: a dependency that is decided already fails as well.
FailDecided(s, T) ==
    LET F == Reach(T, [t \in Tasks |-> IF t \in Setscene THEN sq_harddeps[t] ELSE {}])
    IN  UpdateCounters([s EXCEPT !.running = @ \cup F, !.buildable = @ \cup F,
                                 !.notcovered = @ \cup F], F, TRUE)

\* sq_task_failoutright(), for each task of T, and so for whatever depends on a
\* failed task explicitly and is not decided yet.
FailOutright(s, T) ==
    LET F == Reach(T, [t \in Tasks |-> IF t \in Setscene
                                       THEN sq_harddeps[t] \ Decided(s) ELSE {}])
    IN  UpdateCounters([s EXCEPT !.running = @ \cup F, !.buildable = @ \cup F,
                                 !.notcovered = @ \cup F], F, TRUE)

\* update_scenequeue_data(): T is looked at afresh.  V is what validate_hashes()
\* finds in the caches of the tasks it is asked for.
Present(files, T) ==
    {t \in T \ NoExec : HasStamp(files, t, "setscene") \/ StampCurrentRecurse(files, t)}

ToCheck(files, T) == T \ (NoExec \cup Present(files, T))

\* A setscene task with nothing to run gets its stamp there and then.
SceneStamps(files, T) == files \cup {Stamp(t, "setscene", unihash[t]) : t \in T \cap NoExec}

UpdateSceneData(files, s, T, V) ==
    LET s1 == Skip([s EXCEPT !.stamppresent = (@ \ T) \cup Present(files, T),
                             !.valid = @ \ T,
                             !.outrightfail = @ \ T],
                   (T \cap NoExec) \cup Present(files, T))
        s2 == [s1 EXCEPT !.valid = @ \cup V]
    IN  [s2 EXCEPT !.outrightfail =
            @ \cup {t \in T : /\ t \notin s2.stamppresent \cup s2.valid \cup NoExec
                              /\ t \notin Decided(s2)
                              /\ s2.deferred[t] = NoTask}]

\* pending_hash_index(), and the task each index was first given to.
HashIndex(t, h) == <<Pn[t], h>>

HashOwner ==
    [i \in {HashIndex(t, InitHash[t]) : t \in Setscene} |->
        CHOOSE t \in Setscene : HashIndex(t, InitHash[t]) = i]

-----------------------------------------------------------------------------
(* The state build_scenequeue_data() leaves, before it first looks at what  *)
(* the stamps and the caches hold.                                          *)

InitScene ==
    [buildable    |-> {s \in Setscene : sq_revdeps[s] = {}},
     running      |-> {},
     live         |-> {},
     active       |-> 0,
     covered      |-> {},
     notcovered   |-> {},
     notneeded    |-> {},
     done         |-> unskippable \ Setscene,
     deferred     |-> [s \in Setscene |->
                         LET o == HashOwner[HashIndex(s, InitHash[s])]
                         IN  IF o = s THEN NoTask ELSE o],
     valid        |-> {},
     stamppresent |-> {},
     outrightfail |-> {},
     stamps       |-> [s \in Setscene |-> Stamp(s, "setscene", InitHash[s])],
     holdoff_need_update |-> TRUE]

Init ==
    /\ phase = "call"
    /\ state = "Running"
    /\ interrupted = 0
    /\ worker = TRUE /\ died = FALSE /\ full = {}
    /\ runq_buildable =
          {t \in (IF Setscene = {} THEN Tasks ELSE unskippable \ Setscene) : Depends[t] = {}}
    /\ runq_running = {} /\ runq_complete = {} /\ runq_tasksrun = {}
    /\ failed_tids = {} /\ active = 0 /\ live = {}
    /\ unihash = InitHash
    /\ updated_taskhash_queue = {} /\ pending_migrations = {}
    /\ todo = {} /\ changed = FALSE /\ update_tasks = {}
    /\ \E old \in OldStamps : stampfiles = SceneStamps(old, Setscene)
    /\ build_stamps = {}
    /\ \E V \in SUBSET ToCheck(stampfiles, Setscene) :
           sq = UpdateSceneData(stampfiles, InitScene, Setscene, V)
    /\ tasks_covered = {} /\ holdoff_tasks = {}
    /\ tasks_notcovered = IF Setscene = {} THEN Tasks ELSE {}
    /\ sqdone = (Setscene = {})

Goto(p) == phase' = p

\* execute() returns to _execute_runqueue().
Return == Goto("return")

-----------------------------------------------------------------------------
(* What the workers send: read_workers() is called when execute() begins,   *)
(* when it has nothing to start, in finish(), and while they are torn down. *)

\* Mutant: one dependency is enough.
OneDepComplete(t, complete) == Depends[t] = {} \/ Depends[t] \cap complete # {}

\* What makes a task buildable.
DepsComplete(t, complete) == Depends[t] \subseteq complete

Reading == worker /\ phase \in {"read", "wait", "finish", "teardown", "raised"}

\* runqueue_process_waitpid() of a setscene task.
SceneExit(t, ok) ==
    /\ Reading
    /\ t \in sq.live
    /\ build_stamps' = {b \in build_stamps : b[1] # t}
    /\ LET s == IF ok THEN CompleteOutright(sq, t) ELSE FailOutright(sq, {t})
       IN  sq' = [s EXCEPT !.active = @ - 1, !.live = @ \ {t}]
    /\ stampfiles' = IF ok THEN MakeStamp(stampfiles, t, "setscene", unihash[t]) ELSE stampfiles
    /\ state' = IF ~ok /\ Enforce /\ t \notin Whitelisted THEN "CleanUp" ELSE state
    /\ UNCHANGED <<phase, outside, runqVars, sqdone, coverVars, hashVars>>

\* task_completeoutright().  Of the setscene tasks that were deferred until t is
\* complete one is looked at again; the others now wait for that one.
TaskCompleteOutright(t, buildable, files) ==
    /\ runq_complete' = runq_complete \cup {t}
    /\ runq_buildable' = buildable \cup
          {r \in Revdeps(t) \ runq_running : DepsComplete(r, runq_complete')}
    /\ LET waiting == {d \in Setscene : sq.deferred[d] = t}
       IN  IF waiting = {}
           THEN sq' = sq /\ stampfiles' = files
           ELSE \E f \in waiting : \E V \in SUBSET ToCheck(files, {f}) :
                   /\ stampfiles' = SceneStamps(files, {f})
                   /\ sq' = UpdateSceneData(files,
                              [sq EXCEPT !.deferred = [d \in Setscene |->
                                  IF d = f THEN NoTask
                                  ELSE IF d \in waiting THEN f ELSE sq.deferred[d]]],
                              {f}, V)

\* The worker learns of a new unihash before it makes the stamp.  With setscene
\* enforcement it only pretends to run the task.
TaskStamp(t) ==
    LET R == {e \in updated_taskhash_queue : e[1] = t}
        h == IF R = {} THEN unihash[t] ELSE (CHOOSE e \in R : TRUE)[2]
    IN  IF Enforce THEN stampfiles ELSE MakeStamp(stampfiles, t, "task", h)

\* The same of an ordinary task: task_complete() ...
TaskExit(t) ==
    /\ Reading
    /\ t \in live
    /\ live' = live \ {t}
    /\ active' = active - 1
    /\ build_stamps' = {b \in build_stamps : b[1] # t}
    /\ runq_tasksrun' = runq_tasksrun \cup {t}
    /\ TaskCompleteOutright(t, runq_buildable, TaskStamp(t))
    /\ UNCHANGED <<phase, state, outside, runq_running, failed_tids,
                   sqdone, coverVars, hashVars>>

\* Mutants: the failure is not recorded, or ends a build that was to go on.
FailUnrecorded(t) ==
    /\ active' = IF active > -MaxUnderflow THEN active - 1 ELSE active
    /\ failed_tids' = failed_tids
    /\ state' = IF Abort THEN "CleanUp" ELSE state

FailAlwaysEnds(t) ==
    /\ active' = IF active > -MaxUnderflow THEN active - 1 ELSE active
    /\ failed_tids' = failed_tids \cup {t}
    /\ state' = "CleanUp"

\* ... or task_fail().
TaskFail(t) ==
    /\ active' = IF active > -MaxUnderflow THEN active - 1 ELSE active
    /\ failed_tids' = failed_tids \cup {t}
    /\ state' = IF Abort THEN "CleanUp" ELSE state

TaskExitFails(t) ==
    /\ Reading
    /\ t \in live
    /\ live' = live \ {t}
    /\ build_stamps' = {b \in build_stamps : b[1] # t}
    /\ TaskFail(t)
    /\ UNCHANGED <<phase, outside, runq_buildable, runq_running,
                   runq_complete, runq_tasksrun, sq, sqdone, coverVars, hashVars,
                   stampfiles>>

\* A taskUniHashUpdate event, which precedes the task's exit in the pipe.
TaskRehash(t, h) ==
    /\ Reading
    /\ t \in live \cap Rehashing
    /\ h # unihash[t]
    /\ \A e \in updated_taskhash_queue : e[1] # t
    /\ updated_taskhash_queue' = updated_taskhash_queue \cup {<<t, h>>}
    /\ UNCHANGED <<phase, state, outside, runqVars, sq, sqdone,
                   coverVars, unihash, migrVars, stampVars>>

-----------------------------------------------------------------------------
(* Between two calls of execute(): _execute_runqueue() and its caller *)

Outcome == IF failed_tids # {} THEN "Failed" ELSE "Complete"

\* Mutant: nobody looks whether the workers are alive.
NotPolled(st) == st

\* The state in which pipes begin to be read: when a worker has died unexpectedly,
\* finish_now() is called, and whatever was going on goes on in the state it sets.
Polled(st) == IF worker /\ died THEN Outcome ELSE st

\* There is one worker for each multiconfig, and one for fakeroot: any may die.
WorkerDies ==
    /\ WorkerMayDie
    /\ worker /\ phase \notin {"teardown", "raised"}
    /\ ~died
    /\ died' = TRUE
    /\ UNCHANGED <<phase, state, interrupted, worker, full, runqVars, sq, sqdone, coverVars,
                   hashVars, stampVars>>

\* It is noticed again with every pipe that is read.
NoticedAgain ==
    /\ Reading /\ phase \notin {"teardown", "raised"}
    /\ state' = Polled(state)
    /\ UNCHANGED <<phase, outside, runqVars, sq, sqdone, coverVars, hashVars, stampVars>>

\* No more results for now.
ReadDone ==
    /\ \/ phase = "read" /\ Goto(IF updated_taskhash_queue # {} \/ pending_migrations # {}
                                 THEN "migrate" ELSE "scene")
       \/ phase = "wait" /\ Goto("return")
       \/ phase = "finish" /\ Goto(IF state \in {"Failed", "Complete"} THEN "teardown" ELSE "call")
    /\ UNCHANGED <<state, outside, runqVars, sq, sqdone, coverVars,
                   hashVars, stampVars>>

\* The server's loop calls buildTargetsIdle() again.  Asked to stop, it first has
\* finish_runqueue() start nothing more (1) or end at once (2).  In CleanUp,
\* finish() takes the place of execute().
Call(stop) ==
    /\ phase = "call"
    /\ stop = interrupted \/ (MayStop /\ stop > interrupted)
    /\ interrupted' = stop
    /\ LET st == <<state, "CleanUp", Outcome>>[stop + 1]
       IN  /\ state' = IF st = "Running" THEN Polled(st) ELSE st
           /\ Goto(IF st = "Running" THEN "read" ELSE "return")
    /\ UNCHANGED <<worker, died, full, runqVars, sq, sqdone, coverVars, hashVars, stampVars>>

\* diskMonitor.check(), with the heartbeat between two calls: a directory runs full
\* whose action is STOPTASKS (1) or ABORT (2), once each.
DiskFull(action) ==
    /\ DiskMonitor
    /\ phase = "call" /\ worker /\ state \in {"Running", "CleanUp"}
    /\ action \notin full
    /\ full' = full \cup {action}
    /\ state' = IF action = 1 THEN "CleanUp" ELSE Outcome
    /\ UNCHANGED <<phase, interrupted, worker, died, runqVars, sq, sqdone, coverVars, hashVars,
                   stampVars>>

\* Mutant: setscene tasks are not waited for.
TasksActive == active > 0

StillActive == active + sq.active > 0

\* After execute(): go on, let finish() wait for what is active, or end.  With
\* no workers left there is nothing to wait on, and the build counts as over.
AfterExecute ==
    /\ phase = "return"
    /\ LET waits == state = "CleanUp" /\ StillActive
       IN  /\ state' = IF waits THEN Polled(state)
                       ELSE IF state = "CleanUp" THEN Outcome ELSE state
           /\ Goto(IF state = "Running" THEN "call"
                   ELSE IF ~waits THEN "teardown"
                   ELSE IF worker THEN "finish" ELSE "done")
    /\ UNCHANGED <<outside, runqVars, sq, sqdone, coverVars, hashVars,
                   stampVars>>

\* teardown_workers() is through with the pipes.
TornDown ==
    /\ phase = "teardown"
    /\ worker' = FALSE
    /\ Goto(IF state \in {"Failed", "Complete"} THEN "done" ELSE "call")
    /\ UNCHANGED <<state, interrupted, died, full, runqVars, sq, sqdone, coverVars, hashVars,
                   stampVars>>

\* An exception in execute(): the workers are torn down, and the state is Complete
\* whatever they sent.
Raised ==
    /\ phase = "raised"
    /\ worker' = FALSE
    /\ state' = "Complete"
    /\ Goto("done")
    /\ UNCHANGED <<interrupted, died, full, runqVars, sq, sqdone, coverVars, hashVars,
                   stampVars>>

-----------------------------------------------------------------------------
(* execute(), stage 1: process_possible_migrations() *)

Unfinished(t) == t \in runq_running \ runq_complete

\* New unihashes of tasks that have finished are applied, to the tasks deferred
\* on them as well, and the tasks that depend on those are hashed again.  What
\* is covered, or being fetched, already keeps the unihash it has.
Rehash ==
    /\ phase = "migrate"
    /\ LET taken   == {e \in updated_taskhash_queue : ~Unfinished(e[1])}
           news(t) == {e \in taken : /\ e[2] # unihash[e[1]]
                                     /\ \/ e[1] = t
                                        \/ t \in Setscene /\ sq.deferred[t] = e[1]}
           applied == {t \in Tasks : news(t) # {}}
           uni     == [t \in Tasks |-> IF t \in applied
                                       THEN (CHOOSE e \in news(t) : TRUE)[2]
                                       ELSE unihash[t]]
           total   == Reach(UNION {Revdeps(t) : t \in applied},
                            [t \in Tasks |-> Revdeps(t)])
       IN  \E C \in SUBSET total : \E new \in [C -> Hashes] :
              /\ \A c \in C : new[c] # uni[c] /\ Depends[c] \cap (applied \cup C) # {}
              /\ LET moved == C \ (sq.covered \cup sq.live)
                 IN  /\ unihash' = [t \in Tasks |-> IF t \in moved THEN new[t] ELSE uni[t]]
                     /\ pending_migrations' = pending_migrations \cup (moved \cap Setscene)
                     /\ changed' = (moved # {})
              /\ updated_taskhash_queue' = updated_taskhash_queue \ taken
    /\ todo' = pending_migrations'
    /\ update_tasks' = {}
    /\ \/ Goto("pending")
       \/ died /\ changed' /\ Goto("raised")       \* newtaskhashes cannot be written
    /\ UNCHANGED <<state, outside, runqVars, sq, sqdone, coverVars, stampVars>>

\* A task t stands for is running, so t has to wait.
Blocked(t) == \E d \in sq_covered_tasks[t] : Unfinished(d)

\* A task t stands for was skipped, and would have to run after all.
SkippedTooSoon(t) == \E d \in sq_covered_tasks[t] : d \in runq_complete \ runq_tasksrun

HardDepFail(t) == \E h \in Setscene : t \in sq_harddeps[h] /\ h \in sq.notcovered

\* One setscene task whose hash changed: too late, blocked for now, fatal, or
\* open again.
Migrate(t) ==
    /\ phase = "pending"
    /\ t \in todo
    /\ LET tooLate == t \in runq_running \cup sq.live
           undone  == {d \in sq_covered_tasks[t] \ (runq_complete \cup unskippable) :
                          d \in sq.done}
           fails   == HardDepFail(t)
           ready   == \/ sq_revdeps[t] = {}
                      \/ ~fails /\ sq_revdeps[t] \subseteq Decided(sq)
       IN  \/ /\ tooLate
              /\ todo' = todo \ {t}
              /\ pending_migrations' = pending_migrations \ {t}
              /\ Goto("pending")
              /\ UNCHANGED <<state, failed_tids, sq, changed, update_tasks, build_stamps>>
           \/ /\ ~tooLate /\ Blocked(t)
              /\ todo' = todo \ {t}
              /\ Goto("pending")
              /\ UNCHANGED <<state, failed_tids, sq, pending_migrations, changed,
                             update_tasks, build_stamps>>
           \/ /\ ~tooLate /\ ~Blocked(t) /\ SkippedTooSoon(t)      \* the rest is not looked at
              /\ pending_migrations' = pending_migrations \ {t}
              /\ \E U \in SUBSET undone : sq' = [sq EXCEPT !.done = (@ \ {t}) \ U]
              /\ failed_tids' = failed_tids \cup {t}
              /\ state' = "CleanUp"
              /\ todo' = {} /\ changed' = FALSE /\ update_tasks' = {}
              /\ Goto("scene")
              /\ UNCHANGED build_stamps
           \/ /\ ~tooLate /\ ~Blocked(t) /\ ~SkippedTooSoon(t)
              /\ todo' = todo \ {t}
              /\ pending_migrations' = pending_migrations \ {t}
              /\ changed' = TRUE
              /\ update_tasks' = update_tasks \cup {<<t, fails>>}
              /\ build_stamps' = {b \in build_stamps : b[1] # t}
              /\ sq' = [sq EXCEPT
                          !.done = (@ \ {t}) \ undone,
                          !.buildable = IF ready THEN @ \cup {t} ELSE @ \ {t},
                          !.running = @ \ {t},
                          !.outrightfail = @ \ {t},
                          !.notcovered = @ \ {t},
                          !.covered = @ \ {t},
                          !.notneeded = @ \ {t},
                          !.stamps[t] = Stamp(t, "setscene", unihash[t])]
              /\ Goto("pending")
              /\ UNCHANGED <<state, failed_tids>>
    /\ UNCHANGED <<outside, runq_buildable, runq_running, runq_complete,
                   runq_tasksrun, active, live, sqdone, coverVars, unihash,
                   updated_taskhash_queue, stampfiles>>

\* The tasks that were opened again are looked at again, deferred when another
\* task is known under their new index.
UpdateMigrated ==
    /\ phase = "pending"
    /\ todo = {}
    /\ LET T == {u[1] : u \in update_tasks}
           index(t) == HashIndex(t, unihash[t])
           defer(t) == t \in T /\ index(t) \in DOMAIN HashOwner /\ HashOwner[index(t)] # t
           s1 == [sq EXCEPT !.deferred = [t \in Setscene |->
                     IF defer(t) THEN HashOwner[index(t)] ELSE sq.deferred[t]],
                            !.holdoff_need_update = @ \/ changed]
       IN  /\ sqdone' = (sqdone /\ T = {})
           /\ \E V \in SUBSET ToCheck(stampfiles, T) :
                 sq' = FailOutright(UpdateSceneData(stampfiles, s1, T, V),
                                    {u[1] : u \in {v \in update_tasks : v[2]}})
           /\ stampfiles' = SceneStamps(stampfiles, T)
    /\ update_tasks' = {} /\ changed' = FALSE
    /\ Goto("scene")
    /\ UNCHANGED <<state, outside, runqVars, coverVars, unihash,
                   updated_taskhash_queue, pending_migrations, todo, build_stamps>>

-----------------------------------------------------------------------------
(* Stage 2: one setscene task *)

Candidate(t) ==
    /\ ~sqdone /\ CanStartTask
    /\ t \in sq.buildable \ sq.running
    /\ ~StampBusy(sq.stamps[t])

\* Mutants: needing t is taken for covered; a target is skipped.
HasNeeders(t) == sq_revdeps[t] # {}

NotUnskippable(t) == t \notin unskippable

Skippable(t) == t \notin unskippable \cup Targets

\* Everything that needs t is covered, and setscene_depvalid() agrees that t is
\* then not needed.
NeedersCovered(t) == sq_revdeps[t] # {} /\ sq_revdeps[t] \subseteq sq.covered

SceneNotNeeded(t) ==
    /\ phase = "scene"
    /\ Candidate(t)
    /\ Skippable(t)
    /\ NeedersCovered(t)
    /\ sq' = [Skip(sq, {t}) EXCEPT !.notneeded = @ \cup {t}, !.deferred[t] = NoTask]
    /\ Return
    /\ UNCHANGED <<state, outside, runqVars, sqdone, coverVars, hashVars,
                   stampVars>>

\* Mutant: deferred tasks do not wait.
DoesNotWait(t) == Candidate(t)

\* A task stays deferred until the one it waits for is complete.
Next_setscene(t) ==
    /\ Candidate(t)
    /\ sq.deferred[t] \in runq_complete \cup {NoTask}

WasDeferred(t) == sq.deferred[t] # NoTask

\* The variant cannot, or may not, be used: nothing in the cache, the output is
\* there already, or the user wants the task itself to run.
SceneFails(t) ==
    /\ phase = "scene"
    /\ Next_setscene(t)
    /\ \/ WasDeferred(t)               \* validate_hashes() may say no
       \/ t \in sq.outrightfail
       \/ StampCurrentRecurse(stampfiles, t)
       \/ Forced /\ t \in Targets
       \/ SkipSetscene /\ ~HasStamp(stampfiles, t, "setscene")
    /\ sq' = FailOutright([sq EXCEPT !.deferred[t] = NoTask], {t})
    /\ Return
    /\ UNCHANGED <<state, outside, runqVars, sqdone, coverVars, hashVars,
                   stampVars>>

Usable(t) ==
    /\ Next_setscene(t)
    /\ t \notin sq.outrightfail
    /\ ~StampCurrentRecurse(stampfiles, t)
    /\ ~(Forced /\ t \in Targets)

SceneCurrent(t) ==
    /\ phase = "scene"
    /\ Usable(t)
    /\ HasStamp(stampfiles, t, "setscene")
    /\ sq' = Skip([sq EXCEPT !.deferred[t] = NoTask], {t})
    /\ Return
    /\ UNCHANGED <<state, outside, runqVars, sqdone, coverVars, hashVars,
                   stampVars>>

SceneStarts(t) == Usable(t) /\ ~HasStamp(stampfiles, t, "setscene") /\ ~SkipSetscene

\* The worker that t is for has died, and its pipe is broken.
SceneRaises(t) ==
    /\ phase = "scene"
    /\ SceneStarts(t)
    /\ died
    /\ sq' = [sq EXCEPT !.deferred[t] = NoTask]
    /\ Goto("raised")
    /\ UNCHANGED <<state, outside, runqVars, sqdone, coverVars, hashVars, stampVars>>

SceneStart(t) ==
    /\ phase = "scene"
    /\ SceneStarts(t)
    /\ sq' = [sq EXCEPT !.deferred[t] = NoTask, !.running = @ \cup {t},
                        !.live = @ \cup {t}, !.active = @ + 1]
    /\ build_stamps' = build_stamps \cup {<<t, Stamp(t, "setscene", unihash[t])>>}
    /\ Goto(IF active + sq.active + 1 < NumberTasks THEN "return" ELSE "holdoff")
    /\ UNCHANGED <<state, outside, runqVars, sqdone, coverVars, hashVars,
                   stampfiles>>

NoScene ==
    /\ phase = "scene"
    /\ \A t \in Setscene : ~Next_setscene(t)
    /\ Goto("holdoff")
    /\ UNCHANGED <<state, outside, runqVars, sq, sqdone, coverVars,
                   hashVars, stampVars>>

-----------------------------------------------------------------------------
(* Stage 3: update_holdofftasks(), and the end of the scene queue *)

UpdateHoldoff ==
    /\ phase = "holdoff"
    /\ Goto("scenedone")
    /\ IF ~sq.holdoff_need_update
       THEN UNCHANGED <<runq_buildable, sq, coverVars>>
       ELSE LET notcovered ==
                    (sq.notcovered \cup cantskip
                       \cup (UNION {sq_covered_tasks[t] : t \in sq.notcovered})
                       \cup (unskippable \ Setscene)) \cap sq.done
                covered ==
                    ((sq.covered \cup (UNION {sq_covered_tasks[t] : t \in sq.covered}))
                       \ notcovered) \cap sq.done
                undecided == Setscene \ Decided(sq)
            IN  /\ tasks_covered' = covered
                /\ tasks_notcovered' = notcovered
                /\ runq_buildable' = runq_buildable \cup
                      {t \in notcovered \cup covered : DepsComplete(t, runq_complete)}
                /\ holdoff_tasks' = undecided \cup
                      ((UNION {sq_covered_tasks[t] : t \in undecided}) \ runq_complete)
                /\ sq' = [sq EXCEPT !.holdoff_need_update = FALSE]
    /\ UNCHANGED <<state, outside, runq_running, runq_complete,
                   runq_tasksrun, failed_tids, active, live, sqdone, hashVars,
                   stampVars>>

NothingDeferred == \A t \in Setscene : sq.deferred[t] = NoTask

\* summarise_scenequeue_errors(): what may not be left when the scene queue ends.
SceneErrors ==
    \/ ~NothingDeferred
    \/ updated_taskhash_queue # {}
    \/ holdoff_tasks # {}
    \/ ~ (Setscene \subseteq Decided(sq) \cap sq.buildable \cap sq.running)
    \/ ~ (Tasks \subseteq (tasks_covered \cup tasks_notcovered) \cap sq.done)
    \/ \E t \in Tasks : Depends[t] = {} /\ t \notin runq_buildable

SceneOver ==
    /\ sq.live = {} /\ ~sqdone
    /\ NothingDeferred /\ updated_taskhash_queue = {} /\ holdoff_tasks = {}

SceneDone ==
    /\ phase = "scenedone"
    /\ LET fails == SceneOver /\ SceneErrors
           ends  == SceneOver /\ ~SceneErrors /\ SetsceneOnly
       IN  /\ state' = IF fails THEN "Failed" ELSE IF ends THEN "Complete" ELSE state
           /\ sqdone' = (sqdone \/ (SceneOver /\ ~fails /\ ~ends))
           /\ Goto(IF fails \/ ends THEN "return" ELSE "sched")
    /\ UNCHANGED <<outside, runqVars, sq, coverVars, hashVars, stampVars>>

-----------------------------------------------------------------------------
(* Stage 4: one ordinary task *)

\* [number_threads]: how many tasks of the same name are under way.
ThreadsTaken(n) == Cardinality({u \in runq_running \ runq_complete : TaskName[u] = n})

ThreadFree(t) ==
    LET limit == NumberThreads[TaskName[t]]
    IN  limit = 0 \/ ThreadsTaken(TaskName[t]) < limit

\* Mutant: tasks the scene queue holds back are not left out.
IgnoresHoldoff == runq_buildable \ runq_running

BuildableNow == (runq_buildable \ runq_running) \ holdoff_tasks

\* What next_buildable_task() chooses from.  The scheduler knows each task's
\* stamp from before the build.
Next_task(t) ==
    /\ ~SetsceneOnly /\ CanStartTask
    /\ t \in BuildableNow
    /\ t \in tasks_covered \cup tasks_notcovered
    /\ ThreadFree(t)
    /\ ~StampBusy(Stamp(t, "task", InitHash[t]))

NoTaskNow ==
    /\ phase = "sched"
    /\ (\A t \in Tasks : ~Next_task(t)) \/ (Pressure /\ active # 0)
    /\ Goto("idle")
    /\ UNCHANGED <<state, outside, runqVars, sq, sqdone, coverVars,
                   hashVars, stampVars>>

\* Setscene enforcement: the task should have come from the cache.
Allowed(t) == \/ ~Enforce
              \/ t \in Whitelisted \cup tasks_covered \cup NoExec
              \/ StampCurrent(stampfiles, t)

TaskNotAllowed(t) ==
    /\ phase = "sched"
    /\ Next_task(t)
    /\ ~Allowed(t)
    /\ TaskFail(t)
    /\ Return
    /\ UNCHANGED <<outside, runq_buildable, runq_running, runq_complete,
                   runq_tasksrun, live, sq, sqdone, coverVars, hashVars, stampVars>>

\* task_skip(): t is covered, or its stamp is current.
TaskSkip(t) ==
    /\ phase = "sched"
    /\ Next_task(t)
    /\ t \in tasks_covered \/ StampCurrent(stampfiles, t)
    /\ runq_running' = runq_running \cup {t}
    /\ TaskCompleteOutright(t, runq_buildable \cup {t}, stampfiles)
    /\ runq_tasksrun' = IF t \in tasks_covered THEN runq_tasksrun
                                              ELSE runq_tasksrun \cup {t}
    /\ Return
    /\ UNCHANGED <<state, outside, failed_tids, active, live, sqdone,
                   coverVars, hashVars, build_stamps>>

Runs(t) ==
    /\ Next_task(t)
    /\ Allowed(t)
    /\ t \notin tasks_covered
    /\ ~StampCurrent(stampfiles, t)

TaskNoExec(t) ==
    /\ phase = "sched"
    /\ t \in NoExec
    /\ Runs(t)
    /\ runq_running' = runq_running \cup {t}
    /\ TaskCompleteOutright(t, runq_buildable, TaskStamp(t))
    /\ runq_tasksrun' = runq_tasksrun \cup {t}
    /\ Return
    /\ UNCHANGED <<state, outside, failed_tids, active, live, sqdone,
                   coverVars, hashVars, build_stamps>>

TaskRaises(t) ==
    /\ phase = "sched"
    /\ t \notin NoExec
    /\ Runs(t)
    /\ died
    /\ Goto("raised")
    /\ UNCHANGED <<state, outside, runqVars, sq, sqdone, coverVars, hashVars, stampVars>>

TaskStart(t) ==
    /\ phase = "sched"
    /\ t \notin NoExec
    /\ Runs(t)
    /\ runq_running' = runq_running \cup {t}
    /\ live' = live \cup {t}
    /\ active' = active + 1
    /\ build_stamps' = build_stamps \cup {<<t, Stamp(t, "task", unihash[t])>>}
    /\ Return
    /\ UNCHANGED <<state, outside, runq_buildable, runq_complete,
                   runq_tasksrun, failed_tids, sq, sqdone, coverVars, hashVars,
                   stampfiles>>

-----------------------------------------------------------------------------
(* Stage 5: nothing could be started *)

WaitForActive ==
    /\ phase = "idle"
    /\ active > 0 \/ sq.active > 0
    /\ state' = Polled(state)
    /\ Goto("wait")
    /\ UNCHANGED <<outside, runqVars, sq, sqdone, coverVars,
                   hashVars, stampVars>>

\* Mutant: the deferral is looked up, not removed.
KeepsDeferral(t) ==
    /\ phase = "idle"
    /\ active <= 0 /\ sq.active <= 0
    /\ WasDeferred(t)
    /\ sq' = IF sq.deferred[t] \in runq_complete THEN sq
             ELSE FailOutright(sq, {sq.deferred[t]})
    /\ Return
    /\ UNCHANGED <<state, outside, runqVars, sqdone, coverVars, hashVars,
                   stampVars>>

\* Nothing runs, but t is deferred: the task it waits for is failed.
BreakDeferral(t) ==
    /\ phase = "idle"
    /\ active <= 0 /\ sq.active <= 0
    /\ WasDeferred(t)
    /\ LET s == [sq EXCEPT !.deferred[t] = NoTask]
       IN  sq' = IF sq.deferred[t] \in runq_complete THEN s
                 ELSE FailOutright(s, {sq.deferred[t]})
    /\ Return
    /\ UNCHANGED <<state, outside, runqVars, sqdone, coverVars, hashVars,
                   stampVars>>

\* The sanity checks.
AllBuilt == Tasks \subseteq runq_buildable \cap runq_running \cap runq_complete

Finished ==
    /\ phase = "idle"
    /\ active <= 0 /\ sq.active <= 0
    /\ NothingDeferred
    /\ state' = IF failed_tids # {} \/ SceneErrors \/ ~AllBuilt THEN "Failed"
                                                              ELSE "Complete"
    /\ Return
    /\ UNCHANGED <<outside, runqVars, sq, sqdone, coverVars, hashVars,
                   stampVars>>

-----------------------------------------------------------------------------

\* What the server does on its own.
Server ==
    \/ Call(interrupted)
    \/ ReadDone
    \/ AfterExecute
    \/ TornDown
    \/ Raised
    \/ Rehash
    \/ \E t \in Setscene : Migrate(t)
    \/ UpdateMigrated
    \/ \E t \in Setscene : \/ SceneNotNeeded(t) \/ SceneFails(t)
                           \/ SceneCurrent(t) \/ SceneStart(t) \/ SceneRaises(t)
    \/ NoScene
    \/ UpdateHoldoff
    \/ SceneDone
    \/ \E t \in Tasks : \/ TaskNotAllowed(t) \/ TaskSkip(t)
                        \/ TaskNoExec(t) \/ TaskStart(t) \/ TaskRaises(t)
    \/ NoTaskNow
    \/ WaitForActive
    \/ \E t \in Setscene : BreakDeferral(t)
    \/ Finished

Terminated == phase = "done" /\ UNCHANGED vars

Exit(t) == SceneExit(t, TRUE) \/ SceneExit(t, FALSE) \/ TaskExit(t) \/ TaskExitFails(t)

Next ==
    \/ Server
    \/ \E t \in Setscene, ok \in BOOLEAN : SceneExit(t, ok)
    \/ \E t \in Tasks : TaskExit(t) \/ TaskExitFails(t)
    \/ \E t \in Tasks, h \in Hashes : TaskRehash(t, h)
    \/ \E stop \in {1, 2} : stop > interrupted /\ Call(stop)
    \/ WorkerDies
    \/ NoticedAgain
    \/ \E action \in {1, 2} : DiskFull(action)
    \/ Terminated

Spec == Init /\ [][Next]_vars

\* The server's loop keeps calling; a task that runs ends some time, if its worker does
\* not end before it, and the loop reads every pipe each time round.
FairSpec == Spec /\ WF_vars(Server) /\ \A t \in Tasks : SF_vars(~died /\ Exit(t))

-----------------------------------------------------------------------------
(* Properties *)

\* The record sq.
StampsOf(T) == {Stamp(t, "setscene", h) : t \in T, h \in Hashes}

SceneType ==
    [buildable : SUBSET Setscene, running : SUBSET Setscene, live : SUBSET Setscene,
     active : Int, covered : SUBSET Setscene, notcovered : SUBSET Setscene,
     notneeded : SUBSET Setscene, done : SUBSET Tasks,
     deferred : [Setscene -> Setscene \cup {NoTask}], valid : SUBSET Setscene,
     stamppresent : SUBSET Setscene, outrightfail : SUBSET Setscene,
     stamps : [Setscene -> StampsOf(Setscene)], holdoff_need_update : BOOLEAN]

\* The types, and what ties the sets of the execution together: a task in a
\* worker's hands is marked running, a complete one was, and so for the scene
\* queue.
TypeOK ==
    /\ phase \in {"call", "read", "migrate", "pending", "scene", "holdoff", "scenedone",
                  "sched", "idle", "wait", "return", "finish", "teardown", "raised", "done"}
    /\ state \in {"Running", "CleanUp", "Failed", "Complete"}
    /\ interrupted \in 0..2
    /\ worker \in BOOLEAN /\ sqdone \in BOOLEAN /\ changed \in BOOLEAN
    /\ died \in BOOLEAN /\ full \subseteq {1, 2}
    /\ runq_running \subseteq runq_buildable
    /\ runq_buildable \subseteq Tasks
    /\ live \cup runq_complete \subseteq runq_running
    /\ live \cap runq_complete = {}
    /\ runq_tasksrun \subseteq runq_complete
    /\ failed_tids \subseteq Tasks
    /\ active \in Int
    /\ sq \in SceneType /\ sq.live \subseteq sq.running
    /\ tasks_covered \cup tasks_notcovered \subseteq Tasks
    /\ unihash \in [Tasks -> Hashes]
    /\ updated_taskhash_queue \subseteq Tasks \X Hashes
    /\ todo \subseteq pending_migrations /\ pending_migrations \subseteq Setscene
    /\ update_tasks \subseteq Setscene \X BOOLEAN

\* A task is buildable only when everything it depends on is complete, whichever
\* of the four places marked it.
DependencyOrder == \A t \in runq_buildable : Depends[t] \subseteq runq_complete

\* The sets of the run queue are consistent with each other and with the task graph, in
\* whatever order tasks end, are skipped, fail, and are given new hashes.
OrderSafety == TypeOK /\ DependencyOrder

\* No more tasks are in the workers' hands than BB_NUMBER_THREADS.
ThreadLimit == Cardinality(live) + Cardinality(sq.live) <= NumberTasks

\* A setscene task is covered or not covered, never both.
DecidedOnce == sq.covered \cap sq.notcovered = {}

\* While the setscene variant of s unpacks its output no task it stands for is
\* in a worker's hands.
Isolation == \A s \in sq.live : live \cap ({s} \cup sq_covered_tasks[s]) = {}

\* A task in a worker's hands finds the output of what it depends on: the task
\* ran, or its output came from the cache, now or in an earlier build.
InputsAvailable ==
    \A t \in live : \A d \in Depends[t] :
        \/ d \in runq_tasksrun \cup NoExec
        \/ \E f \in stampfiles : f[1] = StampBase[d]

\* A setscene task is passed over as not needed only when every task that needs
\* its output is covered, and none of these is opened again.
NotNeededByAnyone == \A s \in sq.notneeded : Squash(s) \subseteq sq.covered

\* A new unihash never asks for a task that has been skipped to run after all.
NeverTooLate ==
    phase = "pending" =>
        \A t \in todo \ (runq_running \cup sq.live) : Blocked(t) \/ ~SkippedTooSoon(t)

\* What was passed over stays so, however hashes change: nobody needs it, and no
\* migration asks for it.
DecisionsStand == NotNeededByAnyone /\ NeverTooLate

\* Nobody has stopped the build, and no worker has died.
Undisturbed == interrupted = 0 /\ full = {} /\ ~died

\* When the queue says it is complete, everything is and nothing has failed, but
\* for setscene enforcement, under which a setscene task that fails ends a build
\* without a failed task.
CompleteMeansBuilt ==
    (state = "Complete" /\ Undisturbed /\ ~SetsceneOnly /\ ~Enforce)
        => runq_complete = Tasks /\ failed_tids = {}

\* The sanity checks never fire: a build fails because a task has failed.
FailedHasReason == state = "Failed" => failed_tids # {}

\* Unless it was forced to end, the queue ends with nothing in a worker's hands.
NothingLeftBehind ==
    phase = "done" /\ interrupted # 2 /\ 2 \notin full /\ ~died => live = {} /\ sq.live = {}

\* Tasks that share a stamp file, and a work directory, are not in the workers'
\* hands together; setscene variants not even when hashes have changed, ordinary
\* tasks as long as they have not.
DistinctStamps ==
    \A b, c \in build_stamps :
        b[2] = c[2] /\ (b[2][2] = "setscene" \/ unihash = InitHash) => b[1] = c[1]

\* Setscene tasks that would unpack the same output do so one after the other.
OneAtATime ==
    \A s, t \in sq.live :
        HashIndex(s, unihash[s]) = HashIndex(t, unihash[t]) => s = t

\* With --continue the build fails only when every task that could have run has
\* run or failed.
BuildsWhatItCan ==
    (state = "Failed" /\ Undisturbed /\ ~Abort) =>
        \A t \in Tasks : Depends[t] \subseteq runq_complete
                            => t \in runq_complete \cup failed_tids

\* Under setscene enforcement only tasks the whitelist allows get to a worker.
EnforcementHolds == Enforce => live \subseteq Whitelisted

\* With --force a build that gets past its scene queue is complete only when its
\* targets were run, unless enforcement refuses setscene tasks: one that fails
\* then ends the build as if it were complete.
ForcedTargetsRun ==
    Forced /\ sqdone /\ state = "Complete" /\ Undisturbed
        => Targets \subseteq runq_tasksrun

\* A build ends, however the tasks end, and when a worker dies with what it had in hand.
Ends == <>(phase = "done")

\* The run queue is an execution of the task graph.
Order == INSTANCE TaskOrder WITH started <- runq_running, finished <- runq_complete

ImplementsTaskOrder == Order!Spec
=============================================================================
