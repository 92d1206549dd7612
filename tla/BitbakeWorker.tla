---------------------------- MODULE BitbakeWorker ----------------------------
(***************************************************************************)
(* bitbake-worker, the process that runs the tasks of a build, between the *)
(* server (the cooker) and the processes it forks for the tasks.           *)
(*                                                                         *)
(*   cooker --cmd--> worker   runtask, newtaskhashes, finishnow, quit      *)
(*   worker --pipe--> cooker  the events of the tasks, their exit codes    *)
(*   task --out[t]--> worker  the events of task t                         *)
(*                                                                         *)
(* The main thread of the worker goes round a loop: select, handle the     *)
(* items of its queue, read the tasks' pipes, reap.  When there is nothing *)
(* to reap it is back at select, which waits for a second at most.  A      *)
(* second thread sends the replies.                                        *)
(*                                                                         *)
(* Messages are whole, and a pipe holds a bounded number of them.  Every   *)
(* task is given to the worker once: the setscene variant of a task and    *)
(* the task itself are two tasks here.                                     *)
(***************************************************************************)
EXTENDS Naturals, FiniteSets, SequencesExt

CONSTANTS
    Task,
    NumberTasks,        \* BB_NUMBER_THREADS
    Rehashing,          \* tasks that may report a new unihash
    MaxHashes,          \* bound: how often the hashes change
    CmdCap, PipeCap,    \* bounds: what the pipes hold
    MayDie              \* bound: which of "cooker", "worker" may be killed,
                        \* but not both in one behaviour

ASSUME WorkerAssumption ==
    /\ IsFiniteSet(Task)
    /\ NumberTasks \in Nat \ {0} /\ MaxHashes \in Nat
    /\ Rehashing \subseteq Task
    /\ {CmdCap, PipeCap} \subseteq Nat \ {0}
    /\ MayDie \subseteq {"cooker", "worker"}

VARIABLES
    cooker,             \* what the server is doing
    write,              \* what it is writing to the worker: at most one message
    sent,               \* the tasks it has sent
    hashes,             \* which table of hashes it has: how often they changed
    changed,            \* it knows of a unihash it has not acted on
    heard, result,      \* the events and the exit code it had of each task
    cmd, pipe,
    pc,                 \* where the worker's main thread is
    queue,              \* BitbakeWorker.queue
    ready,              \* the tasks' pipes select() found something in
    build_pids,         \* the keys of build_pids and of build_pipes
    forked,             \* the tasks forked so far, in that order
    newhashes,          \* the worker's table of hashes
    left, dying,        \* what a loop of handle_finishnow() has left; SIGTERM follows it
    worker_queue,       \* replies the second thread has not sent
    child,              \* how far the process of each task is
    out,                \* the pipe of each task
    fired,              \* the events each task has fired
    term                \* the tasks SIGTERM was sent to

cookerVars == <<cooker, write, sent, hashes, changed, heard, result>>
mainVars   == <<pc, queue, ready, build_pids, forked, newhashes, left, dying>>
taskVars   == <<child, out, fired, term>>
vars == <<cookerVars, cmd, pipe, mainVars, worker_queue, taskVars>>

\* Of a task's events: TaskStarted, the first, and taskUniHashUpdate.
Events == {"started", "unihash"}

\* The process of a task: forked, bound to its parent's life, leader of its
\* group, at work on the functions of the task; dead, on its own account or by
\* SIGTERM, with an exit code that nobody has collected yet; collected.
Alive  == {"forked", "bound", "leader", "working"}
Zombie == {"exited", "killed"}
Stages == {"none", "gone"} \cup Alive \cup Zombie

\* runtask carries hashes that belong to the sender's table of hashes.
RunTask(t)   == [item |-> "runtask", task |-> t, hashes |-> hashes]
NewHashes(n) == [item |-> "newtaskhashes", hashes |-> n]
FinishNow    == [item |-> "finishnow"]
Quit         == [item |-> "quit"]
Messages == [item : {"runtask"}, task : Task, hashes : 0..MaxHashes]
            \cup [item : {"newtaskhashes"}, hashes : 0..MaxHashes]
            \cup {FinishNow, Quit}

Event(t, e)    == [task |-> t, event |-> e]
ExitCode(t, c) == [task |-> t, exitcode |-> c]
Replies == [task : Task, event : Events] \cup [task : Task, exitcode : Zombie]

IsExit(r) == "exitcode" \in DOMAIN r

Init ==
    /\ cooker = "serving" /\ write = <<>>
    /\ sent = {} /\ hashes = 0 /\ changed = FALSE
    /\ heard = [t \in Task |-> <<>>] /\ result = [t \in Task |-> "none"]
    /\ cmd = <<>> /\ pipe = <<>>
    /\ pc = "reap" /\ queue = <<>> /\ ready = {} /\ build_pids = {}
    /\ forked = <<>> /\ newhashes = 0 /\ left = {} /\ dying = FALSE
    /\ worker_queue = <<>>
    /\ child = [t \in Task |-> "none"] /\ out = [t \in Task |-> <<>>]
    /\ fired = [t \in Task |-> <<>>] /\ term = {}

(***************************************************************************)
(* The server.                                                             *)
(***************************************************************************)
Live == {t \in sent : result[t] = "none"}

CookerActs(phase) == cooker = phase /\ write = <<>>

SendTask(t) ==
    /\ CookerActs("serving")
    /\ t \notin sent /\ Cardinality(Live) < NumberTasks
    /\ sent' = sent \cup {t}
    /\ write' = <<RunTask(t)>>
    /\ UNCHANGED <<cooker, hashes, changed, heard, result, cmd, pipe, mainVars,
                   worker_queue, taskVars>>

\* Mutant: this worker is not told.
SendHashesElsewhere ==
    /\ CookerActs("serving")
    /\ changed /\ hashes < MaxHashes
    /\ changed' = FALSE /\ hashes' = hashes + 1
    /\ UNCHANGED <<cooker, write, sent, heard, result, cmd, pipe, mainVars, worker_queue,
                   taskVars>>

\* process_possible_migrations() found that hashes change.
SendHashes ==
    /\ CookerActs("serving")
    /\ changed /\ hashes < MaxHashes
    /\ changed' = FALSE /\ hashes' = hashes + 1
    /\ write' = <<NewHashes(hashes + 1)>>
    /\ UNCHANGED <<cooker, sent, heard, result, cmd, pipe, mainVars, worker_queue,
                   taskVars>>

\* finish_now(): the user insists on stopping, or the worker is found dead.
FinishNowSent ==
    /\ CookerActs("serving")
    /\ cooker' = "finishing"
    /\ write' = <<FinishNow>>
    /\ UNCHANGED <<sent, hashes, changed, heard, result, cmd, pipe, mainVars,
                   worker_queue, taskVars>>

\* teardown_workers(): after finish_now(), when no task is left, or when the
\* run queue raises an exception.
Teardown ==
    /\ CookerActs("serving") \/ CookerActs("finishing")
    /\ cooker' = "teardown"
    /\ write' = <<Quit>>
    /\ UNCHANGED <<sent, hashes, changed, heard, result, cmd, pipe, mainVars,
                   worker_queue, taskVars>>

\* The write blocks while the pipe is full.
Write ==
    /\ write # <<>> /\ cooker # "dead"
    /\ pc # "gone" /\ Len(cmd) < CmdCap
    /\ cmd' = cmd \o write
    /\ write' = <<>>
    /\ UNCHANGED <<cooker, sent, hashes, changed, heard, result, pipe, mainVars,
                   worker_queue, taskVars>>

\* The worker is gone: finish_now() and teardown_workers() ignore that, and
\* for the others it is an uncaught exception that ends the run queue.
WriteFails ==
    /\ write # <<>> /\ cooker # "dead" /\ pc = "gone"
    /\ cooker' = IF cooker = "serving" THEN "finishing" ELSE cooker
    /\ write' = <<>>
    /\ UNCHANGED <<sent, hashes, changed, heard, result, cmd, pipe, mainVars,
                   worker_queue, taskVars>>

\* runQueuePipe.read().
Read ==
    /\ CookerActs("serving") \/ CookerActs("finishing") \/ CookerActs("teardown")
    /\ pipe # <<>>
    /\ pipe' = Tail(pipe)
    /\ LET r == Head(pipe) IN
         \/ /\ IsExit(r)
            /\ result' = [result EXCEPT ![r.task] = r.exitcode]
            /\ UNCHANGED <<heard, changed>>
         \/ /\ ~IsExit(r)
            /\ heard' = [heard EXCEPT ![r.task] = Append(@, r.event)]
            /\ changed' = (changed \/ r.event = "unihash")
            /\ UNCHANGED result
    /\ UNCHANGED <<cooker, write, sent, hashes, cmd, mainVars, worker_queue, taskVars>>

\* _teardown_worker() comes back: the process has ended and its pipe is empty.
Done ==
    /\ CookerActs("teardown")
    /\ pc = "gone" /\ pipe = <<>>
    /\ cooker' = "done"
    /\ UNCHANGED <<write, sent, hashes, changed, heard, result, cmd, pipe, mainVars,
                   worker_queue, taskVars>>

CookerDies ==
    /\ "cooker" \in MayDie /\ ~dying
    /\ cooker \notin {"done", "dead"}
    /\ cooker' = "dead"
    /\ UNCHANGED <<write, sent, hashes, changed, heard, result, cmd, pipe, mainVars,
                   worker_queue, taskVars>>

(***************************************************************************)
(* The worker's main thread.                                               *)
(***************************************************************************)
\* Mutant: nobody looks for the end of the input.
NeverEof == FALSE

Eof == cmd = <<>> /\ (CookerActs("teardown") \/ cooker = "dead")

\* sigterm_exception(): handle_finishnow() and then SIGTERM for itself.
DyingNow ==
    /\ dying' = TRUE /\ pc' = "kill"
    /\ left' = build_pids

Order == [newtaskhashes |-> 1, runtask |-> 2, finishnow |-> 3, quit |-> 4]

\* The kinds of items are tried in that order, once each: what comes first in
\* the queue waits for the next round when its turn has passed.
FirstItem(from, rest, some) ==
    IF rest # <<>> /\ Order[Head(rest).item] > from THEN Head(rest).item
    ELSE IF some # {} THEN "pipes" ELSE "reap"

\* Mutant: the main thread sends the replies itself before it goes on.
SelectAfterFlush ==
    /\ pc = "reap" /\ worker_queue = <<>> /\ \A t \in Task : child[t] \notin Zombie
    /\ IF Eof
         THEN DyingNow /\ UNCHANGED <<queue, ready>>
         ELSE /\ queue' = queue \o cmd
              /\ ready' = {t \in build_pids : out[t] # <<>>}
              /\ pc' = FirstItem(0, queue', ready')
              /\ UNCHANGED <<left, dying>>
    /\ cmd' = <<>>
    /\ UNCHANGED <<cookerVars, pipe, build_pids, forked, newhashes, worker_queue, taskVars>>

Select ==
    /\ pc = "reap" /\ \A t \in Task : child[t] \notin Zombie
    /\ IF Eof
         THEN DyingNow /\ UNCHANGED <<queue, ready>>
         ELSE /\ queue' = queue \o cmd
              /\ ready' = {t \in build_pids : out[t] # <<>>}
              /\ pc' = FirstItem(0, queue', ready')
              /\ UNCHANGED <<left, dying>>
    /\ cmd' = <<>>
    /\ UNCHANGED <<cookerVars, pipe, build_pids, forked, newhashes, worker_queue, taskVars>>

Sigterm ==
    /\ "worker" \in MayDie /\ cooker # "dead"
    /\ pc # "gone" /\ ~dying
    /\ DyingNow
    /\ UNCHANGED <<cookerVars, cmd, pipe, queue, ready, build_pids, forked, newhashes,
                   worker_queue, taskVars>>

\* handle_item() looks at the start of the queue once, and then goes on for as
\* long as it finds the end of such an item.  When another item stands before
\* it, that is what the handler gets: it cannot unpickle it, and the exception
\* ends the main loop.  (finishnow and quit come only once.)
AfterItem(item, rest) ==
    IF rest # <<>> /\ Head(rest).item = item THEN item
    ELSE IF \E i \in DOMAIN rest : rest[i].item = item THEN "exiting"
    ELSE FirstItem(Order[item], rest, ready)

HandleNewTaskHashes ==
    /\ pc = "newtaskhashes"
    /\ newhashes' = Head(queue).hashes
    /\ queue' = Tail(queue)
    /\ pc' = AfterItem(pc, queue')
    /\ UNCHANGED <<cookerVars, cmd, pipe, ready, build_pids, forked, left, dying,
                   worker_queue, taskVars>>

HandleRunTask ==
    /\ pc = "runtask"
    /\ LET t == Head(queue).task IN
         /\ child' = [child EXCEPT ![t] = "forked"]
         /\ build_pids' = build_pids \cup {t}
         /\ forked' = Append(forked, t)
    /\ queue' = Tail(queue)
    /\ pc' = AfterItem(pc, queue')
    /\ UNCHANGED <<cookerVars, cmd, pipe, ready, newhashes, left, dying,
                   worker_queue, out, fired, term>>

\* handle_finishnow() comes back to handle_item() when Drain has ended.
HandleFinishNow ==
    /\ pc = "finishnow"
    /\ left' = build_pids
    /\ queue' = Tail(queue)
    /\ pc' = "kill"
    /\ UNCHANGED <<cookerVars, cmd, pipe, ready, build_pids, forked, newhashes, dying,
                   worker_queue, taskVars>>

\* os.kill(-k, SIGTERM) fails when there is no such process group: the process
\* has not made one yet, or was collected.  Then there is no wait either.
HasGroup(t) == child[t] \in {"leader", "working"} \cup Zombie

\* The loops over build_pids and build_pipes take the tasks as they were forked.
Earliest(t, some) ==
    /\ t \in some
    /\ \A i, j \in DOMAIN forked : forked[i] = t /\ forked[j] \in some => i <= j

Kill(t) ==
    /\ pc = "kill" /\ Earliest(t, left)
    /\ left' = left \ {t}
    /\ IF HasGroup(t)
         THEN pc' = "wait" /\ term' = term \cup {t}
         ELSE UNCHANGED <<pc, term>>
    /\ UNCHANGED <<cookerVars, cmd, pipe, queue, ready, build_pids, forked, newhashes,
                   dying, worker_queue, child, out, fired>>

\* os.waitpid(-1, 0): any dead child; its exit code is dropped.
Wait(t) ==
    /\ pc = "wait" /\ child[t] \in Zombie
    /\ child' = [child EXCEPT ![t] = "gone"]
    /\ pc' = "kill"
    /\ UNCHANGED <<cookerVars, cmd, pipe, queue, ready, build_pids, forked, newhashes,
                   left, dying, worker_queue, out, fired, term>>

KillEnds ==
    /\ pc = "kill" /\ left = {} /\ ~dying
    /\ left' = build_pids
    /\ pc' = "drain"
    /\ UNCHANGED <<cookerVars, cmd, pipe, queue, ready, build_pids, forked, newhashes,
                   dying, worker_queue, taskVars>>

\* What read() finds in the pipe of a task.
Said(t) == [i \in DOMAIN out[t] |-> Event(t, out[t][i])]

ReadPipe(t) ==
    /\ worker_queue' = worker_queue \o Said(t)
    /\ out' = [out EXCEPT ![t] = <<>>]

Drain(t) ==
    /\ pc = "drain" /\ Earliest(t, left)
    /\ ReadPipe(t)
    /\ left' = left \ {t}
    /\ UNCHANGED <<cookerVars, cmd, pipe, pc, queue, ready, build_pids, forked, newhashes,
                   dying, child, fired, term>>

DrainEnds ==
    /\ pc = "drain" /\ left = {}
    /\ pc' = AfterItem("finishnow", queue)
    /\ UNCHANGED <<cookerVars, cmd, pipe, queue, ready, build_pids, forked, newhashes,
                   left, dying, worker_queue, taskVars>>

HandleQuit ==
    /\ pc = "quit"
    /\ queue' = Tail(queue)
    /\ pc' = "exiting"
    /\ UNCHANGED <<cookerVars, cmd, pipe, ready, build_pids, forked, newhashes, left,
                   dying, worker_queue, taskVars>>

Pipes(t) ==
    /\ pc = "pipes" /\ Earliest(t, ready)
    /\ ReadPipe(t)
    /\ ready' = ready \ {t}
    /\ pc' = IF ready' = {} THEN "reap" ELSE "pipes"
    /\ UNCHANGED <<cookerVars, cmd, pipe, queue, build_pids, forked, newhashes, left,
                   dying, child, fired, term>>

ReapThen(t, replies) ==
    /\ pc = "reap" /\ child[t] \in Zombie
    /\ child' = [child EXCEPT ![t] = "gone"]
    /\ build_pids' = build_pids \ {t}
    /\ worker_queue' = worker_queue \o replies
    /\ out' = [out EXCEPT ![t] = <<>>]
    /\ UNCHANGED <<cookerVars, cmd, pipe, pc, queue, ready, forked, newhashes, left,
                   dying, fired, term>>

\* Mutants: the pipe is closed unread, emptied too late; the oldest task is
\* waited for instead of any.
ReapUnread(t) == ReapThen(t, <<ExitCode(t, child[t])>>)
ReapFirst(t)  == ReapThen(t, <<ExitCode(t, child[t])>> \o Said(t))
ReapOldest(t) ==
    /\ child[t] \in Zombie
    /\ Earliest(t, build_pids)
    /\ ReapThen(t, Said(t) \o <<ExitCode(t, child[t])>>)

\* process_waitpid(): the pipe is emptied before the exit code is sent.
Reap(t) == ReapThen(t, Said(t) \o <<ExitCode(t, child[t])>>)

\* The second thread, worker_flush().
Flush ==
    /\ pc # "gone" /\ worker_queue # <<>>
    /\ cooker # "dead" /\ Len(pipe) < PipeCap
    /\ pipe' = Append(pipe, Head(worker_queue))
    /\ worker_queue' = Tail(worker_queue)
    /\ UNCHANGED <<cookerVars, cmd, mainVars, taskVars>>

\* The process ends when both threads have, or with the SIGTERM it sends to
\* itself.  The kernel sends SIGTERM to the children that asked for it.
Gone ==
    /\ \/ pc = "exiting" /\ worker_queue = <<>>
       \/ pc = "kill" /\ left = {} /\ dying
    /\ pc' = "gone"
    /\ worker_queue' = <<>>
    /\ term' = term \cup {t \in Task : child[t] \in Alive \ {"forked"}}
    /\ UNCHANGED <<cookerVars, cmd, pipe, queue, ready, build_pids, forked, newhashes,
                   left, dying, child, out, fired>>

(***************************************************************************)
(* The processes of the tasks.                                             *)
(***************************************************************************)
Goes(t, from, to) == child[t] = from /\ child' = [child EXCEPT ![t] = to]

\* signal_on_parent_exit(): to no avail when the parent is gone already.
Bind(t) ==
    /\ Goes(t, "forked", "bound")
    /\ UNCHANGED <<cookerVars, cmd, pipe, mainVars, worker_queue, out, fired, term>>

\* os.setsid()
Lead(t) ==
    /\ Goes(t, "bound", "leader")
    /\ UNCHANGED <<cookerVars, cmd, pipe, mainVars, worker_queue, out, fired, term>>

\* The recipe does not load.
LoadFails(t) ==
    /\ Goes(t, "leader", "exited")
    /\ UNCHANGED <<cookerVars, cmd, pipe, mainVars, worker_queue, out, fired, term>>

\* Mutant: a pipe nobody reads goes unnoticed.
AnyReader(t) == TRUE

\* The reading end of the pipe of t is open in the worker, and in the tasks it
\* forked while t was running.
HasReader(t) ==
    \/ pc # "gone"
    \/ \E i, j \in DOMAIN forked :
          i < j /\ forked[i] = t /\ child[forked[j]] \in Alive

\* worker_child_fire(): when nobody can read the event, the task kills itself.
Fire(t, e, from, to) ==
    /\ child[t] = from
    /\ IF HasReader(t)
         THEN /\ child' = [child EXCEPT ![t] = to]
              /\ out' = [out EXCEPT ![t] = Append(@, e)]
              /\ fired' = [fired EXCEPT ![t] = Append(@, e)]
         ELSE /\ child' = [child EXCEPT ![t] = "killed"]
              /\ UNCHANGED <<out, fired>>
    /\ UNCHANGED <<cookerVars, cmd, pipe, mainVars, worker_queue, term>>

TaskStarted(t) == Fire(t, "started", "leader", "working")
UnihashUpdate(t) ==
    /\ t \in Rehashing /\ ~Contains(fired[t], "unihash")
    /\ Fire(t, "unihash", "working", "working")

Exit(t) ==
    /\ Goes(t, "working", "exited")
    /\ UNCHANGED <<cookerVars, cmd, pipe, mainVars, worker_queue, out, fired, term>>

Killed(t) ==
    /\ t \in term /\ child[t] \in Alive
    /\ child' = [child EXCEPT ![t] = "killed"]
    /\ UNCHANGED <<cookerVars, cmd, pipe, mainVars, worker_queue, out, fired, term>>

-----------------------------------------------------------------------------
\* Nobody reads the replies any more: worker_flush() tries for ever.
FlushFails ==
    /\ pc # "gone" /\ worker_queue # <<>> /\ cooker = "dead"
    /\ UNCHANGED vars

Finished ==
    /\ cooker \in {"done", "dead"} /\ pc = "gone"
    /\ \A t \in Task : child[t] \notin Alive
    /\ UNCHANGED vars

Cooker == \/ \E t \in Task : SendTask(t)
          \/ SendHashes \/ FinishNowSent \/ Teardown \/ CookerDies
          \/ Write \/ WriteFails \/ Read \/ Done

Main == \/ Select \/ HandleNewTaskHashes \/ HandleRunTask
        \/ HandleFinishNow \/ HandleQuit
        \/ KillEnds \/ DrainEnds \/ Gone
        \/ \E t \in Task : Kill(t) \/ Wait(t) \/ Drain(t) \/ Pipes(t) \/ Reap(t)

TaskActs(t) ==
    \/ Bind(t) \/ Lead(t) \/ LoadFails(t) \/ TaskStarted(t) \/ UnihashUpdate(t)
    \/ Exit(t) \/ Killed(t)

Next == Cooker \/ Main \/ Sigterm \/ Flush \/ FlushFails \/ Finished \/ \E t \in Task : TaskActs(t)

Spec == Init /\ [][Next]_vars

\* The server goes on with what it is in the middle of, both threads of the
\* worker run, and SIGTERM arrives.  Nothing says that a task ever ends.
Fairness ==
    /\ WF_vars(Write) /\ WF_vars(WriteFails) /\ WF_vars(Read) /\ WF_vars(Done)
    /\ WF_vars(Main) /\ WF_vars(Flush)
    /\ \A t \in Task : WF_vars(Killed(t))

FairSpec == Spec /\ Fairness

(***************************************************************************)
(* Properties.                                                             *)
(***************************************************************************)
TypeOK ==
    /\ cooker \in {"serving", "finishing", "teardown", "done", "dead"}
    /\ write \in {<<>>} \cup {<<m>> : m \in Messages}
    /\ sent \subseteq Task /\ hashes \in 0..MaxHashes /\ changed \in BOOLEAN
    /\ heard \in [Task -> Seq(Events)] /\ result \in [Task -> {"none"} \cup Zombie]
    /\ cmd \in Seq(Messages) /\ Len(cmd) <= CmdCap
    /\ pipe \in Seq(Replies) /\ Len(pipe) <= PipeCap
    /\ pc \in {"reap", "newtaskhashes", "runtask", "finishnow", "quit", "pipes", "kill",
               "wait", "drain", "exiting", "gone"}
    /\ pc \in {"newtaskhashes", "runtask", "finishnow", "quit"} =>
          queue # <<>> /\ Head(queue).item = pc
    /\ queue \in Seq(Messages) /\ ready \subseteq Task /\ build_pids \subseteq Task
    /\ forked \in Seq(Task) /\ newhashes \in 0..MaxHashes
    /\ left \subseteq Task /\ dying \in BOOLEAN
    /\ worker_queue \in Seq(Replies)
    /\ child \in [Task -> Stages] /\ out \in [Task -> Seq(Events)]
    /\ fired \in [Task -> Seq(Events)] /\ term \subseteq Task

Asked   == queue \o cmd \o write
Answers == pipe \o worker_queue

\* Until the server wants the worker to finish, or somebody kills the worker, a
\* task that was sent and has no result is in one place: a runtask on its way,
\* an entry of build_pids with its process, or an exit code on its way back.
Accounted ==
    cooker = "serving" /\ ~dying =>
        \A t \in Task :
            LET asks   == {i \in DOMAIN Asked :
                              Asked[i].item = "runtask" /\ Asked[i].task = t}
                codes  == {i \in DOMAIN Answers : Answers[i].task = t /\ IsExit(Answers[i])}
                places == Cardinality(asks) + Cardinality(codes)
                          + (IF child[t] \in Alive \cup Zombie THEN 1 ELSE 0)
            IN  /\ places = (IF t \in Live THEN 1 ELSE 0)
                /\ t \in build_pids <=> child[t] \in Alive \cup Zombie

\* When the server has the exit code of a task it has had all the task's events,
\* a new unihash among them, whatever became of the worker since.
NothingLost == \A t \in Task : result[t] # "none" => heard[t] = fired[t]

\* Nothing a task or the worker has to say gets lost while both run: every task the server
\* counts on is somewhere, and its end comes after everything else it said.
WorkerSafety == TypeOK /\ Accounted /\ NothingLost

\* A task starts with the table of hashes its own hash was computed with.
HashesCurrent == pc = "runtask" => Head(queue).hashes = newhashes

\* handle_finishnow() never waits for a child that is not about to die.
WaitEnds ==
    pc = "wait" => \E t \in Task : child[t] \in Zombie \/ (child[t] \in Alive /\ t \in term)

\* When the worker has gone a task that goes on with its work, and is not being
\* killed, was not the last one forked: a later one keeps its pipe open.
OnlyElderOrphans ==
    pc = "gone" =>
        \A t \in Task : child[t] = "working" /\ t \notin term => t # Last(forked)

\* The worker knows its children: it only waits for one that is about to die, and the last
\* it forked does not outlive it.
ChildrenKnown == WaitEnds /\ OnlyElderOrphans

\* For the server the worker is a TaskService.
Service == INSTANCE TaskService WITH Codes <- Zombie, None <- "none"
ImplementsTaskService == Service!Spec

\* A process that ends is reported to a server that keeps serving, although
\* other tasks never end, unless the worker is killed or breaks.
EndIsReported ==
    \A t \in Task :
        child[t] \in Zombie /\ cooker = "serving" /\ pc # "gone"
            ~> result[t] # "none" \/ cooker # "serving" \/ dying \/ pc \in {"exiting", "gone"}

\* Both sides may write at once, with full pipes: no write blocks for ever.
WriteEnds == write # <<>> ~> write = <<>> \/ cooker = "dead"

\* teardown_workers() comes back, and a worker whose server has died goes too,
\* unless it was about to exit and has replies left for the server.
WorkerGoes ==
    cooker \in {"teardown", "dead"} ~>
        pc = "gone" \/ (cooker = "dead" /\ pc = "exiting" /\ worker_queue # <<>>)

\* Neither side waits for the other for ever, in a write or at the end.
NobodyBlocks == WriteEnds /\ WorkerGoes

\* While the server goes on with the build the worker does not end on its own.
EndsWhenTold == cooker = "serving" => pc # "exiting"

=============================================================================
