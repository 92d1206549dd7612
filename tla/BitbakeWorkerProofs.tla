------------------------- MODULE BitbakeWorkerProofs -------------------------
(***************************************************************************)
(* What the server gets from a worker, for any number of tasks, any size   *)
(* of the pipes and any number of changes of the hashes.                   *)
(*                                                                         *)
(* Everything on the way to the worker is one sequence, Asked, and what is *)
(* on the way back is another, Answers.  Every step leaves them alone,     *)
(* takes their first element, or puts something behind their last one, and *)
(* the invariant speaks of the places of their elements.                   *)
(***************************************************************************)
EXTENDS BitbakeWorker, TLAPS, SequenceTheorems, FiniteSetTheorems

\* The exit code of t is on its way.
Coded(t) == \E i \in DOMAIN Answers : Answers[i].task = t /\ IsExit(Answers[i])

\* The tasks the worker forked are tasks it was sent, each forked once.
Forks ==
    /\ \A t \in Task : child[t] # "none" => t \in sent
    /\ \A t \in Task : child[t] = "none" => out[t] = <<>> /\ fired[t] = <<>>
    /\ \A t \in Task : child[t] # "none" => \E i \in DOMAIN forked : forked[i] = t
    /\ \A i \in DOMAIN forked : child[forked[i]] # "none"
    /\ \A i, j \in DOMAIN forked : forked[i] = forked[j] => i = j

\* A runtask that is on its way is the only one of a task that has not started.
Asks ==
    /\ \A i \in DOMAIN Asked : Asked[i].item = "runtask" =>
          Asked[i].task \in sent /\ child[Asked[i].task] = "none"
    /\ \A i, j \in DOMAIN Asked :
          Asked[i].item = "runtask" /\ Asked[j].item = "runtask"
            /\ Asked[i].task = Asked[j].task => i = j

\* What is on its way back is of a task that was forked and has no result, and
\* an exit code is the last there is of its task.
Replied ==
    /\ \A i \in DOMAIN Answers :
          child[Answers[i].task] # "none" /\ result[Answers[i].task] = "none"
    /\ \A i \in DOMAIN Answers : IsExit(Answers[i]) =>
          child[Answers[i].task] = "gone" /\ out[Answers[i].task] = <<>>
    /\ \A i, j \in DOMAIN Answers :
          i < j /\ IsExit(Answers[i]) => Answers[i].task # Answers[j].task
    /\ \A t \in Task : result[t] # "none" => child[t] = "gone" /\ out[t] = <<>>

\* The messages that bring a table, and those that belong to one.
Tells(i)  == Asked[i].item = "newtaskhashes"
Tabled(i) == Asked[i].item \in {"newtaskhashes", "runtask"}

\* The tables on their way are newer than the worker's, in order, and end with
\* the server's; a runtask comes after its table.
Tables ==
    pc # "gone" =>
        /\ \A i \in DOMAIN Asked : Tabled(i) => Asked[i].hashes <= hashes
        /\ \A i \in DOMAIN Asked : Tells(i) => newhashes < Asked[i].hashes
        /\ \A i, j \in DOMAIN Asked :
              i < j /\ Tells(i) /\ Tabled(j) => Asked[i].hashes <= Asked[j].hashes
        /\ \A i, j \in DOMAIN Asked :
              i < j /\ Tells(i) /\ Tells(j) => Asked[i].hashes < Asked[j].hashes
        /\ \A j \in DOMAIN Asked : Asked[j].item = "runtask" =>
              \/ Asked[j].hashes = newhashes
              \/ \E i \in DOMAIN Asked : i < j /\ Tells(i) /\ Asked[i].hashes = Asked[j].hashes
        /\ \/ hashes = newhashes
           \/ \E i \in DOMAIN Asked : Tells(i) /\ Asked[i].hashes = hashes

\* Until somebody wants the end, a task in hand is somewhere.
Somewhere ==
    cooker = "serving" /\ ~dying =>
        /\ pc \notin {"finishnow", "quit", "kill", "wait", "drain"}
        /\ \A i \in DOMAIN Asked : Asked[i].item \notin {"finishnow", "quit"}
        /\ \A t \in Task : t \in build_pids <=> child[t] \in Alive \cup Zombie
        /\ \A t \in Live :
              \/ \E i \in DOMAIN Asked : Asked[i].item = "runtask" /\ Asked[i].task = t
              \/ child[t] \in Alive \cup Zombie
              \/ Coded(t)

\* The n events of t on their way back are the replies pos[1], ... pos[n].
OnTheWay(t, n, pos) ==
    /\ pos \in [1 .. n -> DOMAIN Answers]
    /\ \A k, l \in 1 .. n : k < l => pos[k] < pos[l]
    /\ \A k \in 1 .. n : Answers[pos[k]].task = t /\ ~IsExit(Answers[pos[k]])
    /\ \A i \in DOMAIN Answers :
          Answers[i].task = t /\ ~IsExit(Answers[i]) => \E k \in 1 .. n : pos[k] = i
    /\ fired[t] = heard[t] \o [k \in 1 .. n |-> Answers[pos[k]].event] \o out[t]

\* An event is with the server, on its way, or in the pipe of its task, in the
\* order they were fired in; a worker that is gone only lost what had no end yet.
Kept ==
    \A t \in Task :
        pc # "gone" \/ Coded(t) \/ result[t] # "none" =>
            \E n \in Nat : \E pos \in [1 .. n -> DOMAIN Answers] : OnTheWay(t, n, pos)

IInv == /\ TypeOK /\ Forks /\ Asks /\ Replied /\ Tables /\ Somewhere /\ Kept
        /\ WaitEnds /\ OnlyElderOrphans
-----------------------------------------------------------------------------
(* Lemmas on sequences *)

\* The places of a sequence without its first element.
LEMMA TailPlaces ==
    ASSUME NEW S, NEW q \in Seq(S), q # <<>>
    PROVE  /\ Head(q) = q[1] /\ Head(q) \in S /\ 1 \in DOMAIN q
           /\ Tail(q) \in Seq(S)
           /\ \A i \in DOMAIN Tail(q) : i + 1 \in DOMAIN q /\ Tail(q)[i] = q[i + 1]
           /\ \A i \in DOMAIN q : i # 1 => i - 1 \in DOMAIN Tail(q) /\ Tail(q)[i - 1] = q[i]
OBVIOUS

\* The places of two sequences, one behind the other.
LEMMA ConcatPlaces ==
    ASSUME NEW S, NEW q \in Seq(S), NEW r \in Seq(S)
    PROVE  /\ q \o r \in Seq(S) /\ Len(q \o r) = Len(q) + Len(r)
           /\ \A i \in DOMAIN q : i \in DOMAIN (q \o r) /\ (q \o r)[i] = q[i]
           /\ \A i \in DOMAIN r : i + Len(q) \in DOMAIN (q \o r) /\ (q \o r)[i + Len(q)] = r[i]
           /\ \A i \in DOMAIN (q \o r) :
                 \/ i \in DOMAIN q /\ (q \o r)[i] = q[i]
                 \/ i - Len(q) \in DOMAIN r /\ i > Len(q) /\ (q \o r)[i] = r[i - Len(q)]
OBVIOUS

\* Taking the first element of the front part is taking that of the whole.
LEMMA TailOfConcat ==
    ASSUME NEW S, NEW q \in Seq(S), NEW r \in Seq(S), q # <<>>
    PROVE  Tail(q) \o r = Tail(q \o r) /\ q \o r # <<>> /\ Head(q \o r) = Head(q)
<1>1. Tail(q) \o r \in Seq(S) /\ Tail(q \o r) \in Seq(S) /\ q \o r # <<>>
      OBVIOUS
<1>2. Len(Tail(q) \o r) = Len(Tail(q \o r))
      OBVIOUS
<1>3. \A i \in 1 .. Len(Tail(q) \o r) : (Tail(q) \o r)[i] = Tail(q \o r)[i]
      OBVIOUS
<1>4. Tail(q) \o r = Tail(q \o r)
      BY <1>1, <1>2, <1>3, SeqEqual
<1> QED BY <1>1, <1>4

\* Moving an element over the border of two parts changes nothing.
LEMMA HeadMoves ==
    ASSUME NEW S, NEW q \in Seq(S), NEW r \in Seq(S), r # <<>>
    PROVE  Append(q, Head(r)) \o Tail(r) = q \o r
<1>1. Append(q, Head(r)) \o Tail(r) \in Seq(S) /\ q \o r \in Seq(S)
      OBVIOUS
<1>2. Len(Append(q, Head(r)) \o Tail(r)) = Len(q \o r)
      OBVIOUS
<1>3. \A i \in 1 .. Len(q \o r) : (Append(q, Head(r)) \o Tail(r))[i] = (q \o r)[i]
      OBVIOUS
<1> QED BY <1>1, <1>2, <1>3, SeqEqual

-----------------------------------------------------------------------------
(* Types *)

\* The kinds of items, and the places of the main thread.
Items == {"newtaskhashes", "runtask", "finishnow", "quit"}

Places == Items \cup {"reap", "pipes", "kill", "wait", "drain", "exiting", "gone"}

\* Where the main thread goes fits the queue.
Goal(l, q) == l \in Places /\ (l \in Items => q # <<>> /\ Head(q).item = l)

\* Every message is of one of four kinds.
LEMMA MessageItems == \A m \in Messages : m.item \in Items
BY DEF Messages, Items, FinishNow, Quit

\* The kind tried first is that of the item at the start of the queue.
LEMMA FirstItemOK ==
    ASSUME NEW q \in Seq(Messages), NEW from, NEW some
    PROVE  Goal(FirstItem(from, q, some), q) /\ FirstItem(from, q, some) \notin {"kill", "wait", "drain", "gone"}
<1>1. q # <<>> => Head(q) \in Messages
      BY TailPlaces
<1>2. q # <<>> => Head(q).item \in Items
      BY <1>1, MessageItems
<1> QED BY <1>2 DEF FirstItem, Goal, Places, Items

\* So is the kind tried after another.
LEMMA AfterItemOK ==
    ASSUME NEW q \in Seq(Messages), NEW item \in Items
    PROVE  Goal(AfterItem(item, q), q) /\ AfterItem(item, q) \notin {"kill", "wait", "drain", "gone"}
<1>1. Goal(FirstItem(Order[item], q, ready), q)
      /\ FirstItem(Order[item], q, ready) \notin {"kill", "wait", "drain", "gone"}
      BY FirstItemOK
<1>2. Goal("exiting", q)
      BY DEF Goal, Places, Items
<1>3. q # <<>> /\ Head(q).item = item => Goal(item, q)
      BY DEF Goal, Places
<1> QED BY <1>1, <1>2, <1>3 DEF AfterItem, Items

\* What is read from the pipe of a task is a sequence of its events.
LEMMA SaidOK ==
    ASSUME TypeOK, NEW t \in Task
    PROVE  /\ Said(t) \in Seq(Replies) /\ Len(Said(t)) = Len(out[t])
           /\ \A i \in DOMAIN out[t] : Said(t)[i] = Event(t, out[t][i])
           /\ \A c \in Zombie : ExitCode(t, c) \in Replies
<1>1. out[t] \in Seq(Events)
      BY DEF TypeOK
<1>2. \A e \in Events : Event(t, e) \in Replies
      BY DEF Event, Replies
<1>3. \A i \in DOMAIN out[t] : Event(t, out[t][i]) \in Replies
      BY <1>1, <1>2
<1>4. Said(t) = [i \in 1 .. Len(out[t]) |-> Event(t, out[t][i])] /\ Len(out[t]) \in Nat
      BY <1>1 DEF Said
<1>5. Said(t) \in Seq(Replies) /\ Len(Said(t)) = Len(out[t])
      BY <1>1, <1>3, <1>4
<1>6. \A i \in DOMAIN out[t] : Said(t)[i] = Event(t, out[t][i])
      BY DEF Said
<1>7. \A c \in Zombie : ExitCode(t, c) \in Replies
      BY DEF ExitCode, Replies
<1> QED BY <1>5, <1>6, <1>7

\* A reply is an exit code or an event.
LEMMA ReplyKinds ==
    ASSUME NEW r \in Replies
    PROVE  /\ r.task \in Task
           /\ IsExit(r) => r.exitcode \in Zombie
           /\ ~IsExit(r) => r.event \in Events
BY DEF Replies, IsExit

\* Events and exit codes are told apart, and each names its task.
LEMMA ReplyIs ==
    ASSUME NEW t
    PROVE  /\ \A e : Event(t, e).task = t /\ Event(t, e).event = e /\ ~IsExit(Event(t, e))
           /\ \A c : ExitCode(t, c).task = t /\ ExitCode(t, c).exitcode = c /\ IsExit(ExitCode(t, c))
BY DEF Event, ExitCode, IsExit

\* Reading a pipe respects the types.
LEMMA ReadPipeOK ==
    ASSUME TypeOK, NEW t \in Task, ReadPipe(t)
    PROVE  worker_queue' \in Seq(Replies) /\ out' \in [Task -> Seq(Events)]
<1>1. worker_queue \in Seq(Replies) /\ Said(t) \in Seq(Replies)
      BY SaidOK DEF TypeOK
<1>2. worker_queue' \in Seq(Replies)
      BY <1>1, ConcatPlaces DEF ReadPipe
<1>3. <<>> \in Seq(Events)
      OBVIOUS
<1>4. out' \in [Task -> Seq(Events)]
      BY <1>3 DEF ReadPipe, TypeOK
<1> QED BY <1>2, <1>4

\* The initial state has the types.
LEMMA TypeInit == Init => TypeOK
<1>1. <<>> \in Seq(Messages) /\ <<>> \in Seq(Replies) /\ <<>> \in Seq(Task) /\ <<>> \in Seq(Events)
      /\ Len(<<>>) = 0
      OBVIOUS
<1>2. 0 \in 0 .. MaxHashes /\ 0 <= CmdCap /\ 0 <= PipeCap
      BY WorkerAssumption DEF WorkerAssumption
<1> QED BY <1>1, <1>2 DEF Init, TypeOK, Stages

\* A message of the server.
LEMMA Sendable ==
    ASSUME TypeOK
    PROVE  /\ \A t \in Task : RunTask(t) \in Messages
           /\ \A n \in 0 .. MaxHashes : NewHashes(n) \in Messages
           /\ FinishNow \in Messages /\ Quit \in Messages
BY DEF TypeOK, Messages, RunTask, NewHashes

\* The server has at most one message in its hand.
LEMMA WriteType ==
    ASSUME TypeOK
    PROVE  write \in Seq(Messages) /\ Len(write) <= 1
<1>1. CASE write = <<>>
      BY <1>1
<1>2. ASSUME NEW m \in Messages, write = <<m>> PROVE write \in Seq(Messages) /\ Len(write) <= 1
      BY <1>2
<1>3. write = <<>> \/ \E m \in Messages : write = <<m>>
      BY DEF TypeOK
<1> QED BY <1>1, <1>2, <1>3

\* The steps of the server respect the types.
LEMMA TypeOfCooker ==
    ASSUME TypeOK, Cooker
    PROVE  TypeOK'
<1> USE WorkerAssumption DEF WorkerAssumption, mainVars, taskVars
<1>1. ASSUME NEW t \in Task, SendTask(t) PROVE TypeOK'
      BY <1>1, Sendable DEF TypeOK, SendTask
<1>2. ASSUME SendHashes PROVE TypeOK'
  <2>1. hashes + 1 \in 0 .. MaxHashes
        BY <1>2 DEF TypeOK, SendHashes
  <2> QED BY <1>2, <2>1, Sendable DEF TypeOK, SendHashes
<1>3. ASSUME FinishNowSent PROVE TypeOK'
      BY <1>3, Sendable DEF TypeOK, FinishNowSent
<1>4. ASSUME Teardown PROVE TypeOK'
      BY <1>4, Sendable DEF TypeOK, Teardown
<1>5. ASSUME CookerDies PROVE TypeOK'
      BY <1>5 DEF TypeOK, CookerDies
<1>6. ASSUME Write PROVE TypeOK'
  <2>1. write \in Seq(Messages) /\ Len(write) <= 1 /\ cmd \in Seq(Messages) /\ Len(cmd) < CmdCap
        BY <1>6, WriteType DEF TypeOK, Write
  <2>2. cmd' \in Seq(Messages) /\ Len(cmd') <= CmdCap
        BY <1>6, <2>1, ConcatPlaces DEF Write
  <2> QED BY <1>6, <2>2 DEF TypeOK, Write
<1>7. ASSUME WriteFails PROVE TypeOK'
      BY <1>7 DEF TypeOK, WriteFails
<1>8. ASSUME Read PROVE TypeOK'
  <2> DEFINE r == Head(pipe)
  <2>1. pipe \in Seq(Replies) /\ r \in Replies /\ Len(pipe) <= PipeCap
        /\ pipe' = Tail(pipe) /\ pipe # <<>>
        BY <1>8, TailPlaces DEF TypeOK, Read
  <2>2. pipe' \in Seq(Replies) /\ Len(pipe') <= PipeCap
        BY <2>1
  <2>3. heard' \in [Task -> Seq(Events)] /\ result' \in [Task -> {"none"} \cup Zombie]
        /\ changed' \in BOOLEAN
    <3>1. CASE IsExit(r)
          BY <1>8, <2>1, <3>1, ReplyKinds DEF TypeOK, Read
    <3>2. CASE ~IsExit(r)
      <4>1. r.task \in Task /\ r.event \in Events
            BY <2>1, <3>2, ReplyKinds
      <4>2. heard' = [heard EXCEPT ![r.task] = Append(@, r.event)] /\ result' = result
            /\ changed' = (changed \/ r.event = "unihash")
            BY <1>8, <3>2 DEF Read
      <4>3. Append(heard[r.task], r.event) \in Seq(Events)
            BY <4>1 DEF TypeOK
      <4> QED BY <4>1, <4>2, <4>3 DEF TypeOK
    <3> QED BY <3>1, <3>2
  <2> QED BY <1>8, <2>2, <2>3 DEF TypeOK, Read
<1>9. ASSUME Done PROVE TypeOK'
      BY <1>9 DEF TypeOK, Done
<1> QED BY <1>1, <1>2, <1>3, <1>4, <1>5, <1>6, <1>7, <1>8, <1>9 DEF Cooker

\* A step that takes the first item of the queue.
LEMMA TypeOfQueue ==
    ASSUME TypeOK, pc \in Items
    PROVE  Tail(queue) \in Seq(Messages) /\ Head(queue) \in Messages /\ Head(queue).item = pc /\ queue # <<>>
BY TailPlaces DEF TypeOK, Items

\* So do those of the main thread.
LEMMA TypeOfMain ==
    ASSUME TypeOK, Main
    PROVE  TypeOK'
<1> USE DEF cookerVars, mainVars, taskVars, DyingNow
<1>1. ASSUME Select PROVE TypeOK'
  <2>1. queue \in Seq(Messages) /\ cmd \in Seq(Messages) /\ cmd' = <<>>
        BY <1>1 DEF TypeOK, Select
  <2>2. cmd' \in Seq(Messages) /\ Len(cmd') <= CmdCap
        BY <2>1, WorkerAssumption DEF WorkerAssumption
  <2>3. CASE Eof
        BY <1>1, <2>2, <2>3 DEF TypeOK, Select
  <2>4. CASE ~Eof
    <3>1. queue' \in Seq(Messages)
      <4>1. queue' = queue \o cmd
            BY <1>1, <2>4 DEF Select
      <4> QED BY <2>1, <4>1, ConcatPlaces
    <3>2. Goal(pc', queue')
          BY <1>1, <2>4, <3>1, FirstItemOK DEF Select
    <3>3. ready' \subseteq Task
          BY <1>1, <2>4 DEF Select, TypeOK
    <3> QED BY <1>1, <2>2, <2>4, <3>1, <3>2, <3>3 DEF TypeOK, Select, Goal, Places, Items
  <2> QED BY <2>3, <2>4
<1>2. ASSUME HandleNewTaskHashes PROVE TypeOK'
  <2>1. queue' \in Seq(Messages) /\ Head(queue) \in Messages /\ Head(queue).item = "newtaskhashes"
        BY <1>2, TypeOfQueue DEF HandleNewTaskHashes, Items
  <2>2. newhashes' \in 0 .. MaxHashes
        BY <1>2, <2>1 DEF HandleNewTaskHashes, Messages, FinishNow, Quit
  <2>3. Goal(pc', queue')
        BY <1>2, <2>1, AfterItemOK DEF HandleNewTaskHashes, Items
  <2> QED BY <1>2, <2>1, <2>2, <2>3 DEF TypeOK, HandleNewTaskHashes, Goal, Places, Items
<1>3. ASSUME HandleRunTask PROVE TypeOK'
  <2>1. queue' \in Seq(Messages) /\ Head(queue) \in Messages /\ Head(queue).item = "runtask"
        BY <1>3, TypeOfQueue DEF HandleRunTask, Items
  <2>2. Head(queue).task \in Task
        BY <2>1 DEF Messages, FinishNow, Quit
  <2>3. Goal(pc', queue')
        BY <1>3, <2>1, AfterItemOK DEF HandleRunTask, Items
  <2>4. child' \in [Task -> Stages] /\ build_pids' \subseteq Task /\ forked' \in Seq(Task)
        BY <1>3, <2>2 DEF HandleRunTask, TypeOK, Stages, Alive
  <2> QED BY <1>3, <2>1, <2>3, <2>4 DEF TypeOK, HandleRunTask, Goal, Places, Items
<1>4. ASSUME HandleFinishNow PROVE TypeOK'
      BY <1>4, TypeOfQueue DEF TypeOK, HandleFinishNow, Items
<1>5. ASSUME HandleQuit PROVE TypeOK'
      BY <1>5, TypeOfQueue DEF TypeOK, HandleQuit, Items
<1>6. ASSUME KillEnds PROVE TypeOK'
      BY <1>6 DEF TypeOK, KillEnds
<1>7. ASSUME DrainEnds PROVE TypeOK'
  <2>1. Goal(pc', queue)
        BY <1>7, AfterItemOK DEF DrainEnds, Items, TypeOK
  <2> QED BY <1>7, <2>1 DEF TypeOK, DrainEnds, Goal, Places, Items
<1>8. ASSUME Gone PROVE TypeOK'
      BY <1>8 DEF TypeOK, Gone
<1>9. ASSUME NEW t \in Task, Kill(t) PROVE TypeOK'
      BY <1>9 DEF TypeOK, Kill
<1>10. ASSUME NEW t \in Task, Wait(t) PROVE TypeOK'
      BY <1>10 DEF TypeOK, Wait, Stages
<1>11. ASSUME NEW t \in Task, Drain(t) PROVE TypeOK'
      BY <1>11, ReadPipeOK DEF TypeOK, Drain
<1>12. ASSUME NEW t \in Task, Pipes(t) PROVE TypeOK'
      BY <1>12, ReadPipeOK DEF TypeOK, Pipes
<1>13. ASSUME NEW t \in Task, Reap(t) PROVE TypeOK'
  <2>1. child[t] \in Zombie /\ worker_queue' = worker_queue \o (Said(t) \o <<ExitCode(t, child[t])>>)
        BY <1>13 DEF Reap, ReapThen
  <2>2. <<ExitCode(t, child[t])>> \in Seq(Replies)
        BY <2>1, SaidOK
  <2>3. worker_queue' \in Seq(Replies)
        BY <2>1, <2>2, SaidOK DEF TypeOK
  <2>4. out' \in [Task -> Seq(Events)]
        BY <1>13 DEF Reap, ReapThen, TypeOK
  <2> QED BY <1>13, <2>3, <2>4 DEF TypeOK, Reap, ReapThen, Stages
<1> QED BY <1>1, <1>2, <1>3, <1>4, <1>5, <1>6, <1>7, <1>8, <1>9, <1>10, <1>11, <1>12, <1>13 DEF Main

\* So do those of the tasks.
LEMMA TypeOfTask ==
    ASSUME TypeOK, NEW t \in Task, TaskActs(t)
    PROVE  TypeOK'
<1> USE DEF cookerVars, mainVars, Stages, Alive, Zombie
<1>1. ASSUME NEW e \in Events, NEW l, Fire(t, e, l, "working") PROVE TypeOK'
  <2>1. Append(out[t], e) \in Seq(Events) /\ Append(fired[t], e) \in Seq(Events)
        BY DEF TypeOK
  <2>2. out' \in [Task -> Seq(Events)] /\ fired' \in [Task -> Seq(Events)]
        BY <1>1, <2>1 DEF Fire, TypeOK
  <2>3. child' \in [Task -> Stages]
        BY <1>1 DEF Fire, TypeOK
  <2> QED BY <1>1, <2>2, <2>3 DEF Fire, TypeOK
<1>2. TaskStarted(t) \/ UnihashUpdate(t) => TypeOK'
      BY <1>1 DEF TaskStarted, UnihashUpdate, Events
<1>3. Bind(t) \/ Lead(t) \/ LoadFails(t) \/ Exit(t) => TypeOK'
      BY DEF TypeOK, Bind, Lead, LoadFails, Exit, Goes
<1>4. Killed(t) => TypeOK'
      BY DEF TypeOK, Killed
<1> QED BY <1>2, <1>3, <1>4 DEF TaskActs

\* So does every step.
LEMMA TypeStep == TypeOK /\ [Next]_vars => TypeOK'
<1> USE DEF cookerVars, mainVars, taskVars
<1>1. TypeOK /\ Sigterm => TypeOK'
      BY DEF TypeOK, Sigterm, DyingNow
<1>2. TypeOK /\ Flush => TypeOK'
  <2> SUFFICES ASSUME TypeOK, Flush PROVE TypeOK'
      OBVIOUS
  <2>1. worker_queue \in Seq(Replies) /\ worker_queue # <<>> /\ pipe \in Seq(Replies) /\ Len(pipe) < PipeCap
        BY DEF TypeOK, Flush
  <2>2. Head(worker_queue) \in Replies /\ worker_queue' \in Seq(Replies)
        BY <2>1, TailPlaces DEF Flush
  <2>3. pipe' \in Seq(Replies) /\ Len(pipe') <= PipeCap
        BY <2>1, <2>2, WorkerAssumption DEF Flush, WorkerAssumption
  <2> QED BY <2>2, <2>3 DEF TypeOK, Flush
<1>3. TypeOK /\ (FlushFails \/ Finished \/ UNCHANGED vars) => TypeOK'
      BY DEF TypeOK, FlushFails, Finished, vars
<1> QED BY <1>1, <1>2, <1>3, TypeOfCooker, TypeOfMain, TypeOfTask DEF Next

-----------------------------------------------------------------------------
(* What the steps do to the two sequences *)

\* The two sequences are of messages and of replies.
LEMMA OnTheirWay == TypeOK => Asked \in Seq(Messages) /\ Answers \in Seq(Replies)
<1> SUFFICES ASSUME TypeOK PROVE Asked \in Seq(Messages) /\ Answers \in Seq(Replies)
    OBVIOUS
<1>1. queue \in Seq(Messages) /\ cmd \in Seq(Messages) /\ write \in Seq(Messages)
      BY WriteType DEF TypeOK
<1>2. pipe \in Seq(Replies) /\ worker_queue \in Seq(Replies)
      BY DEF TypeOK
<1> QED BY <1>1, <1>2, ConcatPlaces DEF Asked, Answers

\* The same of the next state.
LEMMA OnTheirWayNext == TypeOK' => Asked' \in Seq(Messages) /\ Answers' \in Seq(Replies)
<1> DEFINE Typed == Asked \in Seq(Messages) /\ Answers \in Seq(Replies)
<1>1. TypeOK => Typed
      BY OnTheirWay
<1> HIDE DEF Typed
<1>2. TypeOK' => Typed'
      BY <1>1, PTL
<1> QED BY <1>2 DEF Typed

\* Places are positive numbers.
LEMMA Numbered ==
    /\ TypeOK => DOMAIN Asked \subseteq Nat \ {0} /\ DOMAIN Answers \subseteq Nat \ {0}
    /\ TypeOK' => DOMAIN Asked' \subseteq Nat \ {0} /\ DOMAIN Answers' \subseteq Nat \ {0}
<1>1. ASSUME NEW S, NEW q \in Seq(S) PROVE DOMAIN q \subseteq Nat \ {0}
      OBVIOUS
<1> QED BY <1>1, OnTheirWay, OnTheirWayNext

\* What the main thread is about to handle is the first of all.
LEMMA AskedFirst ==
    TypeOK /\ pc \in Items => 1 \in DOMAIN Asked /\ Asked[1] = Head(queue) /\ Asked[1].item = pc
<1> SUFFICES ASSUME TypeOK, pc \in Items
             PROVE  1 \in DOMAIN Asked /\ Asked[1] = Head(queue) /\ Asked[1].item = pc
    OBVIOUS
<1>1. queue \in Seq(Messages) /\ cmd \in Seq(Messages) /\ write \in Seq(Messages)
      /\ queue # <<>> /\ Head(queue).item = pc
      BY WriteType, TypeOfQueue DEF TypeOK
<1>2. queue \o cmd \in Seq(Messages) /\ queue \o cmd # <<>> /\ Head(queue \o cmd) = Head(queue)
      BY <1>1, ConcatPlaces, TailOfConcat
<1>3. Asked # <<>> /\ Head(Asked) = Head(queue)
      BY <1>1, <1>2, TailOfConcat DEF Asked
<1> QED BY <1>1, <1>3, OnTheirWay, TailPlaces

\* The same of the next state.
LEMMA AskedFirstNext ==
    TypeOK' /\ pc' \in Items => 1 \in DOMAIN Asked' /\ Asked'[1].item = pc'
<1> DEFINE First == pc \in Items => 1 \in DOMAIN Asked /\ Asked[1].item = pc
<1>1. TypeOK => First
      BY AskedFirst
<1> HIDE DEF First
<1>2. TypeOK' => First'
      BY <1>1, PTL
<1> QED BY <1>2 DEF First

\* A message goes from the server's hand into the pipe, or from there into the queue.
LEMMA AskedSame ==
    ASSUME TypeOK, Write \/ Select \/ UNCHANGED <<queue, cmd, write>>
    PROVE  Asked' = Asked
<1>1. queue \in Seq(Messages) /\ cmd \in Seq(Messages) /\ write \in Seq(Messages)
      /\ <<>> \in Seq(Messages)
      BY WriteType DEF TypeOK
<1>2. CASE Write
  <2>1. queue' = queue /\ cmd' = cmd \o write /\ write' = <<>>
        BY <1>2 DEF Write, mainVars
  <2>2. Asked' = queue \o (cmd \o write)
        BY <1>1, <2>1, ConcatPlaces, ConcatEmptySeq DEF Asked
  <2>3. (queue \o cmd) \o write = queue \o (cmd \o write)
        BY <1>1, ConcatAssociative
  <2> QED BY <2>2, <2>3 DEF Asked
<1>3. CASE Select
  <2>1. cmd' = <<>> /\ write' = write
        BY <1>3 DEF Select, cookerVars
  <2>2. queue' = queue \o cmd
    <3>1. CASE Eof
      <4>1. cmd = <<>> /\ queue' = queue
            BY <1>3, <3>1 DEF Select, Eof
      <4> QED BY <1>1, <4>1, ConcatEmptySeq
    <3>2. CASE ~Eof
          BY <1>3, <3>2 DEF Select
    <3> QED BY <3>1, <3>2
  <2>3. queue' \o cmd' = queue \o cmd
        BY <1>1, <2>1, <2>2, ConcatEmptySeq, ConcatPlaces
  <2> QED BY <2>1, <2>3 DEF Asked
<1>4. CASE UNCHANGED <<queue, cmd, write>>
      BY <1>4 DEF Asked
<1> QED BY <1>2, <1>3, <1>4

\* The server has something more to say.
LEMMA AskedPut ==
    ASSUME TypeOK, write = <<>>, NEW m \in Messages, write' = <<m>>, UNCHANGED <<queue, cmd>>
    PROVE  /\ Len(Asked') = Len(Asked) + 1
           /\ \A i \in DOMAIN Asked : i # Len(Asked') /\ i \in DOMAIN Asked' /\ Asked'[i] = Asked[i]
           /\ Len(Asked') \in DOMAIN Asked' /\ Asked'[Len(Asked')] = m
           /\ \A i \in DOMAIN Asked' : i # Len(Asked') => i \in DOMAIN Asked /\ i < Len(Asked')
<1>1. queue \in Seq(Messages) /\ cmd \in Seq(Messages) /\ <<m>> \in Seq(Messages)
      BY DEF TypeOK
<1>2. Asked = queue \o cmd /\ Asked' = (queue \o cmd) \o <<m>>
      BY <1>1, ConcatPlaces, ConcatEmptySeq DEF Asked
<1>3. queue \o cmd \in Seq(Messages)
      BY <1>1, ConcatPlaces
<1> QED BY <1>1, <1>2, <1>3

\* The worker takes the first item.
LEMMA AskedTaken ==
    ASSUME TypeOK, pc \in Items, queue' = Tail(queue), UNCHANGED <<cmd, write>>
    PROVE  /\ Asked # <<>> /\ Asked[1] = Head(queue) /\ 1 \in DOMAIN Asked
           /\ \A i \in DOMAIN Asked' : i + 1 \in DOMAIN Asked /\ Asked'[i] = Asked[i + 1]
           /\ \A i \in DOMAIN Asked : i # 1 => i - 1 \in DOMAIN Asked' /\ Asked'[i - 1] = Asked[i]
<1>1. queue \in Seq(Messages) /\ cmd \in Seq(Messages) /\ write \in Seq(Messages)
      /\ queue # <<>>
      BY WriteType, TypeOfQueue DEF TypeOK
<1>2. /\ queue \o cmd \in Seq(Messages) /\ queue \o cmd # <<>>
      /\ Tail(queue) \o cmd = Tail(queue \o cmd) /\ Head(queue \o cmd) = Head(queue)
      BY <1>1, ConcatPlaces, TailOfConcat
<1>3. Asked' = Tail(Asked) /\ Asked # <<>> /\ Head(Asked) = Head(queue)
      BY <1>1, <1>2, TailOfConcat DEF Asked
<1> QED BY <1>3, OnTheirWay, TailPlaces

\* A message to a worker that is gone is dropped.
LEMMA AskedCut ==
    ASSUME TypeOK, write' = <<>>, UNCHANGED <<queue, cmd>>
    PROVE  \A i \in DOMAIN Asked' : i \in DOMAIN Asked /\ Asked'[i] = Asked[i]
<1>1. queue \in Seq(Messages) /\ cmd \in Seq(Messages) /\ write \in Seq(Messages)
      BY WriteType DEF TypeOK
<1>2. queue \o cmd \in Seq(Messages)
      BY <1>1, ConcatPlaces
<1>3. Asked' = queue \o cmd /\ Asked = (queue \o cmd) \o write
      BY <1>2, ConcatEmptySeq DEF Asked
<1> QED BY <1>1, <1>2, <1>3, ConcatPlaces

\* The second thread moves a reply from one part to the other.
LEMMA AnswersSame ==
    ASSUME TypeOK, Flush \/ UNCHANGED <<pipe, worker_queue>>
    PROVE  Answers' = Answers
<1>1. pipe \in Seq(Replies) /\ worker_queue \in Seq(Replies)
      BY DEF TypeOK
<1>2. CASE Flush
      BY <1>1, <1>2, HeadMoves DEF Flush, Answers
<1>3. CASE UNCHANGED <<pipe, worker_queue>>
      BY <1>3 DEF Answers
<1> QED BY <1>2, <1>3

\* Replies are put behind all others.
LEMMA AnswersPut ==
    ASSUME TypeOK, NEW s \in Seq(Replies), worker_queue' = worker_queue \o s, UNCHANGED pipe
    PROVE  /\ Len(Answers') = Len(Answers) + Len(s)
           /\ \A i \in DOMAIN Answers : i \in DOMAIN Answers' /\ Answers'[i] = Answers[i]
           /\ \A i \in DOMAIN s : i + Len(Answers) \in DOMAIN Answers' /\ Answers'[i + Len(Answers)] = s[i]
           /\ \A i \in DOMAIN Answers' :
                 \/ i \in DOMAIN Answers
                 \/ i - Len(Answers) \in DOMAIN s /\ i > Len(Answers) /\ Answers'[i] = s[i - Len(Answers)]
<1>1. pipe \in Seq(Replies) /\ worker_queue \in Seq(Replies)
      BY DEF TypeOK
<1>2. Answers' = Answers \o s
  <2>1. (pipe \o worker_queue) \o s = pipe \o (worker_queue \o s)
        BY <1>1, ConcatAssociative
  <2> QED BY <2>1 DEF Answers
<1> QED BY <1>2, OnTheirWay, ConcatPlaces

\* The server takes the first.
LEMMA AnswersTaken ==
    ASSUME TypeOK, pipe # <<>>, pipe' = Tail(pipe), UNCHANGED worker_queue
    PROVE  /\ Answers # <<>> /\ Answers[1] = Head(pipe) /\ 1 \in DOMAIN Answers
           /\ \A i \in DOMAIN Answers' : i + 1 \in DOMAIN Answers /\ Answers'[i] = Answers[i + 1]
           /\ \A i \in DOMAIN Answers : i # 1 => i - 1 \in DOMAIN Answers' /\ Answers'[i - 1] = Answers[i]
<1>1. pipe \in Seq(Replies) /\ worker_queue \in Seq(Replies)
      BY DEF TypeOK
<1>2. Answers' = Tail(Answers) /\ Answers # <<>> /\ Head(Answers) = Head(pipe)
      BY <1>1, TailOfConcat DEF Answers
<1> QED BY <1>2, OnTheirWay, TailPlaces

\* Replies not yet sent are lost with the worker.
LEMMA AnswersCut ==
    ASSUME TypeOK, worker_queue' = <<>>, UNCHANGED pipe
    PROVE  \A i \in DOMAIN Answers' : i \in DOMAIN Answers /\ Answers'[i] = Answers[i]
<1>1. pipe \in Seq(Replies) /\ worker_queue \in Seq(Replies)
      BY DEF TypeOK
<1>2. Answers' = pipe
      BY <1>1, ConcatEmptySeq DEF Answers
<1> QED BY <1>1, <1>2, ConcatPlaces DEF Answers

-----------------------------------------------------------------------------
(* Tasks that were sent and tasks that were forked *)

\* The steps that neither send, start, move nor read a task.
Apart ==
    \/ SendHashes \/ FinishNowSent \/ Teardown \/ CookerDies
    \/ Write \/ WriteFails \/ Done
    \/ Select \/ HandleNewTaskHashes \/ HandleFinishNow \/ HandleQuit
    \/ KillEnds \/ DrainEnds \/ (\E t \in Task : Kill(t))
    \/ Sigterm \/ Flush \/ FlushFails \/ Finished \/ UNCHANGED vars

\* With the end of the worker, which drops replies.
Aside == Apart \/ Gone

\* What these steps leave alone.
LEMMA AsideKeeps ==
    ASSUME Aside
    PROVE  UNCHANGED <<sent, heard, result, child, forked, out, fired>>
BY DEF Aside, Apart, SendHashes, FinishNowSent, Teardown, CookerDies, Write, WriteFails, Done, Select,
       HandleNewTaskHashes, HandleFinishNow, HandleQuit, KillEnds, DrainEnds, Gone, Kill,
       Sigterm, Flush, FlushFails, Finished, vars, cookerVars, mainVars, taskVars

\* What one step does to one task.
LEMMA TaskMoves ==
    ASSUME TypeOK, NEW t \in Task,
           Wait(t) \/ Drain(t) \/ Pipes(t) \/ Reap(t) \/ TaskActs(t)
    PROVE  /\ UNCHANGED <<sent, heard, result, forked>>
           /\ \A u \in Task \ {t} : child'[u] = child[u] /\ out'[u] = out[u] /\ fired'[u] = fired[u]
           /\ child[t] = "none" => child'[t] = "none" /\ fired'[t] = fired[t]
                                   /\ (out'[t] = out[t] \/ out'[t] = <<>>)
           /\ child[t] # "none" => child'[t] # "none"
<1> USE DEF TypeOK, cookerVars, mainVars, Zombie, Alive
<1>1. CASE Wait(t)
      BY <1>1 DEF Wait
<1>2. CASE Drain(t) \/ Pipes(t)
      BY <1>2 DEF Drain, Pipes, ReadPipe
<1>3. CASE Reap(t)
      BY <1>3 DEF Reap, ReapThen
<1>4. CASE Bind(t) \/ Lead(t) \/ LoadFails(t) \/ Exit(t) \/ Killed(t)
      BY <1>4 DEF Bind, Lead, LoadFails, Exit, Killed, Goes
<1>5. ASSUME NEW e, NEW l \in {"leader", "working"}, Fire(t, e, l, "working")
      PROVE  /\ UNCHANGED <<sent, heard, result, forked>>
             /\ \A u \in Task \ {t} : child'[u] = child[u] /\ out'[u] = out[u] /\ fired'[u] = fired[u]
             /\ child[t] = l /\ child'[t] # "none"
      BY <1>5 DEF Fire
<1>6. CASE TaskStarted(t) \/ UnihashUpdate(t)
      BY <1>5, <1>6 DEF TaskStarted, UnihashUpdate
<1> QED BY <1>1, <1>2, <1>3, <1>4, <1>6 DEF TaskActs

\* A runtask that is handled.
LEMMA TaskForked ==
    ASSUME TypeOK, Asks, HandleRunTask
    PROVE  LET t == Head(queue).task
           IN  /\ t \in Task /\ t \in sent /\ child[t] = "none" /\ Asked[1] = Head(queue)
               /\ Asked[1].item = "runtask" /\ 1 \in DOMAIN Asked
               /\ child' = [child EXCEPT ![t] = "forked"] /\ forked' = Append(forked, t)
               /\ UNCHANGED <<cooker, sent, heard, result, hashes, newhashes, out, fired, term>>
               /\ \A i \in DOMAIN Asked' : i + 1 \in DOMAIN Asked /\ Asked'[i] = Asked[i + 1]
               /\ \A i \in DOMAIN Asked : i # 1 => i - 1 \in DOMAIN Asked' /\ Asked'[i - 1] = Asked[i]
<1>1. pc = "runtask" /\ queue' = Tail(queue) /\ UNCHANGED <<cmd, write>>
      BY DEF HandleRunTask, cookerVars
<1>2. /\ 1 \in DOMAIN Asked /\ Asked[1] = Head(queue)
      /\ \A i \in DOMAIN Asked' : i + 1 \in DOMAIN Asked /\ Asked'[i] = Asked[i + 1]
      /\ \A i \in DOMAIN Asked : i # 1 => i - 1 \in DOMAIN Asked' /\ Asked'[i - 1] = Asked[i]
      BY <1>1, AskedTaken DEF Items
<1>3. Head(queue) \in Messages /\ Head(queue).item = "runtask"
      BY <1>1, TypeOfQueue DEF Items
<1>4. Head(queue).task \in Task
      BY <1>3 DEF Messages, FinishNow, Quit
<1>5. Head(queue).task \in sent /\ child[Head(queue).task] = "none"
      BY <1>2, <1>3 DEF Asks
<1> QED BY <1>2, <1>3, <1>4, <1>5 DEF HandleRunTask, cookerVars

\* Every step is of one of these kinds.
LEMMA Kinds ==
    ASSUME [Next]_vars
    PROVE  \/ Aside \/ Read \/ HandleRunTask
           \/ \E t \in Task : SendTask(t) \/ Wait(t) \/ Drain(t) \/ Pipes(t) \/ Reap(t) \/ TaskActs(t)
BY DEF Next, Cooker, Main, Aside, Apart

\* Every step preserves Forks.
LEMMA ForksStep ==
    ASSUME TypeOK, Forks, Asks, [Next]_vars
    PROVE  Forks'
<1>1. ASSUME UNCHANGED <<child, forked, out, fired>>, sent \subseteq sent' PROVE Forks'
      BY <1>1 DEF Forks
<1>2. CASE Aside
      BY <1>1, <1>2, AsideKeeps
<1>3. CASE Read
      BY <1>1, <1>3 DEF Read, mainVars, taskVars
<1>4. ASSUME NEW t \in Task, SendTask(t) PROVE Forks'
      BY <1>1, <1>4 DEF SendTask, mainVars, taskVars
<1>5. CASE HandleRunTask
  <2> DEFINE t == Head(queue).task
  <2>1. /\ t \in Task /\ t \in sent /\ child[t] = "none"
        /\ child' = [child EXCEPT ![t] = "forked"] /\ forked' = Append(forked, t)
        /\ UNCHANGED <<sent, out, fired>>
        BY <1>5, TaskForked
  <2> HIDE DEF t
  <2>2. \A i \in DOMAIN forked : forked[i] # t
        BY <2>1 DEF Forks
  <2>3. /\ DOMAIN forked' = DOMAIN forked \cup {Len(forked) + 1} /\ forked'[Len(forked) + 1] = t
        /\ \A i \in DOMAIN forked : forked'[i] = forked[i] /\ i # Len(forked) + 1
        /\ \A i \in DOMAIN forked : forked[i] \in Task
    <3>1. forked \in Seq(Task) /\ forked' = Append(forked, t) /\ t \in Task
          BY <2>1 DEF TypeOK
    <3>2. \A i \in DOMAIN forked : forked[i] \in Task
          BY <3>1
    <3>3. DOMAIN forked = 1 .. Len(forked) /\ Len(forked) \in Nat /\ DOMAIN forked' = 1 .. Len(forked) + 1
          BY <3>1
    <3>4. forked'[Len(forked) + 1] = t /\ \A i \in DOMAIN forked : forked'[i] = forked[i]
          BY <3>1
    <3> QED BY <3>2, <3>3, <3>4
  <2>4. /\ child'[t] # "none"
        /\ \A u \in Task : u # t => child'[u] = child[u]
        BY <2>1 DEF TypeOK
  <2>5. /\ \A u \in Task : child'[u] # "none" => u \in sent'
        /\ \A u \in Task : child'[u] = "none" => out'[u] = <<>> /\ fired'[u] = <<>>
        BY <2>1, <2>4 DEF Forks
  <2>6. \A u \in Task : child'[u] # "none" => \E i \in DOMAIN forked' : forked'[i] = u
        BY <2>3, <2>4 DEF Forks
  <2>7. \A i \in DOMAIN forked' : child'[forked'[i]] # "none"
        BY <2>2, <2>3, <2>4 DEF Forks
  <2>8. \A i, j \in DOMAIN forked' : forked'[i] = forked'[j] => i = j
        BY <2>2, <2>3 DEF Forks
  <2> QED BY <2>5, <2>6, <2>7, <2>8 DEF Forks
<1>6. ASSUME NEW t \in Task, Wait(t) \/ Drain(t) \/ Pipes(t) \/ Reap(t) \/ TaskActs(t)
      PROVE  Forks'
  <2>1. /\ sent' = sent /\ forked' = forked
        /\ \A u \in Task : child'[u] = "none" <=> child[u] = "none"
        /\ \A u \in Task : child[u] = "none" => fired'[u] = fired[u] /\ (out'[u] = out[u] \/ out'[u] = <<>>)
        BY <1>6, TaskMoves
  <2>2. \A i \in DOMAIN forked : forked[i] \in Task
        BY DEF TypeOK
  <2> QED BY <2>1, <2>2 DEF Forks
<1> QED BY <1>2, <1>3, <1>4, <1>5, <1>6, Kinds

\* What was asked for later is now asked for at once, or not at all.
Shifted(q, r, d) == \A i \in DOMAIN r : i + d \in DOMAIN q /\ r[i] = q[i + d]

\* Taking a message, or dropping the last, preserves Asks.
LEMMA AsksKept ==
    ASSUME TypeOK, TypeOK', Asks, NEW d \in {0, 1}, Shifted(Asked, Asked', d), sent \subseteq sent',
           \A i \in DOMAIN Asked' : Asked'[i].item = "runtask" => child'[Asked'[i].task] = "none"
    PROVE  Asks'
<1>1. \A i \in DOMAIN Asked' : i \in Nat
      BY Numbered
<1>2. \A i \in DOMAIN Asked' : Asked'[i].item = "runtask" => Asked'[i].task \in sent'
      BY DEF Asks, Shifted
<1>3. ASSUME NEW i \in DOMAIN Asked', NEW j \in DOMAIN Asked',
             Asked'[i].item = "runtask", Asked'[j].item = "runtask", Asked'[i].task = Asked'[j].task
      PROVE  i = j
  <2>1. i + d = j + d
        BY <1>3 DEF Asks, Shifted
  <2> QED BY <1>1, <2>1
<1> QED BY <1>2, <1>3 DEF Asks

\* One more is asked for.
PutLast(q, r, m) ==
    \E n \in DOMAIN r :
        /\ r[n] = m
        /\ \A i \in DOMAIN q : i < n /\ i \in DOMAIN r /\ r[i] = q[i]
        /\ \A i \in DOMAIN r : i # n => i \in DOMAIN q

\* What the server says comes last.
LEMMA AskedOneMore ==
    ASSUME TypeOK, write = <<>>, NEW m \in Messages, write' = <<m>>, UNCHANGED <<queue, cmd>>
    PROVE  PutLast(Asked, Asked', m)
<1>1. /\ Len(Asked') = Len(Asked) + 1 /\ Len(Asked') \in DOMAIN Asked' /\ Asked'[Len(Asked')] = m
      /\ \A i \in DOMAIN Asked : i # Len(Asked') /\ i \in DOMAIN Asked' /\ Asked'[i] = Asked[i]
      /\ \A i \in DOMAIN Asked' : i # Len(Asked') => i \in DOMAIN Asked
      BY AskedPut
<1>2. \A i \in DOMAIN Asked : i < Len(Asked')
  <2>1. Asked \in Seq(Messages)
        BY OnTheirWay
  <2> QED BY <1>1, <2>1
<1> QED BY <1>1, <1>2 DEF PutLast

\* Where what was asked for goes with each step.
LEMMA AskedMoves ==
    ASSUME TypeOK
    PROVE  /\ \A t \in Task : SendTask(t) => PutLast(Asked, Asked', RunTask(t))
           /\ SendHashes => PutLast(Asked, Asked', NewHashes(hashes + 1))
           /\ FinishNowSent => PutLast(Asked, Asked', FinishNow)
           /\ Teardown => PutLast(Asked, Asked', Quit)
           /\ HandleNewTaskHashes \/ HandleFinishNow \/ HandleQuit =>
                 /\ Shifted(Asked, Asked', 1)
                 /\ Asked[1] = Head(queue) /\ 1 \in DOMAIN Asked
                 /\ \A i \in DOMAIN Asked : i # 1 => i - 1 \in DOMAIN Asked'
           /\ WriteFails => Shifted(Asked, Asked', 0)
<1> USE DEF CookerActs, mainVars, cookerVars
<1>1. ASSUME NEW t \in Task, SendTask(t) PROVE PutLast(Asked, Asked', RunTask(t))
      BY <1>1, AskedOneMore, Sendable DEF SendTask
<1>2. ASSUME SendHashes PROVE PutLast(Asked, Asked', NewHashes(hashes + 1))
  <2>1. hashes + 1 \in 0 .. MaxHashes
        BY <1>2, WorkerAssumption DEF SendHashes, TypeOK, WorkerAssumption
  <2> QED BY <1>2, <2>1, AskedOneMore, Sendable DEF SendHashes
<1>3. FinishNowSent => PutLast(Asked, Asked', FinishNow)
      BY AskedOneMore, Sendable DEF FinishNowSent
<1>4. Teardown => PutLast(Asked, Asked', Quit)
      BY AskedOneMore, Sendable DEF Teardown
<1>5. ASSUME HandleNewTaskHashes \/ HandleFinishNow \/ HandleQuit
      PROVE  /\ Shifted(Asked, Asked', 1)
             /\ Asked[1] = Head(queue) /\ 1 \in DOMAIN Asked
             /\ \A i \in DOMAIN Asked : i # 1 => i - 1 \in DOMAIN Asked'
  <2>1. pc \in Items /\ queue' = Tail(queue) /\ UNCHANGED <<cmd, write>>
        BY <1>5 DEF HandleNewTaskHashes, HandleFinishNow, HandleQuit, Items
  <2> QED BY <2>1, AskedTaken DEF Shifted
<1>6. ASSUME WriteFails PROVE Shifted(Asked, Asked', 0)
  <2>1. \A i \in DOMAIN Asked' : i \in DOMAIN Asked /\ Asked'[i] = Asked[i]
        BY <1>6, AskedCut DEF WriteFails
  <2>2. \A i \in DOMAIN Asked : i + 0 = i
        BY Numbered
  <2> QED BY <2>1, <2>2 DEF Shifted
<1> QED BY <1>1, <1>2, <1>3, <1>4, <1>5, <1>6

\* The steps that do not touch what was asked for.
LEMMA AskedStays ==
    ASSUME TypeOK,
           \/ CookerDies \/ Write \/ Done \/ Read \/ Select \/ KillEnds \/ DrainEnds \/ Gone
           \/ Sigterm \/ Flush \/ FlushFails \/ Finished \/ UNCHANGED vars
           \/ \E t \in Task : Kill(t) \/ Wait(t) \/ Drain(t) \/ Pipes(t) \/ Reap(t) \/ TaskActs(t)
    PROVE  Asked' = Asked /\ Shifted(Asked, Asked', 0)
<1>1. Asked' = Asked
  <2> USE DEF vars, cookerVars, mainVars, taskVars, Goes, Fire
  <2>1. CASE Write \/ Select
        BY <2>1, AskedSame
  <2>2. CASE CookerDies \/ Done \/ Read \/ KillEnds \/ DrainEnds \/ Gone \/ Sigterm \/ Flush
             \/ FlushFails \/ Finished \/ UNCHANGED vars
        BY <2>2, AskedSame DEF CookerDies, Done, Read, KillEnds, DrainEnds, Gone, Sigterm, Flush,
                               FlushFails, Finished
  <2>3. ASSUME NEW t \in Task, Kill(t) \/ Wait(t) \/ Drain(t) \/ Pipes(t) \/ Reap(t)
        PROVE  Asked' = Asked
        BY <2>3, AskedSame DEF Kill, Wait, Drain, Pipes, Reap, ReapThen
  <2>4. ASSUME NEW t \in Task, TaskActs(t)
        PROVE  Asked' = Asked
        BY <2>4, AskedSame DEF TaskActs, Bind, Lead, LoadFails, TaskStarted, UnihashUpdate, Exit, Killed
  <2> QED BY <2>1, <2>2, <2>3, <2>4
<1>2. \A i \in DOMAIN Asked : i + 0 = i
      BY Numbered
<1> QED BY <1>1, <1>2 DEF Shifted

\* One more message preserves Asks, if it asks for a task not yet sent.
LEMMA AsksPut ==
    ASSUME Asks, NEW m, PutLast(Asked, Asked', m), sent \subseteq sent', UNCHANGED child,
           m.item = "runtask" => m.task \notin sent /\ m.task \in sent' /\ child[m.task] = "none"
    PROVE  Asks'
<1> PICK n \in DOMAIN Asked' :
            /\ Asked'[n] = m
            /\ \A i \in DOMAIN Asked : i \in DOMAIN Asked' /\ Asked'[i] = Asked[i]
            /\ \A i \in DOMAIN Asked' : i # n => i \in DOMAIN Asked
    BY DEF PutLast
<1>1. \A i \in DOMAIN Asked' : Asked'[i].item = "runtask" =>
          Asked'[i].task \in sent' /\ child'[Asked'[i].task] = "none"
      BY DEF Asks
<1>2. \A i \in DOMAIN Asked' : i # n /\ Asked'[i].item = "runtask" => Asked'[i].task \in sent
      BY DEF Asks
<1>3. \A i, j \in DOMAIN Asked' :
          Asked'[i].item = "runtask" /\ Asked'[j].item = "runtask"
            /\ Asked'[i].task = Asked'[j].task => i = j
      BY <1>2 DEF Asks
<1> QED BY <1>1, <1>3 DEF Asks

\* Every step preserves Asks.
LEMMA AsksStep ==
    ASSUME TypeOK, TypeOK', Forks, Asks, [Next]_vars
    PROVE  Asks'
<1>1. ASSUME NEW d \in {0, 1}, Shifted(Asked, Asked', d), sent \subseteq sent', UNCHANGED child
      PROVE  Asks'
  <2>1. \A i \in DOMAIN Asked' : Asked'[i].item = "runtask" => child'[Asked'[i].task] = "none"
        BY <1>1 DEF Asks, Shifted
  <2> QED BY <1>1, <2>1, AsksKept
<1>2. CASE Aside
  <2>1. UNCHANGED <<sent, child>>
        BY <1>2, AsideKeeps
  <2>2. CASE SendHashes \/ FinishNowSent \/ Teardown
    <3>1. PICK m : PutLast(Asked, Asked', m) /\ m.item # "runtask"
          BY <2>2, AskedMoves DEF NewHashes, FinishNow, Quit
    <3> QED BY <2>1, <3>1, AsksPut
  <2>3. CASE ~(SendHashes \/ FinishNowSent \/ Teardown)
    <3>1. Shifted(Asked, Asked', 0) \/ Shifted(Asked, Asked', 1)
          BY <1>2, <2>3, AskedMoves, AskedStays DEF Aside, Apart
    <3> QED BY <1>1, <2>1, <3>1
  <2> QED BY <2>2, <2>3
<1>3. CASE Read
      BY <1>1, <1>3, AskedStays DEF Read, taskVars
<1>4. ASSUME NEW t \in Task, SendTask(t) PROVE Asks'
  <2>1. t \notin sent /\ sent' = sent \cup {t} /\ UNCHANGED child
        BY <1>4 DEF SendTask, taskVars
  <2>2. PutLast(Asked, Asked', RunTask(t)) /\ RunTask(t).task = t
        BY <1>4, AskedMoves DEF RunTask
  <2>3. child[t] = "none"
        BY <2>1 DEF Forks
  <2> QED BY <2>1, <2>2, <2>3, AsksPut
<1>5. CASE HandleRunTask
  <2> DEFINE t == Head(queue).task
  <2>1. /\ t \in Task /\ child' = [child EXCEPT ![t] = "forked"] /\ sent' = sent
        /\ 1 \in DOMAIN Asked /\ Asked[1].item = "runtask" /\ Asked[1].task = t
        /\ Shifted(Asked, Asked', 1)
        BY <1>5, TaskForked DEF Shifted
  <2> HIDE DEF t
  <2>2. ASSUME NEW i \in DOMAIN Asked', Asked'[i].item = "runtask"
        PROVE  child'[Asked'[i].task] = "none"
    <3>1. i \in Nat \ {0} /\ i + 1 \in DOMAIN Asked /\ Asked[i + 1] = Asked'[i]
          BY <2>1, Numbered DEF Shifted
    <3>2. i + 1 # 1
          BY <3>1
    <3>3. Asked'[i].task # t /\ child[Asked'[i].task] = "none"
          BY <2>1, <2>2, <3>1, <3>2 DEF Asks
    <3>4. child \in [Task -> Stages]
          BY DEF TypeOK
    <3>5. Asked'[i].task \in Task
      <4>1. Asked'[i] \in Messages
            BY OnTheirWayNext
      <4> QED BY <2>2, <4>1 DEF Messages, FinishNow, Quit
    <3> QED BY <2>1, <3>3, <3>4, <3>5
  <2> QED BY <2>1, <2>2, AsksKept
<1>6. ASSUME NEW t \in Task, Wait(t) \/ Drain(t) \/ Pipes(t) \/ Reap(t) \/ TaskActs(t)
      PROVE  Asks'
  <2>1. sent' = sent /\ \A u \in Task : child[u] = "none" => child'[u] = "none"
        BY <1>6, TaskMoves
  <2>2. Shifted(Asked, Asked', 0)
        BY <1>6, AskedStays
  <2>3. ASSUME NEW i \in DOMAIN Asked', Asked'[i].item = "runtask"
        PROVE  child'[Asked'[i].task] = "none"
    <3>1. Asked'[i] \in Messages
          BY OnTheirWayNext
    <3>2. Asked'[i].task \in Task
          BY <2>3, <3>1 DEF Messages, FinishNow, Quit
    <3>3. child[Asked'[i].task] = "none"
          BY <2>2, <2>3 DEF Shifted, Asks
    <3> QED BY <2>1, <3>2, <3>3
  <2> QED BY <2>1, <2>2, <2>3, AsksKept
<1> QED BY <1>2, <1>3, <1>4, <1>5, <1>6, Kinds

-----------------------------------------------------------------------------
(* The table of hashes a task starts with *)

\* A worker that is gone does not come back.
LEMMA GoneStays ==
    ASSUME TypeOK, [Next]_vars, pc = "gone"
    PROVE  pc' = "gone"
<1> USE DEF vars, cookerVars, mainVars, Goes, Fire, DyingNow
<1>1. CASE Cooker
      BY <1>1 DEF Cooker, SendTask, SendHashes, FinishNowSent, Teardown, CookerDies, Write, WriteFails,
                  Read, Done
<1>2. ~Main
      BY DEF Main, Select, HandleNewTaskHashes, HandleRunTask, HandleFinishNow, HandleQuit, KillEnds,
             DrainEnds, Gone, Kill, Wait, Drain, Pipes, Reap, ReapThen
<1>3. CASE Sigterm \/ Flush \/ FlushFails \/ Finished \/ UNCHANGED vars
      BY <1>3 DEF Sigterm, Flush, FlushFails, Finished
<1>4. ASSUME NEW t \in Task, TaskActs(t) PROVE pc' = "gone"
      BY <1>4 DEF TaskActs, Bind, Lead, LoadFails, TaskStarted, UnihashUpdate, Exit, Killed
<1> QED BY <1>1, <1>2, <1>3, <1>4 DEF Next

\* Tables are numbered.
LEMMA HashTypes ==
    ASSUME TypeOK
    PROVE  /\ hashes \in Nat /\ newhashes \in Nat
           /\ \A i \in DOMAIN Asked : Tabled(i) => Asked[i].hashes \in Nat
           /\ \A i \in DOMAIN Asked : Tells(i) => Tabled(i)
<1>1. \A i \in DOMAIN Asked : Asked[i] \in Messages
      BY OnTheirWay
<1>2. \A m \in Messages : m.item \in {"newtaskhashes", "runtask"} => m.hashes \in 0 .. MaxHashes
      BY DEF Messages, FinishNow, Quit
<1>3. 0 .. MaxHashes \subseteq Nat
      BY WorkerAssumption DEF WorkerAssumption
<1> QED BY <1>1, <1>2, <1>3 DEF TypeOK, Tabled, Tells

\* A message that brings the server's own table, or none.
LEMMA TablesPut ==
    ASSUME TypeOK, Tables, pc # "gone", NEW m, PutLast(Asked, Asked', m),
           hashes' = hashes, newhashes' = newhashes,
           m.item # "newtaskhashes", m.item = "runtask" => m.hashes = hashes
    PROVE  Tables'
<1> PICK n \in DOMAIN Asked' :
            /\ Asked'[n] = m
            /\ \A i \in DOMAIN Asked : i < n /\ i \in DOMAIN Asked' /\ Asked'[i] = Asked[i]
            /\ \A i \in DOMAIN Asked' : i # n => i \in DOMAIN Asked
    BY DEF PutLast
<1>1. /\ \A i \in DOMAIN Asked' : i # n => (Tells(i)' <=> Tells(i)) /\ (Tabled(i)' <=> Tabled(i))
      /\ ~Tells(n)' /\ (Tabled(n)' => m.item = "runtask" /\ Asked'[n].hashes = hashes)
      BY DEF Tells, Tabled
<1>2. \A i \in DOMAIN Asked' : Tabled(i)' => Asked'[i].hashes <= hashes'
      BY <1>1, HashTypes DEF Tables
<1>3. \A i \in DOMAIN Asked' : Tells(i)' => newhashes' < Asked'[i].hashes
      BY <1>1 DEF Tables
<1>4. \A i, j \in DOMAIN Asked' :
          i < j /\ Tells(i)' /\ Tabled(j)' => Asked'[i].hashes <= Asked'[j].hashes
  <2> SUFFICES ASSUME NEW i \in DOMAIN Asked', NEW j \in DOMAIN Asked', i < j, Tells(i)', Tabled(j)'
               PROVE  Asked'[i].hashes <= Asked'[j].hashes
      OBVIOUS
  <2>1. i # n /\ i \in DOMAIN Asked /\ Tells(i) /\ Asked'[i] = Asked[i]
        BY <1>1
  <2>2. CASE j = n
        BY <1>1, <2>1, <2>2, HashTypes DEF Tables
  <2>3. CASE j # n
        BY <1>1, <2>1, <2>3 DEF Tables
  <2> QED BY <2>2, <2>3
<1>5. \A i, j \in DOMAIN Asked' :
          i < j /\ Tells(i)' /\ Tells(j)' => Asked'[i].hashes < Asked'[j].hashes
      BY <1>1 DEF Tables
<1>6. hashes' = newhashes' \/ \E i \in DOMAIN Asked' : i < n /\ Tells(i)' /\ Asked'[i].hashes = hashes'
  <2>1. hashes = newhashes \/ \E i \in DOMAIN Asked : Tells(i) /\ Asked[i].hashes = hashes
        BY DEF Tables
  <2>2. ASSUME NEW i \in DOMAIN Asked, Tells(i), Asked[i].hashes = hashes
        PROVE  i \in DOMAIN Asked' /\ i < n /\ Tells(i)' /\ Asked'[i].hashes = hashes'
        BY <2>2 DEF Tells
  <2> QED BY <2>1, <2>2
<1>7. ASSUME NEW j \in DOMAIN Asked', Asked'[j].item = "runtask"
      PROVE  \/ Asked'[j].hashes = newhashes'
             \/ \E i \in DOMAIN Asked' : i < j /\ Tells(i)' /\ Asked'[i].hashes = Asked'[j].hashes
  <2>1. CASE j = n
        BY <1>6, <1>7, <2>1
  <2>2. CASE j # n
    <3>1. j \in DOMAIN Asked /\ Asked[j] = Asked'[j]
          BY <2>2
    <3>2. Asked[j].hashes = newhashes
          \/ \E i \in DOMAIN Asked : i < j /\ Tells(i) /\ Asked[i].hashes = Asked[j].hashes
          BY <1>7, <3>1 DEF Tables
    <3>3. ASSUME NEW i \in DOMAIN Asked, Tells(i)
          PROVE  i \in DOMAIN Asked' /\ Tells(i)' /\ Asked'[i] = Asked[i]
          BY <3>3 DEF Tells
    <3> QED BY <3>1, <3>2, <3>3
  <2> QED BY <2>1, <2>2
<1> QED BY <1>2, <1>3, <1>4, <1>5, <1>6, <1>7 DEF Tables

\* A new table.
LEMMA TablesNew ==
    ASSUME TypeOK, TypeOK', Tables, pc # "gone", PutLast(Asked, Asked', NewHashes(hashes + 1)),
           hashes' = hashes + 1, newhashes' = newhashes
    PROVE  Tables'
<1> PICK n \in DOMAIN Asked' :
            /\ Asked'[n] = NewHashes(hashes + 1)
            /\ \A i \in DOMAIN Asked : i < n /\ i \in DOMAIN Asked' /\ Asked'[i] = Asked[i]
            /\ \A i \in DOMAIN Asked' : i # n => i \in DOMAIN Asked
    BY DEF PutLast
<1>1. /\ \A i \in DOMAIN Asked' : i # n => (Tells(i)' <=> Tells(i)) /\ (Tabled(i)' <=> Tabled(i))
      /\ Tells(n)' /\ Asked'[n].hashes = hashes + 1 /\ Asked'[n].item # "runtask"
      BY DEF Tells, Tabled, NewHashes
<1>2. \A i \in DOMAIN Asked' : i # n /\ Tabled(i)' =>
          Asked'[i].hashes \in Nat /\ Asked'[i].hashes <= hashes /\ Asked'[i].hashes < hashes + 1
  <2>1. \A i \in DOMAIN Asked' : i # n /\ Tabled(i)' => Asked'[i].hashes <= hashes
        BY <1>1 DEF Tables
  <2>2. \A i \in DOMAIN Asked' : i # n /\ Tabled(i)' => Asked'[i].hashes \in Nat
        BY <1>1, HashTypes
  <2> QED BY <2>1, <2>2, HashTypes
<1>3. newhashes \in Nat /\ hashes \in Nat /\ newhashes <= hashes
  <2>1. \A i \in DOMAIN Asked : Tells(i) => newhashes < Asked[i].hashes /\ Asked[i].hashes <= hashes
        BY HashTypes DEF Tables
  <2>2. hashes = newhashes \/ \E i \in DOMAIN Asked : Tells(i) /\ Asked[i].hashes = hashes
        BY DEF Tables
  <2> QED BY <2>1, <2>2, HashTypes
<1>4. \A i, j \in DOMAIN Asked' : i < j /\ i = n => FALSE
  <2>1. \A i \in DOMAIN Asked' : i \in Nat
        BY Numbered
  <2> QED BY <2>1
<1>5. \A i \in DOMAIN Asked' : Tabled(i)' => Asked'[i].hashes <= hashes'
      BY <1>1, <1>2, <1>3
<1>6. \A i \in DOMAIN Asked' : Tells(i)' => newhashes' < Asked'[i].hashes
  <2>1. \A i \in DOMAIN Asked' : i # n /\ Tells(i)' => newhashes < Asked'[i].hashes
        BY <1>1 DEF Tables
  <2> QED BY <1>1, <1>3, <2>1
<1>7. ASSUME NEW i \in DOMAIN Asked', NEW j \in DOMAIN Asked', i < j, Tells(i)'
      PROVE  /\ Tabled(j)' => Asked'[i].hashes <= Asked'[j].hashes
             /\ Tells(j)' => Asked'[i].hashes < Asked'[j].hashes
  <2>1. i # n /\ i \in DOMAIN Asked /\ Tells(i) /\ Asked'[i] = Asked[i]
        BY <1>1, <1>4, <1>7
  <2>2. CASE j = n
    <3>1. Tabled(i)'
          BY <1>7 DEF Tells, Tabled
    <3> QED BY <1>1, <1>2, <1>3, <2>1, <2>2, <3>1
  <2>3. CASE j # n
    <3>1. j \in DOMAIN Asked /\ Asked'[j] = Asked[j] /\ (Tabled(j)' <=> Tabled(j)) /\ (Tells(j)' <=> Tells(j))
          BY <1>1, <2>3
    <3> QED BY <1>7, <2>1, <3>1 DEF Tables
  <2> QED BY <2>2, <2>3
<1>8. ASSUME NEW j \in DOMAIN Asked', Asked'[j].item = "runtask"
      PROVE  \/ Asked'[j].hashes = newhashes'
             \/ \E i \in DOMAIN Asked' : i < j /\ Tells(i)' /\ Asked'[i].hashes = Asked'[j].hashes
  <2>1. j \in DOMAIN Asked /\ Asked[j] = Asked'[j]
        BY <1>1, <1>8
  <2>2. Asked[j].hashes = newhashes
        \/ \E i \in DOMAIN Asked : i < j /\ Tells(i) /\ Asked[i].hashes = Asked[j].hashes
        BY <1>8, <2>1 DEF Tables
  <2>3. ASSUME NEW i \in DOMAIN Asked, Tells(i)
        PROVE  i \in DOMAIN Asked' /\ Tells(i)' /\ Asked'[i] = Asked[i]
        BY <2>3 DEF Tells
  <2> QED BY <2>1, <2>2, <2>3
<1>9. \E i \in DOMAIN Asked' : Tells(i)' /\ Asked'[i].hashes = hashes'
      BY <1>1
<1> QED BY <1>5, <1>6, <1>7, <1>8, <1>9 DEF Tables

\* The first is taken, and it is no table.
LEMMA TablesTaken ==
    ASSUME TypeOK, TypeOK', Tables, pc # "gone", Shifted(Asked, Asked', 1),
           \A i \in DOMAIN Asked : i # 1 => i - 1 \in DOMAIN Asked',
           1 \in DOMAIN Asked, ~Tells(1), hashes' = hashes, newhashes' = newhashes
    PROVE  Tables'
<1>1. \A i \in DOMAIN Asked' : /\ i \in Nat /\ i + 1 \in DOMAIN Asked /\ Asked'[i] = Asked[i + 1]
                              /\ (Tells(i)' <=> Tells(i + 1)) /\ (Tabled(i)' <=> Tabled(i + 1))
      BY Numbered DEF Shifted, Tells, Tabled
<1>2. ASSUME NEW i \in DOMAIN Asked, Tells(i)
      PROVE  i - 1 \in DOMAIN Asked' /\ Tells(i - 1)' /\ Asked'[i - 1] = Asked[i]
  <2>1. i # 1 /\ i - 1 \in DOMAIN Asked' /\ i \in Nat
        BY <1>2, Numbered
  <2>2. (i - 1) + 1 = i
        BY <2>1
  <2> QED BY <1>1, <1>2, <2>1, <2>2
<1>3. \A i \in DOMAIN Asked' : Tabled(i)' => Asked'[i].hashes <= hashes'
      BY <1>1 DEF Tables
<1>4. \A i \in DOMAIN Asked' : Tells(i)' => newhashes' < Asked'[i].hashes
      BY <1>1 DEF Tables
<1>5. ASSUME NEW i \in DOMAIN Asked', NEW j \in DOMAIN Asked', i < j, Tells(i)'
      PROVE  /\ Tabled(j)' => Asked'[i].hashes <= Asked'[j].hashes
             /\ Tells(j)' => Asked'[i].hashes < Asked'[j].hashes
  <2>1. i + 1 < j + 1
        BY <1>1, <1>5
  <2> QED BY <1>1, <1>5, <2>1 DEF Tables
<1>6. ASSUME NEW j \in DOMAIN Asked', Asked'[j].item = "runtask"
      PROVE  \/ Asked'[j].hashes = newhashes'
             \/ \E i \in DOMAIN Asked' : i < j /\ Tells(i)' /\ Asked'[i].hashes = Asked'[j].hashes
  <2>1. Asked[j + 1].hashes = newhashes
        \/ \E i \in DOMAIN Asked : i < j + 1 /\ Tells(i) /\ Asked[i].hashes = Asked[j + 1].hashes
        BY <1>1, <1>6 DEF Tables
  <2>2. CASE Asked[j + 1].hashes = newhashes
        BY <1>1, <2>2
  <2>3. ASSUME NEW i \in DOMAIN Asked, i < j + 1, Tells(i), Asked[i].hashes = Asked[j + 1].hashes
        PROVE  i - 1 \in DOMAIN Asked' /\ i - 1 < j /\ Tells(i - 1)' /\ Asked'[i - 1].hashes = Asked'[j].hashes
    <3>1. i - 1 < j
          BY <1>1, <2>3, Numbered
    <3> QED BY <1>1, <1>2, <2>3, <3>1
  <2> QED BY <2>1, <2>2, <2>3
<1>7. hashes' = newhashes' \/ \E i \in DOMAIN Asked' : Tells(i)' /\ Asked'[i].hashes = hashes'
  <2>1. hashes = newhashes \/ \E i \in DOMAIN Asked : Tells(i) /\ Asked[i].hashes = hashes
        BY DEF Tables
  <2> QED BY <1>2, <2>1
<1> QED BY <1>3, <1>4, <1>5, <1>6, <1>7 DEF Tables

\* The first is taken, and it is the worker's new table.
LEMMA TablesRead ==
    ASSUME TypeOK, TypeOK', Tables, pc # "gone", Shifted(Asked, Asked', 1),
           \A i \in DOMAIN Asked : i # 1 => i - 1 \in DOMAIN Asked',
           1 \in DOMAIN Asked, Tells(1), hashes' = hashes, newhashes' = Asked[1].hashes
    PROVE  Tables'
<1>1. \A i \in DOMAIN Asked' : /\ i \in Nat \ {0} /\ i + 1 \in DOMAIN Asked /\ Asked'[i] = Asked[i + 1]
                              /\ (Tells(i)' <=> Tells(i + 1)) /\ (Tabled(i)' <=> Tabled(i + 1))
                              /\ 1 < i + 1
      BY Numbered DEF Shifted, Tells, Tabled
<1>2. ASSUME NEW i \in DOMAIN Asked, Tells(i), i # 1
      PROVE  i - 1 \in DOMAIN Asked' /\ Tells(i - 1)' /\ Asked'[i - 1] = Asked[i]
  <2>1. i - 1 \in DOMAIN Asked' /\ i \in Nat
        BY <1>2, Numbered
  <2>2. (i - 1) + 1 = i
        BY <2>1
  <2> QED BY <1>1, <1>2, <2>1, <2>2
<1>3. \A i \in DOMAIN Asked' : Tabled(i)' => Asked'[i].hashes <= hashes'
      BY <1>1 DEF Tables
<1>4. \A i \in DOMAIN Asked' : Tells(i)' => newhashes' < Asked'[i].hashes
      BY <1>1 DEF Tables
<1>5. ASSUME NEW i \in DOMAIN Asked', NEW j \in DOMAIN Asked', i < j, Tells(i)'
      PROVE  /\ Tabled(j)' => Asked'[i].hashes <= Asked'[j].hashes
             /\ Tells(j)' => Asked'[i].hashes < Asked'[j].hashes
  <2>1. i + 1 < j + 1
        BY <1>1, <1>5
  <2> QED BY <1>1, <1>5, <2>1 DEF Tables
<1>6. ASSUME NEW j \in DOMAIN Asked', Asked'[j].item = "runtask"
      PROVE  \/ Asked'[j].hashes = newhashes'
             \/ \E i \in DOMAIN Asked' : i < j /\ Tells(i)' /\ Asked'[i].hashes = Asked'[j].hashes
  <2>1. Asked[j + 1].hashes = newhashes
        \/ \E i \in DOMAIN Asked : i < j + 1 /\ Tells(i) /\ Asked[i].hashes = Asked[j + 1].hashes
        BY <1>1, <1>6 DEF Tables
  <2>2. newhashes < Asked[1].hashes /\ Asked[1].hashes <= Asked[j + 1].hashes
    <3>1. Tabled(j + 1)
          BY <1>1, <1>6 DEF Tabled
    <3> QED BY <1>1, <3>1 DEF Tables
  <2>3. Asked[j + 1].hashes # newhashes
    <3>1. newhashes \in Nat /\ Asked[1].hashes \in Nat /\ Asked[j + 1].hashes \in Nat
      <4>1. Tabled(1) /\ Tabled(j + 1)
            BY <1>1, <1>6 DEF Tells, Tabled
      <4> QED BY <1>1, <4>1, HashTypes
    <3> QED BY <2>2, <3>1
  <2>4. ASSUME NEW i \in DOMAIN Asked, i < j + 1, Tells(i), Asked[i].hashes = Asked[j + 1].hashes
        PROVE  \/ i = 1 /\ Asked'[j].hashes = newhashes'
               \/ i - 1 \in DOMAIN Asked' /\ i - 1 < j /\ Tells(i - 1)' /\ Asked'[i - 1].hashes = Asked'[j].hashes
    <3>1. i - 1 < j
          BY <1>1, <2>4, Numbered
    <3> QED BY <1>1, <1>2, <2>4, <3>1
  <2> QED BY <2>1, <2>3, <2>4
<1>7. hashes' = newhashes' \/ \E i \in DOMAIN Asked' : Tells(i)' /\ Asked'[i].hashes = hashes'
  <2>1. hashes = newhashes \/ \E i \in DOMAIN Asked : Tells(i) /\ Asked[i].hashes = hashes
        BY DEF Tables
  <2>2. newhashes < Asked[1].hashes /\ Asked[1].hashes <= hashes
        BY HashTypes DEF Tables
  <2>3. hashes # newhashes
        BY <2>2, HashTypes
  <2> QED BY <1>2, <2>1, <2>3
<1> QED BY <1>3, <1>4, <1>5, <1>6, <1>7 DEF Tables

\* Every step preserves Tables.
LEMMA TablesStep ==
    ASSUME TypeOK, TypeOK', Asks, Tables, [Next]_vars
    PROVE  Tables'
<1> SUFFICES ASSUME pc' # "gone" PROVE Tables'
    BY DEF Tables
<1>0. pc # "gone"
      BY GoneStays
<1> USE DEF vars, cookerVars, mainVars, taskVars, Goes, Fire, DyingNow
<1>1. ASSUME Asked' = Asked, UNCHANGED <<hashes, newhashes>> PROVE Tables'
      BY <1>0, <1>1 DEF Tables, Tells, Tabled
<1>2. CASE SendHashes
      BY <1>0, <1>2, AskedMoves, TablesNew DEF SendHashes
<1>3. CASE FinishNowSent \/ Teardown
  <2>1. PICK m \in {FinishNow, Quit} : PutLast(Asked, Asked', m)
        BY <1>3, AskedMoves
  <2>2. UNCHANGED <<hashes, newhashes>>
        BY <1>3 DEF FinishNowSent, Teardown
  <2> QED BY <1>0, <2>1, <2>2, TablesPut DEF FinishNow, Quit
<1>4. ASSUME NEW t \in Task, SendTask(t) PROVE Tables'
  <2>1. PutLast(Asked, Asked', RunTask(t)) /\ UNCHANGED <<hashes, newhashes>>
        BY <1>4, AskedMoves DEF SendTask
  <2> QED BY <1>0, <2>1, TablesPut DEF RunTask
<1>5. CASE HandleFinishNow \/ HandleQuit
  <2>1. pc \in {"finishnow", "quit"} /\ UNCHANGED <<hashes, newhashes>>
        BY <1>5 DEF HandleFinishNow, HandleQuit
  <2>2. Head(queue).item = pc
        BY <2>1, TypeOfQueue DEF Items
  <2>3. /\ Shifted(Asked, Asked', 1)
        /\ Asked[1] = Head(queue) /\ 1 \in DOMAIN Asked
        /\ \A i \in DOMAIN Asked : i # 1 => i - 1 \in DOMAIN Asked'
        BY <1>5, AskedMoves
  <2>4. ~Tells(1)
        BY <2>1, <2>2, <2>3 DEF Tells
  <2> QED BY <1>0, <2>1, <2>3, <2>4, TablesTaken
<1>6. CASE HandleNewTaskHashes
  <2>1. pc = "newtaskhashes" /\ hashes' = hashes /\ newhashes' = Head(queue).hashes
        BY <1>6 DEF HandleNewTaskHashes
  <2>2. Head(queue).item = pc
        BY <2>1, TypeOfQueue DEF Items
  <2>3. /\ Shifted(Asked, Asked', 1)
        /\ Asked[1] = Head(queue) /\ 1 \in DOMAIN Asked
        /\ \A i \in DOMAIN Asked : i # 1 => i - 1 \in DOMAIN Asked'
        BY <1>6, AskedMoves
  <2>4. Tells(1)
        BY <2>1, <2>2, <2>3 DEF Tells
  <2> QED BY <1>0, <2>1, <2>3, <2>4, TablesRead
<1>7. CASE HandleRunTask
  <2>1. /\ UNCHANGED <<hashes, newhashes>> /\ 1 \in DOMAIN Asked /\ Asked[1].item = "runtask"
        /\ Shifted(Asked, Asked', 1)
        /\ \A i \in DOMAIN Asked : i # 1 => i - 1 \in DOMAIN Asked'
        BY <1>7, TaskForked DEF Shifted
  <2> QED BY <1>0, <2>1, TablesTaken DEF Tells
<1>8. ~WriteFails
      BY <1>0 DEF WriteFails
<1>9. ASSUME NEW t \in Task, Kill(t) \/ Wait(t) \/ Drain(t) \/ Pipes(t) \/ Reap(t) \/ TaskActs(t)
      PROVE  Tables'
  <2>1. UNCHANGED <<hashes, newhashes>>
        BY <1>9 DEF Kill, Wait, Drain, Pipes, Reap, ReapThen, TaskActs, Bind, Lead, LoadFails,
                    TaskStarted, UnihashUpdate, Exit, Killed
  <2> QED BY <1>1, <1>9, <2>1, AskedStays
<1>10. CASE CookerDies \/ Write \/ Done \/ Read \/ Select \/ KillEnds \/ DrainEnds \/ Gone
            \/ Sigterm \/ Flush \/ FlushFails \/ Finished \/ UNCHANGED vars
  <2>1. UNCHANGED <<hashes, newhashes>>
        BY <1>10 DEF CookerDies, Write, Done, Read, Select, KillEnds, DrainEnds, Gone, Sigterm, Flush,
                     FlushFails, Finished
  <2> QED BY <1>1, <1>10, <2>1, AskedStays
<1> QED BY <1>2, <1>3, <1>4, <1>5, <1>6, <1>7, <1>8, <1>9, <1>10 DEF Next, Cooker, Main

\* The first item being a runtask, no table can come before it.
LEMMA HashesImplied == TypeOK /\ Tables => HashesCurrent
<1> SUFFICES ASSUME TypeOK, Tables, pc = "runtask" PROVE Head(queue).hashes = newhashes
    BY DEF HashesCurrent
<1>1. 1 \in DOMAIN Asked /\ Asked[1] = Head(queue) /\ Head(queue).item = "runtask"
      BY AskedFirst DEF Items
<1>2. ~ \E i \in DOMAIN Asked : i < 1
      BY Numbered
<1> QED BY <1>1, <1>2 DEF Tables

-----------------------------------------------------------------------------
(* What comes back *)

\* A task that was collected does nothing more.
LEMMA GoneForGood ==
    ASSUME TypeOK, NEW t \in Task, child[t] = "gone",
           Wait(t) \/ Drain(t) \/ Pipes(t) \/ Reap(t) \/ TaskActs(t)
    PROVE  child'[t] = "gone" /\ (out'[t] = out[t] \/ out'[t] = <<>>)
<1> USE DEF TypeOK, cookerVars, mainVars, Zombie, Alive
<1>1. ~(Wait(t) \/ Reap(t))
      BY DEF Wait, Reap, ReapThen
<1>2. CASE Drain(t) \/ Pipes(t)
      BY <1>2 DEF Drain, Pipes, ReadPipe
<1>3. ~TaskActs(t)
      BY DEF TaskActs, Bind, Lead, LoadFails, Exit, Killed, Goes, TaskStarted, UnihashUpdate, Fire
<1> QED BY <1>1, <1>2, <1>3

\* What a reader puts behind the replies there are.
PutAll(q, r, s) ==
    /\ \A i \in DOMAIN q : i \in DOMAIN r /\ r[i] = q[i]
    /\ \A i \in DOMAIN s : i + Len(q) \in DOMAIN r /\ r[i + Len(q)] = s[i]
    /\ \A i \in DOMAIN r :
          \/ i \in DOMAIN q
          \/ i - Len(q) \in DOMAIN s /\ i > Len(q) /\ r[i] = s[i - Len(q)]

\* The replies Reap(t) brings: Said(t) and the exit code.
Report(t) == Said(t) \o <<ExitCode(t, child[t])>>

\* The replies of Reap are the events of the task and its exit code, in that order.
LEMMA ReportOK ==
    ASSUME TypeOK, NEW t \in Task, child[t] \in Zombie
    PROVE  /\ Report(t) \in Seq(Replies) /\ Len(Report(t)) = Len(out[t]) + 1
           /\ \A i \in DOMAIN out[t] : Report(t)[i] = Event(t, out[t][i])
           /\ Report(t)[Len(out[t]) + 1] = ExitCode(t, child[t])
<1>1. Said(t) \in Seq(Replies) /\ Len(Said(t)) = Len(out[t])
      /\ \A i \in DOMAIN out[t] : Said(t)[i] = Event(t, out[t][i])
      BY SaidOK
<1>2. ExitCode(t, child[t]) \in Replies
      BY SaidOK
<1>3. out[t] \in Seq(Events)
      BY DEF TypeOK
<1> QED BY <1>1, <1>2, <1>3 DEF Report

\* Where the replies go with each step.
LEMMA AnswersMove ==
    ASSUME TypeOK
    PROVE  /\ \A t \in Task : Drain(t) \/ Pipes(t) => PutAll(Answers, Answers', Said(t))
           /\ \A t \in Task : Reap(t) => PutAll(Answers, Answers', Report(t))
           /\ Read => /\ Shifted(Answers, Answers', 1)
                      /\ Answers[1] = Head(pipe) /\ 1 \in DOMAIN Answers
                      /\ \A i \in DOMAIN Answers : i # 1 => i - 1 \in DOMAIN Answers'
           /\ Gone => Shifted(Answers, Answers', 0)
<1> USE DEF cookerVars, mainVars
<1>1. ASSUME NEW t \in Task, Drain(t) \/ Pipes(t) PROVE PutAll(Answers, Answers', Said(t))
  <2>1. worker_queue' = worker_queue \o Said(t) /\ UNCHANGED pipe
        BY <1>1 DEF Drain, Pipes, ReadPipe
  <2> QED BY <2>1, SaidOK, AnswersPut DEF PutAll
<1>2. ASSUME NEW t \in Task, Reap(t) PROVE PutAll(Answers, Answers', Report(t))
  <2>1. child[t] \in Zombie /\ worker_queue' = worker_queue \o Report(t) /\ UNCHANGED pipe
        BY <1>2 DEF Reap, ReapThen, Report
  <2> QED BY <2>1, ReportOK, AnswersPut DEF PutAll
<1>3. ASSUME Read
      PROVE  /\ Shifted(Answers, Answers', 1)
             /\ Answers[1] = Head(pipe) /\ 1 \in DOMAIN Answers
             /\ \A i \in DOMAIN Answers : i # 1 => i - 1 \in DOMAIN Answers'
      BY <1>3, AnswersTaken DEF Read, Shifted
<1>4. ASSUME Gone PROVE Shifted(Answers, Answers', 0)
  <2>1. \A i \in DOMAIN Answers' : i \in DOMAIN Answers /\ Answers'[i] = Answers[i]
        BY <1>4, AnswersCut DEF Gone
  <2>2. \A i \in DOMAIN Answers : i + 0 = i
        BY Numbered
  <2> QED BY <2>1, <2>2 DEF Shifted
<1> QED BY <1>1, <1>2, <1>3, <1>4

\* The steps that do not touch the replies.
LEMMA AnswersStay ==
    ASSUME TypeOK,
           \/ Apart \/ HandleRunTask
           \/ \E t \in Task : SendTask(t) \/ Wait(t) \/ TaskActs(t)
    PROVE  Answers' = Answers /\ Shifted(Answers, Answers', 0)
<1>1. Answers' = Answers
  <2> USE DEF vars, cookerVars, mainVars, taskVars, Goes, Fire
  <2>1. CASE Flush
        BY <2>1, AnswersSame
  <2>2. CASE Apart /\ ~Flush
        BY <2>2, AnswersSame DEF Apart, SendHashes, FinishNowSent, Teardown, CookerDies, Write,
              WriteFails, Done, Select, HandleNewTaskHashes, HandleFinishNow, HandleQuit, KillEnds,
              DrainEnds, Kill, Sigterm, FlushFails, Finished
  <2>3. CASE HandleRunTask
        BY <2>3, AnswersSame DEF HandleRunTask
  <2>4. ASSUME NEW t \in Task, SendTask(t) \/ Wait(t) PROVE Answers' = Answers
        BY <2>4, AnswersSame DEF SendTask, Wait
  <2>5. ASSUME NEW t \in Task, TaskActs(t) PROVE Answers' = Answers
        BY <2>5, AnswersSame DEF TaskActs, Bind, Lead, LoadFails, TaskStarted, UnihashUpdate, Exit, Killed
  <2> QED BY <2>1, <2>2, <2>3, <2>4, <2>5
<1>2. \A i \in DOMAIN Answers : i + 0 = i
      BY Numbered
<1> QED BY <1>1, <1>2 DEF Shifted

\* Replies are of tasks.
LEMMA AnswerTasks ==
    /\ TypeOK => \A i \in DOMAIN Answers : Answers[i] \in Replies /\ Answers[i].task \in Task
    /\ TypeOK' => \A i \in DOMAIN Answers' : Answers'[i] \in Replies /\ Answers'[i].task \in Task
<1>1. TypeOK => \A i \in DOMAIN Answers : Answers[i] \in Replies
      BY OnTheirWay
<1>2. TypeOK' => \A i \in DOMAIN Answers' : Answers'[i] \in Replies
      BY OnTheirWayNext
<1> QED BY <1>1, <1>2, ReplyKinds

\* Taking a reply that is not an exit code, or dropping the last, preserves Replied.
LEMMA RepliedKept ==
    ASSUME TypeOK, TypeOK', Replied, NEW d \in {0, 1}, Shifted(Answers, Answers', d), UNCHANGED result,
           \A t \in Task : child[t] # "none" => child'[t] # "none",
           \A t \in Task : child[t] = "gone" => child'[t] = "gone" /\ (out'[t] = out[t] \/ out'[t] = <<>>)
    PROVE  Replied'
<1>1. \A i \in DOMAIN Answers' : /\ i \in Nat /\ i + d \in DOMAIN Answers /\ Answers'[i] = Answers[i + d]
                                 /\ Answers'[i].task \in Task
      BY Numbered, AnswerTasks DEF Shifted
<1>2. \A i \in DOMAIN Answers' : child'[Answers'[i].task] # "none" /\ result'[Answers'[i].task] = "none"
      BY <1>1 DEF Replied
<1>3. \A i \in DOMAIN Answers' : IsExit(Answers'[i]) =>
          child'[Answers'[i].task] = "gone" /\ out'[Answers'[i].task] = <<>>
      BY <1>1 DEF Replied
<1>4. ASSUME NEW i \in DOMAIN Answers', NEW j \in DOMAIN Answers', i < j, IsExit(Answers'[i])
      PROVE  Answers'[i].task # Answers'[j].task
  <2>1. i + d < j + d
        BY <1>1, <1>4
  <2> QED BY <1>1, <1>4, <2>1 DEF Replied
<1>5. \A t \in Task : result'[t] # "none" => child'[t] = "gone" /\ out'[t] = <<>>
      BY DEF Replied
<1> QED BY <1>2, <1>3, <1>4, <1>5 DEF Replied

\* The replies of a task that has not ended.
LEMMA RepliedPut ==
    ASSUME TypeOK, TypeOK', Replied, NEW t \in Task, NEW s \in Seq(Replies), PutAll(Answers, Answers', s),
           UNCHANGED result, s # <<>> => child[t] # "gone" \/ out[t] # <<>>,
           child[t] # "none",
           \A i \in DOMAIN s : s[i].task = t,
           \A i \in DOMAIN s : IsExit(s[i]) => i = Len(s) /\ child'[t] = "gone",
           child'[t] # "none", child[t] = "gone" => child'[t] = "gone", out'[t] = <<>>,
           \A u \in Task \ {t} : child'[u] = child[u] /\ out'[u] = out[u]
    PROVE  Replied'
<1> DEFINE n == Len(Answers)
<1>0. n \in Nat /\ DOMAIN Answers = 1 .. n /\ Len(s) \in Nat /\ DOMAIN s = 1 .. Len(s)
      BY OnTheirWay
<1>1. \A i \in DOMAIN Answers : Answers'[i] = Answers[i] /\ Answers[i].task \in Task
      BY AnswerTasks DEF PutAll
<1>2. \A i \in DOMAIN Answers' : i \in DOMAIN Answers \/ (i - n \in DOMAIN s /\ Answers'[i] = s[i - n] /\ i > n)
      BY DEF PutAll
<1>3. s # <<>> => /\ \A i \in DOMAIN Answers : IsExit(Answers[i]) => Answers[i].task # t
                  /\ result[t] = "none"
      BY DEF Replied
<1>4. \A i \in DOMAIN Answers' : i \notin DOMAIN Answers => s # <<>> /\ Answers'[i].task = t /\ i \in Nat /\ i > n
  <2>1. \A i \in DOMAIN s : s # <<>>
        OBVIOUS
  <2> QED BY <1>2, <2>1, Numbered
<1> HIDE DEF n
<1>5. \A i \in DOMAIN Answers' : child'[Answers'[i].task] # "none" /\ result'[Answers'[i].task] = "none"
      BY <1>1, <1>3, <1>4 DEF Replied
<1>6. \A i \in DOMAIN Answers' : IsExit(Answers'[i]) =>
          child'[Answers'[i].task] = "gone" /\ out'[Answers'[i].task] = <<>>
  <2>1. \A i \in DOMAIN Answers : IsExit(Answers[i]) =>
            child'[Answers[i].task] = "gone" /\ out'[Answers[i].task] = <<>>
        BY <1>1 DEF Replied
  <2>2. \A i \in DOMAIN Answers' : i \notin DOMAIN Answers /\ IsExit(Answers'[i]) => child'[t] = "gone"
        BY <1>2
  <2> QED BY <1>1, <1>4, <2>1, <2>2
<1>7. ASSUME NEW i \in DOMAIN Answers', NEW j \in DOMAIN Answers', i < j, IsExit(Answers'[i])
      PROVE  Answers'[i].task # Answers'[j].task
  <2>1. CASE i \in DOMAIN Answers /\ j \in DOMAIN Answers
        BY <1>1, <1>7, <2>1 DEF Replied
  <2>2. CASE i \in DOMAIN Answers /\ j \notin DOMAIN Answers
        BY <1>1, <1>3, <1>4, <1>7, <2>2
  <2>3. CASE i \notin DOMAIN Answers
    <3>1. j \notin DOMAIN Answers
          BY <1>0, <1>4, <1>7, <2>3
    <3>2. i - n = Len(s) /\ j - n \in DOMAIN s /\ i \in Nat /\ j \in Nat
          BY <1>2, <1>4, <1>7, <2>3, <3>1
    <3> QED BY <1>0, <1>7, <3>2
  <2> QED BY <2>1, <2>2, <2>3
<1>8. \A u \in Task : result'[u] # "none" => child'[u] = "gone" /\ out'[u] = <<>>
      BY DEF Replied
<1> QED BY <1>5, <1>6, <1>7, <1>8 DEF Replied

\* Every step preserves Replied.
LEMMA RepliedStep ==
    ASSUME TypeOK, TypeOK', Forks, Asks, Replied, [Next]_vars
    PROVE  Replied'
<1>1. CASE Aside
  <2>1. Shifted(Answers, Answers', 0)
        BY <1>1, AnswersMove, AnswersStay DEF Aside
  <2> QED BY <1>1, <2>1, AsideKeeps, RepliedKept
<1>2. CASE Read
  <2> DEFINE r == Head(pipe)
  <2>1. /\ Shifted(Answers, Answers', 1) /\ Answers[1] = r /\ 1 \in DOMAIN Answers
        BY <1>2, AnswersMove
  <2>2. UNCHANGED <<child, out>>
        BY <1>2 DEF Read, taskVars
  <2>3. CASE ~IsExit(r)
    <3>1. UNCHANGED result
          BY <1>2, <2>3 DEF Read
    <3> QED BY <2>1, <2>2, <3>1, RepliedKept
  <2>4. CASE IsExit(r)
    <3>1. result' = [result EXCEPT ![r.task] = r.exitcode] /\ r.task \in Task
      <4>1. r.task \in Task
            BY <2>1, AnswerTasks
      <4> QED BY <1>2, <2>4, <4>1 DEF Read
    <3> HIDE DEF r
    <3>2. \A u \in Task : u # r.task => result'[u] = result[u]
          BY <3>1 DEF TypeOK
    <3>3. child[r.task] = "gone" /\ out[r.task] = <<>>
          BY <2>1, <2>4 DEF Replied
    <3>4. \A i \in DOMAIN Answers' :
              /\ i \in Nat \ {0} /\ i + 1 \in DOMAIN Answers /\ Answers'[i] = Answers[i + 1]
              /\ 1 < i + 1 /\ Answers'[i].task \in Task
          BY <2>1, Numbered, AnswerTasks DEF Shifted
    <3>5. \A i \in DOMAIN Answers' : Answers'[i].task # r.task
          BY <2>1, <2>4, <3>4 DEF Replied
    <3>6. \A i \in DOMAIN Answers' : child'[Answers'[i].task] # "none" /\ result'[Answers'[i].task] = "none"
          BY <2>2, <3>2, <3>4, <3>5 DEF Replied
    <3>7. \A i \in DOMAIN Answers' : IsExit(Answers'[i]) =>
              child'[Answers'[i].task] = "gone" /\ out'[Answers'[i].task] = <<>>
          BY <2>2, <3>4 DEF Replied
    <3>8. ASSUME NEW i \in DOMAIN Answers', NEW j \in DOMAIN Answers', i < j, IsExit(Answers'[i])
          PROVE  Answers'[i].task # Answers'[j].task
      <4>1. i + 1 < j + 1
            BY <3>4, <3>8
      <4> QED BY <3>4, <3>8, <4>1 DEF Replied
    <3>9. \A u \in Task : result'[u] # "none" => child'[u] = "gone" /\ out'[u] = <<>>
          BY <2>2, <3>2, <3>3 DEF Replied
    <3> QED BY <3>6, <3>7, <3>8, <3>9 DEF Replied
  <2> QED BY <2>3, <2>4
<1>3. ASSUME NEW t \in Task, SendTask(t) PROVE Replied'
  <2>1. UNCHANGED <<result, child, out>>
        BY <1>3 DEF SendTask, taskVars
  <2> QED BY <1>3, <2>1, AnswersStay, RepliedKept
<1>4. CASE HandleRunTask
  <2> DEFINE t == Head(queue).task
  <2>1. t \in Task /\ child[t] = "none" /\ child' = [child EXCEPT ![t] = "forked"] /\ UNCHANGED <<result, out>>
        BY <1>4, TaskForked
  <2> HIDE DEF t
  <2>2. /\ \A u \in Task : child[u] # "none" => child'[u] # "none"
        /\ \A u \in Task : child[u] = "gone" => child'[u] = "gone"
        BY <2>1 DEF TypeOK
  <2> QED BY <1>4, <2>1, <2>2, AnswersStay, RepliedKept
<1>5. ASSUME NEW t \in Task, Wait(t) \/ TaskActs(t) PROVE Replied'
  <2>1. /\ UNCHANGED result
        /\ \A u \in Task : child[u] # "none" => child'[u] # "none"
        /\ \A u \in Task : child[u] = "gone" => child'[u] = "gone" /\ (out'[u] = out[u] \/ out'[u] = <<>>)
        BY <1>5, TaskMoves, GoneForGood
  <2> QED BY <1>5, <2>1, AnswersStay, RepliedKept
<1>6. ASSUME NEW t \in Task, Drain(t) \/ Pipes(t) PROVE Replied'
  <2>1. /\ PutAll(Answers, Answers', Said(t)) /\ Said(t) \in Seq(Replies) /\ Len(Said(t)) = Len(out[t])
        /\ \A i \in DOMAIN out[t] : Said(t)[i] = Event(t, out[t][i])
        BY <1>6, AnswersMove, SaidOK
  <2>2. /\ UNCHANGED <<result, child>> /\ out'[t] = <<>>
        /\ \A u \in Task \ {t} : child'[u] = child[u] /\ out'[u] = out[u]
        BY <1>6 DEF Drain, Pipes, ReadPipe, cookerVars, TypeOK
  <2>3. DOMAIN Said(t) = DOMAIN out[t] /\ (Said(t) # <<>> => out[t] # <<>>)
        BY <2>1 DEF TypeOK
  <2>4. \A i \in DOMAIN Said(t) : Said(t)[i].task = t /\ ~IsExit(Said(t)[i])
        BY <2>1, <2>3, ReplyIs
  <2>5. CASE child[t] = "none"
    <3>1. out[t] = <<>>
          BY <2>5 DEF Forks
    <3>2. \A u \in Task : out'[u] = out[u]
          BY <2>2, <3>1
    <3>3. DOMAIN Said(t) = {}
          BY <2>3, <3>1
    <3>4. Shifted(Answers, Answers', 0)
      <4>1. \A i \in DOMAIN Answers' : i \in DOMAIN Answers /\ Answers'[i] = Answers[i]
            BY <2>1, <3>3 DEF PutAll
      <4> QED BY <4>1, Numbered DEF Shifted
    <3> QED BY <2>2, <3>2, <3>4, RepliedKept
  <2>6. CASE child[t] # "none"
        BY <2>1, <2>2, <2>3, <2>4, <2>6, RepliedPut
  <2> QED BY <2>5, <2>6
<1>7. ASSUME NEW t \in Task, Reap(t) PROVE Replied'
  <2>1. /\ child[t] \in Zombie /\ child' = [child EXCEPT ![t] = "gone"] /\ out' = [out EXCEPT ![t] = <<>>]
        /\ UNCHANGED result
        BY <1>7 DEF Reap, ReapThen, cookerVars
  <2>2. /\ child'[t] = "gone" /\ out'[t] = <<>> /\ child[t] \notin {"none", "gone"}
        /\ \A u \in Task \ {t} : child'[u] = child[u] /\ out'[u] = out[u]
        BY <2>1 DEF TypeOK, Zombie
  <2>3. /\ PutAll(Answers, Answers', Report(t)) /\ Report(t) \in Seq(Replies)
        /\ Len(Report(t)) = Len(out[t]) + 1
        /\ \A i \in DOMAIN out[t] : Report(t)[i] = Event(t, out[t][i])
        /\ Report(t)[Len(out[t]) + 1] = ExitCode(t, child[t])
        BY <1>7, <2>1, AnswersMove, ReportOK
  <2>4. \A i \in DOMAIN Report(t) : i \in DOMAIN out[t] \/ i = Len(Report(t))
    <3>1. out[t] \in Seq(Events)
          BY DEF TypeOK
    <3>2. DOMAIN out[t] = 1 .. Len(out[t]) /\ Len(out[t]) \in Nat
          BY <3>1
    <3>3. DOMAIN Report(t) = 1 .. Len(out[t]) + 1
          BY <2>3, <3>2
    <3> QED BY <2>3, <3>2, <3>3
  <2>5. \A i \in DOMAIN Report(t) : Report(t)[i].task = t /\ (IsExit(Report(t)[i]) => i = Len(Report(t)))
        BY <2>3, <2>4, ReplyIs
  <2> QED BY <2>1, <2>2, <2>3, <2>5, RepliedPut
<1> QED BY <1>1, <1>2, <1>3, <1>4, <1>5, <1>6, <1>7, Kinds

-----------------------------------------------------------------------------
(* No task in hand is forgotten *)

\* The server goes on with the build, and the worker too.
Serving == cooker = "serving" /\ ~dying

\* The processes the worker has.
Held == Alive \cup Zombie

\* A server that goes on went on before.
LEMMA ServedBefore ==
    ASSUME [Next]_vars, Serving'
    PROVE  Serving
<1> USE DEF Serving, vars, cookerVars, mainVars, Goes, Fire, DyingNow, CookerActs
<1>1. CASE Cooker
      BY <1>1 DEF Cooker, SendTask, SendHashes, FinishNowSent, Teardown, CookerDies, Write, WriteFails,
                  Read, Done
<1>2. CASE Main
  <2>1. CASE Select
    <3>1. ~Eof
          BY <2>1 DEF Select
    <3> QED BY <2>1, <3>1 DEF Select
  <2>2. CASE HandleNewTaskHashes \/ HandleRunTask \/ HandleFinishNow \/ HandleQuit \/ KillEnds
             \/ DrainEnds \/ Gone
        BY <2>2 DEF HandleNewTaskHashes, HandleRunTask, HandleFinishNow, HandleQuit, KillEnds, DrainEnds,
                    Gone
  <2>3. ASSUME NEW t \in Task, Kill(t) \/ Wait(t) \/ Drain(t) \/ Pipes(t) \/ Reap(t)
        PROVE  Serving
        BY <2>3 DEF Kill, Wait, Drain, Pipes, Reap, ReapThen
  <2> QED BY <1>2, <2>1, <2>2, <2>3 DEF Main
<1>3. CASE Sigterm \/ Flush \/ FlushFails \/ Finished \/ UNCHANGED vars
      BY <1>3 DEF Sigterm, Flush, FlushFails, Finished
<1>4. ASSUME NEW t \in Task, TaskActs(t) PROVE Serving
      BY <1>4 DEF TaskActs, Bind, Lead, LoadFails, TaskStarted, UnihashUpdate, Exit, Killed
<1> QED BY <1>1, <1>2, <1>3, <1>4 DEF Next

\* What cannot happen while the server goes on.
LEMMA Undisturbed ==
    ASSUME Somewhere, Serving, Serving', [Next]_vars
    PROVE  /\ ~FinishNowSent /\ ~Teardown /\ ~CookerDies /\ ~WriteFails /\ ~Done
           /\ ~Sigterm /\ ~HandleFinishNow /\ ~HandleQuit /\ ~KillEnds /\ ~DrainEnds
           /\ \A t \in Task : ~Kill(t) /\ ~Wait(t) /\ ~Drain(t)
           /\ Gone => worker_queue = <<>>
           /\ Select => ~Eof
<1>1. pc \notin {"finishnow", "quit", "kill", "wait", "drain"}
      BY DEF Somewhere, Serving
<1>2. /\ ~FinishNowSent /\ ~Teardown /\ ~CookerDies /\ ~WriteFails /\ ~Done /\ ~Sigterm
      BY DEF Serving, FinishNowSent, Teardown, CookerDies, WriteFails, Done, CookerActs, Sigterm, DyingNow
<1>3. ~HandleFinishNow /\ ~HandleQuit /\ ~KillEnds /\ ~DrainEnds
      /\ \A t \in Task : ~Kill(t) /\ ~Wait(t) /\ ~Drain(t)
      BY <1>1 DEF HandleFinishNow, HandleQuit, KillEnds, DrainEnds, Kill, Wait, Drain
<1>4. Gone => worker_queue = <<>>
      BY <1>1 DEF Gone
<1>5. Select => ~Eof
      BY DEF Select, DyingNow, Serving
<1> QED BY <1>2, <1>3, <1>4, <1>5

\* Nobody asks for the end, and nobody is about to.
LEMMA NoEndAsked ==
    ASSUME TypeOK, TypeOK', Asks, Somewhere, Serving, Serving', [Next]_vars
    PROVE  /\ \A i \in DOMAIN Asked' : Asked'[i].item \notin {"finishnow", "quit"}
           /\ pc' \notin {"finishnow", "quit", "kill", "wait", "drain"}
<1>1. ASSUME NEW d \in {0, 1}, Shifted(Asked, Asked', d)
      PROVE  \A i \in DOMAIN Asked' : Asked'[i].item \notin {"finishnow", "quit"}
      BY <1>1 DEF Shifted, Somewhere, Serving
<1>2. ASSUME NEW m, PutLast(Asked, Asked', m), m.item \notin {"finishnow", "quit"}
      PROVE  \A i \in DOMAIN Asked' : Asked'[i].item \notin {"finishnow", "quit"}
      BY <1>2 DEF PutLast, Somewhere, Serving
<1>3. \A i \in DOMAIN Asked' : Asked'[i].item \notin {"finishnow", "quit"}
  <2>1. CASE SendHashes
        BY <1>2, <2>1, AskedMoves DEF NewHashes
  <2>2. ASSUME NEW t \in Task, SendTask(t)
        PROVE  \A i \in DOMAIN Asked' : Asked'[i].item \notin {"finishnow", "quit"}
        BY <1>2, <2>2, AskedMoves DEF RunTask
  <2>3. CASE HandleNewTaskHashes
        BY <1>1, <2>3, AskedMoves
  <2>4. CASE HandleRunTask
        BY <1>1, <2>4, TaskForked DEF Shifted
  <2>5. CASE ~SendHashes /\ (~ \E t \in Task : SendTask(t)) /\ ~HandleNewTaskHashes /\ ~HandleRunTask
    <3>1. Shifted(Asked, Asked', 0)
          BY <2>5, Undisturbed, AskedStays DEF Next, Cooker, Main
    <3> QED BY <1>1, <3>1
  <2> QED BY <2>1, <2>2, <2>3, <2>4, <2>5
<1>4. pc' \notin {"finishnow", "quit"}
      BY <1>3, AskedFirstNext DEF Items
<1>5. pc' \notin {"kill", "wait", "drain"}
  <2> USE DEF vars, cookerVars, mainVars, Goes, Fire
  <2>0. pc \notin {"kill", "wait", "drain"}
        BY DEF Somewhere, Serving
  <2>1. CASE Cooker
        BY <2>0, <2>1 DEF Cooker, SendTask, SendHashes, FinishNowSent, Teardown, CookerDies, Write,
                    WriteFails, Read, Done
  <2>2. CASE Select
    <3>1. pc' = FirstItem(0, queue', ready') /\ ~Eof
          BY <2>2, Undisturbed DEF Select
    <3>2. queue' \in Seq(Messages)
          BY DEF TypeOK
    <3> QED BY <3>1, <3>2, FirstItemOK
  <2>3. CASE HandleNewTaskHashes \/ HandleRunTask
    <3>1. pc' = AfterItem(pc, queue') /\ pc \in Items
          BY <2>3 DEF HandleNewTaskHashes, HandleRunTask, Items
    <3>2. queue' \in Seq(Messages)
          BY DEF TypeOK
    <3> QED BY <3>1, <3>2, AfterItemOK
  <2>4. CASE Gone
        BY <2>4 DEF Gone
  <2>5. ASSUME NEW t \in Task, Pipes(t) \/ Reap(t) PROVE pc' \notin {"kill", "wait", "drain"}
        BY <2>0, <2>5 DEF Pipes, Reap, ReapThen
  <2>6. ASSUME NEW t \in Task, TaskActs(t) PROVE pc' \notin {"kill", "wait", "drain"}
        BY <2>0, <2>6 DEF TaskActs, Bind, Lead, LoadFails, TaskStarted, UnihashUpdate, Exit, Killed
  <2>7. CASE Flush \/ FlushFails \/ Finished \/ UNCHANGED vars
        BY <2>0, <2>7 DEF Flush, FlushFails, Finished
  <2> QED BY <2>1, <2>2, <2>3, <2>4, <2>5, <2>6, <2>7, Undisturbed DEF Next, Main
<1> QED BY <1>3, <1>4, <1>5

\* What is held stays held until it is reaped.
LEMMA HeldSteps ==
    ASSUME TypeOK, NEW t \in Task, TaskActs(t)
    PROVE  /\ \A u \in Task : child'[u] \in Held <=> child[u] \in Held
           /\ UNCHANGED <<build_pids, sent, result>>
<1> USE DEF TypeOK, cookerVars, mainVars, Held, Alive, Zombie
<1>1. CASE Bind(t) \/ Lead(t) \/ LoadFails(t) \/ Exit(t) \/ Killed(t)
      BY <1>1 DEF Bind, Lead, LoadFails, Exit, Killed, Goes
<1>2. ASSUME NEW e, NEW l \in {"leader", "working"}, Fire(t, e, l, "working")
      PROVE  /\ \A u \in Task : child'[u] \in Held <=> child[u] \in Held
             /\ UNCHANGED <<build_pids, sent, result>>
      BY <1>2 DEF Fire
<1>3. CASE TaskStarted(t) \/ UnihashUpdate(t)
      BY <1>2, <1>3 DEF TaskStarted, UnihashUpdate
<1> QED BY <1>1, <1>3 DEF TaskActs

\* The runtask of t is on its way.
AsksFor(t) == \E i \in DOMAIN Asked : Asked[i].item = "runtask" /\ Asked[i].task = t

\* Every step preserves Somewhere.
LEMMA SomewhereStep ==
    ASSUME TypeOK, TypeOK', Forks, Asks, Replied, Somewhere, [Next]_vars
    PROVE  Somewhere'
<1> SUFFICES ASSUME Serving'
             PROVE  /\ \A t \in Task : t \in build_pids' <=> child'[t] \in Held
                    /\ \A t \in Task : t \in Live' => AsksFor(t)' \/ child'[t] \in Held \/ Coded(t)'
  <2>1. Serving' => Serving
        BY ServedBefore
  <2>2. Live' \subseteq Task
        BY DEF Live, TypeOK
  <2> QED BY <2>1, <2>2, NoEndAsked DEF Somewhere, Serving, Held, AsksFor
<1>1. Serving
      BY ServedBefore
<1>2. /\ \A t \in Task : t \in build_pids <=> child[t] \in Held
      /\ \A t \in Task : t \in Live => AsksFor(t) \/ child[t] \in Held \/ Coded(t)
      BY <1>1 DEF Somewhere, Serving, Held, AsksFor
<1>3. Shifted(Asked, Asked', 0) /\ Asked' = Asked => \A t \in Task : AsksFor(t) => AsksFor(t)'
      BY DEF AsksFor
<1>4. Answers' = Answers => \A t \in Task : Coded(t) => Coded(t)'
      BY DEF Coded
<1>5. ASSUME UNCHANGED <<build_pids, child, sent, result>>, Shifted(Asked, Asked', 0), Asked' = Asked,
             Answers' = Answers
      PROVE  /\ \A t \in Task : t \in build_pids' <=> child'[t] \in Held
             /\ \A t \in Task : t \in Live' => AsksFor(t)' \/ child'[t] \in Held \/ Coded(t)'
      BY <1>2, <1>3, <1>4, <1>5 DEF Live
<1> DEFINE Goal1 == \A t \in Task : t \in build_pids' <=> child'[t] \in Held
<1> DEFINE Goal2 == \A t \in Task : t \in Live' => AsksFor(t)' \/ child'[t] \in Held \/ Coded(t)'
<1> USE DEF vars, cookerVars, mainVars, taskVars
<1>6. CASE SendHashes
  <2>1. UNCHANGED <<build_pids, child, sent, result>> /\ Answers' = Answers
        BY <1>6, AnswersStay DEF SendHashes, Apart
  <2>2. \A t \in Task : AsksFor(t) => AsksFor(t)'
        BY <1>6, AskedMoves DEF PutLast, AsksFor
  <2> QED BY <1>2, <1>4, <2>1, <2>2 DEF Live
<1>7. ASSUME NEW t \in Task, SendTask(t) PROVE Goal1 /\ Goal2
  <2>1. UNCHANGED <<build_pids, child, result>> /\ sent' = sent \cup {t} /\ Answers' = Answers
        BY <1>7, AnswersStay DEF SendTask
  <2>2. PutLast(Asked, Asked', RunTask(t))
        BY <1>7, AskedMoves
  <2>3. AsksFor(t)' /\ \A u \in Task : AsksFor(u) => AsksFor(u)'
        BY <2>2 DEF PutLast, AsksFor, RunTask
  <2> QED BY <1>2, <1>4, <2>1, <2>3 DEF Live
<1>8. CASE HandleNewTaskHashes
  <2>1. UNCHANGED <<build_pids, child, sent, result>> /\ Answers' = Answers
        BY <1>8, AnswersStay DEF HandleNewTaskHashes, Apart
  <2>2. Asked[1].item = "newtaskhashes"
    <3>1. pc = "newtaskhashes"
          BY <1>8 DEF HandleNewTaskHashes
    <3> QED BY <3>1, AskedFirst DEF Items
  <2>3. ASSUME NEW i \in DOMAIN Asked, i # 1 PROVE i - 1 \in DOMAIN Asked' /\ Asked'[i - 1] = Asked[i]
    <3>1. i - 1 \in DOMAIN Asked' /\ (i - 1) + 1 = i
          BY <1>8, <2>3, AskedMoves, Numbered
    <3> QED BY <1>8, <3>1, AskedMoves DEF Shifted
  <2>4. \A t \in Task : AsksFor(t) => AsksFor(t)'
        BY <2>2, <2>3 DEF AsksFor
  <2> QED BY <1>2, <1>4, <2>1, <2>4 DEF Live
<1>9. CASE HandleRunTask
  <2> DEFINE t == Head(queue).task
  <2>1. /\ t \in Task /\ child' = [child EXCEPT ![t] = "forked"] /\ UNCHANGED <<sent, result>>
        /\ Asked[1].task = t
        /\ \A i \in DOMAIN Asked : i # 1 => i - 1 \in DOMAIN Asked' /\ Asked'[i - 1] = Asked[i]
        BY <1>9, TaskForked
  <2>2. build_pids' = build_pids \cup {t} /\ Answers' = Answers
        BY <1>9, AnswersStay DEF HandleRunTask
  <2> HIDE DEF t
  <2>3. /\ child'[t] \in Held
        /\ \A u \in Task \ {t} : child'[u] = child[u]
        BY <2>1 DEF TypeOK, Held, Alive
  <2>4. \A u \in Task \ {t} : AsksFor(u) => AsksFor(u)'
        BY <2>1 DEF AsksFor
  <2>5. Goal1
        BY <1>2, <2>2, <2>3
  <2>6. Goal2
        BY <1>2, <1>4, <2>1, <2>2, <2>3, <2>4 DEF Live
  <2> QED BY <2>5, <2>6
<1>10. CASE Read
  <2> DEFINE r == Head(pipe)
  <2>1. /\ UNCHANGED <<build_pids, child, sent>> /\ Asked' = Asked
        /\ Answers[1] = r /\ Shifted(Answers, Answers', 1)
        /\ \A i \in DOMAIN Answers : i # 1 => i - 1 \in DOMAIN Answers'
        BY <1>10, AskedStays, AnswersMove DEF Read
  <2>2. 1 \in DOMAIN Answers /\ r.task \in Task /\ (IsExit(r) => r.exitcode # "none")
    <3>1. 1 \in DOMAIN Answers /\ r \in Replies
          BY <1>10, <2>1, AnswersMove, AnswerTasks
    <3> QED BY <3>1, ReplyKinds DEF Zombie
  <2>3. ASSUME NEW i \in DOMAIN Answers, i # 1 PROVE i - 1 \in DOMAIN Answers' /\ Answers'[i - 1] = Answers[i]
    <3>1. i - 1 \in DOMAIN Answers' /\ (i - 1) + 1 = i
          BY <2>1, <2>3, Numbered
    <3> QED BY <2>1, <3>1 DEF Shifted
  <2>4. \A u \in Task : Coded(u) => Coded(u)' \/ (u = r.task /\ IsExit(r))
        BY <2>1, <2>3 DEF Coded
  <2>5. IsExit(r) => result' = [result EXCEPT ![r.task] = r.exitcode]
        BY <1>10 DEF Read
  <2>6. ~IsExit(r) => result' = result
        BY <1>10 DEF Read
  <2> HIDE DEF r
  <2>7. \A u \in Task : u \in Live' => u \in Live /\ ~(u = r.task /\ IsExit(r))
        BY <2>1, <2>2, <2>5, <2>6 DEF Live, TypeOK
  <2>8. \A u \in Task : AsksFor(u) => AsksFor(u)'
        BY <2>1 DEF AsksFor
  <2> QED BY <1>2, <2>1, <2>4, <2>7, <2>8
<1>11. CASE Write \/ Select \/ Flush \/ FlushFails \/ Finished \/ UNCHANGED vars
  <2>1. UNCHANGED <<build_pids, child, sent, result>>
        BY <1>11 DEF Write, Select, Flush, FlushFails, Finished
  <2> QED BY <1>5, <1>11, <2>1, AskedStays, AnswersStay, Undisturbed DEF Apart
<1>12. CASE Gone
  <2>1. UNCHANGED <<build_pids, child, sent, result>>
        BY <1>12 DEF Gone
  <2>2. UNCHANGED <<pipe, worker_queue>>
        BY <1>1, <1>12, Undisturbed DEF Gone
  <2> QED BY <1>5, <1>12, <2>1, <2>2, AskedStays, AnswersSame
<1>13. ASSUME NEW t \in Task, Pipes(t) PROVE Goal1 /\ Goal2
  <2>1. UNCHANGED <<build_pids, child, sent, result>> /\ Asked' = Asked
        BY <1>13, AskedStays DEF Pipes, ReadPipe
  <2>2. \A u \in Task : Coded(u) => Coded(u)'
        BY <1>13, AnswersMove DEF PutAll, Coded
  <2>3. \A u \in Task : AsksFor(u) => AsksFor(u)'
        BY <2>1 DEF AsksFor
  <2> QED BY <1>2, <2>1, <2>2, <2>3 DEF Live
<1>14. ASSUME NEW t \in Task, Reap(t) PROVE Goal1 /\ Goal2
  <2>1. /\ child[t] \in Zombie /\ child' = [child EXCEPT ![t] = "gone"] /\ build_pids' = build_pids \ {t}
        /\ UNCHANGED <<sent, result>> /\ Asked' = Asked
        BY <1>14, AskedStays DEF Reap, ReapThen
  <2>2. /\ child'[t] \notin Held
        /\ \A u \in Task \ {t} : child'[u] = child[u]
        BY <2>1 DEF TypeOK, Held, Alive, Zombie
  <2>3. \A u \in Task : Coded(u) => Coded(u)'
        BY <1>14, AnswersMove DEF PutAll, Coded
  <2>4. Coded(t)'
    <3>1. /\ PutAll(Answers, Answers', Report(t)) /\ Report(t) \in Seq(Replies)
          /\ Len(Report(t)) = Len(out[t]) + 1
          /\ Report(t)[Len(out[t]) + 1] = ExitCode(t, child[t])
          BY <1>14, <2>1, AnswersMove, ReportOK
    <3>2. Len(out[t]) + 1 \in DOMAIN Report(t)
      <4>1. out[t] \in Seq(Events)
            BY DEF TypeOK
      <4> QED BY <3>1, <4>1
    <3>3. \E i \in DOMAIN Answers' : Answers'[i] = ExitCode(t, child[t])
          BY <3>1, <3>2 DEF PutAll
    <3> QED BY <3>3, ReplyIs DEF Coded
  <2>5. \A u \in Task : AsksFor(u) => AsksFor(u)'
        BY <2>1 DEF AsksFor
  <2>6. Goal1
        BY <1>2, <2>1, <2>2
  <2>7. Goal2
        BY <1>2, <2>1, <2>2, <2>3, <2>4, <2>5 DEF Live
  <2> QED BY <2>6, <2>7
<1>15. ASSUME NEW t \in Task, TaskActs(t) PROVE Goal1 /\ Goal2
  <2>1. /\ \A u \in Task : child'[u] \in Held <=> child[u] \in Held
        /\ UNCHANGED <<build_pids, sent, result>>
        BY <1>15, HeldSteps
  <2>2. Asked' = Asked /\ Answers' = Answers
        BY <1>15, AskedStays, AnswersStay
  <2>3. \A u \in Task : AsksFor(u) => AsksFor(u)'
        BY <2>2 DEF AsksFor
  <2> QED BY <1>2, <1>4, <2>1, <2>2, <2>3 DEF Live
<1> QED BY <1>1, <1>6, <1>7, <1>8, <1>9, <1>10, <1>11, <1>12, <1>13, <1>14, <1>15, Undisturbed
        DEF Next, Cooker, Main

\* Somewhere, and in no two places, as the places exclude each other.
LEMMA AccountedImplied ==
    ASSUME TypeOK, Forks, Asks, Replied, Somewhere
    PROVE  Accounted
<1> SUFFICES ASSUME cooker = "serving", ~dying, NEW t \in Task
             PROVE  LET asks   == {i \in DOMAIN Asked :
                                      Asked[i].item = "runtask" /\ Asked[i].task = t}
                        codes  == {i \in DOMAIN Answers : Answers[i].task = t /\ IsExit(Answers[i])}
                        places == Cardinality(asks) + Cardinality(codes)
                                  + (IF child[t] \in Alive \cup Zombie THEN 1 ELSE 0)
                    IN  /\ places = (IF t \in Live THEN 1 ELSE 0)
                        /\ t \in build_pids <=> child[t] \in Alive \cup Zombie
    BY DEF Accounted
<1> DEFINE asks == {i \in DOMAIN Asked : Asked[i].item = "runtask" /\ Asked[i].task = t}
<1> DEFINE codes == {i \in DOMAIN Answers : Answers[i].task = t /\ IsExit(Answers[i])}
<1>1. asks = {} \/ \E i : asks = {i}
      BY DEF Asks
<1>2. codes = {} \/ \E i : codes = {i}
  <2>1. \A i, j \in codes : i = j
    <3>1. DOMAIN Answers \subseteq Nat
          BY Numbered
    <3> QED BY <3>1 DEF Replied
  <2> QED BY <2>1
<1>3. t \in build_pids <=> child[t] \in Held
      BY DEF Somewhere, Held
<1>4. t \in Live => asks # {} \/ child[t] \in Held \/ codes # {}
      BY DEF Somewhere, Coded, Held
<1>5. asks # {} => t \in sent /\ child[t] = "none" /\ result[t] = "none"
      BY DEF Asks, Replied
<1>6. codes # {} => t \in sent /\ child[t] = "gone" /\ result[t] = "none"
      BY DEF Replied, Forks
<1>7. child[t] \in Held => t \in sent /\ result[t] = "none"
      BY DEF Replied, Forks, Held, Alive, Zombie
<1>8. child[t] \in Held => child[t] # "none" /\ child[t] # "gone"
      BY DEF Held, Alive, Zombie
<1>9. Cardinality({}) = 0 /\ \A x : Cardinality({x}) = 1
      BY FS_EmptySet, FS_Singleton
<1> HIDE DEF asks, codes
<1>10. Cardinality(asks) + Cardinality(codes) + (IF child[t] \in Held THEN 1 ELSE 0)
       = (IF t \in Live THEN 1 ELSE 0)
  <2>1. /\ Cardinality(asks) = IF asks = {} THEN 0 ELSE 1
        /\ Cardinality(codes) = IF codes = {} THEN 0 ELSE 1
        BY <1>1, <1>2, <1>9
  <2>2. t \in Live <=> t \in sent /\ result[t] = "none"
        BY DEF Live
  <2> QED BY <1>4, <1>5, <1>6, <1>7, <1>8, <2>1, <2>2
<1> QED BY <1>3, <1>10 DEF asks, codes, Held

-----------------------------------------------------------------------------
(* The children *)

\* How a task goes through its life.
LEMMA TaskLives ==
    ASSUME TypeOK, NEW t \in Task, TaskActs(t)
    PROVE  /\ \A u \in Task : child[u] \in Zombie => child'[u] \in Zombie
           /\ \A u \in Task : child[u] \in Alive => child'[u] \in Alive \cup Zombie
           /\ UNCHANGED <<pc, term, forked>>
           /\ \A u \in Task : child'[u] = "working" => child[u] = "working" \/ (u = t /\ HasReader(t))
<1> USE DEF TypeOK, cookerVars, mainVars, Alive, Zombie
<1>1. CASE Bind(t) \/ Lead(t) \/ LoadFails(t) \/ Exit(t) \/ Killed(t)
      BY <1>1 DEF Bind, Lead, LoadFails, Exit, Killed, Goes
<1>2. ASSUME NEW e, NEW l \in {"leader", "working"}, Fire(t, e, l, "working")
      PROVE  /\ \A u \in Task : child[u] \in Zombie => child'[u] \in Zombie
             /\ \A u \in Task : child[u] \in Alive => child'[u] \in Alive \cup Zombie
             /\ UNCHANGED <<pc, term, forked>>
             /\ \A u \in Task : child'[u] = "working" => child[u] = "working" \/ (u = t /\ HasReader(t))
      BY <1>2 DEF Fire
<1>3. CASE TaskStarted(t) \/ UnihashUpdate(t)
      BY <1>2, <1>3 DEF TaskStarted, UnihashUpdate
<1> QED BY <1>1, <1>3 DEF TaskActs

\* Every step preserves WaitEnds.
LEMMA WaitStep ==
    ASSUME TypeOK, TypeOK', WaitEnds, [Next]_vars
    PROVE  WaitEnds'
<1> SUFFICES ASSUME pc' = "wait"
             PROVE  \E t \in Task : child'[t] \in Zombie \/ (child'[t] \in Alive /\ t \in term')
    BY DEF WaitEnds
<1> USE DEF vars, cookerVars, mainVars, taskVars
<1>1. ASSUME NEW t \in Task, Kill(t)
      PROVE  \E u \in Task : child'[u] \in Zombie \/ (child'[u] \in Alive /\ u \in term')
  <2>1. HasGroup(t) /\ term' = term \cup {t} /\ child' = child
        BY <1>1 DEF Kill
  <2> QED BY <2>1 DEF HasGroup, Alive
<1>2. ASSUME pc = "wait", UNCHANGED <<child, term>>
      PROVE  \E u \in Task : child'[u] \in Zombie \/ (child'[u] \in Alive /\ u \in term')
      BY <1>2 DEF WaitEnds
<1>3. CASE Cooker
  <2>1. pc' = pc /\ UNCHANGED <<child, term>>
        BY <1>3 DEF Cooker, SendTask, SendHashes, FinishNowSent, Teardown, CookerDies, Write, WriteFails,
                    Read, Done
  <2> QED BY <1>2, <2>1
<1>4. CASE Flush \/ FlushFails \/ Finished \/ UNCHANGED vars
  <2>1. pc' = pc /\ UNCHANGED <<child, term>>
        BY <1>4 DEF Flush, FlushFails, Finished
  <2> QED BY <1>2, <2>1
<1>5. ~Sigterm
      BY DEF Sigterm, DyingNow
<1>6. ~Select
  <2> SUFFICES ASSUME Select PROVE FALSE
      OBVIOUS
  <2>1. CASE Eof
        BY <2>1 DEF Select, DyingNow
  <2>2. CASE ~Eof
    <3>1. pc' = FirstItem(0, queue', ready') /\ queue' \in Seq(Messages)
          BY <2>2 DEF Select, TypeOK
    <3> QED BY <3>1, FirstItemOK
  <2> QED BY <2>1, <2>2
<1>7. ~HandleNewTaskHashes /\ ~HandleRunTask
  <2> SUFFICES ASSUME HandleNewTaskHashes \/ HandleRunTask PROVE FALSE
      OBVIOUS
  <2>1. pc' = AfterItem(pc, queue') /\ pc \in Items /\ queue' \in Seq(Messages)
        BY DEF HandleNewTaskHashes, HandleRunTask, Items, TypeOK
  <2> QED BY <2>1, AfterItemOK
<1>8. ~HandleFinishNow /\ ~HandleQuit /\ ~KillEnds /\ ~Gone
      BY DEF HandleFinishNow, HandleQuit, KillEnds, Gone
<1>9. ~DrainEnds
  <2> SUFFICES ASSUME DrainEnds PROVE FALSE
      OBVIOUS
  <2>1. pc' = AfterItem("finishnow", queue) /\ queue \in Seq(Messages)
        BY DEF DrainEnds, TypeOK
  <2> QED BY <2>1, AfterItemOK DEF Items
<1>10. \A t \in Task : ~Wait(t) /\ ~Drain(t) /\ ~Pipes(t) /\ ~Reap(t)
      BY DEF Wait, Drain, Pipes, Reap, ReapThen
<1>11. ASSUME NEW t \in Task, TaskActs(t)
      PROVE  \E u \in Task : child'[u] \in Zombie \/ (child'[u] \in Alive /\ u \in term')
  <2>1. pc = "wait" /\ term' = term
        BY <1>11, TaskLives
  <2>2. PICK u \in Task : child[u] \in Zombie \/ (child[u] \in Alive /\ u \in term)
        BY <2>1 DEF WaitEnds
  <2> QED BY <1>11, <2>1, <2>2, TaskLives
<1> QED BY <1>1, <1>3, <1>4, <1>5, <1>6, <1>7, <1>8, <1>9, <1>10, <1>11 DEF Next, Main

\* Every step preserves OnlyElderOrphans.
LEMMA OrphansStep ==
    ASSUME TypeOK, TypeOK', Forks, OnlyElderOrphans, [Next]_vars
    PROVE  OnlyElderOrphans'
<1> SUFFICES ASSUME pc' = "gone", NEW t \in Task, child'[t] = "working", t \notin term'
             PROVE  t # Last(forked')
    BY DEF OnlyElderOrphans
<1> USE DEF vars, cookerVars, mainVars, taskVars
<1>1. CASE pc # "gone"
  <2>1. ~Gone
        BY DEF Gone, Alive
  <2>2. \A u \in Task : ~TaskActs(u)
        BY <1>1, TaskLives
  <2>3. ~Cooker
        BY <1>1 DEF Cooker, SendTask, SendHashes, FinishNowSent, Teardown, CookerDies, Write, WriteFails,
                    Read, Done
  <2>4. ~Sigterm /\ ~Flush /\ ~FlushFails /\ ~Finished /\ ~UNCHANGED vars
        BY <1>1 DEF Sigterm, DyingNow, Flush, FlushFails, Finished
  <2>5. ~Select
    <3> SUFFICES ASSUME Select PROVE FALSE
        OBVIOUS
    <3>1. CASE Eof
          BY <3>1 DEF Select, DyingNow
    <3>2. CASE ~Eof
      <4>1. pc' = FirstItem(0, queue', ready') /\ queue' \in Seq(Messages)
            BY <3>2 DEF Select, TypeOK
      <4> QED BY <4>1, FirstItemOK
    <3> QED BY <3>1, <3>2
  <2>6. ASSUME HandleNewTaskHashes \/ HandleRunTask \/ DrainEnds PROVE FALSE
    <3>1. PICK i \in Items, q \in Seq(Messages) : pc' = AfterItem(i, q)
      <4>1. CASE HandleNewTaskHashes \/ HandleRunTask
        <5>1. pc' = AfterItem(pc, queue') /\ pc \in Items /\ queue' = Tail(queue)
              BY <4>1 DEF HandleNewTaskHashes, HandleRunTask, Items
        <5> QED BY <5>1, TypeOfQueue
      <4>2. CASE DrainEnds
        <5>1. pc' = AfterItem("finishnow", queue) /\ queue \in Seq(Messages)
              BY <4>2 DEF DrainEnds, TypeOK
        <5> QED BY <5>1 DEF Items
      <4> QED BY <2>6, <4>1, <4>2
    <3> QED BY <3>1, AfterItemOK
  <2>7. ~HandleFinishNow /\ ~HandleQuit /\ ~KillEnds
        BY DEF HandleFinishNow, HandleQuit, KillEnds
  <2>8. \A u \in Task : ~Kill(u) /\ ~Wait(u) /\ ~Drain(u) /\ ~Pipes(u) /\ ~Reap(u)
        BY <1>1 DEF Kill, Wait, Drain, Pipes, Reap, ReapThen
  <2> QED BY <2>1, <2>2, <2>3, <2>4, <2>5, <2>6, <2>7, <2>8 DEF Next, Main
<1>2. CASE pc = "gone"
  <2>1. ASSUME UNCHANGED <<child, term, forked>> PROVE t # Last(forked')
        BY <1>2, <2>1 DEF OnlyElderOrphans
  <2>2. CASE Cooker \/ Sigterm \/ Flush \/ FlushFails \/ Finished \/ UNCHANGED vars
    <3>1. UNCHANGED <<child, term, forked>>
          BY <2>2 DEF Cooker, SendTask, SendHashes, FinishNowSent, Teardown, CookerDies, Write,
                      WriteFails, Read, Done, Sigterm, Flush, FlushFails, Finished
    <3> QED BY <2>1, <3>1
  <2>3. ~Main
        BY <1>2 DEF Main, Select, HandleNewTaskHashes, HandleRunTask, HandleFinishNow, HandleQuit,
              KillEnds, DrainEnds, Gone, Kill, Wait, Drain, Pipes, Reap, ReapThen
  <2>4. ASSUME NEW u \in Task, TaskActs(u) PROVE t # Last(forked')
    <3>1. UNCHANGED <<term, forked>> /\ (child[t] = "working" \/ HasReader(t))
          BY <2>4, TaskLives
    <3>2. CASE child[t] = "working"
          BY <1>2, <3>1, <3>2 DEF OnlyElderOrphans
    <3>3. CASE HasReader(t)
      <4>1. PICK i \in DOMAIN forked, j \in DOMAIN forked : i < j /\ forked[i] = t
            BY <1>2, <3>3 DEF HasReader
      <4>2. forked \in Seq(Task)
            BY DEF TypeOK
      <4>3. Len(forked) \in DOMAIN forked /\ i # Len(forked)
            BY <4>1, <4>2
      <4>4. forked[Len(forked)] # t
            BY <4>1, <4>3 DEF Forks
      <4> QED BY <3>1, <4>4 DEF Last
    <3> QED BY <3>1, <3>2, <3>3
  <2> QED BY <2>2, <2>3, <2>4 DEF Next
<1> QED BY <1>1, <1>2

-----------------------------------------------------------------------------
(* The service *)

\* Every step is one of the service, or none.
LEMMA ServiceStep ==
    ASSUME TypeOK, Forks, Replied, [Next]_vars
    PROVE  [Service!Next]_(Service!vars)
<1>1. ASSUME UNCHANGED <<sent, heard, result>> PROVE [Service!Next]_(Service!vars)
      BY <1>1 DEF Service!vars
<1>2. CASE Aside
      BY <1>1, <1>2, AsideKeeps
<1>3. CASE HandleRunTask
      BY <1>1, <1>3 DEF HandleRunTask, cookerVars
<1>4. ASSUME NEW t \in Task, Wait(t) \/ Drain(t) \/ Pipes(t) \/ Reap(t) \/ TaskActs(t)
      PROVE  [Service!Next]_(Service!vars)
      BY <1>1, <1>4, TaskMoves
<1>5. ASSUME NEW t \in Task, SendTask(t) PROVE [Service!Next]_(Service!vars)
  <2>1. Service!Send(t)
        BY <1>5 DEF SendTask, Service!Send
  <2> QED BY <2>1 DEF Service!Next
<1>6. CASE Read
  <2> DEFINE r == Head(pipe)
  <2>1. 1 \in DOMAIN Answers /\ Answers[1] = r
        BY <1>6, AnswersMove
  <2>2. r \in Replies /\ r.task \in Task
        BY <2>1, AnswerTasks
  <2>3. r.task \in sent /\ result[r.task] = "none"
        BY <2>1, <2>2 DEF Forks, Replied
  <2>4. CASE IsExit(r)
    <3>1. /\ result' = [result EXCEPT ![r.task] = r.exitcode] /\ r.exitcode \in Zombie
          /\ UNCHANGED <<sent, heard>>
          BY <1>6, <2>2, <2>4, ReplyKinds DEF Read
    <3> HIDE DEF r
    <3>2. Service!End(r.task, r.exitcode)
          BY <2>3, <3>1 DEF Service!End, Service!InHand
    <3> QED BY <2>2, <3>1, <3>2 DEF Service!Next
  <2>5. CASE ~IsExit(r)
    <3>1. /\ heard' = [heard EXCEPT ![r.task] = Append(@, r.event)] /\ r.event \in Events
          /\ UNCHANGED <<sent, result>>
          BY <1>6, <2>2, <2>5, ReplyKinds DEF Read
    <3> HIDE DEF r
    <3>2. Service!Report(r.task, r.event)
          BY <2>3, <3>1 DEF Service!Report, Service!InHand
    <3> QED BY <2>2, <3>1, <3>2 DEF Service!Next
  <2> QED BY <2>4, <2>5
<1> QED BY <1>2, <1>3, <1>4, <1>5, <1>6, Kinds

-----------------------------------------------------------------------------
(* No event is lost *)

\* Three parts of a sequence.
LEMMA Joined ==
    ASSUME NEW x \in Seq(Events), NEW y \in Seq(Events), NEW z \in Seq(Events)
    PROVE  (x \o y) \o z = x \o (y \o z)
BY ConcatAssociative

\* What is put behind the last part is put behind the whole.
LEMMA AppendLast ==
    ASSUME NEW x \in Seq(Events), NEW y \in Seq(Events), NEW e \in Events
    PROVE  Append(x \o y, e) = x \o Append(y, e)
OBVIOUS

\* Two parts of a sequence.
LEMMA JoinedLen ==
    ASSUME NEW x \in Seq(Events), NEW y \in Seq(Events)
    PROVE  x \o y \in Seq(Events) /\ Len(x \o y) = Len(x) + Len(y)
OBVIOUS

\* The events on their way.
Mid(n, pos) == [k \in 1 .. n |-> Answers[pos[k]].event]

\* The reply is an event of t.
Says(i, t) == Answers[i].task = t /\ ~IsExit(Answers[i])

\* What a task has fired, in three parts.
LEMMA MidOK ==
    ASSUME TypeOK, NEW t \in Task, NEW n \in Nat, NEW pos, OnTheWay(t, n, pos)
    PROVE  /\ Mid(n, pos) \in Seq(Events) /\ Len(Mid(n, pos)) = n
           /\ \A k \in 1 .. n : pos[k] \in DOMAIN Answers /\ Mid(n, pos)[k] = Answers[pos[k]].event
           /\ fired[t] = heard[t] \o Mid(n, pos) \o out[t]
           /\ fired[t] \in Seq(Events) /\ heard[t] \in Seq(Events) /\ out[t] \in Seq(Events)
<1>1. \A k \in 1 .. n : pos[k] \in DOMAIN Answers /\ ~IsExit(Answers[pos[k]])
      BY DEF OnTheWay
<1>2. \A k \in 1 .. n : Answers[pos[k]].event \in Events
      BY <1>1, AnswerTasks, ReplyKinds
<1>3. Mid(n, pos) \in Seq(Events) /\ Len(Mid(n, pos)) = n
      BY <1>2 DEF Mid
<1>4. \A k \in 1 .. n : Mid(n, pos)[k] = Answers[pos[k]].event
      BY DEF Mid
<1> QED BY <1>1, <1>3, <1>4 DEF OnTheWay, Mid, TypeOK

\* The events of t stay where they are.
LEMMA KeptInPlace ==
    ASSUME TypeOK, NEW t \in Task, NEW n \in Nat, NEW pos, OnTheWay(t, n, pos),
           \A k \in 1 .. n : pos[k] \in DOMAIN Answers' /\ Answers'[pos[k]] = Answers[pos[k]],
           \A i \in DOMAIN Answers' : Says(i, t)' => i \in DOMAIN Answers /\ Answers'[i] = Answers[i],
           heard'[t] = heard[t],
           \/ out'[t] = out[t] /\ fired'[t] = fired[t]
           \/ \E e \in Events : out'[t] = Append(out[t], e) /\ fired'[t] = Append(fired[t], e)
    PROVE  OnTheWay(t, n, pos)'
<1>1. Mid(n, pos)' = Mid(n, pos)
      BY DEF Mid
<1>2. fired'[t] = heard'[t] \o Mid(n, pos)' \o out'[t]
  <2> DEFINE m == Mid(n, pos)
  <2>1. /\ m \in Seq(Events) /\ fired[t] = heard[t] \o m \o out[t]
        /\ heard[t] \in Seq(Events) /\ out[t] \in Seq(Events)
        BY MidOK
  <2> HIDE DEF m
  <2>2. CASE out'[t] = out[t] /\ fired'[t] = fired[t]
        BY <1>1, <2>1, <2>2 DEF m
  <2>3. ASSUME NEW e \in Events, out'[t] = Append(out[t], e), fired'[t] = Append(fired[t], e)
        PROVE  fired'[t] = heard'[t] \o m \o out'[t]
    <3>1. heard[t] \o m \in Seq(Events) /\ <<e>> \in Seq(Events)
          BY <2>1, ConcatPlaces
    <3>2. Append((heard[t] \o m) \o out[t], e) = (heard[t] \o m) \o Append(out[t], e)
          BY <2>1, <3>1, AppendLast
    <3> QED BY <2>1, <2>3, <3>2
  <2> QED BY <1>1, <2>2, <2>3 DEF m
<1>3. /\ pos \in [1 .. n -> DOMAIN Answers']
      /\ \A k, l \in 1 .. n : k < l => pos[k] < pos[l]
      BY DEF OnTheWay
<1>4. \A k \in 1 .. n : Answers'[pos[k]].task = t /\ ~IsExit(Answers'[pos[k]])
      BY DEF OnTheWay
<1>5. \A i \in DOMAIN Answers' :
          Answers'[i].task = t /\ ~IsExit(Answers'[i]) => \E k \in 1 .. n : pos[k] = i
      BY DEF OnTheWay, Says
<1> QED BY <1>2, <1>3, <1>4, <1>5 DEF OnTheWay, Mid

\* The pipe of t is emptied.
LEMMA KeptPut ==
    ASSUME TypeOK, TypeOK', NEW t \in Task, NEW n \in Nat, NEW pos, OnTheWay(t, n, pos),
           NEW s \in Seq(Replies), PutAll(Answers, Answers', s),
           \A i \in DOMAIN out[t] : i \in DOMAIN s /\ s[i] = Event(t, out[t][i]),
           \A i \in DOMAIN s : ~IsExit(s[i]) => i \in DOMAIN out[t],
           heard'[t] = heard[t], fired'[t] = fired[t], out'[t] = <<>>
    PROVE  \E m \in Nat : \E p \in [1 .. m -> DOMAIN Answers'] : OnTheWay(t, m, p)'
<1>a. PICK a, l : a = Len(Answers) /\ l = Len(out[t])
    OBVIOUS
<1>p. PICK p : p = [k \in 1 .. n + l |-> IF k <= n THEN pos[k] ELSE a + (k - n)]
    OBVIOUS
<1>1. /\ a \in Nat /\ l \in Nat /\ DOMAIN Answers = 1 .. a /\ DOMAIN out[t] = 1 .. l
      /\ \A i \in DOMAIN s : i \in Nat \ {0}
  <2>1. Answers \in Seq(Replies) /\ out[t] \in Seq(Events)
        BY OnTheirWay DEF TypeOK
  <2> QED BY <1>a, <2>1
<1>2. /\ \A i \in DOMAIN Answers : i \in DOMAIN Answers' /\ Answers'[i] = Answers[i]
      /\ \A i \in DOMAIN s : i + a \in DOMAIN Answers' /\ Answers'[i + a] = s[i]
      /\ \A i \in DOMAIN Answers' : i \in DOMAIN Answers \/ (i - a \in DOMAIN s /\ i > a /\ Answers'[i] = s[i - a])
      BY <1>a DEF PutAll
<1>3. \A k \in 1 .. n + l :
          \/ k \in 1 .. n /\ p[k] = pos[k] /\ p[k] \in 1 .. a /\ Answers'[p[k]] = Answers[pos[k]]
          \/ k - n \in 1 .. l /\ p[k] = a + (k - n) /\ p[k] \in DOMAIN Answers' /\ k > n
             /\ Answers'[p[k]] = Event(t, out[t][k - n])
  <2> SUFFICES ASSUME NEW k \in 1 .. n + l
               PROVE  \/ k \in 1 .. n /\ p[k] = pos[k] /\ p[k] \in 1 .. a /\ Answers'[p[k]] = Answers[pos[k]]
                      \/ k - n \in 1 .. l /\ p[k] = a + (k - n) /\ p[k] \in DOMAIN Answers' /\ k > n
                         /\ Answers'[p[k]] = Event(t, out[t][k - n])
      OBVIOUS
  <2>1. CASE k <= n
    <3>1. k \in 1 .. n /\ p[k] = pos[k]
          BY <1>p, <1>1, <2>1
    <3> QED BY <1>1, <1>2, <3>1, MidOK
  <2>2. CASE ~(k <= n)
    <3>1. k - n \in 1 .. l /\ k > n /\ p[k] = a + (k - n) /\ p[k] = (k - n) + a
          BY <1>p, <1>1, <2>2
    <3>2. k - n \in DOMAIN s /\ s[k - n] = Event(t, out[t][k - n])
          BY <1>1, <3>1
    <3> QED BY <1>2, <3>1, <3>2
  <2> QED BY <2>1, <2>2
<1>4. n + l \in Nat /\ p \in [1 .. n + l -> DOMAIN Answers']
  <2>1. \A k \in 1 .. n + l : p[k] \in DOMAIN Answers'
        BY <1>1, <1>2, <1>3
  <2>2. n + l \in Nat /\ p = [k \in 1 .. n + l |-> p[k]]
        BY <1>p, <1>1
  <2> QED BY <2>1, <2>2
<1>5. \A k, j \in 1 .. n + l : k < j => p[k] < p[j]
  <2> SUFFICES ASSUME NEW k \in 1 .. n + l, NEW j \in 1 .. n + l, k < j
               PROVE  p[k] < p[j]
      OBVIOUS
  <2>1. CASE k \in 1 .. n /\ j \in 1 .. n
    <3>1. p[k] = pos[k] /\ p[j] = pos[j]
          BY <1>1, <1>3, <2>1
    <3> QED BY <2>1, <3>1 DEF OnTheWay
  <2>2. CASE k \in 1 .. n /\ j \notin 1 .. n
        BY <1>1, <1>3, <2>2
  <2>3. CASE k \notin 1 .. n
    <3>1. j \notin 1 .. n
          BY <1>1, <2>3
    <3> QED BY <1>1, <1>3, <2>3, <3>1
  <2> QED BY <2>1, <2>2, <2>3
<1>6. \A k \in 1 .. n + l : Answers'[p[k]].task = t /\ ~IsExit(Answers'[p[k]])
  <2>1. \A k \in 1 .. n : Answers[pos[k]].task = t /\ ~IsExit(Answers[pos[k]])
        BY DEF OnTheWay
  <2> QED BY <1>3, <2>1, ReplyIs
<1>7. ASSUME NEW i \in DOMAIN Answers', Answers'[i].task = t, ~IsExit(Answers'[i])
      PROVE  \E k \in 1 .. n + l : p[k] = i
  <2>1. CASE i \in DOMAIN Answers
    <3>1. PICK k \in 1 .. n : pos[k] = i
          BY <1>2, <1>7, <2>1 DEF OnTheWay
    <3>2. k \in 1 .. n + l /\ ~(k > n)
          BY <1>1
    <3> QED BY <1>3, <3>1, <3>2
  <2>2. CASE i \notin DOMAIN Answers
    <3>1. i - a \in DOMAIN out[t] /\ i - a \in 1 .. l /\ i \in Nat
          BY <1>1, <1>2, <1>7, <2>2, Numbered
    <3>2. n + (i - a) \in 1 .. n + l /\ (n + (i - a)) - n = i - a /\ n + (i - a) > n
          BY <1>1, <3>1
    <3>3. p[n + (i - a)] = a + (i - a)
          BY <1>1, <1>3, <3>2
    <3> QED BY <1>1, <3>1, <3>2, <3>3
  <2> QED BY <2>1, <2>2
<1>8. fired'[t] = heard'[t] \o [k \in 1 .. n + l |-> Answers'[p[k]].event] \o out'[t]
  <2> DEFINE m == Mid(n, pos)
  <2> DEFINE w == [k \in 1 .. n + l |-> Answers'[p[k]].event]
  <2>1. /\ m \in Seq(Events) /\ Len(m) = n /\ fired[t] = heard[t] \o m \o out[t]
        /\ heard[t] \in Seq(Events) /\ out[t] \in Seq(Events)
        /\ \A k \in 1 .. n : m[k] = Answers[pos[k]].event
        BY MidOK
  <2>2. \A k \in 1 .. n + l : Answers'[p[k]].event = IF k <= n THEN m[k] ELSE out[t][k - n]
    <3>1. \A k \in 1 .. n + l : k <= n => Answers'[p[k]].event = m[k]
          BY <1>1, <1>3, <2>1
    <3>2. ASSUME NEW k \in 1 .. n + l, ~(k <= n) PROVE Answers'[p[k]].event = out[t][k - n]
      <4>1. Answers'[p[k]] = Event(t, out[t][k - n])
            BY <1>1, <1>3, <3>2
      <4> QED BY <4>1, ReplyIs
    <3> QED BY <3>1, <3>2
  <2> HIDE DEF m
  <2>3. \A k \in 1 .. n + l : (m \o out[t])[k] = IF k <= n THEN m[k] ELSE out[t][k - n]
        BY <1>1, <2>1
  <2>4. m \o out[t] \in Seq(Events) /\ Len(m \o out[t]) = n + l
    <3>1. m \o out[t] \in Seq(Events) /\ Len(m \o out[t]) = Len(m) + Len(out[t])
          BY <2>1, JoinedLen
    <3> QED BY <1>a, <2>1, <3>1
  <2>5. \A k \in 1 .. n + l : w[k] = (m \o out[t])[k]
        BY <2>2, <2>3
  <2>6. DOMAIN w = 1 .. n + l
        OBVIOUS
  <2> HIDE DEF w
  <2>7. w = m \o out[t]
    <3>1. w = [k \in 1 .. n + l |-> w[k]]
          BY <2>6 DEF w
    <3>2. m \o out[t] = [k \in 1 .. n + l |-> (m \o out[t])[k]]
          BY <2>4
    <3> QED BY <2>5, <3>1, <3>2
  <2>8. (heard[t] \o m) \o out[t] = heard[t] \o (m \o out[t])
        BY <2>1, Joined
  <2>9. heard[t] \o w \in Seq(Events)
        BY <2>1, <2>4, <2>7, ConcatPlaces
  <2>10. (heard[t] \o w) \o <<>> = heard[t] \o w
        BY <2>9, ConcatEmptySeq
  <2> QED BY <2>1, <2>7, <2>8, <2>10 DEF w
<1>9. OnTheWay(t, n + l, p)'
      BY <1>4, <1>5, <1>6, <1>7, <1>8 DEF OnTheWay
<1> QED BY <1>4, <1>9

\* A sequence without its first element, as a function.
LEMMA TailIs ==
    ASSUME NEW q \in Seq(Events), q # <<>>
    PROVE  Tail(q) \in Seq(Events) /\ Tail(q) = [k \in 1 .. Len(q) - 1 |-> q[k + 1]]
<1>1. Tail(q) \in Seq(Events)
      OBVIOUS
<1>2. DOMAIN Tail(q) = 1 .. Len(q) - 1
      OBVIOUS
<1>3. \A k \in 1 .. Len(q) - 1 : Tail(q)[k] = q[k + 1]
      OBVIOUS
<1>4. \A r \in Seq(Events) : r = [k \in DOMAIN r |-> r[k]]
      OBVIOUS
<1>5. Tail(q) = [k \in 1 .. Len(q) - 1 |-> Tail(q)[k]]
      BY <1>1, <1>2, <1>4
<1> QED BY <1>1, <1>3, <1>5

\* The first reply is read, and it is not an event of t.
LEMMA KeptPassed ==
    ASSUME TypeOK, TypeOK', NEW t \in Task, NEW n \in Nat, NEW pos, OnTheWay(t, n, pos),
           Shifted(Answers, Answers', 1), 1 \in DOMAIN Answers, ~Says(1, t),
           \A i \in DOMAIN Answers : i # 1 => i - 1 \in DOMAIN Answers',
           heard'[t] = heard[t], out'[t] = out[t], fired'[t] = fired[t]
    PROVE  \E m \in Nat : \E p \in [1 .. m -> DOMAIN Answers'] : OnTheWay(t, m, p)'
<1>p. PICK p : p = [k \in 1 .. n |-> pos[k] - 1]
      OBVIOUS
<1>1. \A k \in 1 .. n : /\ p[k] = pos[k] - 1 /\ pos[k] \in Nat /\ p[k] \in DOMAIN Answers'
                        /\ Answers'[p[k]] = Answers[pos[k]]
  <2> SUFFICES ASSUME NEW k \in 1 .. n
               PROVE  /\ p[k] = pos[k] - 1 /\ pos[k] \in Nat /\ p[k] \in DOMAIN Answers'
                      /\ Answers'[p[k]] = Answers[pos[k]]
      OBVIOUS
  <2>1. pos[k] \in DOMAIN Answers /\ Says(pos[k], t)
        BY DEF OnTheWay, Says
  <2>2. pos[k] # 1 /\ pos[k] \in Nat
        BY <2>1, Numbered
  <2>3. pos[k] - 1 \in DOMAIN Answers' /\ (pos[k] - 1) + 1 = pos[k]
        BY <2>1, <2>2
  <2>4. Answers'[pos[k] - 1] = Answers[pos[k]]
        BY <2>3 DEF Shifted
  <2> QED BY <1>p, <2>2, <2>3, <2>4
<1>2. p \in [1 .. n -> DOMAIN Answers']
      BY <1>p, <1>1
<1>3. \A k, j \in 1 .. n : k < j => p[k] < p[j]
  <2>1. \A k, j \in 1 .. n : k < j => pos[k] < pos[j]
        BY DEF OnTheWay
  <2> QED BY <1>1, <2>1
<1>4. \A k \in 1 .. n : Answers'[p[k]].task = t /\ ~IsExit(Answers'[p[k]])
      BY <1>1 DEF OnTheWay
<1>5. ASSUME NEW i \in DOMAIN Answers', Answers'[i].task = t, ~IsExit(Answers'[i])
      PROVE  \E k \in 1 .. n : p[k] = i
  <2>1. i \in Nat /\ i + 1 \in DOMAIN Answers /\ Answers[i + 1] = Answers'[i]
        BY Numbered DEF Shifted
  <2>2. PICK k \in 1 .. n : pos[k] = i + 1
        BY <1>5, <2>1 DEF OnTheWay
  <2> QED BY <1>1, <2>1, <2>2
<1>6. fired'[t] = heard'[t] \o [k \in 1 .. n |-> Answers'[p[k]].event] \o out'[t]
  <2>1. [k \in 1 .. n |-> Answers'[p[k]].event] = [k \in 1 .. n |-> Answers[pos[k]].event]
        BY <1>1
  <2> QED BY <2>1 DEF OnTheWay
<1>7. OnTheWay(t, n, p)'
      BY <1>2, <1>3, <1>4, <1>5, <1>6 DEF OnTheWay
<1> QED BY <1>2, <1>7

\* The first reply is read, and it is an event of t.
LEMMA KeptHeard ==
    ASSUME TypeOK, TypeOK', NEW t \in Task, NEW n \in Nat, NEW pos, OnTheWay(t, n, pos),
           Shifted(Answers, Answers', 1), 1 \in DOMAIN Answers, Says(1, t),
           \A i \in DOMAIN Answers : i # 1 => i - 1 \in DOMAIN Answers',
           heard'[t] = Append(heard[t], Answers[1].event), out'[t] = out[t], fired'[t] = fired[t]
    PROVE  \E m \in Nat : \E p \in [1 .. m -> DOMAIN Answers'] : OnTheWay(t, m, p)'
<1>1. n >= 1 /\ pos[1] = 1
  <2>1. PICK k \in 1 .. n : pos[k] = 1
        BY DEF OnTheWay, Says
  <2>2. ASSUME k # 1 PROVE FALSE
    <3>1. 1 \in 1 .. n /\ 1 < k
          BY <2>1, <2>2
    <3>2. pos[1] < 1 /\ pos[1] \in DOMAIN Answers
          BY <2>1, <3>1 DEF OnTheWay
    <3> QED BY <3>2, Numbered
  <2> QED BY <2>1, <2>2
<1>p. PICK m, p : m = n - 1 /\ p = [k \in 1 .. m |-> pos[k + 1] - 1]
      OBVIOUS
<1>2. m \in Nat /\ \A k \in 1 .. m : k + 1 \in 1 .. n /\ 1 < k + 1
      BY <1>1, <1>p
<1>3. \A k \in 1 .. m : /\ p[k] = pos[k + 1] - 1 /\ pos[k + 1] \in Nat /\ p[k] \in DOMAIN Answers'
                        /\ Answers'[p[k]] = Answers[pos[k + 1]]
  <2> SUFFICES ASSUME NEW k \in 1 .. m
               PROVE  /\ p[k] = pos[k + 1] - 1 /\ pos[k + 1] \in Nat /\ p[k] \in DOMAIN Answers'
                      /\ Answers'[p[k]] = Answers[pos[k + 1]]
      OBVIOUS
  <2>1. pos[k + 1] \in DOMAIN Answers /\ pos[1] < pos[k + 1]
    <3>1. 1 \in 1 .. n /\ k + 1 \in 1 .. n /\ 1 < k + 1
          BY <1>1, <1>2
    <3> QED BY <3>1 DEF OnTheWay
  <2>2. pos[k + 1] # 1 /\ pos[k + 1] \in Nat
        BY <1>1, <2>1, Numbered
  <2>3. pos[k + 1] - 1 \in DOMAIN Answers' /\ (pos[k + 1] - 1) + 1 = pos[k + 1]
    <3>1. \A i \in Nat : (i - 1) + 1 = i
          OBVIOUS
    <3> QED BY <2>1, <2>2, <3>1
  <2>4. Answers'[pos[k + 1] - 1] = Answers[pos[k + 1]]
        BY <2>3 DEF Shifted
  <2>5. p[k] = pos[k + 1] - 1
        BY <1>p
  <2> QED BY <2>2, <2>3, <2>4, <2>5
<1>4. p \in [1 .. m -> DOMAIN Answers']
      BY <1>p, <1>3
<1>5. \A k, j \in 1 .. m : k < j => p[k] < p[j]
  <2> SUFFICES ASSUME NEW k \in 1 .. m, NEW j \in 1 .. m, k < j PROVE p[k] < p[j]
      OBVIOUS
  <2>1. k + 1 \in 1 .. n /\ j + 1 \in 1 .. n /\ k + 1 < j + 1
        BY <1>2
  <2>2. pos[k + 1] < pos[j + 1]
        BY <2>1 DEF OnTheWay
  <2> QED BY <1>3, <2>2
<1>6. \A k \in 1 .. m : Answers'[p[k]].task = t /\ ~IsExit(Answers'[p[k]])
  <2>1. \A k \in 1 .. n : Answers[pos[k]].task = t /\ ~IsExit(Answers[pos[k]])
        BY DEF OnTheWay
  <2> QED BY <1>2, <1>3, <2>1
<1>7. ASSUME NEW i \in DOMAIN Answers', Answers'[i].task = t, ~IsExit(Answers'[i])
      PROVE  \E k \in 1 .. m : p[k] = i
  <2>1. i \in Nat \ {0} /\ i + 1 \in DOMAIN Answers /\ Answers[i + 1] = Answers'[i]
        BY Numbered DEF Shifted
  <2>2. PICK k \in 1 .. n : pos[k] = i + 1
        BY <1>7, <2>1 DEF OnTheWay
  <2>3. k # 1
        BY <1>1, <2>1, <2>2
  <2>4. k - 1 \in 1 .. m /\ (k - 1) + 1 = k
        BY <1>p, <2>2, <2>3
  <2>5. p[k - 1] = pos[k] - 1
        BY <1>3, <2>4
  <2> QED BY <2>1, <2>2, <2>4, <2>5
<1>8. fired'[t] = heard'[t] \o [k \in 1 .. m |-> Answers'[p[k]].event] \o out'[t]
  <2> DEFINE q == Mid(n, pos)
  <2> DEFINE e == Answers[1].event
  <2> DEFINE w == [k \in 1 .. m |-> Answers'[p[k]].event]
  <2>1. /\ q \in Seq(Events) /\ Len(q) = n /\ fired[t] = heard[t] \o q \o out[t]
        /\ heard[t] \in Seq(Events) /\ out[t] \in Seq(Events)
        /\ \A k \in 1 .. n : q[k] = Answers[pos[k]].event
        BY MidOK
  <2>2. e \in Events
        BY AnswerTasks, ReplyKinds DEF Says
  <2>3. q[1] = e
        BY <1>1, <2>1
  <2>4. \A k \in 1 .. m : Answers'[p[k]].event = q[k + 1]
        BY <1>2, <1>3, <2>1
  <2>5. w = [k \in 1 .. m |-> q[k + 1]]
        BY <2>4
  <2> HIDE DEF q, w
  <2>6. Tail(q) = [k \in 1 .. m |-> q[k + 1]] /\ q # <<>> /\ Tail(q) \in Seq(Events)
    <3>1. q # <<>>
          BY <1>1, <2>1
    <3>2. Tail(q) \in Seq(Events) /\ Tail(q) = [k \in 1 .. Len(q) - 1 |-> q[k + 1]]
          BY <2>1, <3>1, TailIs
    <3> QED BY <1>p, <2>1, <3>1, <3>2
  <2>7. q = <<e>> \o w
    <3>1. <<e>> \o Tail(q) \in Seq(Events) /\ Len(<<e>> \o Tail(q)) = Len(q)
          BY <2>1, <2>2, <2>6
    <3>2. \A k \in 1 .. Len(q) : (<<e>> \o Tail(q))[k] = q[k]
          BY <2>1, <2>2, <2>3, <2>6
    <3>3. q = <<e>> \o Tail(q)
          BY <2>1, <3>1, <3>2, SeqEqual
    <3> QED BY <2>5, <2>6, <3>3
  <2>8. w \in Seq(Events) /\ <<e>> \in Seq(Events)
    <3>1. w \in Seq(Events)
          BY <2>5, <2>6
    <3> HIDE DEF e
    <3>2. <<e>> \in Seq(Events)
          BY <2>2
    <3> QED BY <3>1, <3>2
  <2>9. heard[t] \o (<<e>> \o w) = (heard[t] \o <<e>>) \o w
        BY <2>1, <2>8, Joined
  <2>10. heard'[t] = heard[t] \o <<e>>
         BY <2>1, <2>2, AppendIsConcat
  <2> QED BY <2>1, <2>7, <2>9, <2>10 DEF w
<1>9. OnTheWay(t, m, p)'
      BY <1>4, <1>5, <1>6, <1>7, <1>8 DEF OnTheWay
<1> QED BY <1>2, <1>4, <1>9


\* The tasks whose events Kept accounts for.
Here(t) == pc # "gone" \/ Coded(t) \/ result[t] # "none"

\* Those on the way are at some places.
OnWay(t) == \E n \in Nat : \E pos \in [1 .. n -> DOMAIN Answers] : OnTheWay(t, n, pos)

\* A task accounted for was accounted for before.
LEMMA HereBefore ==
    ASSUME TypeOK, [Next]_vars, NEW t \in Task, Here(t)'
    PROVE  Here(t)
<1>1. pc' # "gone" => pc # "gone"
      BY GoneStays
<1>2. ASSUME NEW d, Shifted(Answers, Answers', d), Coded(t)' PROVE Coded(t)
      BY <1>2 DEF Shifted, Coded
<1>3. CASE Aside \/ HandleRunTask \/ \E u \in Task : SendTask(u) \/ Wait(u) \/ TaskActs(u)
  <2>1. Shifted(Answers, Answers', 0)
        BY <1>3, AnswersMove, AnswersStay DEF Aside
  <2>2. result' = result
        BY <1>3, AsideKeeps, TaskMoves DEF HandleRunTask, SendTask, cookerVars
  <2> QED BY <1>1, <1>2, <2>1, <2>2 DEF Here
<1>4. CASE Read
  <2>1. Shifted(Answers, Answers', 1) /\ Answers[1] = Head(pipe) /\ 1 \in DOMAIN Answers
        BY <1>4, AnswersMove
  <2>2. result'[t] = result[t] \/ Coded(t)
    <3>1. CASE ~IsExit(Head(pipe))
          BY <1>4, <3>1 DEF Read
    <3>2. CASE IsExit(Head(pipe)) /\ Head(pipe).task = t
          BY <2>1, <3>2 DEF Coded
    <3>3. CASE IsExit(Head(pipe)) /\ Head(pipe).task # t
          BY <1>4, <3>3 DEF Read, TypeOK
    <3> QED BY <3>1, <3>2, <3>3
  <2> QED BY <1>1, <1>2, <2>1, <2>2 DEF Here
<1>5. ASSUME NEW u \in Task, Drain(u) \/ Pipes(u) \/ Reap(u) PROVE Here(t)
      BY <1>5 DEF Drain, Pipes, Reap, ReapThen, Here
<1> QED BY <1>3, <1>4, <1>5, Kinds

\* A task fires an event into its pipe, or does nothing to the pipes.
LEMMA Fires ==
    ASSUME TypeOK, NEW u \in Task, TaskActs(u), NEW t \in Task
    PROVE  \/ out'[t] = out[t] /\ fired'[t] = fired[t]
           \/ \E e \in Events : out'[t] = Append(out[t], e) /\ fired'[t] = Append(fired[t], e)
<1>1. CASE Bind(u) \/ Lead(u) \/ LoadFails(u) \/ Exit(u) \/ Killed(u)
      BY <1>1 DEF Bind, Lead, LoadFails, Exit, Killed
<1>2. ASSUME NEW e \in Events, NEW l, Fire(u, e, l, "working")
      PROVE  \/ out'[t] = out[t] /\ fired'[t] = fired[t]
             \/ \E f \in Events : out'[t] = Append(out[t], f) /\ fired'[t] = Append(fired[t], f)
      BY <1>2 DEF Fire, TypeOK
<1>3. CASE TaskStarted(u) \/ UnihashUpdate(u)
  <2>1. "started" \in Events /\ "unihash" \in Events
        BY DEF Events
  <2> QED BY <1>2, <1>3, <2>1 DEF TaskStarted, UnihashUpdate
<1> QED BY <1>1, <1>3 DEF TaskActs

\* Every step preserves Kept.
LEMMA KeptStep ==
    ASSUME TypeOK, TypeOK', Replied, Kept, [Next]_vars
    PROVE  Kept'
<1> SUFFICES ASSUME NEW t \in Task, Here(t)' PROVE OnWay(t)'
    BY DEF Kept, Here, OnWay
<1>1. Here(t)
      BY HereBefore
<1>p. PICK n, pos : n \in Nat /\ pos \in [1 .. n -> DOMAIN Answers] /\ OnTheWay(t, n, pos)
      BY <1>1 DEF Kept, Here
<1>q. n \in Nat /\ OnTheWay(t, n, pos)
      BY <1>p
<1>2. \A k \in 1 .. n : pos[k] \in DOMAIN Answers /\ Says(pos[k], t)
      BY <1>p DEF OnTheWay, Says
<1>3. ASSUME \A k \in 1 .. n : pos[k] \in DOMAIN Answers' /\ Answers'[pos[k]] = Answers[pos[k]],
             \A i \in DOMAIN Answers' : Says(i, t)' => i \in DOMAIN Answers /\ Answers'[i] = Answers[i],
             heard'[t] = heard[t],
             \/ out'[t] = out[t] /\ fired'[t] = fired[t]
             \/ \E e \in Events : out'[t] = Append(out[t], e) /\ fired'[t] = Append(fired[t], e)
      PROVE  OnWay(t)'
  <2>1. OnTheWay(t, n, pos)'
        BY <1>q, <1>3, KeptInPlace
  <2>2. pos \in [1 .. n -> DOMAIN Answers']
        BY <1>p, <1>3
  <2> QED BY <1>q, <2>1, <2>2 DEF OnWay
<1>4. CASE \/ Apart \/ HandleRunTask
           \/ \E u \in Task : SendTask(u) \/ Wait(u) \/ TaskActs(u)
  <2>1. Answers' = Answers
        BY <1>4, AnswersStay
  <2>2. heard'[t] = heard[t]
        BY <1>4, AsideKeeps, TaskMoves DEF Aside, HandleRunTask, SendTask, cookerVars
  <2>3. \/ out'[t] = out[t] /\ fired'[t] = fired[t]
        \/ \E e \in Events : out'[t] = Append(out[t], e) /\ fired'[t] = Append(fired[t], e)
        BY <1>4, AsideKeeps, Fires DEF Aside, HandleRunTask, SendTask, Wait, taskVars
  <2> QED BY <1>2, <1>3, <2>1, <2>2, <2>3
<1>5. CASE Read
  <2>1. /\ Shifted(Answers, Answers', 1) /\ Answers[1] = Head(pipe) /\ 1 \in DOMAIN Answers
        /\ \A i \in DOMAIN Answers : i # 1 => i - 1 \in DOMAIN Answers'
        BY <1>5, AnswersMove
  <2>2. UNCHANGED <<out, fired>>
        BY <1>5 DEF Read, taskVars
  <2>3. CASE Says(1, t)
    <3>1. heard'[t] = Append(heard[t], Answers[1].event)
          BY <1>5, <2>1, <2>3 DEF Read, Says, TypeOK
    <3> QED BY <1>q, <2>1, <2>2, <2>3, <3>1, KeptHeard DEF OnWay
  <2>4. CASE ~Says(1, t)
    <3>1. heard'[t] = heard[t]
          BY <1>5, <2>1, <2>4 DEF Read, Says, TypeOK
    <3> QED BY <1>q, <2>1, <2>2, <2>4, <3>1, KeptPassed DEF OnWay
  <2> QED BY <2>3, <2>4
<1>6. CASE Gone
  <2>1. \A i \in DOMAIN Answers' : i \in DOMAIN Answers /\ Answers'[i] = Answers[i]
        BY <1>6, AnswersCut DEF Gone
  <2>2. UNCHANGED <<heard, out, fired, result>>
        BY <1>6, AsideKeeps DEF Aside
  <2>3. \A k \in 1 .. n : pos[k] \in DOMAIN Answers'
    <3>1. pc' = "gone"
          BY <1>6 DEF Gone
    <3>2. CASE Coded(t)'
      <4>1. PICK i \in DOMAIN Answers' : Answers'[i].task = t /\ IsExit(Answers'[i])
            BY <3>2 DEF Coded
      <4>2. i \in DOMAIN Answers /\ Answers[i].task = t /\ IsExit(Answers[i])
            BY <2>1, <4>1
      <4>3. \A k \in 1 .. n : ~(i < pos[k]) /\ i # pos[k]
            BY <1>2, <4>2 DEF Replied, Says
      <4>4. \A j \in Nat \ {0} : ~(i < j) /\ i # j => j \in DOMAIN Answers'
        <5>1. Answers' \in Seq(Replies)
              BY OnTheirWayNext
        <5> QED BY <5>1, <4>1
      <4> QED BY <1>2, <4>3, <4>4, Numbered
    <3>3. CASE result'[t] # "none"
          BY <1>2, <2>2, <3>3 DEF Replied, Says
    <3> QED BY <3>1, <3>2, <3>3 DEF Here
  <2> QED BY <1>3, <2>1, <2>2, <2>3
<1>7. ASSUME NEW u \in Task, Drain(u) \/ Pipes(u) \/ Reap(u) PROVE OnWay(t)'
  <2>1. heard' = heard /\ fired' = fired
        BY <1>7 DEF Drain, Pipes, Reap, ReapThen, cookerVars
  <2>2. PICK s \in Seq(Replies) :
            /\ PutAll(Answers, Answers', s)
            /\ \A i \in DOMAIN out[u] : i \in DOMAIN s /\ s[i] = Event(u, out[u][i])
            /\ \A i \in DOMAIN s : ~IsExit(s[i]) => i \in DOMAIN out[u]
            /\ \A i \in DOMAIN s : s[i].task = u
    <3>1. out[u] \in Seq(Events)
          BY DEF TypeOK
    <3>2. CASE Drain(u) \/ Pipes(u)
      <4>1. /\ PutAll(Answers, Answers', Said(u)) /\ Said(u) \in Seq(Replies)
            /\ \A i \in DOMAIN out[u] : Said(u)[i] = Event(u, out[u][i])
            BY <3>2, AnswersMove, SaidOK
      <4>2. DOMAIN Said(u) = DOMAIN out[u]
            BY DEF Said
      <4>3. \A i \in DOMAIN Said(u) : Said(u)[i].task = u
            BY <4>1, <4>2, ReplyIs
      <4> QED BY <4>1, <4>2, <4>3
    <3>3. CASE Reap(u)
      <4>1. child[u] \in Zombie
            BY <3>3 DEF Reap, ReapThen
      <4>2. /\ PutAll(Answers, Answers', Report(u)) /\ Report(u) \in Seq(Replies)
            /\ Len(Report(u)) = Len(out[u]) + 1
            /\ \A i \in DOMAIN out[u] : Report(u)[i] = Event(u, out[u][i])
            /\ Report(u)[Len(out[u]) + 1] = ExitCode(u, child[u])
            BY <3>3, <4>1, AnswersMove, ReportOK
      <4>3. \A i \in DOMAIN Report(u) : i \in DOMAIN out[u] \/ i = Len(out[u]) + 1
        <5>1. DOMAIN Report(u) = 1 .. Len(Report(u)) /\ DOMAIN out[u] = 1 .. Len(out[u]) /\ Len(out[u]) \in Nat
              BY <3>1, <4>2
        <5> QED BY <4>2, <5>1
      <4>4. \A i \in DOMAIN out[u] : i \in DOMAIN Report(u)
        <5>1. DOMAIN Report(u) = 1 .. Len(Report(u)) /\ DOMAIN out[u] = 1 .. Len(out[u]) /\ Len(out[u]) \in Nat
              BY <3>1, <4>2
        <5> QED BY <4>2, <5>1
      <4>5. \A i \in DOMAIN Report(u) : /\ Report(u)[i].task = u
                                        /\ ~IsExit(Report(u)[i]) => i \in DOMAIN out[u]
            BY <4>2, <4>3, ReplyIs
      <4> QED BY <4>2, <4>4, <4>5
    <3> QED BY <1>7, <3>2, <3>3
  <2>3. out' = [out EXCEPT ![u] = <<>>]
        BY <1>7 DEF Drain, Pipes, Reap, ReapThen, ReadPipe
  <2>4. CASE u = t
    <3>1. out'[t] = <<>>
          BY <2>3, <2>4 DEF TypeOK
    <3> QED BY <1>q, <2>1, <2>2, <2>4, <3>1, KeptPut DEF OnWay
  <2>5. CASE u # t
    <3>1. out'[t] = out[t]
          BY <2>3, <2>5 DEF TypeOK
    <3>2. \A i \in DOMAIN Answers : i \in DOMAIN Answers' /\ Answers'[i] = Answers[i]
          BY <2>2 DEF PutAll
    <3>3. \A i \in DOMAIN Answers' : Says(i, t)' => i \in DOMAIN Answers
          BY <2>2, <2>5 DEF PutAll, Says
    <3> QED BY <1>2, <1>3, <2>1, <3>1, <3>2, <3>3
  <2> QED BY <2>4, <2>5
<1> QED BY <1>4, <1>5, <1>6, <1>7, Kinds DEF Aside

\* With its result a task has nothing left on the way or in its pipe.
LEMMA NothingLostImplied == TypeOK /\ Replied /\ Kept => NothingLost
<1> SUFFICES ASSUME TypeOK, Replied, Kept, NEW t \in Task, result[t] # "none"
             PROVE  heard[t] = fired[t]
    BY DEF NothingLost
<1>1. PICK n, pos : n \in Nat /\ pos \in [1 .. n -> DOMAIN Answers] /\ OnTheWay(t, n, pos)
      BY DEF Kept
<1>2. \A i \in DOMAIN Answers : Answers[i].task # t
      BY DEF Replied
<1>3. n = 0
  <2>1. \A k \in 1 .. n : pos[k] \in DOMAIN Answers /\ Answers[pos[k]].task = t
        BY <1>1 DEF OnTheWay
  <2>2. ~(1 \in 1 .. n)
        BY <1>2, <2>1
  <2> QED BY <1>1, <2>2
<1>4. out[t] = <<>>
      BY DEF Replied
<1>5. /\ Mid(n, pos) \in Seq(Events) /\ Len(Mid(n, pos)) = n
      /\ fired[t] = heard[t] \o Mid(n, pos) \o out[t] /\ heard[t] \in Seq(Events)
      BY <1>1, MidOK
<1>6. Mid(n, pos) = <<>>
      BY <1>3, <1>5, EmptySeq
<1> QED BY <1>4, <1>5, <1>6, ConcatEmptySeq

-----------------------------------------------------------------------------
(* The invariant *)

\* The invariant holds at first.
LEMMA InitIInv == Init => IInv
<1> SUFFICES ASSUME Init PROVE IInv
    OBVIOUS
<1>1. TypeOK
      BY TypeInit
<1>2. Asked = <<>> /\ Answers = <<>>
  <2>1. <<>> \o <<>> = <<>>
        OBVIOUS
  <2> QED BY <2>1 DEF Init, Asked, Answers
<1>3. DOMAIN Asked = {} /\ DOMAIN Answers = {}
  <2>1. \A x : x = <<>> => DOMAIN x = {}
        OBVIOUS
  <2> QED BY <1>2, <2>1
<1>4. Forks
  <2>1. DOMAIN forked = {}
        BY DEF Init
  <2> QED BY <2>1 DEF Init, Forks
<1>5. Asks /\ Replied /\ Tables
      BY <1>3 DEF Init, Asks, Replied, Tables
<1>6. Somewhere
      BY <1>3 DEF Init, Somewhere, Live, Alive, Zombie
<1>7. Kept
  <2> SUFFICES ASSUME NEW t \in Task PROVE OnWay(t)
      BY DEF Kept, OnWay
  <2>p. PICK pos : pos = [k \in 1 .. 0 |-> 0]
        OBVIOUS
  <2>1. pos \in [1 .. 0 -> DOMAIN Answers] /\ 0 \in Nat
        BY <2>p
  <2>2. Mid(0, pos) = <<>>
    <3>1. Mid(0, pos) \in Seq(Events) /\ Len(Mid(0, pos)) = 0
          BY DEF Mid
    <3> QED BY <3>1, EmptySeq
  <2>3. fired[t] = heard[t] \o Mid(0, pos) \o out[t]
    <3>1. fired[t] = <<>> /\ heard[t] = <<>> /\ out[t] = <<>>
          BY DEF Init
    <3>2. (<<>> \o <<>>) \o <<>> = <<>>
          OBVIOUS
    <3> QED BY <2>2, <3>1, <3>2
  <2>4. OnTheWay(t, 0, pos)
        BY <1>3, <2>1, <2>3 DEF OnTheWay, Mid
  <2> QED BY <2>1, <2>4 DEF OnWay
<1>8. WaitEnds /\ OnlyElderOrphans
      BY DEF Init, WaitEnds, OnlyElderOrphans
<1> QED BY <1>1, <1>4, <1>5, <1>6, <1>7, <1>8 DEF IInv

\* The invariant is inductive.
LEMMA StepIInv == IInv /\ [Next]_vars => IInv'
<1> SUFFICES ASSUME IInv, [Next]_vars PROVE IInv'
    OBVIOUS
<1>1. /\ TypeOK /\ Forks /\ Asks /\ Replied /\ Tables /\ Somewhere /\ Kept
      /\ WaitEnds /\ OnlyElderOrphans
      BY DEF IInv
<1>2. TypeOK'
      BY <1>1, TypeStep
<1>3. Forks' /\ Asks' /\ Replied'
      BY <1>1, <1>2, ForksStep, AsksStep, RepliedStep
<1>4. Tables' /\ Somewhere' /\ Kept'
      BY <1>1, <1>2, TablesStep, SomewhereStep, KeptStep
<1>5. WaitEnds' /\ OnlyElderOrphans'
      BY <1>1, <1>2, WaitStep, OrphansStep
<1> QED BY <1>2, <1>3, <1>4, <1>5 DEF IInv

\* The invariant holds always.
LEMMA Invariance == Spec => []IInv
<1> QED BY InitIInv, StepIInv, PTL DEF Spec

-----------------------------------------------------------------------------
(* Theorems *)

\* While nobody wants the end every task the server counts on is in exactly one place, and the
\* server has all the events of a task when it has its exit code, whoever was killed when.
THEOREM WorkerSafetyTheorem == Spec => []WorkerSafety
<1>1. IInv => WorkerSafety
      BY AccountedImplied, NothingLostImplied DEF IInv, WorkerSafety
<1> QED BY <1>1, Invariance, PTL

\* However far behind the server the worker is, it starts a task with the table of hashes that
\* the hash of the task was computed with.
THEOREM HashesCurrentTheorem == Spec => []HashesCurrent
<1>1. IInv => HashesCurrent
      BY HashesImplied DEF IInv
<1> QED BY <1>1, Invariance, PTL

\* A worker that finishes at once only waits for children that are about to die, and what is
\* left working behind a worker that is gone was not the last it forked.
THEOREM ChildrenKnownTheorem == Spec => []ChildrenKnown
<1>1. IInv => ChildrenKnown
      BY DEF IInv, ChildrenKnown
<1> QED BY <1>1, Invariance, PTL

\* Pipes, threads, processes and their deaths together are for the server a TaskService: events
\* of the tasks it sent, then at most one exit code of each.
THEOREM ServiceTheorem == Spec => ImplementsTaskService
<1>1. Init => Service!Init
      BY DEF Init, Service!Init
<1>2. IInv /\ [Next]_vars => [Service!Next]_(Service!vars)
      BY ServiceStep DEF IInv
<1> QED BY <1>1, <1>2, Invariance, PTL DEF Spec, ImplementsTaskService, Service!Spec
=============================================================================
