--------------------------- MODULE RunQueueProofs ---------------------------
(***************************************************************************)
(* Proofs about RunQueue, for every task graph and every setting.          *)
(***************************************************************************)
EXTENDS RunQueue, FiniteSetTheorems, TLAPS

USE RunQueueAssumption, GraphAssumption

-----------------------------------------------------------------------------
(* The graph *)

\* What a closed set that contains S bounds.
LEMMA ReachWithin ==
    ASSUME NEW S, NEW Succ, NEW X \in SUBSET Tasks, S \subseteq X,
           \A x \in X : Succ[x] \subseteq X
    PROVE  Reach(S, Succ) \subseteq X
BY DEF Reach, Closed

LEMMA CoveredTasks == sq_covered_tasks \in [Setscene -> SUBSET Tasks]
BY DEF sq_covered_tasks, Reach

LEMMA RevdepsType == sq_revdeps \in [Setscene -> SUBSET Setscene]
BY DEF sq_revdeps, Squash

-----------------------------------------------------------------------------
(* The decisions keep the record of the scene queue in order *)

SceneOK(s) == s \in SceneType /\ s.live \subseteq s.running

SameWork(r, s) == r.live = s.live /\ r.active = s.active

LEMMA UpdateCountersOK ==
    ASSUME NEW s, SceneOK(s), NEW N \in SUBSET Setscene, NEW failed \in BOOLEAN
    PROVE  /\ SceneOK(UpdateCounters(s, N, failed))
           /\ SameWork(UpdateCounters(s, N, failed), s)
BY DEF SceneOK, SameWork, SceneType, UpdateCounters

LEMMA CompleteOutrightOK ==
    ASSUME NEW s, SceneOK(s), NEW t \in Setscene
    PROVE  /\ SceneOK(CompleteOutright(s, t))
           /\ SameWork(CompleteOutright(s, t), s)
<1> DEFINE s1 == [s EXCEPT !.covered = @ \cup {t}]
<1>1. SceneOK(s1) /\ SameWork(s1, s)
  BY DEF SceneOK, SameWork, SceneType
<1>2. /\ SceneOK(UpdateCounters(s1, {t}, FALSE))
      /\ SameWork(UpdateCounters(s1, {t}, FALSE), s1)
  <2> HIDE DEF s1
  <2> QED BY <1>1, UpdateCountersOK
<1> QED BY <1>1, <1>2 DEF CompleteOutright, SameWork

LEMMA SkipOK ==
    ASSUME NEW s, SceneOK(s), NEW T \in SUBSET Setscene
    PROVE  SceneOK(Skip(s, T)) /\ SameWork(Skip(s, T), s)
<1> DEFINE s1 == [s EXCEPT !.running = @ \cup T, !.buildable = @ \cup T,
                           !.covered = @ \cup T]
<1>1. SceneOK(s1) /\ SameWork(s1, s)
  BY DEF SceneOK, SameWork, SceneType
<1>2. SceneOK(UpdateCounters(s1, T, FALSE)) /\ SameWork(UpdateCounters(s1, T, FALSE), s1)
  <2> HIDE DEF s1
  <2> QED BY <1>1, UpdateCountersOK
<1> QED BY <1>1, <1>2 DEF Skip, SameWork

LEMMA FailOutrightOK ==
    ASSUME NEW s, SceneOK(s), NEW T \in SUBSET Setscene
    PROVE  SceneOK(FailOutright(s, T)) /\ SameWork(FailOutright(s, T), s)
<1> DEFINE F == Reach(T, [t \in Tasks |-> IF t \in Setscene
                                          THEN sq_harddeps[t] \ Decided(s) ELSE {}])
           s1 == [s EXCEPT !.running = @ \cup F, !.buildable = @ \cup F,
                           !.notcovered = @ \cup F]
<1>1. F \subseteq Setscene
  <2> DEFINE Succ == [t \in Tasks |-> IF t \in Setscene
                                      THEN sq_harddeps[t] \ Decided(s) ELSE {}]
  <2>1. \A x \in Setscene : Succ[x] \subseteq Setscene
    BY DEF sq_harddeps
  <2> HIDE DEF Succ
  <2>2. Reach(T, Succ) \subseteq Setscene
    BY <2>1, ReachWithin
  <2> QED BY <2>2 DEF Succ
<1> HIDE DEF F
<1>2. SceneOK(s1) /\ SameWork(s1, s)
  BY <1>1 DEF SceneOK, SameWork, SceneType
<1>3. SceneOK(UpdateCounters(s1, F, TRUE)) /\ SameWork(UpdateCounters(s1, F, TRUE), s1)
  <2> HIDE DEF s1
  <2> QED BY <1>1, <1>2, UpdateCountersOK
<1> QED BY <1>2, <1>3 DEF FailOutright, SameWork, F

LEMMA UpdateSceneDataOK ==
    ASSUME NEW files, NEW s, SceneOK(s), NEW T \in SUBSET Setscene, NEW V \in SUBSET T
    PROVE  /\ SceneOK(UpdateSceneData(files, s, T, V))
           /\ SameWork(UpdateSceneData(files, s, T, V), s)
<1> DEFINE s0 == [s EXCEPT !.stamppresent = (@ \ T) \cup Present(files, T), !.valid = @ \ T,
                           !.outrightfail = @ \ T]
           K  == (T \cap NoExec) \cup Present(files, T)
           s1 == Skip(s0, K)
           s2 == [s1 EXCEPT !.valid = @ \cup V]
           X  == {t \in T : /\ t \notin s2.stamppresent \cup s2.valid \cup NoExec
                            /\ t \notin Decided(s2)
                            /\ s2.deferred[t] = NoTask}
<1>1. SceneOK(s0) /\ SameWork(s0, s)
  BY DEF SceneOK, SameWork, SceneType, Present
<1>2. K \in SUBSET Setscene
  BY DEF Present
<1>3. SceneOK(s1) /\ SameWork(s1, s0)
  <2> HIDE DEF s0, K
  <2> QED BY <1>1, <1>2, SkipOK
<1> HIDE DEF s1
<1>4. SceneOK(s2) /\ SameWork(s2, s1)
  BY <1>3 DEF SceneOK, SameWork, SceneType
<1>5. X \subseteq Setscene
  OBVIOUS
<1> HIDE DEF s2, X
<1>6. SceneOK([s2 EXCEPT !.outrightfail = @ \cup X])
      /\ SameWork([s2 EXCEPT !.outrightfail = @ \cup X], s2)
  BY <1>4, <1>5 DEF SceneOK, SameWork, SceneType
<1>7. UpdateSceneData(files, s, T, V) = [s2 EXCEPT !.outrightfail = @ \cup X]
  BY DEF UpdateSceneData, s2, s1, X
<1> QED BY <1>1, <1>3, <1>4, <1>6, <1>7 DEF SameWork

-----------------------------------------------------------------------------
(* The inductive invariant, in six parts: the types, and that what is      *)
(* buildable has its dependencies complete, which only a completion can     *)
(* bring about and no step takes back.                                      *)

FlowOK ==
    /\ phase \in {"call", "read", "migrate", "pending", "scene", "holdoff", "scenedone",
                  "sched", "idle", "wait", "return", "finish", "teardown", "raised", "done"}
    /\ state \in {"Running", "CleanUp", "Failed", "Complete"}
    /\ interrupted \in 0..2

FlagsOK ==
    /\ worker \in BOOLEAN /\ sqdone \in BOOLEAN /\ changed \in BOOLEAN
    /\ died \in BOOLEAN /\ full \subseteq {1, 2}

QueueOK ==
    /\ runq_running \subseteq runq_buildable
    /\ runq_buildable \subseteq Tasks
    /\ live \cup runq_complete \subseteq runq_running
    /\ live \cap runq_complete = {}
    /\ runq_tasksrun \subseteq runq_complete
    /\ failed_tids \subseteq Tasks
    /\ active \in Int
    /\ DependencyOrder

CoverOK == tasks_covered \cup tasks_notcovered \subseteq Tasks

HashOK ==
    /\ unihash \in [Tasks -> Hashes]
    /\ updated_taskhash_queue \subseteq Tasks \X Hashes
    /\ todo \subseteq pending_migrations /\ pending_migrations \subseteq Setscene
    /\ update_tasks \subseteq Setscene \X BOOLEAN

IInv == FlowOK /\ FlagsOK /\ QueueOK /\ SceneOK(sq) /\ CoverOK /\ HashOK

LEMMA IInvImplies == IInv => TypeOK /\ DependencyOrder
BY DEF IInv, FlowOK, FlagsOK, QueueOK, SceneOK, CoverOK, HashOK, TypeOK

LEMMA HashOwnerType == \A i \in DOMAIN HashOwner : HashOwner[i] \in Setscene
<1> SUFFICES ASSUME NEW i \in DOMAIN HashOwner
             PROVE  HashOwner[i] \in Setscene
  OBVIOUS
<1>1. HashOwner[i] = CHOOSE t \in Setscene : HashIndex(t, InitHash[t]) = i
  BY DEF HashOwner
<1>2. \E t \in Setscene : HashIndex(t, InitHash[t]) = i
  BY DEF HashOwner
<1> QED BY <1>1, <1>2

LEMMA InitSceneOK == SceneOK(InitScene)
<1>1. unskippable \subseteq Tasks
  BY DEF unskippable, Reach
<1>2. \A s \in Setscene : HashOwner[HashIndex(s, InitHash[s])] \in Setscene
  <2>1. \A s \in Setscene : HashIndex(s, InitHash[s]) \in DOMAIN HashOwner
    BY DEF HashOwner
  <2> QED BY <2>1, HashOwnerType
<1>3. \A s \in Setscene : Stamp(s, "setscene", InitHash[s]) \in StampsOf(Setscene)
  BY DEF StampsOf
<1> QED BY <1>1, <1>2, <1>3 DEF InitScene, SceneOK, SceneType

LEMMA InitIInv == ASSUME Init PROVE IInv
<1>1. PICK V \in SUBSET ToCheck(stampfiles, Setscene) :
              sq = UpdateSceneData(stampfiles, InitScene, Setscene, V)
  BY DEF Init
<1>2. SceneOK(sq)
  BY <1>1, InitSceneOK, UpdateSceneDataOK DEF ToCheck
<1>3. runq_buildable \subseteq Tasks /\ \A t \in runq_buildable : Depends[t] = {}
  BY DEF Init, unskippable, Reach
<1>4. QueueOK
  BY <1>3 DEF Init, QueueOK, DependencyOrder
<1>5. FlowOK /\ CoverOK /\ HashOK
  BY DEF Init, FlowOK, CoverOK, HashOK
<1>6. FlagsOK
  BY DEF Init, FlagsOK
<1> QED BY <1>2, <1>4, <1>5, <1>6 DEF IInv

\* What task_completeoutright() leaves.
LEMMA TaskCompleteOutrightOK ==
    ASSUME NEW t \in Tasks, NEW B \in SUBSET Tasks, NEW files,
           SceneOK(sq), runq_complete \subseteq Tasks,
           \A b \in B : Depends[b] \subseteq runq_complete,
           TaskCompleteOutright(t, B, files)
    PROVE  /\ SceneOK(sq') /\ SameWork(sq', sq)
           /\ runq_complete' = runq_complete \cup {t}
           /\ B \subseteq runq_buildable' /\ runq_buildable' \subseteq Tasks
           /\ \A b \in runq_buildable' : Depends[b] \subseteq runq_complete'
<1>1. SceneOK(sq') /\ SameWork(sq', sq)
  <2> DEFINE waiting == {d \in Setscene : sq.deferred[d] = t}
             deferring(f) == [sq EXCEPT !.deferred = [d \in Setscene |->
                                  IF d = f THEN NoTask
                                  ELSE IF d \in waiting THEN f ELSE sq.deferred[d]]]
  <2>1. CASE waiting = {}
    BY <2>1 DEF TaskCompleteOutright, SameWork
  <2>2. CASE waiting # {}
    <3>1. PICK f \in waiting : \E V \in SUBSET ToCheck(files, {f}) :
                                   sq' = UpdateSceneData(files, deferring(f), {f}, V)
      BY <2>2 DEF TaskCompleteOutright
    <3>2. PICK V \in SUBSET ToCheck(files, {f}) : sq' = UpdateSceneData(files, deferring(f), {f}, V)
      BY <3>1
    <3>3. SceneOK(deferring(f)) /\ SameWork(deferring(f), sq)
      BY DEF SceneOK, SceneType, SameWork
    <3>4. V \in SUBSET {f} /\ {f} \in SUBSET Setscene
      BY DEF ToCheck
    <3> HIDE DEF deferring
    <3>5. SceneOK(sq') /\ SameWork(sq', deferring(f))
      BY <3>2, <3>3, <3>4, UpdateSceneDataOK
    <3> QED BY <3>3, <3>5 DEF SameWork
  <2> QED BY <2>1, <2>2
<1> QED BY <1>1 DEF TaskCompleteOutright, DepsComplete, Revdeps

-----------------------------------------------------------------------------
(* One lemma per group of actions *)

LEMMA SceneEndOK ==
    ASSUME NEW s, SceneOK(s), NEW t
    PROVE  SceneOK([s EXCEPT !.active = @ - 1, !.live = @ \ {t}])
<1> DEFINE n == s.active - 1
<1>1. n \in Int
  BY DEF SceneOK, SceneType
<1> HIDE DEF n
<1>2. SceneOK([s EXCEPT !.active = n, !.live = @ \ {t}])
  BY <1>1 DEF SceneOK, SceneType
<1> QED BY <1>2 DEF n

\* Results from the workers.
LEMMA ResultsStep ==
    ASSUME IInv,
           \/ \E t \in Setscene, ok \in BOOLEAN : SceneExit(t, ok)
           \/ \E t \in Tasks : TaskExit(t) \/ TaskExitFails(t)
           \/ \E t \in Tasks, h \in Hashes : TaskRehash(t, h)
    PROVE  IInv'
<1> USE DEF IInv
<1>1. FlagsOK'
  BY DEF FlagsOK, SceneExit, TaskExit, TaskExitFails, TaskRehash, outside, hashVars, migrVars
<1>2. ASSUME NEW t \in Setscene, NEW ok \in BOOLEAN, SceneExit(t, ok)
      PROVE  IInv'
  <2> DEFINE s == IF ok THEN CompleteOutright(sq, t) ELSE FailOutright(sq, {t})
  <2>1. SceneOK(s) /\ SameWork(s, sq)
    BY CompleteOutrightOK, FailOutrightOK
  <2>2. sq' = [s EXCEPT !.active = @ - 1, !.live = @ \ {t}]
    BY <1>2 DEF SceneExit
  <2> HIDE DEF s
  <2>3. SceneOK(sq')
    BY <2>1, <2>2, SceneEndOK
  <2>4. FlowOK' /\ QueueOK' /\ CoverOK' /\ HashOK'
    BY <1>2 DEF SceneExit, FlowOK, QueueOK, DependencyOrder, CoverOK, HashOK, outside,
                runqVars, coverVars, hashVars, migrVars
  <2> QED BY <1>1, <2>3, <2>4
<1>3. ASSUME NEW t \in Tasks, TaskExit(t)
      PROVE  IInv'
  <2>1. /\ SceneOK(sq') /\ SameWork(sq', sq)
        /\ runq_complete' = runq_complete \cup {t}
        /\ runq_buildable \subseteq runq_buildable' /\ runq_buildable' \subseteq Tasks
        /\ \A b \in runq_buildable' : Depends[b] \subseteq runq_complete'
    BY <1>3, TaskCompleteOutrightOK DEF TaskExit, QueueOK, DependencyOrder
  <2>2. QueueOK'
    BY <1>3, <2>1 DEF TaskExit, QueueOK, DependencyOrder
  <2>3. FlowOK' /\ CoverOK' /\ HashOK'
    BY <1>3 DEF TaskExit, FlowOK, CoverOK, HashOK, outside, coverVars, hashVars, migrVars
  <2> QED BY <1>1, <2>1, <2>2, <2>3
<1>4. ASSUME NEW t \in Tasks, TaskExitFails(t)
      PROVE  IInv'
  <2>1. SceneOK(sq')
    BY <1>4 DEF TaskExitFails
  <2>2. FlowOK' /\ QueueOK' /\ CoverOK' /\ HashOK'
    BY <1>4 DEF TaskExitFails, TaskFail, FlowOK, QueueOK, DependencyOrder, CoverOK, HashOK,
                outside, coverVars, hashVars, migrVars
  <2> QED BY <1>1, <2>1, <2>2
<1>5. ASSUME NEW t \in Tasks, NEW h \in Hashes, TaskRehash(t, h)
      PROVE  IInv'
  <2>1. SceneOK(sq')
    BY <1>5 DEF TaskRehash
  <2>2. FlowOK' /\ QueueOK' /\ CoverOK' /\ HashOK'
    BY <1>5 DEF TaskRehash, FlowOK, QueueOK, DependencyOrder, CoverOK, HashOK, outside,
                runqVars, coverVars, migrVars
  <2> QED BY <1>1, <2>1, <2>2
<1> QED BY <1>2, <1>3, <1>4, <1>5

\* The calls of execute(), what is between them, and what happens to them from outside.
LEMMA CallsStep ==
    ASSUME IInv,
           \/ \E stop \in 0..2 : Call(stop)
           \/ ReadDone \/ AfterExecute \/ TornDown \/ Raised
           \/ WorkerDies \/ NoticedAgain
           \/ \E action \in {1, 2} : DiskFull(action)
    PROVE  IInv'
<1> USE DEF IInv
<1>1. FlowOK'
  <2>1. ASSUME NEW stop \in 0..2, Call(stop)
        PROVE  FlowOK'
    <3>1. state' \in {state, "CleanUp", Outcome}
      BY <2>1 DEF Call, Polled
    <3> QED BY <2>1, <3>1 DEF Call, FlowOK, Goto, Outcome
  <2>2. CASE ReadDone
    BY <2>2 DEF ReadDone, FlowOK, Goto, outside
  <2>3. CASE AfterExecute
    <3>1. state' \in {state, Outcome} /\ phase' \in {"call", "finish", "teardown", "done"}
      BY <2>3 DEF AfterExecute, Polled, Goto
    <3> QED BY <2>3, <3>1 DEF AfterExecute, FlowOK, Outcome, outside
  <2>4. CASE TornDown
    BY <2>4 DEF TornDown, FlowOK, Goto
  <2>5. CASE Raised
    BY <2>5 DEF Raised, FlowOK, Goto
  <2>6. CASE WorkerDies
    BY <2>6 DEF WorkerDies, FlowOK
  <2>7. CASE NoticedAgain
    BY <2>7 DEF NoticedAgain, Polled, Outcome, FlowOK, outside
  <2>8. CASE \E action \in {1, 2} : DiskFull(action)
    BY <2>8 DEF DiskFull, Outcome, FlowOK
  <2> QED BY <2>1, <2>2, <2>3, <2>4, <2>5, <2>6, <2>7, <2>8
<1>2. FlagsOK'
  <2>1. /\ worker' \in {worker, FALSE} /\ died' \in {died, TRUE}
        /\ full' = full \/ \E action \in {1, 2} : full' = full \cup {action}
        /\ UNCHANGED <<sqdone, changed>>
    BY DEF Call, ReadDone, AfterExecute, TornDown, Raised, WorkerDies, NoticedAgain,
           DiskFull, outside, hashVars, migrVars
  <2> QED BY <2>1 DEF FlagsOK
<1>3. UNCHANGED <<runqVars, sq, coverVars, hashVars>>
  BY DEF Call, ReadDone, AfterExecute, TornDown, Raised, WorkerDies, NoticedAgain, DiskFull
<1>4. QueueOK' /\ SceneOK(sq') /\ CoverOK' /\ HashOK'
  BY <1>3 DEF QueueOK, DependencyOrder, CoverOK, HashOK, runqVars, coverVars, hashVars,
              migrVars
<1> QED BY <1>1, <1>2, <1>4

\* A decision that is taken back.
LEMMA ReopenOK ==
    ASSUME NEW s, SceneOK(s), NEW t \in Setscene \ s.live, NEW U,
           NEW B \in SUBSET Setscene, NEW st \in StampsOf(Setscene)
    PROVE  SceneOK([s EXCEPT
                          !.done = (@ \ {t}) \ U,
                          !.buildable = B,
                          !.running = @ \ {t},
                          !.outrightfail = @ \ {t},
                          !.notcovered = @ \ {t},
                          !.covered = @ \ {t},
                          !.notneeded = @ \ {t},
                          !.stamps[t] = st])
<1> DEFINE F == [s.stamps EXCEPT ![t] = st]
<1>1. s.stamps \in [Setscene -> StampsOf(Setscene)]
  BY DEF SceneOK, SceneType
<1>2. F \in [Setscene -> StampsOf(Setscene)]
  <2> DEFINE Stamps == StampsOf(Setscene)
  <2> HIDE DEF Stamps
  <2> SUFFICES ASSUME s.stamps \in [Setscene -> Stamps], st \in Stamps
               PROVE  F \in [Setscene -> Stamps]
    BY <1>1 DEF Stamps
  <2> QED OBVIOUS
<1> HIDE DEF F
<1>3. SceneOK([s EXCEPT
                          !.done = (@ \ {t}) \ U,
                          !.buildable = B,
                          !.running = @ \ {t},
                          !.outrightfail = @ \ {t},
                          !.notcovered = @ \ {t},
                          !.covered = @ \ {t},
                          !.notneeded = @ \ {t},
                          !.stamps = F])
  BY <1>2 DEF SceneOK, SceneType
<1> QED BY <1>3 DEF F

\* The tasks that were opened again.
LEMMA UpdateMigratedOK ==
    ASSUME IInv, UpdateMigrated
    PROVE  SceneOK(sq') /\ SameWork(sq', sq)
<1> DEFINE T == {u[1] : u \in update_tasks}
           bad == {u[1] : u \in {v \in update_tasks : v[2]}}
           index(t) == HashIndex(t, unihash[t])
           defer(t) == t \in T /\ index(t) \in DOMAIN HashOwner
                               /\ HashOwner[index(t)] # t
           newdef == [t \in Setscene |-> IF defer(t) THEN HashOwner[index(t)]
                                                     ELSE sq.deferred[t]]
           s1 == [sq EXCEPT !.deferred = newdef,
                            !.holdoff_need_update = @ \/ changed]
<1>1. T \in SUBSET Setscene /\ bad \in SUBSET Setscene
  BY DEF IInv, HashOK
<1>2. SceneOK(s1) /\ SameWork(s1, sq)
  <2>1. newdef \in [Setscene -> Setscene \cup {NoTask}]
    <3>1. \A t \in Setscene : sq.deferred[t] \in Setscene \cup {NoTask}
      BY DEF IInv, SceneOK, SceneType
    <3> QED BY <3>1, HashOwnerType
  <2>2. (sq.holdoff_need_update \/ changed) \in BOOLEAN
    OBVIOUS
  <2> HIDE DEF newdef
  <2> QED BY <2>1, <2>2 DEF IInv, SceneOK, SceneType, SameWork
<1>3. PICK V \in SUBSET ToCheck(stampfiles, T) :
              sq' = FailOutright(UpdateSceneData(stampfiles, s1, T, V), bad)
  BY DEF UpdateMigrated
<1>4. V \in SUBSET T
  BY DEF ToCheck
<1> HIDE DEF s1, T, bad
<1>5. /\ SceneOK(UpdateSceneData(stampfiles, s1, T, V))
      /\ SameWork(UpdateSceneData(stampfiles, s1, T, V), s1)
  BY <1>1, <1>2, <1>4, UpdateSceneDataOK
<1>6. SceneOK(sq') /\ SameWork(sq', UpdateSceneData(stampfiles, s1, T, V))
  BY <1>1, <1>3, <1>5, FailOutrightOK
<1> QED BY <1>2, <1>5, <1>6 DEF SameWork

\* process_possible_migrations().
LEMMA MigrationsStep ==
    ASSUME IInv,
           \/ Rehash
           \/ \E t \in Setscene : Migrate(t)
           \/ UpdateMigrated
    PROVE  IInv'
<1> USE DEF IInv
<1>1. CASE Rehash
  <2> DEFINE taken   == {e \in updated_taskhash_queue : ~Unfinished(e[1])}
             news(t) == {e \in taken : /\ e[2] # unihash[e[1]]
                                        /\ \/ e[1] = t
                                           \/ t \in Setscene /\ sq.deferred[t] = e[1]}
             applied == {t \in Tasks : news(t) # {}}
             uni     == [t \in Tasks |-> IF t \in applied
                                         THEN (CHOOSE e \in news(t) : TRUE)[2]
                                         ELSE unihash[t]]
             total   == Reach(UNION {Revdeps(t) : t \in applied},
                              [t \in Tasks |-> Revdeps(t)])
             moved(C) == C \ (sq.covered \cup sq.live)
  <2>1. uni \in [Tasks -> Hashes]
    <3>1. \A t \in applied : (CHOOSE e \in news(t) : TRUE) \in news(t)
      OBVIOUS
    <3>2. \A t : news(t) \subseteq Tasks \X Hashes
      BY DEF HashOK
    <3>3. \A t \in applied : (CHOOSE e \in news(t) : TRUE)[2] \in Hashes
      BY <3>1, <3>2
    <3> HIDE DEF news, applied
    <3> QED BY <3>3 DEF HashOK
  <2> HIDE DEF uni
  <2>2. total \subseteq Tasks
    BY DEF Reach
  <2> HIDE DEF total
  <2>3. PICK C \in SUBSET total : \E new \in [C -> Hashes] :
           /\ unihash' = [t \in Tasks |-> IF t \in moved(C) THEN new[t] ELSE uni[t]]
           /\ pending_migrations' = pending_migrations \cup (moved(C) \cap Setscene)
           /\ changed' = (moved(C) # {})
    <3>1. \E C \in SUBSET total : \E new \in [C -> Hashes] :
             /\ \A c \in C : new[c] # uni[c] /\ Depends[c] \cap (applied \cup C) # {}
             /\ LET m == C \ (sq.covered \cup sq.live)
                IN  /\ unihash' = [t \in Tasks |-> IF t \in m THEN new[t] ELSE uni[t]]
                    /\ pending_migrations' = pending_migrations \cup (m \cap Setscene)
                    /\ changed' = (m # {})
             /\ updated_taskhash_queue' = updated_taskhash_queue \ taken
      BY <1>1 DEF Rehash, uni, total
    <3> HIDE DEF taken, news, applied
    <3> QED BY <3>1
  <2>4. updated_taskhash_queue' = updated_taskhash_queue \ taken
    BY <1>1 DEF Rehash
  <2>5. /\ todo' = pending_migrations' /\ update_tasks' = {}
        /\ phase' \in {"pending", "raised"}
        /\ UNCHANGED <<state, outside, runqVars, sq, sqdone, coverVars>>
    BY <1>1 DEF Rehash, Goto
  <2> HIDE DEF taken
  <2>6. HashOK'
    <3>1. unihash' \in [Tasks -> Hashes]
      BY <2>1, <2>2, <2>3
    <3> QED BY <2>3, <2>4, <2>5, <3>1 DEF HashOK
  <2>7. FlagsOK'
    <3>1. changed' \in BOOLEAN
      BY <2>3
    <3> QED BY <2>5, <3>1 DEF FlagsOK, outside
  <2>8. FlowOK' /\ QueueOK' /\ SceneOK(sq') /\ CoverOK'
    BY <2>5 DEF FlowOK, QueueOK, DependencyOrder, CoverOK, outside, runqVars, coverVars
  <2> QED BY <2>6, <2>7, <2>8
<1>2. ASSUME NEW t \in Setscene, Migrate(t)
      PROVE  IInv'
  <2> DEFINE tooLate == t \in runq_running \cup sq.live
             fails   == HardDepFail(t)
  <2>1. \/ sq' = sq
        \/ \E U : sq' = [sq EXCEPT !.done = (@ \ {t}) \ U]
        \/ \E U, B : /\ ~tooLate
                     /\ B \in {sq.buildable \cup {t}, sq.buildable \ {t}}
                     /\ sq' = [sq EXCEPT
                          !.done = (@ \ {t}) \ U,
                          !.buildable = B,
                          !.running = @ \ {t},
                          !.outrightfail = @ \ {t},
                          !.notcovered = @ \ {t},
                          !.covered = @ \ {t},
                          !.notneeded = @ \ {t},
                          !.stamps[t] = Stamp(t, "setscene", unihash[t])]
    <3>1. CASE tooLate
      BY <1>2, <3>1 DEF Migrate
    <3>2. CASE ~tooLate /\ Blocked(t)
      BY <1>2, <3>2 DEF Migrate
    <3>3. CASE ~tooLate /\ ~Blocked(t) /\ SkippedTooSoon(t)
      BY <1>2, <3>3 DEF Migrate
    <3>4. CASE ~tooLate /\ ~Blocked(t) /\ ~SkippedTooSoon(t)
      BY <1>2, <3>4 DEF Migrate
    <3> QED BY <3>1, <3>2, <3>3, <3>4
  <2>2. SceneOK(sq')
    <3>1. ASSUME NEW U, sq' = [sq EXCEPT !.done = (@ \ {t}) \ U]
          PROVE  SceneOK(sq')
      BY <3>1 DEF SceneOK, SceneType
    <3>2. ASSUME NEW U, NEW B \in SUBSET Setscene, ~tooLate,
                 sq' = [sq EXCEPT
                          !.done = (@ \ {t}) \ U,
                          !.buildable = B,
                          !.running = @ \ {t},
                          !.outrightfail = @ \ {t},
                          !.notcovered = @ \ {t},
                          !.covered = @ \ {t},
                          !.notneeded = @ \ {t},
                          !.stamps[t] = Stamp(t, "setscene", unihash[t])]
          PROVE  SceneOK(sq')
      <4> DEFINE st == Stamp(t, "setscene", unihash[t])
      <4>1. st \in StampsOf(Setscene)
        BY DEF StampsOf, HashOK
      <4> HIDE DEF st
      <4>2. t \notin sq.live
        BY <3>2
      <4>3. SceneOK([sq EXCEPT
                          !.done = (@ \ {t}) \ U,
                          !.buildable = B,
                          !.running = @ \ {t},
                          !.outrightfail = @ \ {t},
                          !.notcovered = @ \ {t},
                          !.covered = @ \ {t},
                          !.notneeded = @ \ {t},
                          !.stamps[t] = st])
        BY <4>1, <4>2, ReopenOK
      <4> QED BY <3>2, <4>3 DEF st
    <3>3. /\ SceneOK(sq)
          /\ \A B : B \in {sq.buildable \cup {t}, sq.buildable \ {t}} => B \subseteq Setscene
      BY DEF SceneOK, SceneType
    <3> QED BY <2>1, <3>1, <3>2, <3>3
  <2>3. FlagsOK'
    <3>1. changed' \in {changed, TRUE, FALSE}
      BY <1>2 DEF Migrate
    <3>2. UNCHANGED <<worker, died, full, sqdone>>
      BY <1>2 DEF Migrate, outside
    <3> QED BY <3>1, <3>2 DEF FlagsOK
  <2>4. HashOK'
    <3>1. update_tasks' \in {update_tasks, {}, update_tasks \cup {<<t, fails>>}}
      BY <1>2 DEF Migrate
    <3>2. fails \in BOOLEAN
      BY DEF HardDepFail
    <3>3. update_tasks' \subseteq Setscene \X BOOLEAN
      <4> HIDE DEF fails
      <4> QED BY <3>1, <3>2 DEF HashOK
    <3>4. /\ pending_migrations' \in {pending_migrations, pending_migrations \ {t}}
          /\ todo' \in {todo \ {t}, {}}
          /\ UNCHANGED <<unihash, updated_taskhash_queue>>
      BY <1>2 DEF Migrate
    <3> QED BY <3>3, <3>4 DEF HashOK
  <2>5. FlowOK' /\ QueueOK' /\ CoverOK'
    BY <1>2 DEF Migrate, FlowOK, QueueOK, DependencyOrder, CoverOK, outside, coverVars, Goto
  <2> QED BY <2>2, <2>3, <2>4, <2>5
<1>3. CASE UpdateMigrated
  <2>1. FlagsOK'
    <3>1. /\ sqdone' = (sqdone /\ {u[1] : u \in update_tasks} = {})
          /\ changed' = FALSE /\ UNCHANGED <<worker, died, full>>
      BY <1>3 DEF UpdateMigrated, outside
    <3> QED BY <3>1 DEF FlagsOK
  <2>2. FlowOK' /\ QueueOK' /\ CoverOK' /\ HashOK'
    BY <1>3 DEF UpdateMigrated, FlowOK, QueueOK, DependencyOrder, CoverOK, HashOK,
                outside, runqVars, coverVars, Goto
  <2>3. SceneOK(sq')
    BY <1>3, UpdateMigratedOK
  <2> QED BY <2>1, <2>2, <2>3
<1> QED BY <1>1, <1>2, <1>3

LEMMA UndeferOK ==
    ASSUME NEW s, SceneOK(s), NEW t \in Setscene
    PROVE  /\ SceneOK([s EXCEPT !.deferred[t] = NoTask])
           /\ SameWork([s EXCEPT !.deferred[t] = NoTask], s)
BY DEF SceneOK, SceneType, SameWork

\* The decisions that start nothing.
LEMMA SceneMovesOK ==
    ASSUME SceneOK(sq), NEW t \in Setscene,
           \/ SceneNotNeeded(t) \/ SceneFails(t) \/ SceneCurrent(t) \/ SceneRaises(t)
           \/ BreakDeferral(t)
    PROVE  SceneOK(sq') /\ SameWork(sq', sq)
<1> DEFINE r == [sq EXCEPT !.deferred[t] = NoTask]
<1>1. SceneOK(r) /\ SameWork(r, sq)
  BY UndeferOK
<1>2. CASE SceneNotNeeded(t)
  <2> DEFINE u == Skip(sq, {t})
  <2>1. SceneOK(u) /\ SameWork(u, sq)
    BY SkipOK
  <2>2. sq' = [u EXCEPT !.notneeded = @ \cup {t}, !.deferred[t] = NoTask]
    BY <1>2 DEF SceneNotNeeded
  <2> HIDE DEF u
  <2> QED BY <2>1, <2>2 DEF SceneOK, SceneType, SameWork
<1>3. CASE SceneFails(t) \/ SceneCurrent(t)
  <2>1. sq' = FailOutright(r, {t}) \/ sq' = Skip(r, {t})
    BY <1>3 DEF SceneFails, SceneCurrent
  <2> HIDE DEF r
  <2> QED BY <1>1, <2>1, FailOutrightOK, SkipOK DEF SameWork
<1>4. CASE BreakDeferral(t)
  <2>1. sq' = r \/ sq' = FailOutright(r, {sq.deferred[t]})
    BY <1>4 DEF BreakDeferral
  <2>2. {sq.deferred[t]} \in SUBSET Setscene
    BY <1>4 DEF BreakDeferral, WasDeferred, SceneOK, SceneType
  <2> HIDE DEF r
  <2> QED BY <1>1, <2>1, <2>2, FailOutrightOK DEF SameWork
<1>5. CASE SceneRaises(t)
  BY <1>1, <1>5 DEF SceneRaises
<1> QED BY <1>2, <1>3, <1>4, <1>5

\* The setscene tasks of a call.
LEMMA SceneStep ==
    ASSUME IInv,
           \/ \E t \in Setscene : \/ SceneNotNeeded(t) \/ SceneFails(t) \/ SceneCurrent(t)
                                  \/ SceneStart(t) \/ SceneRaises(t) \/ BreakDeferral(t)
           \/ NoScene
    PROVE  IInv'
<1> USE DEF IInv
<1>1. FlowOK' /\ QueueOK' /\ CoverOK' /\ HashOK'
  <2>1. /\ phase' \in {"return", "holdoff", "raised"}
        /\ UNCHANGED <<state, interrupted, runqVars, coverVars, hashVars>>
    BY DEF SceneNotNeeded, SceneFails, SceneCurrent, SceneStart, SceneRaises, BreakDeferral,
           NoScene, outside, Goto, Return
  <2> QED BY <2>1 DEF FlowOK, QueueOK, DependencyOrder, CoverOK, HashOK, runqVars, coverVars,
                      hashVars, migrVars
<1>2. FlagsOK'
  <2>1. UNCHANGED <<worker, died, full, sqdone, changed>>
    BY DEF SceneNotNeeded, SceneFails, SceneCurrent, SceneStart, SceneRaises, BreakDeferral,
           NoScene, outside, hashVars, migrVars
  <2> QED BY <2>1 DEF FlagsOK
<1>3. SceneOK(sq')
  <2>1. ASSUME NEW t \in Setscene,
               \/ SceneNotNeeded(t) \/ SceneFails(t) \/ SceneCurrent(t) \/ SceneRaises(t)
               \/ BreakDeferral(t)
        PROVE  SceneOK(sq')
    BY <2>1, SceneMovesOK
  <2>2. ASSUME NEW t \in Setscene, SceneStart(t)
        PROVE  SceneOK(sq')
    <3> DEFINE r == [sq EXCEPT !.deferred[t] = NoTask]
               n == r.active + 1
    <3>1. SceneOK(r)
      BY UndeferOK
    <3>2. sq' = [r EXCEPT !.running = @ \cup {t}, !.live = @ \cup {t}, !.active = @ + 1]
      BY <2>2 DEF SceneStart, SceneOK, SceneType
    <3> HIDE DEF r
    <3>3. n \in Int
      BY <3>1 DEF SceneOK, SceneType
    <3> HIDE DEF n
    <3>4. SceneOK([r EXCEPT !.running = @ \cup {t}, !.live = @ \cup {t}, !.active = n])
      BY <3>1, <3>3 DEF SceneOK, SceneType
    <3> QED BY <3>2, <3>4 DEF n
  <2>3. CASE NoScene
    BY <2>3 DEF NoScene
  <2> QED BY <2>1, <2>2, <2>3
<1> QED BY <1>1, <1>2, <1>3

\* The end of the scene queue, and what only looks.
LEMMA HoldoffStep ==
    ASSUME IInv, UpdateHoldoff \/ SceneDone \/ NoTaskNow \/ WaitForActive \/ Finished
    PROVE  IInv'
<1> USE DEF IInv
<1>1. FlagsOK'
  <2>1. UNCHANGED <<worker, died, full, changed>>
    BY DEF UpdateHoldoff, SceneDone, NoTaskNow, WaitForActive, Finished, outside, hashVars,
           migrVars
  <2>2. sqdone' \in BOOLEAN
    BY DEF UpdateHoldoff, SceneDone, NoTaskNow, WaitForActive, Finished, FlagsOK
  <2> QED BY <2>1, <2>2 DEF FlagsOK
<1>2. HashOK'
  BY DEF UpdateHoldoff, SceneDone, NoTaskNow, WaitForActive, Finished, HashOK, hashVars,
         migrVars
<1>3. CASE UpdateHoldoff /\ sq.holdoff_need_update
  <2> DEFINE notcovered ==
                 (sq.notcovered \cup cantskip
                    \cup (UNION {sq_covered_tasks[t] : t \in sq.notcovered})
                    \cup (unskippable \ Setscene)) \cap sq.done
             covered ==
                 ((sq.covered \cup (UNION {sq_covered_tasks[t] : t \in sq.covered}))
                    \ notcovered) \cap sq.done
  <2>1. sq.done \subseteq Tasks
    BY DEF SceneOK, SceneType
  <2>2. notcovered \subseteq Tasks /\ covered \subseteq Tasks
    BY <2>1
  <2>3. /\ tasks_covered' = covered /\ tasks_notcovered' = notcovered
        /\ runq_buildable' = runq_buildable \cup
              {t \in notcovered \cup covered : DepsComplete(t, runq_complete)}
        /\ sq' = [sq EXCEPT !.holdoff_need_update = FALSE]
    BY <1>3 DEF UpdateHoldoff
  <2> HIDE DEF notcovered, covered
  <2>4. phase' = "scenedone" /\ UNCHANGED <<state, interrupted, runq_running, runq_complete,
                                            runq_tasksrun, failed_tids, active, live>>
    BY <1>3 DEF UpdateHoldoff, Goto, outside
  <2>5. SceneOK(sq')
    BY <2>3 DEF SceneOK, SceneType
  <2>6. QueueOK'
    BY <2>2, <2>3, <2>4 DEF QueueOK, DependencyOrder, DepsComplete
  <2>7. FlowOK' /\ CoverOK'
    BY <2>2, <2>3, <2>4 DEF FlowOK, CoverOK
  <2> QED BY <1>1, <1>2, <2>5, <2>6, <2>7
<1>4. CASE \/ UpdateHoldoff /\ ~sq.holdoff_need_update
           \/ SceneDone \/ NoTaskNow \/ WaitForActive \/ Finished
  <2>1. UNCHANGED <<interrupted, runqVars, sq, coverVars>>
    BY <1>4 DEF UpdateHoldoff, SceneDone, NoTaskNow, WaitForActive, Finished, outside,
                runqVars
  <2>2. /\ phase' \in {"scenedone", "return", "sched", "idle", "wait"}
        /\ state' \in {state, "Failed", "Complete"}
    BY <1>4 DEF UpdateHoldoff, SceneDone, NoTaskNow, WaitForActive, Finished, Polled, Outcome,
                Goto, Return
  <2> QED BY <1>1, <1>2, <2>1, <2>2 DEF FlowOK, QueueOK, DependencyOrder, CoverOK, runqVars,
                                        coverVars
<1> QED BY <1>3, <1>4

\* The ordinary task of a call.
LEMMA TaskStep ==
    ASSUME IInv, NEW t \in Tasks,
           \/ TaskNotAllowed(t) \/ TaskSkip(t) \/ TaskNoExec(t) \/ TaskStart(t)
           \/ TaskRaises(t)
    PROVE  IInv'
<1> USE DEF IInv
<1>1. FlagsOK'
  BY DEF TaskNotAllowed, TaskSkip, TaskNoExec, TaskStart, TaskRaises, FlagsOK, outside,
         hashVars, migrVars
<1>2. FlowOK' /\ CoverOK' /\ HashOK'
  BY DEF TaskNotAllowed, TaskFail, TaskSkip, TaskNoExec, TaskStart, TaskRaises, FlowOK,
         CoverOK, HashOK, outside, coverVars, hashVars, migrVars, Goto, Return
<1>3. t \in runq_buildable \ runq_running
  BY DEF TaskNotAllowed, TaskSkip, TaskNoExec, TaskStart, TaskRaises, Runs, Next_task,
         BuildableNow
<1>4. CASE TaskNotAllowed(t)
  <2>1. SceneOK(sq')
    BY <1>4 DEF TaskNotAllowed
  <2>2. QueueOK'
    BY <1>4 DEF TaskNotAllowed, TaskFail, QueueOK, DependencyOrder
  <2> QED BY <1>1, <1>2, <2>1, <2>2
<1>5. CASE TaskSkip(t) \/ TaskNoExec(t)
  <2>1. PICK files : \/ TaskCompleteOutright(t, runq_buildable \cup {t}, files)
                     \/ TaskCompleteOutright(t, runq_buildable, files)
    BY <1>5 DEF TaskSkip, TaskNoExec
  <2>2. /\ SceneOK(sq')
        /\ runq_complete' = runq_complete \cup {t}
        /\ runq_buildable \subseteq runq_buildable' /\ runq_buildable' \subseteq Tasks
        /\ \A b \in runq_buildable' : Depends[b] \subseteq runq_complete'
    <3>1. runq_buildable \cup {t} = runq_buildable
      BY <1>3
    <3> QED BY <2>1, <3>1, TaskCompleteOutrightOK DEF QueueOK, DependencyOrder
  <2>3. /\ runq_running' = runq_running \cup {t}
        /\ runq_tasksrun' \in {runq_tasksrun, runq_tasksrun \cup {t}}
        /\ UNCHANGED <<failed_tids, active, live>>
    BY <1>5 DEF TaskSkip, TaskNoExec
  <2>4. QueueOK'
    BY <1>3, <2>2, <2>3 DEF QueueOK, DependencyOrder
  <2> QED BY <1>1, <1>2, <2>2, <2>4
<1>6. CASE TaskStart(t)
  <2>1. SceneOK(sq')
    BY <1>6 DEF TaskStart
  <2>2. QueueOK'
    BY <1>3, <1>6 DEF TaskStart, QueueOK, DependencyOrder
  <2> QED BY <1>1, <1>2, <2>1, <2>2
<1>7. CASE TaskRaises(t)
  <2>1. SceneOK(sq') /\ QueueOK'
    BY <1>7 DEF TaskRaises, QueueOK, DependencyOrder, runqVars
  <2> QED BY <1>1, <1>2, <2>1
<1> QED BY <1>4, <1>5, <1>6, <1>7

LEMMA StepIInv == IInv /\ [Next]_vars => IInv'
<1> SUFFICES ASSUME IInv, [Next]_vars
             PROVE  IInv'
  OBVIOUS
<1>1. CASE UNCHANGED vars
  <2>1. FlagsOK'
    BY <1>1 DEF IInv, FlagsOK, vars, outside, hashVars, migrVars
  <2> QED BY <1>1, <2>1 DEF IInv, FlowOK, QueueOK, DependencyOrder, CoverOK, HashOK, vars,
                            outside, runqVars, coverVars, hashVars, migrVars
<1>2. CASE Server
  <2>1. Call(interrupted) => IInv'
    BY CallsStep DEF IInv, FlowOK
  <2>2. ReadDone \/ AfterExecute \/ TornDown \/ Raised => IInv'
    BY CallsStep
  <2>3. Rehash \/ (\E t \in Setscene : Migrate(t)) \/ UpdateMigrated => IInv'
    BY MigrationsStep
  <2>4. (\E t \in Setscene : \/ SceneNotNeeded(t) \/ SceneFails(t) \/ SceneCurrent(t)
                             \/ SceneStart(t) \/ SceneRaises(t) \/ BreakDeferral(t))
        \/ NoScene => IInv'
    BY SceneStep
  <2>5. UpdateHoldoff \/ SceneDone \/ NoTaskNow \/ WaitForActive \/ Finished => IInv'
    BY HoldoffStep
  <2>6. (\E t \in Tasks : \/ TaskNotAllowed(t) \/ TaskSkip(t) \/ TaskNoExec(t)
                          \/ TaskStart(t) \/ TaskRaises(t)) => IInv'
    BY TaskStep
  <2> QED BY <1>2, <2>1, <2>2, <2>3, <2>4, <2>5, <2>6 DEF Server
<1>3. CASE \/ \E t \in Setscene, ok \in BOOLEAN : SceneExit(t, ok)
           \/ \E t \in Tasks : TaskExit(t) \/ TaskExitFails(t)
           \/ \E t \in Tasks, h \in Hashes : TaskRehash(t, h)
  BY <1>3, ResultsStep
<1>4. CASE \/ \E stop \in {1, 2} : stop > interrupted /\ Call(stop)
           \/ WorkerDies \/ NoticedAgain
           \/ \E action \in {1, 2} : DiskFull(action)
  BY <1>4, CallsStep
<1> QED BY <1>1, <1>2, <1>3, <1>4 DEF Next, Terminated

LEMMA Invariance == Spec => []IInv
BY InitIInv, StepIInv, PTL DEF Spec

-----------------------------------------------------------------------------

\* The sets, records and counters of the execution keep their types, a task in a
\* worker's hands has been marked running and none is complete, whatever the
\* graph, the settings, the workers and the user do.
THEOREM TypeTheorem == Spec => []TypeOK
BY Invariance, IInvImplies, PTL

\* Whatever is marked buildable, by execute(), task_completeoutright(),
\* task_skip() or update_holdofftasks(), has all its dependencies complete.
THEOREM DependencyTheorem == Spec => []DependencyOrder
BY Invariance, IInvImplies, PTL

\* Both: the sets of the run queue agree with each other and with the graph.
THEOREM OrderSafetyTheorem == Spec => []OrderSafety
BY TypeTheorem, DependencyTheorem, PTL DEF OrderSafety

-----------------------------------------------------------------------------
(* The run queue is an execution of the task graph *)

\* No step but these touches what is running or complete.
LEMMA OtherSteps ==
    ASSUME [Next]_vars,
           ~ \E t \in Tasks : \/ TaskSkip(t) \/ TaskNoExec(t) \/ TaskStart(t)
                             \/ TaskExit(t)
    PROVE  UNCHANGED <<runq_running, runq_complete>>
<1>1. CASE UNCHANGED vars
  BY <1>1 DEF vars, runqVars
<1>2. CASE Server
  BY <1>2 DEF Server, Call, ReadDone, AfterExecute, TornDown, Raised, Rehash, Migrate,
              UpdateMigrated, SceneNotNeeded, SceneFails, SceneCurrent, SceneStart,
              SceneRaises, NoScene, UpdateHoldoff, SceneDone, TaskNotAllowed, TaskRaises,
              NoTaskNow, WaitForActive, BreakDeferral, Finished, runqVars
<1>3. CASE \/ \E t \in Setscene, ok \in BOOLEAN : SceneExit(t, ok)
           \/ \E t \in Tasks : TaskExitFails(t)
           \/ \E t \in Tasks, h \in Hashes : TaskRehash(t, h)
           \/ \E stop \in {1, 2} : stop > interrupted /\ Call(stop)
           \/ WorkerDies \/ NoticedAgain
           \/ \E action \in {1, 2} : DiskFull(action)
  BY <1>3 DEF SceneExit, TaskExitFails, TaskRehash, Call, WorkerDies, NoticedAgain, DiskFull,
              runqVars
<1> QED BY <1>1, <1>2, <1>3 DEF Next, Terminated

LEMMA StepOrder ==
    IInv /\ [Next]_vars => [Order!Next]_<<runq_running, runq_complete>>
<1> SUFFICES ASSUME IInv, [Next]_vars
             PROVE  [Order!Next]_<<runq_running, runq_complete>>
  OBVIOUS
<1> USE DEF IInv, QueueOK, DependencyOrder
<1>1. ASSUME NEW t \in Tasks, TaskStart(t)
      PROVE  Order!Begin(t)
  BY <1>1 DEF TaskStart, Runs, Next_task, BuildableNow, Order!Begin, Order!Ready
<1>2. ASSUME NEW t \in Tasks, TaskSkip(t) \/ TaskNoExec(t)
      PROVE  Order!Skip(t)
  BY <1>2 DEF TaskSkip, TaskNoExec, TaskCompleteOutright, Runs, Next_task, BuildableNow,
              Order!Skip, Order!Ready
<1>3. ASSUME NEW t \in Tasks, TaskExit(t)
      PROVE  Order!End(t)
  BY <1>3 DEF TaskExit, TaskCompleteOutright, Order!End
<1> HIDE DEF IInv
<1> QED BY <1>1, <1>2, <1>3, OtherSteps DEF Order!Next

\* RunQueueExecute implements TaskOrder: a task is started at most once, after all
\* it depends on, and what is complete stays complete, whatever the setscene
\* decisions and migrations do meanwhile.
THEOREM OrderTheorem == Spec => ImplementsTaskOrder
<1>1. Init => Order!Init
  BY DEF Init, Order!Init
<1> QED
  BY <1>1, StepOrder, Invariance, PTL DEF Spec, ImplementsTaskOrder, Order!Spec

-----------------------------------------------------------------------------
(* Setscene enforcement *)

LEMMA StepEnforcement == EnforcementHolds /\ [Next]_vars => EnforcementHolds'
<1> SUFFICES ASSUME EnforcementHolds, [Next]_vars, Enforce
             PROVE  live' \subseteq Whitelisted
  BY DEF EnforcementHolds
<1>1. ASSUME NEW t \in Tasks, TaskStart(t)
      PROVE  live' \subseteq Whitelisted
  BY <1>1 DEF TaskStart, Runs, Allowed, EnforcementHolds
<1>2. CASE ~ \E t \in Tasks : TaskStart(t)
  <2>1. live' \subseteq live
    <3>1. CASE UNCHANGED vars
      BY <3>1 DEF vars, runqVars
    <3>2. CASE Server
      BY <1>2, <3>2 DEF Server, Call, ReadDone, AfterExecute, TornDown, Raised, Rehash,
                  Migrate, UpdateMigrated, SceneNotNeeded, SceneFails, SceneCurrent,
                  SceneStart, SceneRaises, NoScene, UpdateHoldoff, SceneDone,
                  TaskNotAllowed, TaskSkip, TaskNoExec, TaskRaises, NoTaskNow,
                  WaitForActive, BreakDeferral, Finished, runqVars
    <3>3. CASE \/ \E t \in Setscene, ok \in BOOLEAN : SceneExit(t, ok)
               \/ \E t \in Tasks : TaskExit(t) \/ TaskExitFails(t)
               \/ \E t \in Tasks, h \in Hashes : TaskRehash(t, h)
               \/ \E stop \in {1, 2} : stop > interrupted /\ Call(stop)
               \/ WorkerDies \/ NoticedAgain
               \/ \E action \in {1, 2} : DiskFull(action)
      BY <3>3 DEF SceneExit, TaskExit, TaskExitFails, TaskRehash, Call, WorkerDies,
                  NoticedAgain, DiskFull, runqVars
    <3> QED BY <3>1, <3>2, <3>3 DEF Next, Terminated
  <2> QED BY <2>1 DEF EnforcementHolds
<1> QED BY <1>1, <1>2

\* Under setscene enforcement no task that is not on the whitelist gets to a
\* worker, also when its setscene decision is taken back after it was made.
THEOREM EnforcementTheorem == Spec => []EnforcementHolds
<1>1. Init => EnforcementHolds
  BY DEF Init, EnforcementHolds
<1> QED BY <1>1, StepEnforcement, PTL DEF Spec

-----------------------------------------------------------------------------
(* What Complete means.  CleanUp is the state in between: left alone, the   *)
(* server only enters it with a failed task on its record.                  *)

CleanUpHasReason ==
    (state = "CleanUp" /\ Undisturbed /\ ~Enforce) => failed_tids # {}

\* Only a worker's death makes execute() raise.
RaisedIsDeath == phase = "raised" => died

CInv == CompleteMeansBuilt /\ CleanUpHasReason /\ RaisedIsDeath

LEMMA StepRaised == IInv /\ RaisedIsDeath /\ [Next]_vars => RaisedIsDeath'
<1> SUFFICES ASSUME IInv, RaisedIsDeath, [Next]_vars, phase' = "raised"
             PROVE  died'
  BY DEF RaisedIsDeath
<1>1. died => died'
  <2>1. CASE UNCHANGED vars
    BY <2>1 DEF vars, outside
  <2>2. CASE Server
    BY <2>2 DEF Server, Call, ReadDone, AfterExecute, TornDown, Raised, Rehash, Migrate,
                UpdateMigrated, SceneNotNeeded, SceneFails, SceneCurrent, SceneStart,
                SceneRaises, NoScene, UpdateHoldoff, SceneDone, TaskNotAllowed, TaskSkip,
                TaskNoExec, TaskStart, TaskRaises, NoTaskNow, WaitForActive,
                BreakDeferral, Finished, outside
  <2>3. CASE \/ \E t \in Setscene, ok \in BOOLEAN : SceneExit(t, ok)
             \/ \E t \in Tasks : TaskExit(t) \/ TaskExitFails(t)
             \/ \E t \in Tasks, h \in Hashes : TaskRehash(t, h)
             \/ \E stop \in {1, 2} : stop > interrupted /\ Call(stop)
             \/ WorkerDies \/ NoticedAgain
             \/ \E action \in {1, 2} : DiskFull(action)
    BY <2>3 DEF SceneExit, TaskExit, TaskExitFails, TaskRehash, Call, WorkerDies,
                NoticedAgain, DiskFull, outside
  <2> QED BY <2>1, <2>2, <2>3 DEF Next, Terminated
<1>2. CASE phase = "raised"
  BY <1>1, <1>2 DEF RaisedIsDeath
<1>3. CASE phase # "raised"
  <2>1. CASE UNCHANGED vars
    BY <1>3, <2>1 DEF vars
  <2>2. CASE Server
    <3>1. CASE \/ Rehash
               \/ \E t \in Setscene : SceneRaises(t)
               \/ \E t \in Tasks : TaskRaises(t)
      <4>1. died
        BY <1>3, <3>1 DEF Rehash, SceneRaises, TaskRaises, Goto
      <4> QED BY <1>1, <4>1
    <3>2. CASE \/ Call(interrupted) \/ ReadDone \/ AfterExecute \/ TornDown \/ Raised
               \/ \E t \in Setscene : Migrate(t)
               \/ UpdateMigrated
      BY <3>2 DEF Call, ReadDone, AfterExecute, TornDown, Raised, Migrate, UpdateMigrated,
                  Goto
    <3>3. CASE \/ \E t \in Setscene : \/ SceneNotNeeded(t) \/ SceneFails(t)
                                      \/ SceneCurrent(t) \/ SceneStart(t)
                                      \/ BreakDeferral(t)
               \/ NoScene \/ UpdateHoldoff \/ SceneDone
      BY <3>3 DEF SceneNotNeeded, SceneFails, SceneCurrent, SceneStart, BreakDeferral,
                  NoScene, UpdateHoldoff, SceneDone, Goto, Return
    <3>4. CASE \/ \E t \in Tasks : \/ TaskNotAllowed(t) \/ TaskSkip(t)
                                   \/ TaskNoExec(t) \/ TaskStart(t)
               \/ NoTaskNow \/ WaitForActive \/ Finished
      BY <3>4 DEF TaskNotAllowed, TaskSkip, TaskNoExec, TaskStart, NoTaskNow,
                  WaitForActive, Finished, Goto, Return
    <3> QED BY <2>2, <3>1, <3>2, <3>3, <3>4 DEF Server
  <2>3. CASE \/ \E t \in Setscene, ok \in BOOLEAN : SceneExit(t, ok)
             \/ \E t \in Tasks : TaskExit(t) \/ TaskExitFails(t)
             \/ \E t \in Tasks, h \in Hashes : TaskRehash(t, h)
             \/ \E stop \in {1, 2} : stop > interrupted /\ Call(stop)
             \/ WorkerDies \/ NoticedAgain
             \/ \E action \in {1, 2} : DiskFull(action)
    BY <1>3, <2>3 DEF SceneExit, TaskExit, TaskExitFails, TaskRehash, Call, WorkerDies,
                NoticedAgain, DiskFull, Goto
  <2> QED BY <2>1, <2>2, <2>3 DEF Next, Terminated
<1> QED BY <1>2, <1>3

LEMMA StepComplete == IInv /\ CInv /\ [Next]_vars => CInv'
<1> DEFINE Same == UNCHANGED <<state, outside, runq_complete, failed_tids>>
<1> SUFFICES ASSUME IInv, CInv, [Next]_vars, ~Enforce, Undisturbed'
             PROVE  /\ state' = "Complete" /\ ~SetsceneOnly
                          => runq_complete' = Tasks /\ failed_tids' = {}
                    /\ state' = "CleanUp" => failed_tids' # {}
  BY StepRaised DEF CInv, CompleteMeansBuilt, CleanUpHasReason
<1> USE DEF CInv, CompleteMeansBuilt, CleanUpHasReason, Undisturbed
<1>1. interrupted \in 0..2 /\ live \subseteq Tasks \ runq_complete
      /\ runq_complete \subseteq Tasks
  BY DEF IInv, FlowOK, QueueOK
<1>2. CASE Same
  BY <1>2 DEF outside
<1>3. ASSUME NEW t \in Tasks, TaskSkip(t) \/ TaskNoExec(t) \/ TaskExit(t)
      PROVE  UNCHANGED <<state, outside, failed_tids>>
             /\ runq_complete' = runq_complete \cup {t}
  BY <1>3 DEF TaskSkip, TaskNoExec, TaskExit, TaskCompleteOutright
<1>4. CASE \E t \in Tasks : TaskSkip(t) \/ TaskNoExec(t) \/ TaskExit(t)
  <2>1. PICK t \in Tasks : TaskSkip(t) \/ TaskNoExec(t) \/ TaskExit(t)
    BY <1>4
  <2>2. UNCHANGED <<state, outside, failed_tids>> /\ runq_complete' = runq_complete \cup {t}
    BY <1>3, <2>1
  <2>3. runq_complete = Tasks => runq_complete' = Tasks
    BY <2>2
  <2> QED BY <2>2, <2>3 DEF outside
<1>5. ASSUME NEW t \in Tasks, TaskNotAllowed(t)
      PROVE  FALSE
  BY <1>5 DEF TaskNotAllowed, Allowed
<1>6. CASE \E t \in Tasks : TaskExitFails(t)
  BY <1>1, <1>6 DEF TaskExitFails, TaskFail, outside
<1>7. CASE \E t \in Setscene : Migrate(t)
  <2>1. /\ UNCHANGED <<outside, runq_complete>>
        /\ \/ UNCHANGED <<state, failed_tids>>
           \/ \E t \in Setscene : state' = "CleanUp" /\ failed_tids' = failed_tids \cup {t}
    BY <1>7 DEF Migrate
  <2> QED BY <2>1 DEF outside
<1>8. CASE \E t \in Setscene, ok \in BOOLEAN : SceneExit(t, ok)
  <2>1. Same
    BY <1>8 DEF SceneExit, runqVars
  <2> QED BY <1>2, <2>1
<1>9. CASE \E stop \in 0..2 : Call(stop)
  <2>1. PICK stop \in 0..2 : Call(stop)
    BY <1>9
  <2>2. stop = 0 /\ Undisturbed
    BY <1>1, <2>1 DEF Call
  <2>3. state' = state
    BY <2>1, <2>2 DEF Call, Polled
  <2> QED BY <2>1, <2>2, <2>3 DEF Call, runqVars
<1>10. CASE AfterExecute
  <2>1. Undisturbed /\ UNCHANGED <<runq_complete, failed_tids>>
    BY <1>10 DEF AfterExecute, outside, runqVars
  <2>2. state' = state \/ (state = "CleanUp" /\ state' = Outcome)
    BY <1>10, <2>1 DEF AfterExecute, Polled
  <2> QED BY <2>1, <2>2 DEF Outcome
<1>11. CASE SceneDone
  BY <1>11 DEF SceneDone, outside, runqVars
<1>12. CASE Finished
  BY <1>1, <1>12 DEF Finished, AllBuilt, outside, runqVars
<1>13. CASE \/ ReadDone \/ TornDown \/ Rehash \/ UpdateMigrated \/ NoScene \/ UpdateHoldoff
            \/ NoTaskNow \/ UNCHANGED vars
            \/ \E t \in Setscene : \/ SceneNotNeeded(t) \/ SceneFails(t) \/ SceneCurrent(t)
                                   \/ SceneStart(t) \/ SceneRaises(t) \/ BreakDeferral(t)
            \/ \E t \in Tasks : TaskStart(t) \/ TaskRaises(t)
            \/ \E t \in Tasks, h \in Hashes : TaskRehash(t, h)
  <2>1. UNCHANGED <<state, interrupted, died, full, runq_complete, failed_tids>>
    BY <1>13 DEF ReadDone, TornDown, Rehash, UpdateMigrated, NoScene, UpdateHoldoff,
                 NoTaskNow, SceneNotNeeded, SceneFails, SceneCurrent, SceneStart,
                 SceneRaises, BreakDeferral, TaskStart, TaskRaises, TaskRehash, outside,
                 runqVars, vars
  <2> QED BY <1>2, <2>1 DEF outside
<1>14. CASE \/ WorkerDies \/ NoticedAgain \/ WaitForActive \/ Raised
            \/ \E action \in {1, 2} : DiskFull(action)
  <2>1. ~WorkerDies /\ ~ \E action \in {1, 2} : DiskFull(action)
    BY DEF WorkerDies, DiskFull
  <2>2. ~Raised
    BY DEF Raised, RaisedIsDeath
  <2>3. CASE NoticedAgain \/ WaitForActive
    BY <2>3 DEF NoticedAgain, WaitForActive, Polled, outside, runqVars
  <2> QED BY <1>14, <2>1, <2>2, <2>3
<1>15. CASE Server
  <2>1. Call(interrupted) => \E stop \in 0..2 : Call(stop)
    BY <1>1
  <2> HIDE DEF CInv, CompleteMeansBuilt, CleanUpHasReason
  <2> QED BY <1>4, <1>5, <1>7, <1>9, <1>10, <1>11, <1>12, <1>13, <1>14, <1>15, <2>1 DEF Server
<1>16. CASE \E stop \in {1, 2} : stop > interrupted /\ Call(stop)
  BY <1>9, <1>16
<1> HIDE DEF CInv, CompleteMeansBuilt, CleanUpHasReason
<1> QED BY <1>4, <1>6, <1>8, <1>13, <1>14, <1>15, <1>16 DEF Next, Terminated

\* A build that says it is complete, left alone and without enforcement, has every
\* task complete and none failed: no path through migrations, failures, or results
\* that arrive while the workers are torn down gets around the final checks.
THEOREM CompleteTheorem == Spec => []CompleteMeansBuilt
<1>1. Init => CInv
  BY DEF Init, CInv, CompleteMeansBuilt, CleanUpHasReason, RaisedIsDeath
<1>2. CInv => CompleteMeansBuilt
  BY DEF CInv
<1> QED BY <1>1, <1>2, StepComplete, Invariance, PTL DEF Spec

-----------------------------------------------------------------------------
(* The limit of threads.  The counters of the two queues count what the     *)
(* workers have in hand, as long as no task is failed that never ran.       *)

CountOK ==
    /\ IsFiniteSet(live) /\ active = Cardinality(live)
    /\ IsFiniteSet(sq.live) /\ sq.active = Cardinality(sq.live)

\* What neither starts nor ends a task leaves the counters alone.
LEMMA StepSameWork ==
    ASSUME IInv, [Next]_vars, ~Enforce,
           ~ \E t \in Tasks : TaskStart(t) \/ TaskExit(t) \/ TaskExitFails(t),
           ~ \E t \in Setscene : SceneStart(t) \/ SceneExit(t, TRUE) \/ SceneExit(t, FALSE)
    PROVE  UNCHANGED <<live, active>> /\ SameWork(sq', sq)
<1> DEFINE Goal == UNCHANGED <<live, active>> /\ SameWork(sq', sq)
<1>1. ASSUME NEW t \in Tasks, TaskNotAllowed(t)
      PROVE  FALSE
  BY <1>1 DEF TaskNotAllowed, Allowed
<1>2. ASSUME NEW t \in Tasks, TaskSkip(t) \/ TaskNoExec(t)
      PROVE  Goal
  <2>1. runq_buildable \cup {t} = runq_buildable
    BY <1>2 DEF TaskSkip, TaskNoExec, Runs, Next_task, BuildableNow
  <2>2. PICK files : TaskCompleteOutright(t, runq_buildable, files)
    BY <1>2, <2>1 DEF TaskSkip, TaskNoExec
  <2>3. SameWork(sq', sq)
    BY <2>2, TaskCompleteOutrightOK DEF IInv, QueueOK, DependencyOrder
  <2> QED BY <1>2, <2>3 DEF TaskSkip, TaskNoExec
<1>3. ASSUME NEW t \in Setscene, Migrate(t)
      PROVE  Goal
  <2>1. UNCHANGED <<live, active>>
    BY <1>3 DEF Migrate
  <2>2. \/ sq' = sq
        \/ \E U : sq' = [sq EXCEPT !.done = (@ \ {t}) \ U]
        \/ \E U, B : sq' = [sq EXCEPT
                          !.done = (@ \ {t}) \ U,
                          !.buildable = B,
                          !.running = @ \ {t},
                          !.outrightfail = @ \ {t},
                          !.notcovered = @ \ {t},
                          !.covered = @ \ {t},
                          !.notneeded = @ \ {t},
                          !.stamps[t] = Stamp(t, "setscene", unihash[t])]
    <3> DEFINE tooLate == t \in runq_running \cup sq.live
    <3>1. CASE tooLate \/ Blocked(t)
      BY <1>3, <3>1 DEF Migrate
    <3>2. CASE ~tooLate /\ ~Blocked(t) /\ SkippedTooSoon(t)
      BY <1>3, <3>2 DEF Migrate
    <3>3. CASE ~tooLate /\ ~Blocked(t) /\ ~SkippedTooSoon(t)
      BY <1>3, <3>3 DEF Migrate
    <3> QED BY <3>1, <3>2, <3>3
  <2>3. SameWork(sq', sq)
    BY <2>2 DEF SameWork, IInv, SceneOK, SceneType
  <2> QED BY <2>1, <2>3
<1>4. ASSUME UpdateMigrated
      PROVE  Goal
  BY <1>4, UpdateMigratedOK DEF UpdateMigrated, runqVars
<1>5. ASSUME NEW t \in Setscene,
             \/ SceneNotNeeded(t) \/ SceneFails(t) \/ SceneCurrent(t) \/ SceneRaises(t)
             \/ BreakDeferral(t)
      PROVE  Goal
  <2>1. SameWork(sq', sq)
    BY <1>5, SceneMovesOK DEF IInv
  <2> QED BY <1>5, <2>1 DEF SceneNotNeeded, SceneFails, SceneCurrent, SceneRaises,
                            BreakDeferral, runqVars
<1>6. ASSUME UpdateHoldoff
      PROVE  Goal
  BY <1>6 DEF UpdateHoldoff, SameWork, IInv, SceneOK, SceneType
<1>7. ASSUME \/ ReadDone \/ AfterExecute \/ TornDown \/ Rehash \/ NoScene \/ SceneDone
             \/ NoTaskNow \/ WaitForActive \/ Finished \/ UNCHANGED vars
             \/ Raised \/ WorkerDies \/ NoticedAgain
             \/ \E action \in {1, 2} : DiskFull(action)
             \/ \E stop : Call(stop)
             \/ \E t \in Tasks, h \in Hashes : TaskRehash(t, h)
             \/ \E t \in Tasks : TaskRaises(t)
      PROVE  Goal
  BY <1>7 DEF ReadDone, AfterExecute, TornDown, Rehash, NoScene, SceneDone, NoTaskNow,
              WaitForActive, Finished, Raised, WorkerDies, NoticedAgain, DiskFull, Call,
              TaskRehash, TaskRaises, SameWork, runqVars, vars
<1>8. CASE Server
  <2> HIDE DEF Goal
  <2>1. Goal
    BY <1>1, <1>2, <1>3, <1>4, <1>5, <1>6, <1>7, <1>8 DEF Server
  <2> QED BY <2>1 DEF Goal
<1>9. CASE \E t \in Setscene, ok \in BOOLEAN : SceneExit(t, ok)
  BY <1>9
<1> QED BY <1>7, <1>8, <1>9 DEF Next, Terminated

TInv == CountOK /\ ThreadLimit

LEMMA StepThreads == IInv /\ TInv /\ [Next]_vars /\ ~Enforce => TInv'
<1> SUFFICES ASSUME IInv, CountOK, ThreadLimit, [Next]_vars, ~Enforce
             PROVE  CountOK' /\ ThreadLimit'
  BY DEF TInv
<1>1. /\ Cardinality(live) \in Nat /\ Cardinality(sq.live) \in Nat
      /\ Cardinality(live) + Cardinality(sq.live) <= NumberTasks
  BY FS_CardinalityType DEF CountOK, ThreadLimit
<1>2. ASSUME NEW t \in Tasks, TaskStart(t)
      PROVE  CountOK' /\ ThreadLimit'
  <2>1. live' = live \cup {t} /\ active' = active + 1 /\ sq' = sq
    BY <1>2 DEF TaskStart
  <2>2. t \notin live /\ active + sq.active < NumberTasks
    BY <1>2 DEF TaskStart, Runs, Next_task, BuildableNow, CanStartTask, IInv, QueueOK
  <2>3. IsFiniteSet(live') /\ Cardinality(live') = Cardinality(live) + 1
    BY <2>1, <2>2, FS_AddElement DEF CountOK
  <2> QED BY <1>1, <2>1, <2>2, <2>3 DEF CountOK, ThreadLimit
<1>3. ASSUME NEW t \in Tasks, TaskExit(t) \/ TaskExitFails(t)
      PROVE  CountOK' /\ ThreadLimit'
  <2>1. t \in live /\ live' = live \ {t}
    BY <1>3 DEF TaskExit, TaskExitFails
  <2>2. IsFiniteSet(live') /\ Cardinality(live') = Cardinality(live) - 1
    BY <2>1, FS_RemoveElement DEF CountOK
  <2>3. Cardinality(live) > 0
    BY <1>1, <2>1, FS_EmptySet DEF CountOK
  <2>4. active' = active - 1
    BY <1>1, <1>3, <2>3 DEF TaskExit, TaskExitFails, TaskFail, CountOK
  <2>5. SameWork(sq', sq)
    <3>1. CASE TaskExit(t)
      BY <3>1, TaskCompleteOutrightOK DEF TaskExit, IInv, QueueOK, DependencyOrder
    <3>2. CASE TaskExitFails(t)
      BY <3>2 DEF TaskExitFails, SameWork
    <3> QED BY <1>3, <3>1, <3>2
  <2> QED BY <1>1, <2>2, <2>4, <2>5 DEF CountOK, ThreadLimit, SameWork
<1>4. ASSUME NEW t \in Setscene, SceneStart(t)
      PROVE  CountOK' /\ ThreadLimit'
  <2>1. sq'.live = sq.live \cup {t} /\ sq'.active = sq.active + 1
        /\ UNCHANGED <<live, active>>
    BY <1>4 DEF SceneStart, IInv, SceneOK, SceneType, runqVars
  <2>2. t \notin sq.live /\ active + sq.active < NumberTasks
    BY <1>4 DEF SceneStart, SceneStarts, Usable, Next_setscene, Candidate, CanStartTask, IInv,
                SceneOK
  <2>3. IsFiniteSet(sq'.live) /\ Cardinality(sq'.live) = Cardinality(sq.live) + 1
    <3> DEFINE L == sq.live
    <3>1. IsFiniteSet(L) /\ t \notin L /\ sq'.live = L \cup {t}
      BY <2>1, <2>2 DEF CountOK
    <3> HIDE DEF L
    <3>2. IsFiniteSet(L \cup {t}) /\ Cardinality(L \cup {t}) = Cardinality(L) + 1
      BY <3>1, FS_AddElement
    <3> QED BY <3>1, <3>2 DEF L
  <2>4. CountOK'
    BY <2>1, <2>3 DEF CountOK
  <2>5. Cardinality(live') = Cardinality(live)
    BY <2>1
  <2>6. Cardinality(live) + Cardinality(sq.live) < NumberTasks
    BY <2>2 DEF CountOK
  <2>7. Cardinality(live') + Cardinality(sq'.live) <= NumberTasks
    BY <1>1, <2>3, <2>5, <2>6
  <2> QED BY <2>4, <2>7 DEF ThreadLimit
<1>5. ASSUME NEW t \in Setscene, NEW ok \in BOOLEAN, SceneExit(t, ok)
      PROVE  CountOK' /\ ThreadLimit'
  <2> DEFINE s == IF ok THEN CompleteOutright(sq, t) ELSE FailOutright(sq, {t})
  <2>1. SceneOK(s) /\ SameWork(s, sq)
    BY CompleteOutrightOK, FailOutrightOK DEF IInv
  <2>2. sq' = [s EXCEPT !.active = @ - 1, !.live = @ \ {t}]
    BY <1>5 DEF SceneExit
  <2> HIDE DEF s
  <2>3. sq'.live = sq.live \ {t} /\ sq'.active = sq.active - 1
    BY <2>1, <2>2 DEF SceneOK, SceneType, SameWork
  <2>4. t \in sq.live /\ UNCHANGED <<live, active>>
    BY <1>5 DEF SceneExit, runqVars
  <2>5. IsFiniteSet(sq'.live) /\ Cardinality(sq'.live) = Cardinality(sq.live) - 1
    <3> DEFINE L == sq.live
    <3>1. IsFiniteSet(L) /\ t \in L /\ sq'.live = L \ {t}
      BY <2>3, <2>4 DEF CountOK
    <3> HIDE DEF L
    <3>2. IsFiniteSet(L \ {t}) /\ Cardinality(L \ {t}) = Cardinality(L) - 1
      BY <3>1, FS_RemoveElement
    <3> QED BY <3>1, <3>2 DEF L
  <2>6. CountOK'
    BY <2>3, <2>4, <2>5 DEF CountOK
  <2>7. Cardinality(live') = Cardinality(live)
    BY <2>4
  <2>8. Cardinality(live') + Cardinality(sq'.live) <= NumberTasks
    BY <1>1, <2>5, <2>7
  <2> QED BY <2>6, <2>8 DEF ThreadLimit
<1>6. CASE UNCHANGED <<live, active>> /\ SameWork(sq', sq)
  BY <1>6 DEF CountOK, ThreadLimit, SameWork
<1> QED BY <1>2, <1>3, <1>4, <1>5, <1>6, StepSameWork

\* Without setscene enforcement, which takes a refused task for one that ended,
\* BB_NUMBER_THREADS bounds the tasks of both queues together, although each
\* keeps a counter of its own and tests the sum.
THEOREM ThreadTheorem == ASSUME ~Enforce PROVE Spec => []ThreadLimit
<1>1. Init => TInv
  <2> SUFFICES ASSUME Init
               PROVE  CountOK /\ ThreadLimit
    BY DEF TInv
  <2>1. PICK V \in SUBSET ToCheck(stampfiles, Setscene) :
               sq = UpdateSceneData(stampfiles, InitScene, Setscene, V)
    BY DEF Init
  <2>2. SameWork(sq, InitScene)
    BY <2>1, InitSceneOK, UpdateSceneDataOK DEF ToCheck
  <2>3. sq.live = {} /\ sq.active = 0 /\ live = {} /\ active = 0
    BY <2>2 DEF SameWork, InitScene, Init
  <2> QED BY <2>3, FS_EmptySet DEF CountOK, ThreadLimit
<1>2. TInv => ThreadLimit
  BY DEF TInv
<1>3. IInv /\ TInv /\ [Next]_vars => TInv'
  BY StepThreads
<1> QED BY <1>1, <1>2, <1>3, Invariance, PTL DEF Spec
=============================================================================
