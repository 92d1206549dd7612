------------------------ MODULE RunQueueSceneProofs ------------------------
(***************************************************************************)
(* Proofs about the scene queue of RunQueue: the decisions about setscene  *)
(* tasks, how they are taken back, and what the run queue does meanwhile.  *)
(***************************************************************************)
EXTENDS RunQueueProofs

USE RunQueueAssumption, GraphAssumption

-----------------------------------------------------------------------------
(* What a decision does to the record of the scene queue *)

Undecided(s) == Setscene \ Decided(s)

\* An ordinary task nobody undecided needs is done with.
DoneClosed(s) ==
    \A d \in Tasks \ Setscene :
        Revdeps(d) \subseteq s.done /\ Revdeps(d) # {} => d \in s.done

\* r is s with the tasks of N decided, whichever way.
Decides(r, s, N) ==
    /\ SceneOK(r) /\ SameWork(r, s)
    /\ r.deferred = s.deferred /\ r.stamps = s.stamps /\ r.notneeded = s.notneeded
    /\ r.running = s.running \cup N
    /\ Decided(r) = Decided(s) \cup N
    /\ s.covered \subseteq r.covered
    /\ \A h \in r.notcovered : h \in s.notcovered \/ sq_harddeps[h] \subseteq Decided(r)
    /\ s.notcovered \subseteq r.notcovered
    /\ s.buildable \cup N \subseteq r.buildable
    /\ \A t \in r.buildable : t \in s.buildable \cup N \/ sq_revdeps[t] \subseteq Decided(r)
    /\ \A t \in Undecided(r) :
          sq_revdeps[t] \subseteq Decided(r) /\ sq_revdeps[t] \cap N # {} => t \in r.buildable
    /\ s.done \cup N \subseteq r.done
    /\ DoneClosed(s) => DoneClosed(r)
    /\ s.holdoff_need_update \/ N # {} => r.holdoff_need_update
    /\ N = {} => /\ r.covered = s.covered /\ r.notcovered = s.notcovered
                 /\ r.done = s.done

\* UpdateCounters, with names for the sets it is made of.
WalksDown(s, Y) ==
    \A d \in Tasks \ (Setscene \cup s.done) :
        /\ Revdeps(d) \subseteq s.done \cup Y
        /\ Revdeps(d) \cap Y # {}
        => d \in Y

Walked(s, N) ==
    {t \in Tasks : \A Y \in SUBSET Tasks : N \subseteq Y /\ WalksDown(s, Y) => t \in Y}

\* The two uses of it.
Counted(s, N) == UpdateCounters(s, N, FALSE)

CountedFailed(s, N) == UpdateCounters(s, N, TRUE)

\* What the counting of decided tasks leaves as it was, and what it makes buildable.
LEMMA CountersAre ==
    ASSUME NEW s, SceneOK(s), NEW N \in SUBSET Setscene, NEW r,
           r = Counted(s, N) \/ r = CountedFailed(s, N)
    PROVE  /\ SceneOK(r) /\ SameWork(r, s)
           /\ r.deferred = s.deferred /\ r.stamps = s.stamps /\ r.notneeded = s.notneeded
           /\ r.running = s.running /\ r.covered = s.covered /\ r.notcovered = s.notcovered
           /\ s.buildable \subseteq r.buildable
           /\ \A d \in r.buildable \ s.buildable : sq_revdeps[d] \subseteq Decided(s)
           /\ \A d \in Setscene : \A x \in N \cap sq_revdeps[d] :
                 /\ sq_revdeps[d] \subseteq Decided(s)
                 /\ r = Counted(s, N) \/ d \notin sq_harddeps[x]
                 => d \in r.buildable
           /\ r.done = s.done \cup Walked(s, N)
           /\ r.holdoff_need_update = (s.holdoff_need_update \/ N # {})
<1> DEFINE R(failed) == {d \in Setscene : /\ sq_revdeps[d] \subseteq Decided(s)
                                         /\ \E x \in N : /\ d \in sq_deps[x]
                                                         /\ ~(failed /\ d \in sq_harddeps[x])}
           W == Walked(s, N)
<1>1. SceneOK(r) /\ SameWork(r, s)
  <2>1. SceneOK(Counted(s, N)) /\ SameWork(Counted(s, N), s)
    BY UpdateCountersOK DEF Counted
  <2>2. SceneOK(CountedFailed(s, N)) /\ SameWork(CountedFailed(s, N), s)
    BY UpdateCountersOK DEF CountedFailed
  <2> QED BY <2>1, <2>2
<1>2. ASSUME NEW Q,
             r = [s EXCEPT !.buildable = @ \cup Q, !.done = @ \cup W,
                           !.holdoff_need_update = @ \/ N # {}]
      PROVE  /\ r.deferred = s.deferred /\ r.stamps = s.stamps /\ r.notneeded = s.notneeded
             /\ r.running = s.running /\ r.covered = s.covered /\ r.notcovered = s.notcovered
             /\ r.buildable = s.buildable \cup Q /\ r.done = s.done \cup W
             /\ r.holdoff_need_update = (s.holdoff_need_update \/ N # {})
  <2> HIDE DEF W
  <2>1. /\ r.deferred = s.deferred /\ r.stamps = s.stamps /\ r.notneeded = s.notneeded
        /\ r.running = s.running /\ r.covered = s.covered /\ r.notcovered = s.notcovered
    BY <1>2 DEF SceneOK, SceneType
  <2>2. r.buildable = s.buildable \cup Q /\ r.done = s.done \cup W
    BY <1>2 DEF SceneOK, SceneType
  <2>3. r.holdoff_need_update = (s.holdoff_need_update \/ N # {})
    BY <1>2 DEF SceneOK, SceneType
  <2> QED BY <2>1, <2>2, <2>3
<1>3. ASSUME NEW d \in Setscene, NEW x \in N \cap sq_revdeps[d]
      PROVE  d \in sq_deps[x]
  BY <1>3 DEF sq_deps
<1>4. CASE r = Counted(s, N)
  <2>1. r = [s EXCEPT !.buildable = @ \cup R(FALSE), !.done = @ \cup W,
                      !.holdoff_need_update = @ \/ N # {}]
    BY <1>4 DEF Counted, CountedFailed, UpdateCounters, Walked, WalksDown
  <2>2. \A d \in R(FALSE) : sq_revdeps[d] \subseteq Decided(s)
    OBVIOUS
  <2>3. ASSUME NEW d \in Setscene, NEW x \in N \cap sq_revdeps[d],
               sq_revdeps[d] \subseteq Decided(s)
        PROVE  d \in R(FALSE)
    BY <1>3, <2>3
  <2> HIDE DEF R, W
  <2>4. r.buildable = s.buildable \cup R(FALSE)
    BY <1>2, <2>1
  <2> QED BY <1>1, <1>2, <2>1, <2>2, <2>3, <2>4 DEF W
<1>5. CASE r = CountedFailed(s, N) /\ r # Counted(s, N)
  <2>1. r = [s EXCEPT !.buildable = @ \cup R(TRUE), !.done = @ \cup W,
                      !.holdoff_need_update = @ \/ N # {}]
    BY <1>5 DEF Counted, CountedFailed, UpdateCounters, Walked, WalksDown
  <2>2. \A d \in R(TRUE) : sq_revdeps[d] \subseteq Decided(s)
    OBVIOUS
  <2>3. ASSUME NEW d \in Setscene, NEW x \in N \cap sq_revdeps[d],
               sq_revdeps[d] \subseteq Decided(s), d \notin sq_harddeps[x]
        PROVE  d \in R(TRUE)
    BY <1>3, <2>3
  <2> HIDE DEF R, W
  <2>4. r.buildable = s.buildable \cup R(TRUE)
    BY <1>2, <2>1
  <2> QED BY <1>1, <1>2, <1>5, <2>1, <2>2, <2>3, <2>4 DEF W
<1> QED BY <1>4, <1>5

\* What is walked down to contains N, and leaves nothing that could be walked to.
LEMMA WalkedOK ==
    ASSUME NEW s, NEW N \in SUBSET Setscene
    PROVE  /\ N \subseteq Walked(s, N)
           /\ WalksDown(s, Walked(s, N))
           /\ N = {} => Walked(s, N) = {}
<1>1. N \subseteq Walked(s, N)
  BY DEF Walked
<1>2. WalksDown(s, Walked(s, N))
  <2> SUFFICES ASSUME NEW d \in Tasks \ (Setscene \cup s.done),
                      Revdeps(d) \subseteq s.done \cup Walked(s, N),
                      Revdeps(d) \cap Walked(s, N) # {},
                      NEW Y \in SUBSET Tasks, N \subseteq Y, WalksDown(s, Y)
               PROVE  d \in Y
    BY DEF WalksDown, Walked
  <2>1. Walked(s, N) \subseteq Y
    BY DEF Walked
  <2>2. Revdeps(d) \subseteq s.done \cup Y /\ Revdeps(d) \cap Y # {}
    BY <2>1
  <2> QED BY <2>2 DEF WalksDown
<1>3. N = {} => Walked(s, N) = {}
  <2>1. WalksDown(s, {})
    BY DEF WalksDown
  <2> QED BY <2>1 DEF Walked
<1> QED BY <1>1, <1>2, <1>3

\* The tasks of N are marked in s1, and then the counters are updated.
LEMMA MarkedDecides ==
    ASSUME NEW s, SceneOK(s), NEW N \in SUBSET Setscene,
           NEW s1, SceneOK(s1), SameWork(s1, s),
           s1.deferred = s.deferred, s1.stamps = s.stamps, s1.notneeded = s.notneeded,
           s1.running = s.running \cup N, s1.buildable = s.buildable \cup N,
           s1.covered \in {s.covered, s.covered \cup N},
           s1.notcovered \in {s.notcovered, s.notcovered \cup N},
           Decided(s1) = Decided(s) \cup N,
           s1.done = s.done, s1.holdoff_need_update = s.holdoff_need_update,
           s1.notcovered = s.notcovered \/ \A h \in N : sq_harddeps[h] \subseteq Decided(s1),
           NEW r,
           \/ r = Counted(s1, N)
           \/ /\ r = CountedFailed(s1, N)
              /\ \A h \in N : sq_harddeps[h] \subseteq Decided(s1)
    PROVE  Decides(r, s, N)
<1>1. /\ SceneOK(r) /\ SameWork(r, s1)
      /\ r.deferred = s1.deferred /\ r.stamps = s1.stamps /\ r.notneeded = s1.notneeded
      /\ r.running = s1.running /\ r.covered = s1.covered /\ r.notcovered = s1.notcovered
      /\ s1.buildable \subseteq r.buildable
      /\ \A d \in r.buildable \ s1.buildable : sq_revdeps[d] \subseteq Decided(s1)
      /\ \A d \in Setscene : \A x \in N \cap sq_revdeps[d] :
            /\ sq_revdeps[d] \subseteq Decided(s1)
            /\ r = Counted(s1, N) \/ d \notin sq_harddeps[x]
            => d \in r.buildable
      /\ r.done = s1.done \cup Walked(s1, N)
      /\ r.holdoff_need_update = (s1.holdoff_need_update \/ N # {})
  BY CountersAre
<1>2. Decided(r) = Decided(s1)
  BY <1>1 DEF Decided
<1>3. SameWork(r, s)
  BY <1>1 DEF SameWork
<1>4. \A h \in r.notcovered : h \in s.notcovered \/ sq_harddeps[h] \subseteq Decided(r)
  BY <1>1, <1>2
<1>5. \A t \in r.buildable : t \in s.buildable \cup N \/ sq_revdeps[t] \subseteq Decided(r)
  BY <1>1, <1>2
<1>6. ASSUME NEW t \in Undecided(r), sq_revdeps[t] \subseteq Decided(r),
             NEW x \in sq_revdeps[t] \cap N
      PROVE  t \in r.buildable
  <2>1. t \in Setscene /\ t \notin Decided(s1)
    BY <1>2, <1>6 DEF Undecided
  <2>2. r = Counted(s1, N) \/ t \notin sq_harddeps[x]
    BY <2>1
  <2> QED BY <1>1, <1>2, <1>6, <2>1, <2>2
<1>7. s.done \cup N \subseteq r.done
  BY <1>1, WalkedOK
<1>8. ASSUME DoneClosed(s)
      PROVE  DoneClosed(r)
  <2> DEFINE W == Walked(s1, N)
  <2>1. WalksDown(s1, W)
    BY WalkedOK
  <2> HIDE DEF W
  <2>2. r.done = s.done \cup W /\ s1.done = s.done
    BY <1>1 DEF W
  <2> SUFFICES ASSUME NEW d \in Tasks \ Setscene, Revdeps(d) \subseteq r.done, Revdeps(d) # {},
                      d \notin s.done
               PROVE  d \in W
    BY <2>2 DEF DoneClosed
  <2>3. ~(Revdeps(d) \subseteq s.done)
    BY <1>8 DEF DoneClosed
  <2>4. Revdeps(d) \subseteq s1.done \cup W /\ Revdeps(d) \cap W # {}
    BY <2>2, <2>3
  <2> QED BY <2>1, <2>2, <2>4 DEF WalksDown
<1>9. N = {} => r.covered = s.covered /\ r.notcovered = s.notcovered /\ r.done = s.done
  BY <1>1, WalkedOK
<1> QED BY <1>1, <1>2, <1>3, <1>4, <1>5, <1>6, <1>7, <1>8, <1>9 DEF Decides

\* scenequeue_updatecounters() and the lists kept beside it: what skipping T decides.
LEMMA SkipDecides ==
    ASSUME NEW s, SceneOK(s), NEW T \in SUBSET Setscene
    PROVE  /\ Decides(Skip(s, T), s, T)
           /\ Skip(s, T).notcovered = s.notcovered
           /\ Skip(s, T).covered = s.covered \cup T
<1> DEFINE s1 == [s EXCEPT !.running = @ \cup T, !.buildable = @ \cup T,
                           !.covered = @ \cup T]
<1>1. /\ SceneOK(s1) /\ SameWork(s1, s)
      /\ s1.deferred = s.deferred /\ s1.stamps = s.stamps /\ s1.notneeded = s.notneeded
      /\ s1.running = s.running \cup T /\ s1.buildable = s.buildable \cup T
      /\ s1.covered = s.covered \cup T /\ s1.notcovered = s.notcovered
      /\ s1.done = s.done /\ s1.holdoff_need_update = s.holdoff_need_update
  BY DEF SceneOK, SameWork, SceneType
<1>2. Skip(s, T) = Counted(s1, T)
  BY DEF Skip, Counted
<1> HIDE DEF s1
<1>3. Decided(s1) = Decided(s) \cup T
  BY <1>1 DEF Decided
<1>4. Decides(Skip(s, T), s, T)
  BY <1>1, <1>2, <1>3, MarkedDecides
<1> QED BY <1>1, <1>2, <1>4, CountersAre

\* A setscene task in a worker's hands that has done its work.
LEMMA CompleteDecides ==
    ASSUME NEW s, SceneOK(s), NEW t \in s.running \cap s.buildable
    PROVE  /\ Decides(CompleteOutright(s, t), s, {t})
           /\ CompleteOutright(s, t).notcovered = s.notcovered
           /\ CompleteOutright(s, t).covered = s.covered \cup {t}
<1> DEFINE s1 == [s EXCEPT !.covered = @ \cup {t}]
<1>0. t \in Setscene
  BY DEF SceneOK, SceneType
<1>1. /\ SceneOK(s1) /\ SameWork(s1, s)
      /\ s1.deferred = s.deferred /\ s1.stamps = s.stamps /\ s1.notneeded = s.notneeded
      /\ s1.running = s.running \cup {t} /\ s1.buildable = s.buildable \cup {t}
      /\ s1.covered = s.covered \cup {t} /\ s1.notcovered = s.notcovered
      /\ s1.done = s.done /\ s1.holdoff_need_update = s.holdoff_need_update
  BY <1>0 DEF SceneOK, SameWork, SceneType
<1>2. CompleteOutright(s, t) = Counted(s1, {t})
  BY DEF CompleteOutright, Counted
<1> HIDE DEF s1
<1>3. Decided(s1) = Decided(s) \cup {t}
  BY <1>1 DEF Decided
<1>4. Decides(CompleteOutright(s, t), s, {t})
  BY <1>0, <1>1, <1>2, <1>3, MarkedDecides
<1> QED BY <1>0, <1>1, <1>2, <1>4, CountersAre

\* The tasks that fail with those of T.
FailSet(s, T) ==
    Reach(T, [t \in Tasks |-> IF t \in Setscene THEN sq_harddeps[t] \ Decided(s) ELSE {}])

\* A set the failures do not leave bounds them, and they take along what depends
\* on them explicitly unless it is decided.
LEMMA FailSetOK ==
    ASSUME NEW s, NEW T \in SUBSET Setscene
    PROVE  /\ T \subseteq FailSet(s, T)
           /\ FailSet(s, T) \subseteq Setscene
           /\ FailSet(s, T) \subseteq T \cup Undecided(s)
           /\ \A h \in FailSet(s, T) : sq_harddeps[h] \subseteq Decided(s) \cup FailSet(s, T)
           /\ T = {} => FailSet(s, T) = {}
<1> DEFINE Succ == [t \in Tasks |-> IF t \in Setscene THEN sq_harddeps[t] \ Decided(s) ELSE {}]
<1>1. \A t \in Setscene : Succ[t] = sq_harddeps[t] \ Decided(s) /\ Succ[t] \subseteq Undecided(s)
  BY DEF sq_harddeps, Undecided
<1>2. Undecided(s) \subseteq Setscene
  BY DEF Undecided
<1>3. FailSet(s, T) = Reach(T, Succ)
  BY DEF FailSet
<1> HIDE DEF Succ
<1>4. Reach(T, Succ) \subseteq T \cup Undecided(s)
  <2> DEFINE X == T \cup Undecided(s)
  <2>1. X \in SUBSET Tasks /\ T \subseteq X /\ \A x \in X : Succ[x] \subseteq X
    BY <1>1, <1>2
  <2> HIDE DEF X
  <2>2. Reach(T, Succ) \subseteq X
    BY <2>1, ReachWithin
  <2> QED BY <2>2 DEF X
<1>5. T = {} => Reach(T, Succ) = {}
  <2> HAVE T = {}
  <2> DEFINE E == {}
  <2>1. E \in SUBSET Tasks /\ T \subseteq E /\ \A x \in E : Succ[x] \subseteq E
    OBVIOUS
  <2>2. E = {}
    OBVIOUS
  <2> HIDE DEF E
  <2>3. Reach(T, Succ) \subseteq E
    BY <2>1, ReachWithin
  <2> QED BY <2>2, <2>3
<1>6. T \subseteq Reach(T, Succ)
  BY DEF Reach, Closed
<1>7. \A h \in Reach(T, Succ) : h \in Setscene => Succ[h] \subseteq Reach(T, Succ)
  BY <1>1, <1>2 DEF Reach, Closed
<1> QED BY <1>1, <1>2, <1>3, <1>4, <1>5, <1>6, <1>7

\* No task of L fails when what it depends on is decided, and is not among T.
LEMMA FailSetSpares ==
    ASSUME NEW s, NEW T \in SUBSET Setscene, NEW L \in SUBSET Setscene,
           \A y \in L : SetsceneDepends[y] \subseteq Decided(s) \ T
    PROVE  FailSet(s, T) \cap L \subseteq T
<1> DEFINE Succ == [t \in Tasks |-> IF t \in Setscene THEN sq_harddeps[t] \ Decided(s) ELSE {}]
           X == T \cup (Undecided(s) \ L)
<1>1. \A t \in Setscene : Succ[t] = sq_harddeps[t] \ Decided(s) /\ Succ[t] \subseteq Setscene
  BY DEF sq_harddeps
<1>2. FailSet(s, T) = Reach(T, Succ)
  BY DEF FailSet
<1> HIDE DEF Succ
<1>3. X \in SUBSET Setscene /\ T \subseteq X
  BY DEF Undecided
<1>4. ASSUME NEW x \in X, NEW y \in Succ[x]
      PROVE  y \in X
  <2>1. x \in Setscene /\ y \in Undecided(s) /\ x \in SetsceneDepends[y]
    BY <1>1, <1>3, <1>4 DEF sq_harddeps, Undecided
  <2>2. x \in T \/ x \notin Decided(s)
    BY DEF Undecided
  <2>3. y \notin L
    BY <2>1, <2>2
  <2> QED BY <2>1, <2>3
<1>5. Reach(T, Succ) \subseteq X
  <2> HIDE DEF X
  <2> QED BY <1>3, <1>4, ReachWithin
<1> QED BY <1>2, <1>5

\* sq_task_failoutright() decides T and what depends on T explicitly, and covers nothing.
LEMMA FailDecides ==
    ASSUME NEW s, SceneOK(s), NEW T \in SUBSET Setscene
    PROVE  /\ Decides(FailOutright(s, T), s, FailSet(s, T))
           /\ FailOutright(s, T).covered = s.covered
           /\ FailOutright(s, T).notcovered = s.notcovered \cup FailSet(s, T)
<1> DEFINE F == FailSet(s, T)
           s1 == [s EXCEPT !.running = @ \cup F, !.buildable = @ \cup F,
                           !.notcovered = @ \cup F]
<1>0. FailOutright(s, T) = CountedFailed(s1, F)
  BY DEF FailOutright, FailSet, CountedFailed
<1>1. F \in SUBSET Setscene /\ \A h \in F : sq_harddeps[h] \subseteq Decided(s) \cup F
  BY FailSetOK
<1> HIDE DEF F
<1>2. /\ SceneOK(s1) /\ SameWork(s1, s)
      /\ s1.deferred = s.deferred /\ s1.stamps = s.stamps /\ s1.notneeded = s.notneeded
      /\ s1.running = s.running \cup F /\ s1.buildable = s.buildable \cup F
      /\ s1.covered = s.covered /\ s1.notcovered = s.notcovered \cup F
      /\ s1.done = s.done /\ s1.holdoff_need_update = s.holdoff_need_update
  BY <1>1 DEF SceneOK, SameWork, SceneType
<1> HIDE DEF s1
<1>3. Decided(s1) = Decided(s) \cup F
  BY <1>2 DEF Decided
<1>4. Decides(FailOutright(s, T), s, F)
  BY <1>0, <1>1, <1>2, <1>3, MarkedDecides
<1> QED BY <1>0, <1>1, <1>2, <1>4, CountersAre DEF F

\* What update_scenequeue_data() finds in order.
Found(files, T) == (T \cap NoExec) \cup Present(files, T)

\* update_scenequeue_data() decides what it finds current, as covered.
LEMMA UpdateDecides ==
    ASSUME NEW files, NEW s, SceneOK(s), NEW T \in SUBSET Setscene, NEW V \in SUBSET T
    PROVE  /\ Decides(UpdateSceneData(files, s, T, V), s, Found(files, T))
           /\ UpdateSceneData(files, s, T, V).notcovered = s.notcovered
           /\ UpdateSceneData(files, s, T, V).covered = s.covered \cup Found(files, T)
<1> DEFINE s0 == [s EXCEPT !.stamppresent = (@ \ T) \cup Present(files, T), !.valid = @ \ T,
                           !.outrightfail = @ \ T]
           K  == Found(files, T)
           s1 == Skip(s0, K)
           s2 == [s1 EXCEPT !.valid = @ \cup V]
           X  == {t \in T : /\ t \notin s2.stamppresent \cup s2.valid \cup NoExec
                            /\ t \notin Decided(s2)
                            /\ s2.deferred[t] = NoTask}
           r  == [s2 EXCEPT !.outrightfail = @ \cup X]
<1>0. UpdateSceneData(files, s, T, V) = r /\ SceneOK(r)
  <2>1. UpdateSceneData(files, s, T, V) = r
    BY DEF UpdateSceneData, Found
  <2>2. SceneOK(UpdateSceneData(files, s, T, V))
    BY UpdateSceneDataOK
  <2> HIDE DEF r
  <2> QED BY <2>1, <2>2
<1>1. /\ SceneOK(s0) /\ SameWork(s0, s)
      /\ s0.deferred = s.deferred /\ s0.stamps = s.stamps /\ s0.notneeded = s.notneeded
      /\ s0.running = s.running /\ s0.buildable = s.buildable
      /\ s0.covered = s.covered /\ s0.notcovered = s.notcovered
      /\ s0.done = s.done /\ s0.holdoff_need_update = s.holdoff_need_update
  BY DEF SceneOK, SameWork, SceneType, Present
<1>2. K \in SUBSET Setscene
  BY DEF Found, Present
<1> HIDE DEF s0, K
<1>3. /\ Decides(s1, s0, K) /\ s1.notcovered = s0.notcovered /\ s1.covered = s0.covered \cup K
  BY <1>1, <1>2, SkipDecides
<1>4. SceneOK(s1)
  BY <1>3 DEF Decides
<1> HIDE DEF s1
<1>5. /\ SameWork(s2, s1)
      /\ s2.deferred = s1.deferred /\ s2.stamps = s1.stamps /\ s2.notneeded = s1.notneeded
      /\ s2.running = s1.running /\ s2.buildable = s1.buildable
      /\ s2.covered = s1.covered /\ s2.notcovered = s1.notcovered
      /\ s2.done = s1.done /\ s2.holdoff_need_update = s1.holdoff_need_update
      /\ SceneOK(s2)
  BY <1>4 DEF SceneOK, SceneType, SameWork
<1>6. X \subseteq Setscene
  OBVIOUS
<1> HIDE DEF s2, X
<1>7. /\ SameWork(r, s2)
      /\ r.deferred = s2.deferred /\ r.stamps = s2.stamps /\ r.notneeded = s2.notneeded
      /\ r.running = s2.running /\ r.buildable = s2.buildable
      /\ r.covered = s2.covered /\ r.notcovered = s2.notcovered
      /\ r.done = s2.done /\ r.holdoff_need_update = s2.holdoff_need_update
  BY <1>5, <1>6 DEF SceneOK, SceneType, SameWork
<1> HIDE DEF r
<1>8. Decided(r) = Decided(s1) /\ Decided(s0) = Decided(s)
  BY <1>1, <1>5, <1>7 DEF Decided
<1>9. Decides(r, s, K)
  BY <1>0, <1>1, <1>3, <1>5, <1>7, <1>8 DEF Decides, SameWork, DoneClosed, Undecided
<1> QED BY <1>0, <1>1, <1>3, <1>5, <1>7, <1>9 DEF K


-----------------------------------------------------------------------------
(* The invariant of the record of the scene queue.  L are the tasks the     *)
(* workers have in hand; Fl are those that a migration opened again and is  *)
(* about to fail, because one they depend on explicitly is not covered.     *)

Marked(s, L) ==
    /\ s.running = Decided(s) \cup L
    /\ L \cap Decided(s) = {}
    /\ s.running \subseteq s.buildable
    /\ \A t \in L : s.deferred[t] = NoTask

\* What may be started finds decided what it depends on explicitly; what is not
\* covered leaves nothing undecided behind.
HardOK(s, L, Fl) ==
    /\ \A t \in L \cup (s.buildable \ s.running) : SetsceneDepends[t] \subseteq Decided(s)
    /\ \A h \in s.notcovered : sq_harddeps[h] \subseteq Decided(s) \cup Fl

\* A task nobody undecided needs has not been forgotten.
ReadyOK(s, Fl) ==
    \A t \in Setscene \ (s.running \cup Fl) :
        sq_revdeps[t] \subseteq Decided(s) => t \in s.buildable

DoneOK(s) ==
    /\ unskippable \ Setscene \subseteq s.done
    /\ Decided(s) \subseteq s.done
    /\ DoneClosed(s)

SceneInv(s, L, Fl) == Marked(s, L) /\ HardOK(s, L, Fl) /\ ReadyOK(s, Fl) /\ DoneOK(s)

\* Decisions only add to each other, and have update_holdofftasks() look again.
Grows(r, s) ==
    /\ s.covered \subseteq r.covered /\ s.notcovered \subseteq r.notcovered
    /\ s.holdoff_need_update => r.holdoff_need_update
    /\ \/ r.holdoff_need_update
       \/ r.covered = s.covered /\ r.notcovered = s.notcovered /\ r.done = s.done

\* What grows in two steps grows.
LEMMA GrowsTransitive ==
    ASSUME NEW r, NEW s, NEW u, Grows(r, s), Grows(s, u)
    PROVE  Grows(r, u)
BY DEF Grows

\* A record in which more is decided has grown.
LEMMA DecidesGrows ==
    ASSUME NEW r, NEW s, NEW N, Decides(r, s, N)
    PROVE  Grows(r, s)
<1>1. CASE N = {}
  BY <1>1 DEF Decides, Grows
<1>2. CASE N # {}
  <2>1. \A h \in s.notcovered : h \in r.notcovered
    BY DEF Decides
  <2> QED BY <1>2, <2>1 DEF Decides, Grows
<1> QED BY <1>1, <1>2

\* An explicit dependency is one of the reverse dependencies that are counted.
LEMMA HardIsRevdep == \A t \in Setscene : SetsceneDepends[t] \subseteq sq_revdeps[t]
BY DEF sq_revdeps

\* A decision, whichever, keeps the invariant.
LEMMA DecidesInv ==
    ASSUME NEW r, NEW s, NEW N \in SUBSET Setscene, NEW L \in SUBSET Setscene, NEW Fl,
           Decides(r, s, N), SceneInv(s, L, Fl)
    PROVE  SceneInv(r, L \ N, Fl)
<1>1. /\ r.running = s.running \cup N /\ Decided(r) = Decided(s) \cup N
      /\ s.buildable \cup N \subseteq r.buildable /\ r.deferred = s.deferred
      /\ r.buildable \subseteq Setscene
  BY DEF Decides, SceneOK, SceneType
<1>2. Marked(r, L \ N)
  BY <1>1 DEF SceneInv, Marked
<1>3. HardOK(r, L \ N, Fl)
  <2>1. ASSUME NEW t \in r.buildable \ r.running
        PROVE  SetsceneDepends[t] \subseteq Decided(r)
    <3>1. CASE t \in s.buildable \cup N
      BY <1>1, <3>1 DEF SceneInv, HardOK
    <3>2. CASE sq_revdeps[t] \subseteq Decided(r)
      BY <1>1, <3>2, HardIsRevdep
    <3> QED BY <3>1, <3>2 DEF Decides
  <2>2. \A t \in L : SetsceneDepends[t] \subseteq Decided(r)
    BY <1>1 DEF SceneInv, HardOK
  <2>3. ASSUME NEW h \in r.notcovered
        PROVE  sq_harddeps[h] \subseteq Decided(r) \cup Fl
    <3>1. CASE h \in s.notcovered
      BY <1>1, <3>1 DEF SceneInv, HardOK
    <3>2. CASE h \notin s.notcovered
      BY <3>2 DEF Decides
    <3> QED BY <3>1, <3>2
  <2> QED BY <2>1, <2>2, <2>3 DEF HardOK
<1>4. ReadyOK(r, Fl)
  <2> SUFFICES ASSUME NEW t \in Setscene, t \notin r.running, t \notin Fl,
                      sq_revdeps[t] \subseteq Decided(r)
               PROVE  t \in r.buildable
    BY DEF ReadyOK
  <2>1. CASE sq_revdeps[t] \subseteq Decided(s)
    BY <1>1, <2>1 DEF SceneInv, ReadyOK
  <2>2. CASE ~(sq_revdeps[t] \subseteq Decided(s))
    <3>1. sq_revdeps[t] \cap N # {}
      BY <1>1, <2>2
    <3>2. t \in Undecided(r)
      BY <1>1, <1>2 DEF Undecided, Marked
    <3> QED BY <3>1, <3>2 DEF Decides
  <2> QED BY <2>1, <2>2
<1>5. DoneOK(r)
  BY <1>1 DEF SceneInv, DoneOK, Decides
<1> QED BY <1>2, <1>3, <1>4, <1>5 DEF SceneInv

\* What the decisions do not look at may change.
LEMMA SameInv ==
    ASSUME NEW r, NEW s, NEW L, NEW Fl, SceneInv(s, L, Fl),
           r.running = s.running, r.buildable = s.buildable, r.covered = s.covered,
           r.notcovered = s.notcovered, r.done = s.done,
           \A t \in L : r.deferred[t] = NoTask
    PROVE  SceneInv(r, L, Fl)
<1>1. Decided(r) = Decided(s)
  BY DEF Decided
<1>2. DoneOK(r)
  BY <1>1 DEF SceneInv, DoneOK, DoneClosed
<1> QED BY <1>1, <1>2 DEF SceneInv, Marked, HardOK, ReadyOK

\* Once the flagged tasks have failed nothing is pending.
LEMMA FlagsDone ==
    ASSUME NEW s, NEW L, NEW Fl, SceneInv(s, L, Fl), Fl \subseteq Decided(s)
    PROVE  SceneInv(s, L, {})
BY DEF SceneInv, Marked, HardOK, ReadyOK

\* A task that fails, and what fails with it, takes none from the workers' hands
\* but itself.
LEMMA FailInv ==
    ASSUME NEW s, SceneOK(s), NEW T \in SUBSET Setscene, NEW L \in SUBSET Setscene, NEW Fl,
           SceneInv(s, L, Fl),
           \/ T \cap Decided(s) = {} \/ L = {}
           \/ \A y \in L : SetsceneDepends[y] \subseteq Decided(s) \ T
    PROVE  /\ SceneInv(FailOutright(s, T), L \ T, Fl)
           /\ Grows(FailOutright(s, T), s)
           /\ T \subseteq Decided(FailOutright(s, T))
<1> DEFINE r == FailOutright(s, T)
           F == FailSet(s, T)
<1>1. Decides(r, s, F) /\ F \in SUBSET Setscene /\ T \subseteq F
  BY FailDecides, FailSetOK
<1>2. F \cap L \subseteq T
  <2>1. CASE L = {}
    BY <2>1
  <2>2. CASE T \cap Decided(s) = {}
    <3>1. \A y \in L : SetsceneDepends[y] \subseteq Decided(s) \ T
      BY <2>2 DEF SceneInv, HardOK
    <3> QED BY <3>1, FailSetSpares
  <2>3. CASE \A y \in L : SetsceneDepends[y] \subseteq Decided(s) \ T
    BY <2>3, FailSetSpares
  <2> QED BY <2>1, <2>2, <2>3
<1> HIDE DEF r, F
<1>3. SceneInv(r, L \ F, Fl) /\ Grows(r, s)
  BY <1>1, DecidesInv, DecidesGrows
<1>4. L \ F = L \ T
  BY <1>1, <1>2
<1>5. T \subseteq Decided(r)
  BY <1>1 DEF Decides
<1> QED BY <1>3, <1>4, <1>5 DEF r

\* Skipping tasks no worker has in hand keeps the invariant.
LEMMA SkipInv ==
    ASSUME NEW s, SceneOK(s), NEW T \in SUBSET Setscene, NEW L \in SUBSET Setscene, NEW Fl,
           SceneInv(s, L, Fl), T \cap L = {}
    PROVE  SceneInv(Skip(s, T), L, Fl) /\ Grows(Skip(s, T), s)
<1> DEFINE r == Skip(s, T)
<1>1. Decides(r, s, T)
  BY SkipDecides
<1> HIDE DEF r
<1>2. SceneInv(r, L \ T, Fl) /\ Grows(r, s)
  BY <1>1, DecidesInv, DecidesGrows
<1>3. L \ T = L
  OBVIOUS
<1> QED BY <1>2, <1>3 DEF r

\* So does looking at the stamps and the caches.
LEMMA UpdateInv ==
    ASSUME NEW files, NEW s, SceneOK(s), NEW T \in SUBSET Setscene, NEW V \in SUBSET T,
           NEW L \in SUBSET Setscene, NEW Fl, SceneInv(s, L, Fl), T \cap L = {}
    PROVE  /\ SceneInv(UpdateSceneData(files, s, T, V), L, Fl)
           /\ Grows(UpdateSceneData(files, s, T, V), s)
           /\ Decided(s) \subseteq Decided(UpdateSceneData(files, s, T, V))
           /\ Decided(UpdateSceneData(files, s, T, V)) \subseteq Decided(s) \cup T
<1> DEFINE r == UpdateSceneData(files, s, T, V)
           K == Found(files, T)
<1>1. Decides(r, s, K)
  BY UpdateDecides
<1>2. K \subseteq T
  BY DEF Found, Present
<1> HIDE DEF r, K
<1>3. SceneInv(r, L \ K, Fl) /\ Grows(r, s)
  BY <1>1, <1>2, DecidesInv, DecidesGrows
<1>4. L \ K = L
  BY <1>2
<1>5. Decided(s) \subseteq Decided(r) /\ Decided(r) \subseteq Decided(s) \cup T
  BY <1>1, <1>2 DEF Decides
<1> QED BY <1>3, <1>4, <1>5 DEF r

-----------------------------------------------------------------------------
(* The graph, and a decision that is taken back *)

\* A task another stands for is needed by that one, or by a third it stands for.
LEMMA CoveredBy ==
    ASSUME NEW t \in Setscene, NEW d \in sq_covered_tasks[t]
    PROVE  /\ d \in Tasks \ Setscene
           /\ \E e \in Revdeps(d) : e = t \/ e \in sq_covered_tasks[t]
<1> DEFINE Succ == [u \in Tasks |-> Depends[u] \ Setscene]
           S == Depends[t] \ Setscene
           X == Tasks \ Setscene
           Y == X \ {d}
<1>1. sq_covered_tasks[t] = Reach(S, Succ)
  BY DEF sq_covered_tasks
<1>2. S \subseteq X /\ \A x \in Tasks : Succ[x] = Depends[x] \ Setscene
  OBVIOUS
<1>3. t \in Tasks
  OBVIOUS
<1> HIDE DEF Succ
<1>4. d \in X
  <2>1. X \in SUBSET Tasks /\ \A x \in X : Succ[x] \subseteq X
    BY <1>2
  <2> HIDE DEF X, S
  <2>2. Reach(S, Succ) \subseteq X
    BY <1>2, <2>1, ReachWithin
  <2> QED BY <1>1, <2>2
<1>5. ASSUME \A e \in Revdeps(d) : e # t /\ e \notin sq_covered_tasks[t]
      PROVE  FALSE
  <2> DEFINE R == sq_covered_tasks[t] \ {d}
  <2>1. R \in SUBSET Tasks
    BY CoveredTasks
  <2>2. S \subseteq sq_covered_tasks[t]
    BY <1>1 DEF Reach, Closed
  <2>3. d \notin S
    BY <1>3, <1>4, <1>5 DEF Revdeps
  <2>4. ASSUME NEW x \in R
        PROVE  Succ[x] \subseteq R
    <3>1. x \in Tasks
      BY <2>1
    <3>2. Succ[x] \subseteq sq_covered_tasks[t]
      BY <1>1, <1>2, <2>4, <3>1 DEF Reach, Closed
    <3>3. d \notin Succ[x]
      BY <1>2, <1>4, <1>5, <2>4, <3>1 DEF Revdeps
    <3> QED BY <3>2, <3>3
  <2>5. S \subseteq R
    BY <2>2, <2>3
  <2> HIDE DEF R, S
  <2>6. Reach(S, Succ) \subseteq R
    BY <2>1, <2>4, <2>5, ReachWithin
  <2> QED BY <1>1, <2>6 DEF R
<1> QED BY <1>4, <1>5

\* What a task stands for is closed downwards.
LEMMA CoveredClosed ==
    ASSUME NEW t \in Setscene, NEW d \in Tasks \ Setscene, NEW e \in Revdeps(d),
           e = t \/ e \in sq_covered_tasks[t]
    PROVE  d \in sq_covered_tasks[t]
<1> DEFINE Succ == [u \in Tasks |-> Depends[u] \ Setscene]
           S == Depends[t] \ Setscene
<1>1. sq_covered_tasks[t] = Reach(S, Succ)
  BY DEF sq_covered_tasks
<1>2. \A x \in Tasks : Succ[x] = Depends[x] \ Setscene
  OBVIOUS
<1>3. e \in Tasks /\ d \in Depends[e] \ Setscene
  BY DEF Revdeps
<1>4. CASE e = t
  BY <1>1, <1>3, <1>4 DEF Reach, Closed
<1>5. CASE e \in sq_covered_tasks[t]
  <2> HIDE DEF S, Succ
  <2>1. e \in Reach(S, Succ) /\ d \in Succ[e]
    BY <1>1, <1>2, <1>3, <1>5
  <2> QED BY <1>1, <2>1 DEF Reach, Closed
<1> QED BY <1>4, <1>5

\* So is what the build needs whatever the caches hold, as far as the setscene tasks.
LEMMA UnskippableClosed ==
    /\ unskippable \subseteq Tasks
    /\ \A d \in Tasks : Revdeps(d) = {} => d \in unskippable
    /\ \A d \in Tasks : \A e \in Revdeps(d) :
          e \in unskippable \ Setscene => d \in unskippable
<1> DEFINE Succ == [u \in Tasks |-> IF u \in Setscene THEN {} ELSE Depends[u]]
           S == {u \in Tasks : Revdeps(u) = {}} \cup cantskip
<1>1. unskippable = Reach(S, Succ)
  BY DEF unskippable
<1>2. \A x \in Tasks \ Setscene : Succ[x] = Depends[x]
  OBVIOUS
<1>3. \A d \in Tasks : Revdeps(d) = {} => d \in S
  OBVIOUS
<1> HIDE DEF S, Succ
<1>4. \A d \in Tasks : \A e \in Revdeps(d) : e \in Tasks /\ d \in Depends[e]
  BY DEF Revdeps
<1>5. \A d \in Tasks : \A e \in Revdeps(d) :
          e \in unskippable \ Setscene => d \in unskippable
  BY <1>1, <1>2, <1>4 DEF Reach, Closed
<1> QED BY <1>1, <1>3, <1>5 DEF Reach, Closed

\* What build_scenequeue_data() leaves.
LEMMA InitSceneInv == SceneInv(InitScene, {}, {})
<1>1. Decided(InitScene) = {} /\ InitScene.running = {} /\ InitScene.notcovered = {}
      /\ InitScene.buildable = {s \in Setscene : sq_revdeps[s] = {}}
      /\ InitScene.done = unskippable \ Setscene
  BY DEF InitScene, Decided
<1>2. HardOK(InitScene, {}, {})
  BY <1>1, HardIsRevdep DEF HardOK
<1>3. DoneOK(InitScene)
  <2>1. ASSUME NEW d \in Tasks \ Setscene,
               Revdeps(d) \subseteq unskippable \ Setscene, Revdeps(d) # {}
        PROVE  d \in unskippable
    BY <2>1, UnskippableClosed
  <2> QED BY <1>1, <2>1 DEF DoneOK, DoneClosed
<1> QED BY <1>1, <1>2, <1>3 DEF SceneInv, Marked, ReadyOK

\* A task whose hash has changed is open again, with what it stands for, unless
\* that is complete (C) or needed anyway.
Reopens(r, s, L, Fl, t, F, C) ==
    /\ t \in s.notcovered \cup Undecided(s) /\ t \notin L \cup Fl
    /\ F \ {t} = Fl
    /\ t \in F <=> (\E h \in Setscene : t \in sq_harddeps[h] /\ h \in s.notcovered)
    /\ r.running = s.running \ {t} /\ r.notcovered = s.notcovered \ {t}
    /\ r.covered = s.covered \ {t} /\ r.deferred = s.deferred
    /\ r.buildable \ {t} = s.buildable \ {t}
    /\ t \in r.buildable <=> (\/ sq_revdeps[t] = {}
                              \/ t \notin F /\ sq_revdeps[t] \subseteq Decided(s))
    /\ r.done = (s.done \ {t}) \ (sq_covered_tasks[t] \ (C \cup unskippable))

\* So does opening t again, if what is to be failed at once is set aside in F.
LEMMA ReopenInv ==
    ASSUME NEW s, SceneOK(s), NEW L \in SUBSET Setscene, NEW Fl \in SUBSET Setscene,
           SceneInv(s, L, Fl), Fl \cap (s.buildable \cup s.running) = {},
           NEW C \in SUBSET Tasks, \A c \in C : Depends[c] \subseteq C,
           NEW t, NEW F \in SUBSET Setscene, NEW r, Reopens(r, s, L, Fl, t, F, C)
    PROVE  SceneInv(r, L, F) /\ F \cap r.buildable = {}
<1> USE DEF SceneInv, Reopens
<1>1. Decided(r) = Decided(s) \ {t} /\ (t \in Decided(s) => t \in s.notcovered)
  BY DEF Decided, Undecided
<1>0. t \in Setscene
  BY DEF SceneOK, SceneType, Undecided
<1>2. \A x, y \in Setscene : y \in sq_harddeps[x] <=> x \in SetsceneDepends[y]
  BY DEF sq_harddeps
<1>3. Decided(s) \subseteq Setscene
  BY DEF Decided, SceneOK, SceneType
<1>4. t \in F => t \notin r.buildable
  BY <1>0, <1>2, HardIsRevdep
<1>5. Marked(r, L)
  BY <1>0, <1>1 DEF Marked
<1>6. HardOK(r, L, F)
  <2>1. ASSUME NEW y \in L \cup (r.buildable \ r.running)
        PROVE  SetsceneDepends[y] \subseteq Decided(r)
    <3>0. y \in Setscene
      BY <1>0, <2>1 DEF SceneOK, SceneType
    <3>1. SetsceneDepends[y] \subseteq Decided(s)
      <4>1. CASE y = t
        BY <1>0, <1>4, <2>1, <4>1, HardIsRevdep
      <4>2. CASE y # t
        <5>1. y \in L \cup (s.buildable \ s.running)
          BY <2>1, <4>2
        <5> QED BY <5>1 DEF HardOK
      <4> QED BY <4>1, <4>2
    <3>2. ASSUME t \in SetsceneDepends[y]
          PROVE  FALSE
      <4>1. t \in s.notcovered /\ y \in sq_harddeps[t]
        BY <1>0, <1>1, <1>2, <3>0, <3>1, <3>2
      <4>2. CASE y = t
        BY <1>0, <1>4, <2>1, <4>1, <4>2
      <4>3. CASE y # t
        <5>1. y \in Decided(s) \cup Fl
          BY <4>1 DEF HardOK
        <5>2. y \in L \cup (s.buildable \ s.running)
          BY <2>1, <4>3
        <5> QED BY <5>1, <5>2 DEF Marked
      <4> QED BY <4>2, <4>3
    <3> QED BY <1>1, <3>1, <3>2
  <2>2. ASSUME NEW h \in r.notcovered
        PROVE  sq_harddeps[h] \subseteq Decided(r) \cup F
    <3>1. h \in s.notcovered /\ h \in Setscene
      BY <2>2 DEF SceneOK, SceneType
    <3>2. sq_harddeps[h] \subseteq Decided(s) \cup Fl
      BY <3>1 DEF HardOK
    <3>3. t \in sq_harddeps[h] => t \in F
      BY <3>1
    <3> QED BY <1>1, <3>2, <3>3
  <2> QED BY <2>1, <2>2 DEF HardOK
<1>7. ReadyOK(r, F)
  <2> SUFFICES ASSUME NEW y \in Setscene, y \notin r.running, y \notin F,
                      sq_revdeps[y] \subseteq Decided(r)
               PROVE  y \in r.buildable
    BY DEF ReadyOK
  <2>1. CASE y = t
    BY <1>1, <2>1
  <2>2. CASE y # t
    BY <1>1, <2>2 DEF ReadyOK
  <2> QED BY <2>1, <2>2
<1>8. DoneOK(r)
  <2> DEFINE U == sq_covered_tasks[t] \ (C \cup unskippable)
  <2>0. r.done = (s.done \ {t}) \ U
    OBVIOUS
  <2>1. unskippable \ Setscene \subseteq r.done
    BY <1>0, <2>0 DEF DoneOK
  <2>2. Decided(r) \subseteq r.done
    BY <1>0, <1>1, <1>3, CoveredBy DEF DoneOK
  <2>3. ASSUME NEW d \in Tasks \ Setscene, Revdeps(d) \subseteq r.done, Revdeps(d) # {},
               d \notin r.done
        PROVE  FALSE
    <3>1. d \in s.done
      BY <2>0, <2>3 DEF DoneOK, DoneClosed
    <3>2. d \in U
      BY <1>0, <2>0, <2>3, <3>1
    <3>3. PICK e \in Revdeps(d) : e = t \/ e \in sq_covered_tasks[t]
      BY <1>0, <3>2, CoveredBy
    <3>4. e \in s.done /\ e # t /\ e \notin U
      BY <2>0, <2>3
    <3>5. e \in C \cup unskippable /\ e \notin Setscene
      BY <1>0, <3>3, <3>4, CoveredBy
    <3>6. CASE e \in C
      BY <3>2, <3>6 DEF Revdeps
    <3>7. CASE e \in unskippable
      BY <3>2, <3>5, <3>7, UnskippableClosed
    <3> QED BY <3>5, <3>6, <3>7
  <2> QED BY <2>1, <2>2, <2>3 DEF DoneOK, DoneClosed
<1>9. F \cap r.buildable = {}
  BY <1>4
<1> QED BY <1>5, <1>6, <1>7, <1>8, <1>9

-----------------------------------------------------------------------------
(* The invariant of the scene queue in the run queue *)

\* The tasks opened again in this call, and those of them about to be failed.
Reopened == {u[1] : u \in update_tasks}

Flagged == {u[1] : u \in {v \in update_tasks : v[2]}}

MigrateOK ==
    /\ phase # "pending" => update_tasks = {}
    /\ phase \notin {"pending", "raised", "done"} => todo = {}
    /\ Reopened \cap (sq.running \cup pending_migrations) = {}
    /\ Flagged \cap sq.buildable = {}

\* stats.active of the scene queue counts what is in the workers' hands.
SceneCount == IsFiniteSet(sq.live) /\ sq.active = Cardinality(sq.live)

\* Nothing an undecided task stands for is under way.
Quiet ==
    \A t \in Undecided(sq) : \A d \in {t} \cup sq_covered_tasks[t] : ~Unfinished(d)

\* A task whose hash has changed is not covered, or not decided.
PendingOK ==
    \A t \in pending_migrations :
        \/ t \in sq.notcovered
        \/ phase = "pending" /\ t \in todo /\ t \notin Decided(sq)
        \/ phase \in {"raised", "done"}

\* A task is only skipped when all that stand for it are covered, for good.
SkippedOK ==
    \A t \in Setscene : SkippedTooSoon(t) => t \in sq.covered /\ t \notin pending_migrations

\* What update_holdofftasks() makes of a record.
NotCovered(s) ==
    (s.notcovered \cup cantskip \cup (UNION {sq_covered_tasks[t] : t \in s.notcovered})
        \cup (unskippable \ Setscene)) \cap s.done

Covered(s) ==
    ((s.covered \cup (UNION {sq_covered_tasks[t] : t \in s.covered})) \ NotCovered(s)) \cap s.done

Held(s, complete) ==
    Undecided(s) \cup ((UNION {sq_covered_tasks[t] : t \in Undecided(s)}) \ complete)

\* tasks_covered, tasks_notcovered and holdoff_tasks are up to date.
Fresh ==
    /\ tasks_covered = Covered(sq) /\ tasks_notcovered = NotCovered(sq)
    /\ Held(sq, runq_complete) \subseteq holdoff_tasks
    /\ Undecided(sq) = {} => holdoff_tasks = {}
    /\ \A t \in tasks_covered \cup tasks_notcovered :
          Depends[t] \subseteq runq_complete => t \in runq_buildable

FreshOK ==
    /\ sq.holdoff_need_update \/ (phase = "pending" /\ changed) \/ Fresh
    /\ phase \in {"scenedone", "sched", "idle"} => ~sq.holdoff_need_update

SInv ==
    /\ SceneInv(sq, sq.live, Flagged) /\ SceneCount
    /\ MigrateOK /\ Quiet /\ PendingOK /\ SkippedOK /\ FreshOK

\* When tasks are chosen the sets are up to date.
LEMMA FreshNow ==
    ASSUME SInv, phase \in {"scenedone", "sched", "idle"}
    PROVE  Fresh
BY DEF SInv, FreshOK

\* The phases of a step that opens nothing and does not look again at what to hold back.
Onward ==
    /\ phase' = "pending" <=> phase = "pending"
    /\ phase = "pending" => sq' = sq
    /\ phase \in {"raised", "done"} => phase' \in {"raised", "done"}
    /\ phase' \in {"scenedone", "sched", "idle"} =>
          phase \in {"scenedone", "sched", "idle"} /\ sq' = sq

\* Nothing is undecided that was not, but what a migration has opened again.
Forward == Undecided(sq') \subseteq Undecided(sq) \cup Reopened'

\* What such a step keeps: it starts nothing an undecided task stands for, and
\* skips nothing unless all that stand for it are covered.
LEMMA Keeps ==
    ASSUME IInv, SInv, Onward, Grows(sq', sq), UNCHANGED <<coverVars, migrVars>>,
           SceneInv(sq', sq'.live, Flagged), SceneCount',
           runq_complete \subseteq runq_complete', runq_buildable \subseteq runq_buildable',
           \A d \in runq_running' \ (runq_running \cup runq_complete') :
              \A t \in Undecided(sq) : d \notin {t} \cup sq_covered_tasks[t],
           \A d \in (runq_complete' \ runq_tasksrun') \ (runq_complete \ runq_tasksrun) :
              \A t \in Setscene : d \in sq_covered_tasks[t] =>
                 t \in sq.covered /\ t \notin pending_migrations,
           \A t \in Tasks : Depends[t] \subseteq runq_complete' =>
              t \in runq_buildable' \/ Depends[t] \subseteq runq_complete
    PROVE  SInv' /\ Forward
<1> USE DEF SInv
<1>1. UNCHANGED <<tasks_covered, tasks_notcovered, holdoff_tasks, pending_migrations, todo,
                  changed, update_tasks>>
  BY DEF coverVars, migrVars
<1>2. Flagged' = Flagged /\ Reopened' = Reopened
  BY <1>1 DEF Flagged, Reopened
<1>3. Undecided(sq') \subseteq Undecided(sq)
  BY DEF Grows, Undecided, Decided
<1>4. MigrateOK'
  <2>1. CASE phase = "pending"
    BY <1>1, <1>2, <2>1 DEF MigrateOK, Onward
  <2>2. CASE phase # "pending"
    <3>1. update_tasks' = {} /\ Reopened' = {} /\ Flagged' = {}
      BY <1>1, <2>2 DEF MigrateOK, Reopened, Flagged
    <3> QED BY <1>1, <2>2, <3>1 DEF MigrateOK, Onward
  <2> QED BY <2>1, <2>2
<1>5. Quiet'
  <2> SUFFICES ASSUME NEW t \in Undecided(sq'), NEW d \in {t} \cup sq_covered_tasks[t],
                      d \in runq_running' \ runq_complete'
               PROVE  FALSE
    BY DEF Quiet, Unfinished
  <2>1. t \in Undecided(sq)
    BY <1>3
  <2>2. d \notin runq_running \ runq_complete
    BY <2>1 DEF Quiet, Unfinished
  <2> QED BY <2>1, <2>2
<1>6. PendingOK'
  BY <1>1 DEF PendingOK, Grows, Onward
<1>7. SkippedOK'
  <2> SUFFICES ASSUME NEW t \in Setscene, NEW d \in sq_covered_tasks[t],
                      d \in runq_complete' \ runq_tasksrun'
               PROVE  t \in sq'.covered /\ t \notin pending_migrations
    BY <1>1 DEF SkippedOK, SkippedTooSoon
  <2>1. t \in sq.covered /\ t \notin pending_migrations
    BY DEF SkippedOK, SkippedTooSoon
  <2> QED BY <2>1 DEF Grows
<1>8. FreshOK'
  <2>1. phase' \in {"scenedone", "sched", "idle"} => ~sq'.holdoff_need_update
    BY DEF FreshOK, Onward
  <2>2. CASE sq'.holdoff_need_update
    BY <2>1, <2>2 DEF FreshOK
  <2>3. CASE phase = "pending" /\ changed
    BY <1>1, <2>1, <2>3 DEF FreshOK, Onward
  <2>4. CASE Fresh /\ ~sq'.holdoff_need_update
    <3>1. sq'.covered = sq.covered /\ sq'.notcovered = sq.notcovered /\ sq'.done = sq.done
      BY <2>4 DEF Grows
    <3>2. Covered(sq') = Covered(sq) /\ NotCovered(sq') = NotCovered(sq)
          /\ Undecided(sq') = Undecided(sq)
      BY <3>1 DEF Covered, NotCovered, Undecided, Decided
    <3>3. Held(sq', runq_complete') \subseteq Held(sq, runq_complete)
      BY <3>2 DEF Held
    <3>4. \A t \in tasks_covered \cup tasks_notcovered :
              Depends[t] \subseteq runq_complete' => t \in runq_buildable'
      BY <2>4 DEF Fresh, IInv, CoverOK
    <3>5. Fresh'
      BY <1>1, <2>4, <3>2, <3>3, <3>4 DEF Fresh
    <3> QED BY <2>1, <3>5 DEF FreshOK
  <2> QED BY <2>2, <2>3, <2>4 DEF FreshOK, Grows
<1> QED BY <1>2, <1>3, <1>4, <1>5, <1>6, <1>7, <1>8 DEF Forward

\* A record that stays has grown as far as it must.
LEMMA GrowsSame == ASSUME NEW s PROVE Grows(s, s)
BY DEF Grows

\* What leaves the scene queue and the sets of the run queue alone.
LEMMA SInvStill ==
    ASSUME IInv, SInv,
           \/ \E stop \in 0..2 : Call(stop)
           \/ ReadDone \/ AfterExecute \/ TornDown \/ Raised \/ WorkerDies \/ NoticedAgain
           \/ \E action \in {1, 2} : DiskFull(action)
           \/ NoScene \/ SceneDone \/ NoTaskNow \/ WaitForActive \/ Finished
           \/ \E t \in Tasks : TaskNotAllowed(t) \/ TaskRaises(t) \/ TaskExitFails(t)
           \/ \E t \in Tasks, h \in Hashes : TaskRehash(t, h)
           \/ UNCHANGED vars
    PROVE  SInv' /\ Forward
<1>1. UNCHANGED <<sq, runq_buildable, runq_running, runq_complete, runq_tasksrun, coverVars,
                  migrVars>>
  BY DEF Call, ReadDone, AfterExecute, TornDown, Raised, WorkerDies, NoticedAgain, DiskFull,
         NoScene, SceneDone, NoTaskNow, WaitForActive, Finished, TaskNotAllowed, TaskRaises,
         TaskExitFails, TaskRehash, vars, runqVars, hashVars
<1>2. /\ phase' = "pending" <=> phase = "pending"
      /\ phase \in {"raised", "done"} => phase' \in {"raised", "done"}
      /\ phase' \in {"scenedone", "sched", "idle"} => phase \in {"scenedone", "sched", "idle"}
  <2>1. CASE \/ \E stop \in 0..2 : Call(stop)
             \/ ReadDone \/ AfterExecute \/ TornDown \/ Raised
    BY <2>1 DEF Call, ReadDone, AfterExecute, TornDown, Raised, Goto
  <2>2. CASE \/ NoScene \/ SceneDone \/ NoTaskNow \/ WaitForActive \/ Finished
             \/ \E t \in Tasks : TaskNotAllowed(t) \/ TaskRaises(t)
    BY <2>2 DEF NoScene, SceneDone, NoTaskNow, WaitForActive, Finished, TaskNotAllowed,
                TaskRaises, Goto, Return
  <2>3. CASE \/ WorkerDies \/ NoticedAgain
             \/ \E action \in {1, 2} : DiskFull(action)
             \/ \E t \in Tasks : TaskExitFails(t)
             \/ \E t \in Tasks, h \in Hashes : TaskRehash(t, h)
             \/ UNCHANGED vars
    BY <2>3 DEF WorkerDies, NoticedAgain, DiskFull, TaskExitFails, TaskRehash, vars
  <2> QED BY <2>1, <2>2, <2>3
<1>3. Onward
  BY <1>1, <1>2 DEF Onward
<1>4. SceneInv(sq', sq'.live, Flagged) /\ SceneCount'
  BY <1>1 DEF SInv, SceneCount
<1> QED BY <1>1, <1>3, <1>4, GrowsSame, Keeps

-----------------------------------------------------------------------------
(* Ordinary tasks *)

\* A task that ends, or is skipped, may have one deferred task looked at again.
LEMMA TaskCompleteOutrightInv ==
    ASSUME IInv, SceneInv(sq, sq.live, Flagged), NEW t \in Tasks, NEW B, NEW files,
           TaskCompleteOutright(t, B, files)
    PROVE  SceneInv(sq', sq'.live, Flagged) /\ Grows(sq', sq) /\ SameWork(sq', sq)
<1> DEFINE waiting == {d \in Setscene : sq.deferred[d] = t}
           deferring(f) == [sq EXCEPT !.deferred = [d \in Setscene |->
                                IF d = f THEN NoTask
                                ELSE IF d \in waiting THEN f ELSE sq.deferred[d]]]
<1>0. SceneOK(sq) /\ sq.live \in SUBSET Setscene
  BY DEF IInv, SceneOK, SceneType
<1>1. CASE waiting = {}
  <2>1. sq' = sq
    BY <1>1 DEF TaskCompleteOutright
  <2> QED BY <2>1, GrowsSame DEF SameWork
<1>2. CASE waiting # {}
  <2>1. PICK f \in waiting : \E V \in SUBSET ToCheck(files, {f}) :
                                 sq' = UpdateSceneData(files, deferring(f), {f}, V)
    BY <1>2 DEF TaskCompleteOutright
  <2>2. PICK V \in SUBSET ToCheck(files, {f}) : sq' = UpdateSceneData(files, deferring(f), {f}, V)
    BY <2>1
  <2>3. V \in SUBSET {f} /\ {f} \in SUBSET Setscene
    BY DEF ToCheck
  <2>4. t # NoTask /\ f \notin sq.live /\ \A y \in sq.live : y \notin waiting
    BY DEF SceneInv, Marked
  <2> DEFINE s == deferring(f)
  <2>5. SceneOK(s) /\ SameWork(s, sq)
    BY <1>0 DEF SceneOK, SceneType, SameWork
  <2>6. /\ s.running = sq.running /\ s.buildable = sq.buildable /\ s.covered = sq.covered
        /\ s.notcovered = sq.notcovered /\ s.done = sq.done
        /\ s.holdoff_need_update = sq.holdoff_need_update
        /\ \A y \in sq.live : s.deferred[y] = NoTask
    BY <1>0, <2>4 DEF SceneOK, SceneType, SceneInv, Marked
  <2> HIDE DEF deferring
  <2>7. SceneInv(s, sq.live, Flagged) /\ Grows(s, sq)
    BY <2>6, SameInv DEF Grows
  <2>8. /\ SceneInv(sq', sq.live, Flagged) /\ Grows(sq', s)
        /\ SameWork(sq', s)
    <3>1. {f} \cap sq.live = {}
      BY <2>4
    <3>2. SceneInv(sq', sq.live, Flagged) /\ Grows(sq', s)
      BY <1>0, <2>2, <2>3, <2>5, <2>7, <3>1, UpdateInv
    <3>3. SameWork(sq', s)
      BY <2>2, <2>3, <2>5, UpdateSceneDataOK
    <3> QED BY <3>2, <3>3
  <2> QED BY <2>5, <2>7, <2>8, GrowsTransitive DEF SameWork
<1> QED BY <1>1, <1>2

\* A task that may start is covered by no undecided one, and a covered one only
\* by those that are covered and stay so.
LEMMA NextIsFree ==
    ASSUME IInv, SInv, phase = "sched", NEW t \in Tasks, Next_task(t), NEW u \in Setscene,
           t \in {u} \cup sq_covered_tasks[u]
    PROVE  /\ u \in Decided(sq)
           /\ t \in tasks_covered \ {u} => u \in sq.covered /\ u \notin pending_migrations
<1>1. Fresh
  BY FreshNow
<1>2. t \notin runq_running /\ t \notin holdoff_tasks /\ t \notin runq_complete
  BY DEF Next_task, BuildableNow, IInv, QueueOK
<1>3. u \in Decided(sq)
  <2> SUFFICES ASSUME u \in Undecided(sq)
               PROVE  t \in Held(sq, runq_complete)
    BY <1>1, <1>2 DEF Fresh, Undecided
  <2>1. CASE t = u
    BY <2>1 DEF Held
  <2>2. CASE t \in sq_covered_tasks[u]
    <3>1. t \in UNION {sq_covered_tasks[w] : w \in Undecided(sq)}
      BY <2>2
    <3> QED BY <1>2, <3>1 DEF Held
  <2> QED BY <2>1, <2>2
<1>4. ASSUME t \in tasks_covered, t # u
      PROVE  u \in sq.covered /\ u \notin pending_migrations
  <2>1. t \notin NotCovered(sq) /\ t \in sq.done
    BY <1>1, <1>4 DEF Fresh, Covered
  <2>2. u \notin sq.notcovered
    BY <1>4, <2>1 DEF NotCovered
  <2>3. u \notin pending_migrations
    BY <2>2 DEF SInv, PendingOK
  <2> QED BY <1>3, <2>2, <2>3 DEF Decided
<1> QED BY <1>3, <1>4

\* The steps of the ordinary tasks.
LEMMA SInvTask ==
    ASSUME IInv, SInv, NEW t \in Tasks,
           TaskStart(t) \/ TaskSkip(t) \/ TaskNoExec(t) \/ TaskExit(t)
    PROVE  SInv' /\ Forward
<1>1. /\ UNCHANGED <<coverVars, migrVars>>
      /\ phase \notin {"pending", "scenedone"}
      /\ phase' = phase \/ phase' = "return"
      /\ phase \in {"sched", "idle"} => phase' = "return"
      /\ phase \notin {"raised", "done"} \/ phase' = phase
  BY DEF TaskStart, TaskSkip, TaskNoExec, TaskExit, Reading, hashVars, Return, Goto
<1>2. Onward
  BY <1>1 DEF Onward
<1>3. runq_running \subseteq runq_buildable /\ runq_complete \subseteq runq_running
  BY DEF IInv, QueueOK
<1>4. CASE TaskStart(t)
  <2>1. /\ UNCHANGED <<sq, runq_buildable, runq_complete, runq_tasksrun>>
        /\ runq_running' = runq_running \cup {t}
        /\ phase = "sched" /\ Next_task(t)
    BY <1>4 DEF TaskStart, Runs
  <2>2. \A u \in Undecided(sq) : t \notin {u} \cup sq_covered_tasks[u]
    BY <2>1, NextIsFree DEF Undecided
  <2>3. SceneInv(sq', sq'.live, Flagged) /\ SceneCount' /\ Grows(sq', sq)
    BY <2>1, GrowsSame DEF SInv, SceneCount
  <2> QED BY <1>1, <1>2, <2>1, <2>2, <2>3, Keeps
<1>5. CASE TaskSkip(t) \/ TaskNoExec(t) \/ TaskExit(t)
  <2>0. PICK B \in SUBSET Tasks : /\ runq_buildable \subseteq B
                                  /\ \E files : TaskCompleteOutright(t, B, files)
    <3>1. runq_buildable \cup {t} \in SUBSET Tasks /\ runq_buildable \in SUBSET Tasks
      BY DEF IInv, QueueOK
    <3> QED BY <1>5, <3>1 DEF TaskSkip, TaskNoExec, TaskExit
  <2>1. PICK files : runq_buildable \subseteq B /\ TaskCompleteOutright(t, B, files)
    BY <2>0
  <2>2. SceneInv(sq', sq'.live, Flagged) /\ Grows(sq', sq) /\ SameWork(sq', sq)
    BY <2>1, TaskCompleteOutrightInv DEF SInv
  <2>3. SceneCount'
    BY <2>2 DEF SInv, SceneCount, SameWork
  <2>4. /\ runq_complete' = runq_complete \cup {t}
        /\ runq_buildable' = B \cup {r \in Revdeps(t) \ runq_running :
                                         DepsComplete(r, runq_complete')}
    BY <2>1 DEF TaskCompleteOutright
  <2>5. runq_running' \subseteq runq_running \cup {t}
    BY <1>5 DEF TaskSkip, TaskNoExec, TaskExit
  <2>6. ASSUME NEW r \in Tasks, Depends[r] \subseteq runq_complete'
        PROVE  r \in runq_buildable' \/ Depends[r] \subseteq runq_complete
    <3>1. CASE t \in Depends[r]
      BY <1>3, <2>1, <2>4, <2>6, <3>1 DEF Revdeps, DepsComplete
    <3>2. CASE t \notin Depends[r]
      BY <2>4, <2>6, <3>2
    <3> QED BY <3>1, <3>2
  <2>7. ASSUME NEW d \in (runq_complete' \ runq_tasksrun') \ (runq_complete \ runq_tasksrun),
               NEW u \in Setscene, d \in sq_covered_tasks[u]
        PROVE  u \in sq.covered /\ u \notin pending_migrations
    <3>1. runq_tasksrun \subseteq runq_tasksrun'
      BY <1>5 DEF TaskSkip, TaskNoExec, TaskExit
    <3>2. d = t /\ t \notin runq_tasksrun'
      BY <2>4, <2>7, <3>1
    <3>3. TaskSkip(t) /\ t \in tasks_covered
      BY <1>5, <3>2 DEF TaskSkip, TaskNoExec, TaskExit
    <3>4. t # u
      BY <2>7, <3>2, CoveredBy
    <3> QED BY <2>7, <3>2, <3>3, <3>4, NextIsFree DEF TaskSkip
  <2>8. runq_complete \subseteq runq_complete' /\ runq_buildable \subseteq runq_buildable'
        /\ runq_running' \ (runq_running \cup runq_complete') = {}
    BY <2>1, <2>4, <2>5
  <2> QED BY <1>1, <1>2, <2>2, <2>3, <2>6, <2>7, <2>8, Keeps
<1> QED BY <1>4, <1>5

-----------------------------------------------------------------------------
(* Setscene tasks *)

\* A setscene task ends.
LEMMA SInvSceneExit ==
    ASSUME IInv, SInv, NEW t \in Setscene, NEW ok \in BOOLEAN, SceneExit(t, ok)
    PROVE  SInv' /\ Forward
<1> DEFINE s == IF ok THEN CompleteOutright(sq, t) ELSE FailOutright(sq, {t})
           L == sq.live
<1>1. /\ SceneOK(sq) /\ L \in SUBSET Setscene /\ t \in L
      /\ SceneInv(sq, L, Flagged) /\ IsFiniteSet(L) /\ sq.active = Cardinality(L)
  BY DEF SceneExit, IInv, SceneOK, SceneType, SInv, SceneCount
<1>2. SceneOK(s) /\ SameWork(s, sq)
  BY <1>1, CompleteOutrightOK, FailOutrightOK
<1>3. sq' = [s EXCEPT !.active = @ - 1, !.live = @ \ {t}]
  BY DEF SceneExit
<1>4. SceneInv(s, L \ {t}, Flagged) /\ Grows(s, sq)
  <2>1. t \in sq.running \cap sq.buildable /\ {t} \cap Decided(sq) = {}
    BY <1>1 DEF SceneInv, Marked
  <2>2. CASE ok
    <3>1. Decides(CompleteOutright(sq, t), sq, {t})
      BY <1>1, <2>1, CompleteDecides
    <3>2. Decides(s, sq, {t})
      BY <2>2, <3>1
    <3> HIDE DEF s, L
    <3> QED BY <1>1, <3>2, DecidesInv, DecidesGrows
  <2>3. CASE ~ok
    <3>1. /\ SceneInv(FailOutright(sq, {t}), L \ {t}, Flagged)
          /\ Grows(FailOutright(sq, {t}), sq)
      <4> HIDE DEF L
      <4> QED BY <1>1, <2>1, FailInv
    <3> QED BY <2>3, <3>1
  <2> QED BY <2>2, <2>3
<1> HIDE DEF s, L
<1>5. /\ sq'.live = L \ {t} /\ sq'.active = sq.active - 1
      /\ sq'.running = s.running /\ sq'.buildable = s.buildable /\ sq'.covered = s.covered
      /\ sq'.notcovered = s.notcovered /\ sq'.done = s.done /\ sq'.deferred = s.deferred
      /\ sq'.holdoff_need_update = s.holdoff_need_update
  BY <1>2, <1>3 DEF SceneOK, SceneType, SameWork, L
<1>6. SceneInv(sq', sq'.live, Flagged)
  <2>1. \A y \in L \ {t} : sq'.deferred[y] = NoTask
    BY <1>4, <1>5 DEF SceneInv, Marked
  <2> QED BY <1>4, <1>5, <2>1, SameInv
<1>7. Grows(sq', sq)
  BY <1>4, <1>5 DEF Grows
<1>8. SceneCount'
  <2>1. IsFiniteSet(L \ {t}) /\ Cardinality(L \ {t}) = Cardinality(L) - 1
    BY <1>1, FS_RemoveElement
  <2> QED BY <1>1, <1>5, <2>1 DEF SceneCount
<1>9. /\ UNCHANGED <<phase, runqVars, coverVars, migrVars>>
      /\ phase \notin {"pending", "scenedone", "sched", "idle"}
  BY DEF SceneExit, Reading, hashVars
<1>10. Onward
  BY <1>9 DEF Onward
<1>11. UNCHANGED <<runq_buildable, runq_running, runq_complete, runq_tasksrun>>
  BY <1>9 DEF runqVars
<1> QED BY <1>6, <1>7, <1>8, <1>9, <1>10, <1>11, Keeps

\* A setscene task is started.
LEMMA SInvSceneStart ==
    ASSUME IInv, SInv, NEW t \in Setscene, SceneStart(t)
    PROVE  SInv' /\ Forward
<1>1. SceneOK(sq) /\ t \in sq.buildable \ sq.running
  BY DEF SceneStart, SceneStarts, Usable, Next_setscene, Candidate, IInv
<1>2. /\ sq'.live = sq.live \cup {t} /\ sq'.running = sq.running \cup {t}
      /\ sq'.buildable = sq.buildable /\ sq'.covered = sq.covered
      /\ sq'.notcovered = sq.notcovered /\ sq'.done = sq.done
      /\ sq'.holdoff_need_update = sq.holdoff_need_update
      /\ \A y \in Setscene : sq'.deferred[y] = IF y = t THEN NoTask ELSE sq.deferred[y]
  BY <1>1 DEF SceneStart, SceneOK, SceneType
<1>3. sq'.active = sq.active + 1
  BY <1>1 DEF SceneStart, SceneOK, SceneType
<1>4. sq.live \subseteq Setscene
  BY <1>1 DEF SceneOK, SceneType
<1>5. SceneInv(sq', sq'.live, Flagged)
  <2> DEFINE r == sq'
             L == sq'.live
  <2>1. Decided(r) = Decided(sq)
    BY <1>2 DEF Decided
  <2>2. Marked(r, L)
    BY <1>1, <1>2, <1>4, <2>1 DEF SInv, SceneInv, Marked
  <2>3. HardOK(r, L, Flagged) /\ ReadyOK(r, Flagged)
    BY <1>1, <1>2, <2>1 DEF SInv, SceneInv, HardOK, ReadyOK
  <2>4. DoneOK(r)
    BY <1>2, <2>1 DEF SInv, SceneInv, DoneOK, DoneClosed
  <2> QED BY <2>2, <2>3, <2>4 DEF SceneInv
<1>6. SceneCount'
  <2> DEFINE L == sq.live
  <2>1. IsFiniteSet(L) /\ t \notin L /\ sq'.live = L \cup {t} /\ sq.active = Cardinality(L)
    BY <1>1, <1>2 DEF SInv, SceneCount, SceneOK
  <2> HIDE DEF L
  <2>2. IsFiniteSet(L \cup {t}) /\ Cardinality(L \cup {t}) = Cardinality(L) + 1
    BY <2>1, FS_AddElement
  <2> QED BY <1>3, <2>1, <2>2 DEF SceneCount
<1>7. Grows(sq', sq)
  BY <1>2 DEF Grows
<1>8. /\ UNCHANGED <<runqVars, coverVars, migrVars>>
      /\ phase = "scene" /\ phase' \in {"return", "holdoff"}
  BY DEF SceneStart, hashVars, Goto
<1>9. Onward
  BY <1>8 DEF Onward
<1>10. UNCHANGED <<runq_buildable, runq_running, runq_complete, runq_tasksrun>>
  BY <1>8 DEF runqVars
<1> QED BY <1>5, <1>6, <1>7, <1>8, <1>9, <1>10, Keeps

\* With nothing active nothing is in the workers' hands.
LEMMA NoneActive ==
    ASSUME SceneCount, sq.active <= 0
    PROVE  sq.live = {}
<1> DEFINE L == sq.live
<1>1. IsFiniteSet(L) /\ Cardinality(L) <= 0
  BY DEF SceneCount
<1> HIDE DEF L
<1>2. L = {}
  BY <1>1, FS_EmptySet, FS_CardinalityType
<1> QED BY <1>2 DEF L

\* A setscene task is decided without a worker, or let go.
LEMMA SInvSceneMoves ==
    ASSUME IInv, SInv, NEW t \in Setscene,
           \/ SceneNotNeeded(t) \/ SceneFails(t) \/ SceneCurrent(t) \/ SceneRaises(t)
           \/ BreakDeferral(t)
    PROVE  SInv' /\ Forward
<1> DEFINE s == [sq EXCEPT !.deferred[t] = NoTask]
           L == sq.live
<1>1. SceneOK(sq) /\ L \in SUBSET Setscene /\ SceneInv(sq, L, Flagged)
  BY DEF IInv, SInv, SceneOK, SceneType
<1>2. SceneOK(s) /\ SameWork(s, sq)
  BY <1>1, UndeferOK
<1>3. SceneOK(sq') /\ SameWork(sq', sq)
  BY <1>1, SceneMovesOK
<1>4. /\ s.running = sq.running /\ s.buildable = sq.buildable /\ s.covered = sq.covered
      /\ s.notcovered = sq.notcovered /\ s.done = sq.done
      /\ s.holdoff_need_update = sq.holdoff_need_update
      /\ \A y \in L : s.deferred[y] = NoTask
  BY <1>1 DEF SceneOK, SceneType, SceneInv, Marked
<1> HIDE DEF s
<1>5. SceneInv(s, L, Flagged) /\ Grows(s, sq) /\ Decided(s) = Decided(sq)
  BY <1>1, <1>4, SameInv DEF Grows, Decided
<1>6. SceneInv(sq', L, Flagged) /\ Grows(sq', sq)
  <2>1. CASE SceneNotNeeded(t)
    <3> DEFINE r == Skip(sq, {t})
    <3>1. {t} \cap L = {}
      BY <1>1, <2>1 DEF SceneNotNeeded, Candidate, SceneOK
    <3>2. SceneInv(r, L, Flagged) /\ Grows(r, sq) /\ SceneOK(r)
      <4> HIDE DEF L
      <4> QED BY <1>1, <3>1, SkipInv, SkipOK
    <3>3. sq' = [r EXCEPT !.notneeded = @ \cup {t}, !.deferred[t] = NoTask]
      BY <2>1 DEF SceneNotNeeded
    <3> HIDE DEF r
    <3>4. /\ sq'.running = r.running /\ sq'.buildable = r.buildable
          /\ sq'.covered = r.covered /\ sq'.notcovered = r.notcovered /\ sq'.done = r.done
          /\ sq'.holdoff_need_update = r.holdoff_need_update
      BY <3>2, <3>3 DEF SceneOK, SceneType
    <3>5. \A y \in L : sq'.deferred[y] = NoTask
      BY <1>1, <3>2, <3>3 DEF SceneOK, SceneType, SceneInv, Marked
    <3> HIDE DEF L
    <3>6. SceneInv(sq', L, Flagged)
      BY <3>2, <3>4, <3>5, SameInv
    <3> QED BY <3>2, <3>4, <3>6 DEF Grows
  <2>2. CASE SceneFails(t)
    <3>1. t \notin L /\ t \notin Decided(s)
      BY <1>1, <1>5, <2>2 DEF SceneFails, Next_setscene, Candidate, SceneInv, Marked
    <3>2. sq' = FailOutright(s, {t})
      BY <2>2 DEF SceneFails, s
    <3>3. SceneInv(sq', L \ {t}, Flagged) /\ Grows(sq', s)
      <4>1. {t} \cap Decided(s) = {}
        BY <3>1
      <4> HIDE DEF L
      <4> QED BY <1>1, <1>2, <1>5, <3>2, <4>1, FailInv
    <3>4. L \ {t} = L
      BY <3>1
    <3> HIDE DEF L
    <3> QED BY <1>5, <3>3, <3>4, GrowsTransitive
  <2>3. CASE SceneCurrent(t)
    <3>1. {t} \cap L = {}
      BY <1>1, <2>3 DEF SceneCurrent, Usable, Next_setscene, Candidate, SceneOK
    <3>2. sq' = Skip(s, {t})
      BY <2>3 DEF SceneCurrent, s
    <3> HIDE DEF L
    <3>3. SceneInv(sq', L, Flagged) /\ Grows(sq', s)
      BY <1>1, <1>2, <1>5, <3>1, <3>2, SkipInv
    <3> QED BY <1>5, <3>3, GrowsTransitive
  <2>4. CASE SceneRaises(t)
    <3>1. sq' = s
      BY <2>4 DEF SceneRaises, s
    <3> QED BY <1>5, <3>1
  <2>5. CASE BreakDeferral(t)
    <3>1. L = {}
      BY <2>5, NoneActive DEF BreakDeferral, SInv
    <3> DEFINE d == sq.deferred[t]
    <3>2. sq' = s \/ sq' = FailOutright(s, {d})
      BY <2>5 DEF BreakDeferral, s
    <3>3. d \in Setscene
      BY <1>1, <2>5 DEF BreakDeferral, WasDeferred, SceneOK, SceneType
    <3> HIDE DEF d, L
    <3>4. CASE sq' = s
      BY <1>5, <3>4
    <3>5. CASE sq' = FailOutright(s, {d})
      <4>1. SceneInv(sq', L \ {d}, Flagged) /\ Grows(sq', s)
        BY <1>1, <1>2, <1>5, <3>1, <3>3, <3>5, FailInv
      <4>2. L \ {d} = L
        BY <3>1
      <4> QED BY <1>5, <4>1, <4>2, GrowsTransitive
    <3> QED BY <3>2, <3>4, <3>5
  <2> QED BY <2>1, <2>2, <2>3, <2>4, <2>5
<1>7. SceneInv(sq', sq'.live, Flagged)
  BY <1>3, <1>6 DEF SameWork
<1>8. SceneCount'
  BY <1>3 DEF SInv, SceneCount, SameWork
<1>9. /\ UNCHANGED <<runqVars, coverVars, migrVars>>
      /\ phase \in {"scene", "idle"} /\ phase' \in {"return", "raised"}
  BY DEF SceneNotNeeded, SceneFails, SceneCurrent, SceneRaises, BreakDeferral, hashVars,
         Return, Goto
<1>10. Onward
  BY <1>9 DEF Onward
<1>11. UNCHANGED <<runq_buildable, runq_running, runq_complete, runq_tasksrun>>
  BY <1>9 DEF runqVars
<1> QED BY <1>6, <1>7, <1>8, <1>9, <1>10, <1>11, Keeps

-----------------------------------------------------------------------------
(* What is held back, and migrations *)

\* What is held back is worked out anew.
LEMMA SInvHoldoff ==
    ASSUME IInv, SInv, UpdateHoldoff
    PROVE  SInv' /\ Forward
<1>1. /\ UNCHANGED <<runq_running, runq_complete, runq_tasksrun, migrVars>>
      /\ phase = "holdoff" /\ phase' = "scenedone"
  BY DEF UpdateHoldoff, hashVars, Goto
<1>2. UNCHANGED <<pending_migrations, todo, changed, update_tasks>>
  BY <1>1 DEF migrVars
<1>3. /\ sq'.running = sq.running /\ sq'.buildable = sq.buildable /\ sq'.covered = sq.covered
      /\ sq'.notcovered = sq.notcovered /\ sq'.done = sq.done /\ sq'.live = sq.live
      /\ sq'.deferred = sq.deferred /\ sq'.active = sq.active
      /\ sq'.holdoff_need_update = FALSE
  BY DEF UpdateHoldoff, IInv, SceneOK, SceneType
<1>4. /\ Decided(sq') = Decided(sq) /\ Undecided(sq') = Undecided(sq)
      /\ Covered(sq') = Covered(sq) /\ NotCovered(sq') = NotCovered(sq)
      /\ Held(sq', runq_complete) = Held(sq, runq_complete)
  BY <1>3 DEF Decided, Undecided, Covered, NotCovered, Held
<1>5. Fresh'
  <2>1. CASE ~sq.holdoff_need_update
    <3>1. Fresh
      BY <1>1, <2>1 DEF SInv, FreshOK
    <3>2. UNCHANGED <<runq_buildable, tasks_covered, tasks_notcovered, holdoff_tasks>>
      BY <2>1 DEF UpdateHoldoff, coverVars
    <3> QED BY <1>1, <1>4, <3>1, <3>2 DEF Fresh
  <2>2. CASE sq.holdoff_need_update
    <3>1. /\ tasks_covered' = Covered(sq) /\ tasks_notcovered' = NotCovered(sq)
          /\ runq_buildable' = runq_buildable \cup
                {t \in NotCovered(sq) \cup Covered(sq) : DepsComplete(t, runq_complete)}
          /\ holdoff_tasks' = Held(sq, runq_complete)
      BY <2>2 DEF UpdateHoldoff, Covered, NotCovered, Held, Undecided
    <3>2. Undecided(sq) = {} => Held(sq, runq_complete) = {}
      BY DEF Held
    <3> QED BY <1>1, <1>4, <3>1, <3>2 DEF Fresh, DepsComplete
  <2> QED BY <2>1, <2>2
<1>6. Flagged' = Flagged /\ Reopened' = Reopened
  BY <1>2 DEF Flagged, Reopened
<1>7. SceneInv(sq', sq'.live, Flagged')
  <2>1. \A t \in sq.live : sq'.deferred[t] = NoTask
    BY <1>3 DEF SInv, SceneInv, Marked
  <2>2. SceneInv(sq', sq.live, Flagged)
    BY <1>3, <2>1, SameInv DEF SInv
  <2> QED BY <1>3, <1>6, <2>2
<1>8. SceneCount' /\ MigrateOK'
  BY <1>1, <1>2, <1>3, <1>6 DEF SInv, SceneCount, MigrateOK
<1>9. Quiet' /\ SkippedOK'
  BY <1>1, <1>2, <1>3, <1>4 DEF SInv, Quiet, SkippedOK, SkippedTooSoon, Unfinished
<1>10. PendingOK'
  BY <1>1, <1>2, <1>3, <1>4 DEF SInv, PendingOK
<1>11. FreshOK'
  BY <1>1, <1>3, <1>5 DEF FreshOK
<1> QED BY <1>4, <1>7, <1>8, <1>9, <1>10, <1>11 DEF SInv, Forward

\* Hashes change, and decisions are about to be opened again.
LEMMA SInvRehash ==
    ASSUME IInv, SInv, Rehash
    PROVE  SInv' /\ Forward
<1> USE DEF SInv
<1>1. /\ phase = "migrate" /\ phase' \in {"pending", "raised"}
      /\ todo' = pending_migrations' /\ update_tasks' = {}
      /\ UNCHANGED <<runqVars, sq, coverVars>>
  BY DEF Rehash, Goto
<1>2. PICK C : pending_migrations' = pending_migrations \cup
                       ((C \ (sq.covered \cup sq.live)) \cap Setscene)
  BY DEF Rehash
<1>3. UNCHANGED <<runq_buildable, runq_running, runq_complete, runq_tasksrun, tasks_covered,
                  tasks_notcovered, holdoff_tasks>>
  BY <1>1 DEF runqVars, coverVars
<1>4. update_tasks = {}
  BY <1>1 DEF MigrateOK
<1>5. Flagged' = {} /\ Flagged = {} /\ Reopened' = {}
  BY <1>1, <1>4 DEF Flagged, Reopened
<1>6. SceneInv(sq', sq'.live, Flagged') /\ SceneCount' /\ MigrateOK'
  BY <1>1, <1>5 DEF SceneCount, MigrateOK
<1>7. Quiet'
  BY <1>1, <1>3 DEF Quiet, Unfinished
<1>8. PendingOK'
  BY <1>1, <1>2 DEF PendingOK, Decided
<1>9. SkippedOK'
  BY <1>1, <1>2, <1>3 DEF SkippedOK, SkippedTooSoon
<1>10. FreshOK'
  BY <1>1, <1>3 DEF FreshOK, Fresh
<1> QED BY <1>1, <1>6, <1>7, <1>8, <1>9, <1>10 DEF Forward

\* No migration asks for a task that was skipped.
LEMMA NeverSkipped ==
    ASSUME IInv, SInv, NEW t \in Setscene, Migrate(t)
    PROVE  ~SkippedTooSoon(t)
BY DEF Migrate, SInv, SkippedOK, IInv, HashOK

\* A decision is opened again.
LEMMA SInvMigrate ==
    ASSUME IInv, SInv, NEW t \in Setscene, Migrate(t)
    PROVE  SInv' /\ Forward
<1> USE DEF SInv
<1> DEFINE tooLate == t \in runq_running \cup sq.live
           undone  == {d \in sq_covered_tasks[t] \ (runq_complete \cup unskippable) :
                          d \in sq.done}
           fails   == HardDepFail(t)
           ready   == \/ sq_revdeps[t] = {}
                      \/ ~fails /\ sq_revdeps[t] \subseteq Decided(sq)
           L == sq.live
<1>1. /\ phase = "pending" /\ phase' = "pending" /\ t \in todo /\ todo' = todo \ {t}
      /\ UNCHANGED <<runq_buildable, runq_running, runq_complete, runq_tasksrun, coverVars>>
  BY NeverSkipped DEF Migrate, Goto
<1>2. UNCHANGED <<tasks_covered, tasks_notcovered, holdoff_tasks>>
  BY <1>1 DEF coverVars
<1>3. t \in pending_migrations /\ t \in sq.notcovered \cup Undecided(sq)
  BY <1>1 DEF IInv, HashOK, PendingOK, Undecided
<1>4. CASE tooLate \/ Blocked(t)
  <2>1. /\ pending_migrations' \in {pending_migrations, pending_migrations \ {t}}
        /\ ~tooLate => Blocked(t)
        /\ tooLate => pending_migrations' = pending_migrations \ {t}
        /\ UNCHANGED <<sq, changed, update_tasks>>
    BY <1>4, NeverSkipped DEF Migrate
  <2>2. Flagged' = Flagged /\ Reopened' = Reopened
    BY <2>1 DEF Flagged, Reopened
  <2>3. SceneInv(sq', sq'.live, Flagged') /\ SceneCount' /\ MigrateOK'
    BY <1>1, <2>1, <2>2 DEF SceneCount, MigrateOK
  <2>4. Quiet'
    BY <1>1, <2>1 DEF Quiet, Unfinished
  <2>5. PendingOK'
    <3>1. ~tooLate => t \in sq.notcovered
      BY <1>3, <2>1 DEF Quiet, Blocked
    <3>2. \A y \in pending_migrations' : y \in pending_migrations /\ (y = t => ~tooLate)
      BY <2>1
    <3> HIDE DEF tooLate
    <3> QED BY <1>1, <2>1, <3>1, <3>2 DEF PendingOK
  <2>6. SkippedOK'
    BY <1>1, <2>1 DEF SkippedOK, SkippedTooSoon
  <2>7. FreshOK'
    BY <1>1, <1>2, <2>1 DEF FreshOK, Fresh
  <2> QED BY <2>1, <2>3, <2>4, <2>5, <2>6, <2>7 DEF Forward
<1>5. CASE ~tooLate /\ ~Blocked(t)
  <2>1. /\ pending_migrations' = pending_migrations \ {t}
        /\ changed' = TRUE
        /\ update_tasks' = update_tasks \cup {<<t, fails>>}
        /\ sq' = [sq EXCEPT
                    !.done = (@ \ {t}) \ undone,
                    !.buildable = IF ready THEN @ \cup {t} ELSE @ \ {t},
                    !.running = @ \ {t},
                    !.outrightfail = @ \ {t},
                    !.notcovered = @ \ {t},
                    !.covered = @ \ {t},
                    !.notneeded = @ \ {t},
                    !.stamps[t] = Stamp(t, "setscene", unihash[t])]
    BY <1>5, NeverSkipped DEF Migrate
  <2>2. SceneOK(sq) /\ L \in SUBSET Setscene
    BY DEF IInv, SceneOK, SceneType
  <2>3. /\ sq'.running = sq.running \ {t} /\ sq'.covered = sq.covered \ {t}
        /\ sq'.notcovered = sq.notcovered \ {t} /\ sq'.deferred = sq.deferred
        /\ sq'.live = sq.live /\ sq'.active = sq.active
        /\ sq'.holdoff_need_update = sq.holdoff_need_update
    BY <2>1, <2>2 DEF SceneOK, SceneType
  <2>4. /\ sq'.buildable = IF ready THEN sq.buildable \cup {t} ELSE sq.buildable \ {t}
        /\ sq'.done = (sq.done \ {t}) \ undone
    <3> HIDE DEF ready, undone
    <3> QED BY <2>1, <2>2 DEF SceneOK, SceneType
  <2>5. Reopened' = Reopened \cup {t}
    <3>1. <<t, fails>>[1] = t
      OBVIOUS
    <3> DEFINE u == <<t, fails>>
    <3>2. update_tasks' = update_tasks \cup {u} /\ u[1] = t
      BY <2>1, <3>1
    <3> HIDE DEF u
    <3> QED BY <3>2 DEF Reopened
  <2>6. Flagged \in SUBSET Setscene /\ Flagged' \in SUBSET Setscene /\ t \notin Flagged
        /\ Flagged \subseteq Reopened
    <3>1. Flagged \subseteq Reopened /\ Flagged' \subseteq Reopened'
      BY DEF Flagged, Reopened
    <3>2. Reopened \subseteq Setscene
      BY DEF IInv, HashOK, Reopened
    <3> QED BY <1>3, <2>5, <3>1, <3>2 DEF MigrateOK
  <2>7. Flagged' \ {t} = Flagged /\ (t \in Flagged' <=> fails)
    <3>1. fails \in BOOLEAN
      BY DEF HardDepFail
    <3> DEFINE u == <<t, fails>>
    <3>2. update_tasks' = update_tasks \cup {u} /\ u[1] = t /\ (u[2] <=> fails)
      BY <2>1, <3>1
    <3> HIDE DEF fails, u
    <3>3. \A x : x \in Flagged' <=> x \in Flagged \/ (x = t /\ fails)
      BY <3>2 DEF Flagged
    <3> QED BY <2>6, <3>3
  <2>8. Flagged \cap (sq.buildable \cup sq.running) = {}
    BY <2>6 DEF MigrateOK
  <2>9. \A c \in runq_complete : Depends[c] \subseteq runq_complete
    BY DEF IInv, QueueOK, DependencyOrder
  <2>10. runq_complete \in SUBSET Tasks
    BY DEF IInv, QueueOK
  <2>11. SceneInv(sq', sq'.live, Flagged') /\ Flagged' \cap sq'.buildable = {}
    <3>1. fails <=> \E h \in Setscene : t \in sq_harddeps[h] /\ h \in sq.notcovered
      BY DEF HardDepFail
    <3>2. t \in sq.notcovered \cup Undecided(sq) /\ t \notin L \cup Flagged
      BY <1>3, <1>5, <2>6
    <3> DEFINE fl == Flagged'
               r  == sq'
    <3>3. r.buildable \ {t} = sq.buildable \ {t} /\ (t \in r.buildable <=> ready)
      BY <2>4
    <3>4. r.done = (sq.done \ {t}) \ (sq_covered_tasks[t] \ (runq_complete \cup unskippable))
      BY <2>4
    <3>5. SceneInv(sq, L, Flagged) /\ fl \in SUBSET Setscene
          /\ fl \ {t} = Flagged /\ (t \in fl <=> fails)
      BY <2>6, <2>7
    <3>6. /\ r.running = sq.running \ {t} /\ r.notcovered = sq.notcovered \ {t}
          /\ r.covered = sq.covered \ {t} /\ r.deferred = sq.deferred
      BY <2>3
    <3>7. ready <=> \/ sq_revdeps[t] = {}
                    \/ ~fails /\ sq_revdeps[t] \subseteq Decided(sq)
      OBVIOUS
    <3> DEFINE b == ready
               f == fails
    <3>8. /\ f <=> \E h \in Setscene : t \in sq_harddeps[h] /\ h \in sq.notcovered
          /\ b <=> \/ sq_revdeps[t] = {}
                   \/ ~f /\ sq_revdeps[t] \subseteq Decided(sq)
          /\ t \in fl <=> f
          /\ t \in r.buildable <=> b
      BY <3>1, <3>3, <3>5, <3>7
    <3> HIDE DEF f, b, fl, r, L
    <3> HIDE DEF ready, fails, undone, tooLate
    <3> DEFINE Fl == Flagged
               C  == runq_complete
               s  == sq
    <3>9. /\ SceneOK(s) /\ L \in SUBSET Setscene /\ Fl \in SUBSET Setscene
          /\ SceneInv(s, L, Fl) /\ Fl \cap (s.buildable \cup s.running) = {}
          /\ C \in SUBSET Tasks /\ \A c \in C : Depends[c] \subseteq C
          /\ fl \in SUBSET Setscene
      BY <2>2, <2>6, <2>8, <2>9, <2>10, <3>5
    <3>10. /\ t \in fl <=> (\E h \in Setscene : t \in sq_harddeps[h] /\ h \in s.notcovered)
           /\ t \in r.buildable <=> (\/ sq_revdeps[t] = {}
                                     \/ t \notin fl /\ sq_revdeps[t] \subseteq Decided(s))
      BY <3>5, <3>8
    <3>11. Reopens(r, s, L, Fl, t, fl, C)
      BY <3>2, <3>3, <3>4, <3>5, <3>6, <3>10 DEF Reopens
    <3> HIDE DEF Fl, C, s
    <3>12. SceneInv(r, L, fl) /\ fl \cap r.buildable = {}
      BY <3>9, <3>11, ReopenInv
    <3> QED BY <2>3, <3>12 DEF r, fl, L
  <2>12. SceneCount'
    BY <2>3 DEF SceneCount
  <2>13. MigrateOK'
    BY <1>1, <2>1, <2>3, <2>5, <2>11 DEF MigrateOK
  <2>14. Undecided(sq') \subseteq Undecided(sq) \cup {t}
    BY <2>3 DEF Undecided, Decided
  <2>15. Quiet'
    <3>1. \A d \in {t} \cup sq_covered_tasks[t] : ~Unfinished(d)
      BY <1>5 DEF Blocked, Unfinished
    <3>2. \A d : Unfinished(d)' <=> Unfinished(d)
      BY <1>1 DEF Unfinished
    <3> QED BY <2>14, <3>1, <3>2 DEF Quiet
  <2>16. PendingOK'
    BY <1>1, <2>1, <2>3 DEF PendingOK, Decided
  <2>17. SkippedOK'
    <3>1. \A x : SkippedTooSoon(x)' <=> SkippedTooSoon(x)
      BY <1>1 DEF SkippedTooSoon
    <3> QED BY <1>3, <2>1, <2>3, <3>1 DEF SkippedOK
  <2>18. FreshOK'
    BY <1>1, <2>1 DEF FreshOK
  <2>19. Forward
    BY <2>5, <2>14 DEF Forward
  <2> QED BY <2>11, <2>12, <2>13, <2>15, <2>16, <2>17, <2>18, <2>19
<1> QED BY <1>4, <1>5

\* What was opened again is looked at again, and what was flagged fails.
LEMMA SInvUpdateMigrated ==
    ASSUME IInv, SInv, UpdateMigrated
    PROVE  SInv' /\ Forward
<1> USE DEF SInv
<1> DEFINE T == {u[1] : u \in update_tasks}
           bad == {u[1] : u \in {v \in update_tasks : v[2]}}
           index(t) == HashIndex(t, unihash[t])
           defer(t) == t \in T /\ index(t) \in DOMAIN HashOwner
                               /\ HashOwner[index(t)] # t
           newdef == [t \in Setscene |-> IF defer(t) THEN HashOwner[index(t)]
                                                     ELSE sq.deferred[t]]
           need == sq.holdoff_need_update \/ changed
           s1 == [sq EXCEPT !.deferred = newdef, !.holdoff_need_update = need]
           L == sq.live
<1>1. T = Reopened /\ bad = Flagged
  BY DEF Reopened, Flagged
<1>2. /\ SceneOK(sq) /\ L \in SUBSET Setscene /\ L \subseteq sq.running
      /\ T \in SUBSET Setscene /\ bad \in SUBSET Setscene /\ bad \subseteq T
      /\ phase = "pending" /\ phase' = "scene" /\ todo = {}
      /\ T \cap (sq.running \cup pending_migrations) = {}
  BY <1>1 DEF IInv, HashOK, SceneOK, SceneType, UpdateMigrated, Goto, MigrateOK
<1>3. PICK V \in SUBSET ToCheck(stampfiles, T) :
              sq' = FailOutright(UpdateSceneData(stampfiles, s1, T, V), bad)
  BY DEF UpdateMigrated
<1>4. V \in SUBSET T
  BY DEF ToCheck
<1>5. SceneOK(s1)
  <2>1. newdef \in [Setscene -> Setscene \cup {NoTask}]
    <3>1. \A t \in Setscene : sq.deferred[t] \in Setscene \cup {NoTask}
      BY <1>2 DEF SceneOK, SceneType
    <3> QED BY <3>1, HashOwnerType
  <2>2. need \in BOOLEAN
    OBVIOUS
  <2> HIDE DEF newdef, need
  <2> QED BY <1>2, <2>1, <2>2 DEF SceneOK, SceneType
<1>6. \A t \in L : newdef[t] = NoTask
  BY <1>2 DEF SceneInv, Marked
<1>7. /\ s1.running = sq.running /\ s1.buildable = sq.buildable /\ s1.covered = sq.covered
      /\ s1.notcovered = sq.notcovered /\ s1.done = sq.done /\ s1.live = sq.live
      /\ s1.active = sq.active /\ s1.deferred = newdef /\ s1.holdoff_need_update = need
  <2> HIDE DEF newdef, need
  <2> QED BY <1>2 DEF SceneOK, SceneType
<1> HIDE DEF s1, newdef, T, bad
<1>8. SceneInv(s1, L, bad)
  BY <1>1, <1>6, <1>7, SameInv
<1> DEFINE r1 == UpdateSceneData(stampfiles, s1, T, V)
<1>9. T \cap L = {}
  BY <1>2
<1>10. /\ SceneInv(r1, L, bad) /\ Grows(r1, s1) /\ Decided(s1) \subseteq Decided(r1)
      /\ SceneOK(r1) /\ SameWork(r1, s1)
  <2> HIDE DEF L
  <2>1. SceneInv(r1, L, bad) /\ Grows(r1, s1) /\ Decided(s1) \subseteq Decided(r1)
    BY <1>2, <1>4, <1>5, <1>8, <1>9, UpdateInv
  <2>2. SceneOK(r1) /\ SameWork(r1, s1)
    BY <1>2, <1>4, <1>5, UpdateSceneDataOK
  <2> QED BY <2>1, <2>2
<1> HIDE DEF r1
<1>11. Decided(s1) \cap bad = {}
  <2>1. Decided(s1) \subseteq s1.running
    BY <1>8 DEF SceneInv, Marked
  <2> QED BY <1>2, <1>7, <2>1
<1>12. \A y \in L : SetsceneDepends[y] \subseteq Decided(r1) \ bad
  <2>1. \A y \in L : SetsceneDepends[y] \subseteq Decided(s1)
    BY <1>8 DEF SceneInv, HardOK
  <2> QED BY <1>10, <1>11, <2>1
<1>13. /\ SceneInv(sq', L \ bad, bad) /\ Grows(sq', r1) /\ bad \subseteq Decided(sq')
       /\ SameWork(sq', r1)
  BY <1>2, <1>3, <1>10, <1>12, FailInv, FailOutrightOK DEF r1
<1>14. sq'.live = sq.live /\ sq'.active = sq.active
  BY <1>7, <1>10, <1>13 DEF SameWork
<1>15. L \ bad = L
  BY <1>2
<1>16. SceneInv(sq', sq'.live, {})
  BY <1>13, <1>14, <1>15, FlagsDone
<1>17. Grows(sq', s1)
  BY <1>10, <1>13, GrowsTransitive
<1>18. /\ sq.covered \subseteq sq'.covered /\ sq.notcovered \subseteq sq'.notcovered
       /\ Undecided(sq') \subseteq Undecided(sq)
  BY <1>7, <1>17 DEF Grows, Undecided, Decided
<1>19. /\ UNCHANGED <<runq_buildable, runq_running, runq_complete, runq_tasksrun, tasks_covered,
                      tasks_notcovered, holdoff_tasks, pending_migrations, todo>>
       /\ update_tasks' = {}
  BY DEF UpdateMigrated, runqVars, coverVars
<1>20. Flagged' = {} /\ Reopened' = {}
  BY <1>19 DEF Flagged, Reopened
<1>21. SceneCount' /\ MigrateOK'
  BY <1>2, <1>14, <1>19, <1>20 DEF SceneCount, MigrateOK
<1>22. Quiet'
  BY <1>18, <1>19 DEF Quiet, Unfinished
<1>23. PendingOK'
  BY <1>2, <1>18, <1>19 DEF PendingOK
<1>24. SkippedOK'
  BY <1>18, <1>19 DEF SkippedOK, SkippedTooSoon
<1>25. FreshOK'
  <2>1. CASE need
    <3>1. sq'.holdoff_need_update
      BY <1>7, <1>17, <2>1 DEF Grows
    <3> QED BY <1>2, <3>1 DEF FreshOK
  <2>2. CASE ~need /\ sq'.holdoff_need_update
    BY <1>2, <2>2 DEF FreshOK
  <2>3. CASE ~need /\ ~sq'.holdoff_need_update
    <3>1. Fresh
      BY <2>3 DEF FreshOK
    <3>2. sq'.covered = sq.covered /\ sq'.notcovered = sq.notcovered /\ sq'.done = sq.done
      BY <1>7, <1>17, <2>3 DEF Grows
    <3>3. Covered(sq') = Covered(sq) /\ NotCovered(sq') = NotCovered(sq)
          /\ Undecided(sq') = Undecided(sq)
      BY <3>2 DEF Covered, NotCovered, Undecided, Decided
    <3>4. Held(sq', runq_complete) = Held(sq, runq_complete)
      BY <3>3 DEF Held
    <3>5. Fresh'
      BY <1>19, <3>1, <3>3, <3>4 DEF Fresh
    <3> QED BY <1>2, <3>5 DEF FreshOK
  <2> QED BY <2>1, <2>2, <2>3
<1> QED BY <1>16, <1>18, <1>20, <1>21, <1>22, <1>23, <1>24, <1>25 DEF Forward

\* The scene queue as the build begins.
LEMMA InitSInv == ASSUME Init PROVE SInv
<1> DEFINE T == Setscene
<1>1. PICK V \in SUBSET ToCheck(stampfiles, T) : sq = UpdateSceneData(stampfiles, InitScene, T, V)
  BY DEF Init
<1>2. V \in SUBSET T /\ T \in SUBSET Setscene
  BY DEF ToCheck
<1> HIDE DEF T
<1>3. /\ SceneInv(sq, {}, {}) /\ Grows(sq, InitScene) /\ SameWork(sq, InitScene)
  BY <1>1, <1>2, InitSceneOK, InitSceneInv, UpdateInv, UpdateSceneDataOK
<1>4. InitScene.live = {} /\ InitScene.active = 0 /\ InitScene.holdoff_need_update = TRUE
  BY DEF InitScene
<1>5. sq.live = {} /\ sq.active = 0 /\ sq.holdoff_need_update
  BY <1>3, <1>4 DEF SameWork, Grows
<1>6. /\ phase = "call" /\ runq_running = {} /\ runq_complete = {} /\ update_tasks = {}
      /\ pending_migrations = {} /\ todo = {}
  BY DEF Init
<1>7. Flagged = {} /\ Reopened = {}
  BY <1>6 DEF Flagged, Reopened
<1>8. SceneCount
  BY <1>5, FS_EmptySet DEF SceneCount
<1>9. MigrateOK /\ Quiet /\ PendingOK /\ SkippedOK /\ FreshOK
  BY <1>5, <1>6, <1>7 DEF MigrateOK, Quiet, PendingOK, SkippedOK, SkippedTooSoon, FreshOK,
                          Unfinished
<1> QED BY <1>3, <1>5, <1>7, <1>8, <1>9 DEF SInv

\* Every step keeps the invariant, and opens only what a migration opens.
LEMMA StepSInv == IInv /\ SInv /\ [Next]_vars => SInv' /\ Forward
<1> SUFFICES ASSUME IInv, SInv, [Next]_vars
             PROVE  SInv' /\ Forward
  OBVIOUS
<1>1. CASE \/ \E stop \in 0..2 : Call(stop)
           \/ ReadDone \/ AfterExecute \/ TornDown \/ Raised \/ WorkerDies \/ NoticedAgain
           \/ \E action \in {1, 2} : DiskFull(action)
           \/ NoScene \/ SceneDone \/ NoTaskNow \/ WaitForActive \/ Finished
           \/ \E t \in Tasks : TaskNotAllowed(t) \/ TaskRaises(t) \/ TaskExitFails(t)
           \/ \E t \in Tasks, h \in Hashes : TaskRehash(t, h)
           \/ UNCHANGED vars
  BY <1>1, SInvStill
<1>2. CASE Rehash \/ UpdateMigrated \/ (\E t \in Setscene : Migrate(t)) \/ UpdateHoldoff
  BY <1>2, SInvRehash, SInvUpdateMigrated, SInvMigrate, SInvHoldoff
<1>3. CASE \E t \in Setscene, ok \in BOOLEAN : SceneExit(t, ok)
  BY <1>3, SInvSceneExit
<1>4. CASE \E t \in Setscene :
              \/ SceneNotNeeded(t) \/ SceneFails(t) \/ SceneCurrent(t) \/ SceneRaises(t)
              \/ BreakDeferral(t) \/ SceneStart(t)
  BY <1>4, SInvSceneMoves, SInvSceneStart
<1>5. CASE \E t \in Tasks : TaskStart(t) \/ TaskSkip(t) \/ TaskNoExec(t) \/ TaskExit(t)
  BY <1>5, SInvTask
<1>6. CASE Call(interrupted) \/ (\E stop \in {1, 2} : Call(stop))
  <2>1. interrupted \in 0..2
    BY DEF IInv, FlowOK, FlagsOK
  <2>2. \E stop \in 0..2 : Call(stop)
    BY <1>6, <2>1
  <2> QED BY <2>2, SInvStill
<1> QED BY <1>1, <1>2, <1>3, <1>4, <1>5, <1>6 DEF Next, Server, Terminated

\* The scene queue's invariant.
LEMMA SInvariance == Spec => [](IInv /\ SInv)
<1>1. Init => IInv /\ SInv
  BY InitIInv, InitSInv
<1>2. (IInv /\ SInv) /\ [Next]_vars => (IInv /\ SInv)'
  BY StepIInv, StepSInv
<1> QED BY <1>1, <1>2, PTL DEF Spec

\* While the setscene variant of s unpacks its output no task it stands for is
\* in a worker's hands, whatever hashes change and decisions are opened again.
THEOREM IsolationTheorem == Spec => []Isolation
<1>1. IInv /\ SInv => Isolation
  <2> SUFFICES ASSUME IInv, SInv, NEW s \in sq.live,
                      NEW d \in live, d \in {s} \cup sq_covered_tasks[s]
               PROVE  FALSE
    BY DEF Isolation
  <2>1. s \in Undecided(sq)
    BY DEF SInv, SceneInv, Marked, Undecided, IInv, SceneOK, SceneType
  <2>2. Unfinished(d)
    BY DEF IInv, QueueOK, Unfinished
  <2> QED BY <2>1, <2>2 DEF SInv, Quiet
<1> QED BY <1>1, SInvariance, PTL

\* A new unihash never asks for a task that has been skipped to run after all.
THEOREM NeverTooLateTheorem == Spec => []NeverTooLate
<1>1. IInv /\ SInv => NeverTooLate
  <2> SUFFICES ASSUME IInv, SInv, NEW t \in todo, SkippedTooSoon(t)
               PROVE  FALSE
    BY DEF NeverTooLate
  <2>1. t \in pending_migrations /\ t \in Setscene
    BY DEF IInv, HashOK
  <2> QED BY <2>1 DEF SInv, SkippedOK
<1> QED BY <1>1, SInvariance, PTL

-----------------------------------------------------------------------------
(* The end of the queues.  A build in which nothing can be started any more *)
(* is at its end: this takes graphs without a cycle.                        *)

\* The task graph, which prepare() refuses when a dependency is circular: going up
\* from task to task, and going down, one comes to an end.
Acyclic ==
    \A S \in SUBSET Tasks : S # {} =>
        /\ \E t \in S : Revdeps(t) \cap S = {}
        /\ \E t \in S : Depends[t] \cap S = {}

\* The order in which the scene queue looks at its tasks.
SceneAcyclic ==
    \A S \in SUBSET Setscene : S # {} => \E t \in S : sq_revdeps[t] \cap S = {}

\* No setscene variant that others depend on explicitly depends on one itself, as
\* in the metadata: the variants depend on tools that unpack or prepare output.
OneLayer == \A h \in Setscene : sq_harddeps[h] # {} => SetsceneDepends[h] = {}

\* The order of the scene queue has no cycle where the task graph has none and
\* explicit dependencies are one layer deep.
THEOREM SceneAcyclicTheorem ==
    ASSUME Acyclic, OneLayer
    PROVE  SceneAcyclic
<1> SUFFICES ASSUME NEW S \in SUBSET Setscene, S # {}
             PROVE  \E t \in S : sq_revdeps[t] \cap S = {}
  BY DEF SceneAcyclic
<1>1. CASE \E h \in S : sq_harddeps[h] # {}
  <2>1. PICK h \in S : sq_harddeps[h] # {}
    BY <1>1
  <2>2. sq_revdeps[h] = {}
    BY <2>1 DEF sq_revdeps, OneLayer
  <2> QED BY <2>1, <2>2
<1>2. CASE \A h \in S : sq_harddeps[h] = {}
  <2> DEFINE X == S \cup (UNION {sq_covered_tasks[r] : r \in S})
  <2>1. X \in SUBSET Tasks /\ X # {}
    BY CoveredTasks
  <2>2. PICK t \in X : Revdeps(t) \cap X = {}
    BY <2>1 DEF Acyclic
  <2>3. t \in S
    <3> SUFFICES ASSUME NEW r \in S, t \in sq_covered_tasks[r]
                 PROVE  FALSE
      OBVIOUS
    <3>1. \E e \in Revdeps(t) : e = r \/ e \in sq_covered_tasks[r]
      BY CoveredBy
    <3> QED BY <2>2, <3>1
  <2>4. Squash(t) \cap S = {}
    <3> SUFFICES ASSUME NEW r \in Squash(t), r \in S
                 PROVE  FALSE
      OBVIOUS
    <3>1. r \in Revdeps(t) \/ \E n \in sq_covered_tasks[r] : n \in Revdeps(t)
      BY CoveredTasks DEF Squash, Revdeps
    <3> QED BY <2>2, <3>1
  <2>5. SetsceneDepends[t] \cap S = {}
    <3> SUFFICES ASSUME NEW h \in S, h \in SetsceneDepends[t]
                 PROVE  FALSE
      OBVIOUS
    <3>1. t \in sq_harddeps[h]
      BY <2>3 DEF sq_harddeps
    <3> QED BY <1>2, <3>1
  <2>6. sq_revdeps[t] \subseteq SetsceneDepends[t] \cup Squash(t)
    BY <2>3 DEF sq_revdeps
  <2> QED BY <2>3, <2>4, <2>5, <2>6
<1> QED BY <1>1, <1>2

\* When all setscene tasks are decided the walk down has come to every task.
LEMMA AllDone ==
    ASSUME Acyclic, NEW s, DoneOK(s), Undecided(s) = {}
    PROVE  Tasks \subseteq s.done
<1> SUFFICES ASSUME Tasks \ s.done # {}
             PROVE  FALSE
  OBVIOUS
<1> DEFINE S == Tasks \ s.done
<1>1. PICK d \in S : Revdeps(d) \cap S = {}
  BY DEF Acyclic
<1>2. d \in Tasks \ Setscene /\ Revdeps(d) \subseteq s.done
  BY <1>1 DEF Undecided, DoneOK, Revdeps
<1>3. CASE Revdeps(d) = {}
  BY <1>1, <1>2, <1>3, UnskippableClosed DEF DoneOK
<1>4. CASE Revdeps(d) # {}
  BY <1>1, <1>2, <1>4 DEF DoneOK, DoneClosed
<1> QED BY <1>3, <1>4

\* And then every task is covered, or is not.
LEMMA AllPlaced ==
    ASSUME Acyclic, NEW s, SceneOK(s), DoneOK(s), Undecided(s) = {}
    PROVE  Tasks \subseteq Covered(s) \cup NotCovered(s)
<1> DEFINE V == UNION {sq_covered_tasks[t] : t \in Setscene}
           S == Tasks \ (Setscene \cup unskippable \cup V)
<1>1. Tasks \subseteq s.done
  BY AllDone
<1>2. S = {}
  <2> SUFFICES ASSUME S # {}
               PROVE  FALSE
    OBVIOUS
  <2>1. PICK d \in S : Revdeps(d) \cap S = {}
    BY DEF Acyclic
  <2>2. PICK e \in Revdeps(d) : TRUE
    BY <2>1, UnskippableClosed
  <2>3. e \in Tasks /\ e \notin S
    BY <2>1, <2>2 DEF Revdeps
  <2>4. CASE e \in Setscene
    <3>1. d \in sq_covered_tasks[e]
      BY <2>1, <2>2, <2>4, CoveredClosed
    <3> QED BY <2>1, <2>4, <3>1
  <2>5. CASE e \in unskippable \ Setscene
    BY <2>1, <2>2, <2>5, UnskippableClosed
  <2>6. CASE e \in V
    <3>1. PICK t \in Setscene : e \in sq_covered_tasks[t]
      BY <2>6
    <3>2. d \in sq_covered_tasks[t]
      BY <2>1, <2>2, <3>1, CoveredClosed
    <3> QED BY <2>1, <3>2
  <2> QED BY <2>3, <2>4, <2>5, <2>6
<1> HIDE DEF S
<1>3. Setscene \subseteq s.covered \cup s.notcovered
  BY DEF Undecided, Decided
<1>4. ASSUME NEW t \in Tasks, t \notin NotCovered(s)
      PROVE  t \in Covered(s)
  <2>1. t \in s.done /\ t \notin s.notcovered
    BY <1>1, <1>4 DEF NotCovered
  <2>2. CASE t \in Setscene
    BY <1>3, <1>4, <2>1, <2>2 DEF Covered
  <2>3. CASE t \notin Setscene
    <3>1. t \notin unskippable
      BY <1>4, <2>1, <2>3 DEF NotCovered
    <3>2. PICK u \in Setscene : t \in sq_covered_tasks[u]
      BY <1>2, <2>3, <3>1 DEF S
    <3>3. u \notin s.notcovered
      BY <1>4, <2>1, <3>2 DEF NotCovered
    <3> QED BY <1>3, <1>4, <2>1, <3>2, <3>3 DEF Covered
  <2> QED BY <2>2, <2>3
<1> QED BY <1>4

\* summarise_scenequeue_errors() then finds nothing to complain about.
LEMMA NoErrors ==
    ASSUME Acyclic, IInv, SInv, Fresh, Undecided(sq) = {}
    PROVE  /\ holdoff_tasks = {} /\ Tasks \subseteq tasks_covered \cup tasks_notcovered
           /\ \A t \in Tasks : Depends[t] \subseteq runq_complete => t \in runq_buildable
           /\ NothingDeferred /\ updated_taskhash_queue = {} => ~SceneErrors
<1>1. SceneOK(sq) /\ DoneOK(sq) /\ Marked(sq, sq.live)
  BY DEF IInv, SInv, SceneInv
<1>2. holdoff_tasks = {} /\ Tasks \subseteq tasks_covered \cup tasks_notcovered
  BY <1>1, AllPlaced DEF Fresh
<1>3. \A t \in Tasks : Depends[t] \subseteq runq_complete => t \in runq_buildable
  BY <1>2 DEF Fresh
<1>4. Tasks \subseteq sq.done
  BY <1>1, AllDone
<1>5. Setscene \subseteq Decided(sq) \cap sq.buildable \cap sq.running
  BY <1>1 DEF Undecided, Marked
<1>6. \A t \in Tasks : Depends[t] = {} => t \in runq_buildable
  BY <1>3
<1> QED BY <1>2, <1>3, <1>4, <1>5, <1>6 DEF SceneErrors

\* When nothing is held back nothing is undecided.
LEMMA HeldBack ==
    ASSUME Fresh
    PROVE  Undecided(sq) = {} <=> holdoff_tasks = {}
BY DEF Fresh, Held

-----------------------------------------------------------------------------
(* What is in the workers' hands *)

\* A task that was started and is not complete is in a worker's hands or has failed;
\* as long as none has failed stats.active counts the former; who holds a stamp is
\* in a worker's hands.
HandsInv ==
    /\ \A t \in runq_running \ runq_complete : t \in live \cup failed_tids
    /\ IsFiniteSet(live)
    /\ failed_tids = {} => active = Cardinality(live)
    /\ \A b \in build_stamps : b[1] \in live \cup sq.live
    /\ SetsceneOnly => runq_running = {}

\* A migration leaves the workers' hands alone.
LEMMA MigrateHands ==
    ASSUME IInv, SInv, NEW t \in Setscene, Migrate(t)
    PROVE  /\ UNCHANGED <<runqVars, state, outside, sqdone, coverVars, updated_taskhash_queue>>
           /\ sq'.live = sq.live /\ build_stamps' \subseteq build_stamps
           /\ update_tasks \subseteq update_tasks'
           /\ phase = "pending" /\ phase' = "pending"
<1>1. ~SkippedTooSoon(t)
  BY NeverSkipped
<1>2. /\ UNCHANGED <<runqVars, state, outside, sqdone, coverVars, updated_taskhash_queue>>
      /\ build_stamps' \subseteq build_stamps /\ update_tasks \subseteq update_tasks'
      /\ phase = "pending" /\ phase' = "pending"
  BY <1>1 DEF Migrate, runqVars, Goto
<1>3. \/ sq' = sq
      \/ \E U, B : sq' = [sq EXCEPT
                        !.done = (@ \ {t}) \ U,
                        !.buildable = B,
                        !.running = @ \ {t},
                        !.outrightfail = @ \ {t},
                        !.notcovered = @ \ {t},
                        !.covered = @ \ {t},
                        !.notneeded = @ \ {t},
                        !.stamps[t] = Stamp(t, "setscene", unihash[t])]
  <2>1. CASE t \in runq_running \cup sq.live \/ Blocked(t)
    BY <1>1, <2>1 DEF Migrate
  <2>2. CASE ~(t \in runq_running \cup sq.live \/ Blocked(t))
    BY <1>1, <2>2 DEF Migrate
  <2> QED BY <2>1, <2>2
<1>4. sq'.live = sq.live
  BY <1>3 DEF IInv, SceneOK, SceneType
<1> QED BY <1>2, <1>4

\* What neither starts nor ends a task leaves them alone as well.
LEMMA OtherHands ==
    ASSUME IInv, SInv, [Next]_vars,
           ~ \E t \in Tasks : \/ TaskStart(t) \/ TaskSkip(t) \/ TaskNoExec(t)
                             \/ TaskNotAllowed(t) \/ TaskExit(t) \/ TaskExitFails(t),
           ~ \E t \in Setscene : SceneStart(t) \/ SceneExit(t, TRUE) \/ SceneExit(t, FALSE)
    PROVE  /\ UNCHANGED <<runq_running, runq_complete, failed_tids, active, live>>
           /\ sq'.live = sq.live /\ build_stamps' \subseteq build_stamps
<1> DEFINE Goal == /\ UNCHANGED <<runq_running, runq_complete, failed_tids, active, live>>
                   /\ sq'.live = sq.live /\ build_stamps' \subseteq build_stamps
<1>1. ASSUME NEW t \in Setscene, Migrate(t)
      PROVE  Goal
  BY <1>1, MigrateHands DEF runqVars
<1>2. ASSUME UpdateMigrated
      PROVE  Goal
  BY <1>2, UpdateMigratedOK DEF UpdateMigrated, SameWork, runqVars
<1>3. ASSUME NEW t \in Setscene,
             \/ SceneNotNeeded(t) \/ SceneFails(t) \/ SceneCurrent(t) \/ SceneRaises(t)
             \/ BreakDeferral(t)
      PROVE  Goal
  <2>1. SameWork(sq', sq)
    BY <1>3, SceneMovesOK DEF IInv
  <2> QED BY <1>3, <2>1 DEF SceneNotNeeded, SceneFails, SceneCurrent, SceneRaises,
                            BreakDeferral, stampVars, SameWork, runqVars
<1>4. ASSUME UpdateHoldoff
      PROVE  Goal
  BY <1>4 DEF UpdateHoldoff, IInv, SceneOK, SceneType, runqVars, stampVars
<1>5. ASSUME \/ ReadDone \/ AfterExecute \/ TornDown \/ Rehash \/ NoScene \/ SceneDone
             \/ NoTaskNow \/ WaitForActive \/ Finished \/ UNCHANGED vars
             \/ Raised \/ WorkerDies \/ NoticedAgain
             \/ \E action \in {1, 2} : DiskFull(action)
             \/ \E stop : Call(stop)
             \/ \E t \in Tasks, h \in Hashes : TaskRehash(t, h)
             \/ \E t \in Tasks : TaskRaises(t)
      PROVE  Goal
  BY <1>5 DEF ReadDone, AfterExecute, TornDown, Rehash, NoScene, SceneDone, NoTaskNow,
              WaitForActive, Finished, Raised, WorkerDies, NoticedAgain, DiskFull, Call,
              TaskRehash, TaskRaises, runqVars, stampVars, vars
<1>6. CASE Server
  <2> HIDE DEF Goal
  <2>1. Goal
    BY <1>1, <1>2, <1>3, <1>4, <1>5, <1>6 DEF Server
  <2> QED BY <2>1 DEF Goal
<1>7. CASE \E t \in Setscene, ok \in BOOLEAN : SceneExit(t, ok)
  BY <1>7
<1> QED BY <1>5, <1>6, <1>7 DEF Next, Terminated

\* Every step keeps the two records of what is in the workers' hands together.
LEMMA StepHands == IInv /\ SInv /\ HandsInv /\ [Next]_vars => HandsInv'
<1> SUFFICES ASSUME IInv, SInv, HandsInv, [Next]_vars
             PROVE  HandsInv'
  OBVIOUS
<1> USE DEF HandsInv
<1>1. live \cup runq_complete \subseteq runq_running /\ live \cap runq_complete = {}
  BY DEF IInv, QueueOK
<1>2. ASSUME NEW t \in Tasks, TaskStart(t)
      PROVE  HandsInv'
  <2>1. /\ live' = live \cup {t} /\ active' = active + 1
        /\ runq_running' = runq_running \cup {t}
        /\ UNCHANGED <<sq, runq_complete, failed_tids>> /\ ~SetsceneOnly
        /\ build_stamps' = build_stamps \cup {<<t, Stamp(t, "task", unihash[t])>>}
    BY <1>2 DEF TaskStart, Runs, Next_task
  <2>2. t \notin live
    BY <1>1, <1>2 DEF TaskStart, Runs, Next_task, BuildableNow
  <2>3. IsFiniteSet(live') /\ Cardinality(live') = Cardinality(live) + 1
    BY <2>1, <2>2, FS_AddElement
  <2>4. \A b \in build_stamps' : b \in build_stamps \/ b[1] = t
    BY <2>1
  <2> QED BY <2>1, <2>3, <2>4
<1>3. ASSUME NEW t \in Tasks, TaskSkip(t) \/ TaskNoExec(t) \/ TaskExit(t)
      PROVE  HandsInv'
  <2>1. PICK B \in SUBSET Tasks : \E files : TaskCompleteOutright(t, B, files)
    <3>1. runq_buildable \cup {t} \in SUBSET Tasks /\ runq_buildable \in SUBSET Tasks
      BY DEF IInv, QueueOK
    <3> QED BY <1>3, <3>1 DEF TaskSkip, TaskNoExec, TaskExit
  <2>2. PICK files : TaskCompleteOutright(t, B, files)
    BY <2>1
  <2>3. sq'.live = sq.live /\ runq_complete' = runq_complete \cup {t}
    BY <2>2, TaskCompleteOutrightInv DEF SInv, SameWork, TaskCompleteOutright
  <2>4. CASE TaskExit(t)
    <3>1. /\ t \in live /\ live' = live \ {t} /\ active' = active - 1
          /\ UNCHANGED <<runq_running, failed_tids>>
          /\ build_stamps' = {b \in build_stamps : b[1] # t}
      BY <2>4 DEF TaskExit
    <3>2. IsFiniteSet(live') /\ Cardinality(live') = Cardinality(live) - 1
      BY <3>1, FS_RemoveElement
    <3> QED BY <1>1, <2>3, <3>1, <3>2
  <2>5. CASE TaskSkip(t) \/ TaskNoExec(t)
    <3>1. /\ UNCHANGED <<live, active, failed_tids, build_stamps>> /\ ~SetsceneOnly
          /\ runq_running' = runq_running \cup {t}
      BY <2>5 DEF TaskSkip, TaskNoExec, Runs, Next_task
    <3> QED BY <2>3, <3>1
  <2> QED BY <1>3, <2>4, <2>5
<1>4. ASSUME NEW t \in Tasks, TaskNotAllowed(t)
      PROVE  HandsInv'
  <2>1. /\ failed_tids' = failed_tids \cup {t}
        /\ UNCHANGED <<sq, live, runq_running, runq_complete, build_stamps>>
    BY <1>4 DEF TaskNotAllowed, TaskFail, stampVars
  <2> QED BY <2>1
<1>5. ASSUME NEW t \in Tasks, TaskExitFails(t)
      PROVE  HandsInv'
  <2>1. /\ live' = live \ {t} /\ failed_tids' = failed_tids \cup {t}
        /\ UNCHANGED <<sq, runq_running, runq_complete>>
        /\ build_stamps' = {b \in build_stamps : b[1] # t}
    BY <1>5 DEF TaskExitFails, TaskFail
  <2>2. IsFiniteSet(live')
    BY <2>1, FS_RemoveElement
  <2> QED BY <2>1, <2>2
<1>6. ASSUME NEW t \in Setscene, SceneStart(t)
      PROVE  HandsInv'
  <2>1. /\ sq'.live = sq.live \cup {t} /\ UNCHANGED runqVars
        /\ build_stamps' = build_stamps \cup {<<t, Stamp(t, "setscene", unihash[t])>>}
    BY <1>6 DEF SceneStart, IInv, SceneOK, SceneType
  <2>2. \A b \in build_stamps' : b \in build_stamps \/ b[1] = t
    BY <2>1
  <2> QED BY <2>1, <2>2 DEF runqVars
<1>7. ASSUME NEW t \in Setscene, NEW ok \in BOOLEAN, SceneExit(t, ok)
      PROVE  HandsInv'
  <2> DEFINE s == IF ok THEN CompleteOutright(sq, t) ELSE FailOutright(sq, {t})
  <2>1. SceneOK(s) /\ SameWork(s, sq)
    BY CompleteOutrightOK, FailOutrightOK DEF IInv
  <2>2. sq' = [s EXCEPT !.active = @ - 1, !.live = @ \ {t}]
    BY <1>7 DEF SceneExit
  <2> HIDE DEF s
  <2>3. sq'.live = sq.live \ {t}
    BY <2>1, <2>2 DEF SceneOK, SceneType, SameWork
  <2>4. UNCHANGED runqVars /\ build_stamps' = {b \in build_stamps : b[1] # t}
    BY <1>7 DEF SceneExit
  <2> QED BY <2>3, <2>4 DEF runqVars
<1>8. CASE /\ UNCHANGED <<runq_running, runq_complete, failed_tids, active, live>>
           /\ sq'.live = sq.live /\ build_stamps' \subseteq build_stamps
  BY <1>8
<1> HIDE DEF HandsInv
<1> QED BY <1>2, <1>3, <1>4, <1>5, <1>6, <1>7, <1>8, OtherHands

-----------------------------------------------------------------------------
(* The stages of a call, and when the scene queue is over *)

\* A report that is still queued is of a task that has not ended.
QueueFin ==
    phase \in {"pending", "scene", "holdoff", "scenedone", "sched", "idle"} =>
        \A e \in updated_taskhash_queue : Unfinished(e[1])

\* A call that gets to the ordinary tasks has found no setscene task to start, or has
\* started one; one that gets to the end has found no ordinary task either.
StuckScene ==
    phase \in {"holdoff", "scenedone", "sched", "idle"} =>
        sq.live # {} \/ \A t \in Setscene : ~Next_setscene(t)

StuckTasks ==
    phase = "idle" => (\A t \in Tasks : ~Next_task(t)) \/ (Pressure /\ active # 0)

\* The scene queue counts as done only while all is decided but what was opened again;
\* and it does not stay open when there is nothing left to wait for.
SceneDoneOK ==
    /\ sqdone => Undecided(sq) \subseteq Reopened
    /\ SetsceneOnly /\ sqdone => Setscene = {}
    /\ phase \in {"sched", "idle"} => ~SceneOver

StageInv == QueueFin /\ StuckScene /\ StuckTasks /\ SceneDoneOK

\* The steps that lead from stage to stage.
LEMMA StageSteps ==
    ASSUME IInv, SInv, [Next]_vars,
           phase' \in {"pending", "scene", "holdoff", "scenedone", "sched", "idle"}
    PROVE  \/ ReadDone \/ Rehash \/ (\E t \in Setscene : Migrate(t)) \/ UpdateMigrated
           \/ NoScene \/ (\E t \in Setscene : SceneStart(t)) \/ UpdateHoldoff \/ SceneDone
           \/ NoTaskNow
           \/ phase' = phase
              /\ UNCHANGED <<runqVars, sq, sqdone, coverVars, hashVars, stampVars>>
<1> DEFINE Goal == \/ ReadDone \/ Rehash \/ (\E t \in Setscene : Migrate(t)) \/ UpdateMigrated
                   \/ NoScene \/ (\E t \in Setscene : SceneStart(t)) \/ UpdateHoldoff
                   \/ SceneDone \/ NoTaskNow
                   \/ phase' = phase
                      /\ UNCHANGED <<runqVars, sq, sqdone, coverVars, hashVars, stampVars>>
<1>1. ~ \/ Call(interrupted) \/ (\E stop \in {1, 2} : Call(stop))
        \/ AfterExecute \/ TornDown \/ Raised \/ WaitForActive \/ Finished
  BY DEF Call, AfterExecute, TornDown, Raised, WaitForActive, Finished, Goto, Return
<1>2. ~ \E t \in Setscene : \/ SceneNotNeeded(t) \/ SceneFails(t) \/ SceneCurrent(t)
                            \/ SceneRaises(t) \/ BreakDeferral(t)
  BY DEF SceneNotNeeded, SceneFails, SceneCurrent, SceneRaises, BreakDeferral, Goto, Return
<1>3. ~ \E t \in Tasks : \/ TaskNotAllowed(t) \/ TaskSkip(t) \/ TaskNoExec(t) \/ TaskStart(t)
                         \/ TaskRaises(t)
  BY DEF TaskNotAllowed, TaskSkip, TaskNoExec, TaskStart, TaskRaises, Goto, Return
<1>4. ~ \/ \E t \in Setscene, ok \in BOOLEAN : SceneExit(t, ok)
        \/ \E t \in Tasks : TaskExit(t) \/ TaskExitFails(t)
        \/ \E t \in Tasks, h \in Hashes : TaskRehash(t, h)
        \/ NoticedAgain \/ \E action \in {1, 2} : DiskFull(action)
  BY DEF SceneExit, TaskExit, TaskExitFails, TaskRehash, NoticedAgain, DiskFull, Reading
<1>5. CASE WorkerDies \/ UNCHANGED vars
  BY <1>5 DEF WorkerDies, vars
<1>6. CASE Server
  <2> HIDE DEF Goal
  <2>1. Server => Goal
    <3> QED BY <1>1, <1>2, <1>3 DEF Server, Goal
  <2> QED BY <1>6, <2>1 DEF Goal
<1> QED BY <1>1, <1>4, <1>5, <1>6 DEF Next, Terminated

\* None of these ends a task.
LEMMA StageWork ==
    ASSUME IInv, SInv,
           \/ ReadDone \/ Rehash \/ (\E t \in Setscene : Migrate(t)) \/ UpdateMigrated
           \/ NoScene \/ (\E t \in Setscene : SceneStart(t)) \/ UpdateHoldoff \/ SceneDone
           \/ NoTaskNow
    PROVE  UNCHANGED <<runq_running, runq_complete>>
<1>1. ASSUME NEW t \in Setscene, Migrate(t)
      PROVE  UNCHANGED <<runq_running, runq_complete>>
  BY <1>1, MigrateHands DEF runqVars
<1> QED BY <1>1 DEF ReadDone, Rehash, UpdateMigrated, NoScene, SceneStart, UpdateHoldoff,
                   SceneDone, NoTaskNow, runqVars

\* Every step keeps a queued report one of a task that has not ended.
LEMMA StepQueueFin == IInv /\ SInv /\ QueueFin /\ [Next]_vars => QueueFin'
<1> SUFFICES ASSUME IInv, SInv, QueueFin, [Next]_vars,
                    phase' \in {"pending", "scene", "holdoff", "scenedone", "sched", "idle"}
             PROVE  \A e \in updated_taskhash_queue' : Unfinished(e[1])'
  BY DEF QueueFin
<1>1. CASE ReadDone
  <2>1. updated_taskhash_queue = {} /\ updated_taskhash_queue' = updated_taskhash_queue
    BY <1>1 DEF ReadDone, Goto, hashVars
  <2> QED BY <2>1
<1>2. CASE Rehash
  <2>1. \A e \in updated_taskhash_queue' : Unfinished(e[1])
    BY <1>2 DEF Rehash
  <2> QED BY <1>2, <2>1, StageWork DEF Unfinished
<1>3. CASE \/ (\E t \in Setscene : Migrate(t)) \/ UpdateMigrated
           \/ NoScene \/ (\E t \in Setscene : SceneStart(t)) \/ UpdateHoldoff \/ SceneDone
           \/ NoTaskNow
  <2>1. UNCHANGED <<runq_running, runq_complete>>
    BY <1>3, StageWork
  <2>2. updated_taskhash_queue' = updated_taskhash_queue
        /\ phase \in {"pending", "scene", "holdoff", "scenedone", "sched", "idle"}
    BY <1>3, MigrateHands DEF UpdateMigrated, NoScene, SceneStart, UpdateHoldoff, SceneDone,
            NoTaskNow, hashVars
  <2> QED BY <2>1, <2>2 DEF QueueFin, Unfinished
<1>4. CASE phase' = phase /\ UNCHANGED <<runqVars, sq, sqdone, coverVars, hashVars, stampVars>>
  BY <1>4 DEF QueueFin, Unfinished, runqVars, hashVars
<1> QED BY <1>1, <1>2, <1>3, <1>4, StageSteps

\* Whether a setscene task may be started depends on these alone.
LEMMA SameScene ==
    ASSUME UNCHANGED <<active, runq_complete, build_stamps>>, sqdone => sqdone',
           sq'.active = sq.active, sq'.buildable = sq.buildable, sq'.running = sq.running,
           sq'.stamps = sq.stamps, sq'.deferred = sq.deferred, NEW t
    PROVE  Next_setscene(t)' => Next_setscene(t)
BY DEF Next_setscene, Candidate, CanStartTask, StampBusy

\* Every step keeps what is known when nothing can be started.
LEMMA StepStuck == IInv /\ SInv /\ StuckScene /\ StuckTasks /\ [Next]_vars
                       => StuckScene' /\ StuckTasks'
<1> SUFFICES ASSUME IInv, SInv, StuckScene, StuckTasks, [Next]_vars,
                    phase' \in {"holdoff", "scenedone", "sched", "idle"}
             PROVE  StuckScene' /\ StuckTasks'
  BY DEF StuckScene, StuckTasks
<1>1. CASE UNCHANGED <<runqVars, sq, coverVars, hashVars, stampVars>> /\ (sqdone => sqdone')
           /\ phase \in {"holdoff", "scenedone", "sched", "idle"}
           /\ (phase' = "idle" => NoTaskNow \/ phase = "idle")
  <2>1. StuckScene'
    BY <1>1, SameScene DEF StuckScene, runqVars, stampVars
  <2>2. \A t \in Tasks : Next_task(t)' <=> Next_task(t)
    BY <1>1 DEF Next_task, CanStartTask, BuildableNow, ThreadFree, ThreadsTaken, StampBusy,
                runqVars, coverVars, stampVars
  <2>3. StuckTasks'
    BY <1>1, <2>2 DEF StuckTasks, NoTaskNow, runqVars
  <2> QED BY <2>1, <2>3
<1>2. CASE ReadDone \/ Rehash \/ (\E t \in Setscene : Migrate(t)) \/ UpdateMigrated
  BY <1>2, MigrateHands DEF ReadDone, Rehash, UpdateMigrated, Goto
<1>3. CASE NoScene
  <2>1. /\ \A t \in Setscene : ~Next_setscene(t)
        /\ UNCHANGED <<runqVars, sq, sqdone, stampVars>> /\ phase' = "holdoff"
    BY <1>3 DEF NoScene, Goto
  <2>2. \A t \in Setscene : ~Next_setscene(t)'
    BY <2>1, SameScene DEF runqVars, stampVars
  <2> QED BY <2>1, <2>2 DEF StuckScene, StuckTasks
<1>4. CASE \E t \in Setscene : SceneStart(t)
  <2>1. sq'.live # {} /\ phase' = "holdoff"
    BY <1>4 DEF SceneStart, IInv, SceneOK, SceneType, Goto
  <2> QED BY <2>1 DEF StuckScene, StuckTasks
<1>5. CASE UpdateHoldoff
  <2>1. /\ phase = "holdoff" /\ phase' = "scenedone"
        /\ UNCHANGED <<active, runq_complete, sqdone, stampVars>>
        /\ sq'.active = sq.active /\ sq'.buildable = sq.buildable /\ sq'.running = sq.running
        /\ sq'.stamps = sq.stamps /\ sq'.deferred = sq.deferred /\ sq'.live = sq.live
    BY <1>5 DEF UpdateHoldoff, IInv, SceneOK, SceneType, Goto
  <2> QED BY <2>1, SameScene DEF StuckScene, StuckTasks, stampVars
<1>6. CASE SceneDone \/ NoTaskNow
  <2>1. UNCHANGED <<runqVars, sq, coverVars, hashVars, stampVars>>
        /\ phase \in {"scenedone", "sched"}
    BY <1>6 DEF SceneDone, NoTaskNow
  <2>2. sqdone => sqdone'
    BY <1>6 DEF SceneDone, NoTaskNow
  <2>3. SceneDone => phase' # "idle"
    BY DEF SceneDone, Goto
  <2> QED BY <1>1, <1>6, <2>1, <2>2, <2>3
<1>7. CASE phase' = phase /\ UNCHANGED <<runqVars, sq, sqdone, coverVars, hashVars, stampVars>>
  BY <1>1, <1>7
<1> QED BY <1>2, <1>3, <1>4, <1>5, <1>6, <1>7, StageSteps

\* What else is done with sqdone.
LEMMA SceneDoneSteps ==
    ASSUME IInv, SInv, [Next]_vars, ~SceneDone, ~UpdateMigrated
    PROVE  UNCHANGED sqdone /\ Reopened \subseteq Reopened'
<1> DEFINE Goal == UNCHANGED sqdone /\ update_tasks \subseteq update_tasks'
<1>1. Goal
  <2>1. ASSUME NEW t \in Setscene, Migrate(t)
        PROVE  Goal
    BY <2>1, MigrateHands
  <2>2. ASSUME Rehash
        PROVE  Goal
    BY <2>2 DEF Rehash, SInv, MigrateOK
  <2>3. ASSUME \/ Call(interrupted) \/ ReadDone \/ AfterExecute \/ TornDown \/ Raised
               \/ NoScene \/ UpdateHoldoff \/ NoTaskNow \/ WaitForActive \/ Finished
               \/ \E t \in Setscene : \/ SceneNotNeeded(t) \/ SceneFails(t) \/ SceneCurrent(t)
                                      \/ SceneStart(t) \/ SceneRaises(t) \/ BreakDeferral(t)
               \/ \E t \in Tasks : \/ TaskNotAllowed(t) \/ TaskSkip(t) \/ TaskNoExec(t)
                                   \/ TaskStart(t) \/ TaskRaises(t)
        PROVE  Goal
    BY <2>3 DEF Call, ReadDone, AfterExecute, TornDown, Raised, NoScene, UpdateHoldoff,
                NoTaskNow, WaitForActive, Finished, SceneNotNeeded, SceneFails, SceneCurrent,
                SceneStart, SceneRaises, BreakDeferral, TaskNotAllowed, TaskSkip, TaskNoExec,
                TaskStart, TaskRaises, hashVars, migrVars
  <2>4. ASSUME \/ \E t \in Setscene, ok \in BOOLEAN : SceneExit(t, ok)
               \/ \E t \in Tasks : TaskExit(t) \/ TaskExitFails(t)
               \/ \E t \in Tasks, h \in Hashes : TaskRehash(t, h)
               \/ \E stop \in {1, 2} : Call(stop)
               \/ WorkerDies \/ NoticedAgain \/ UNCHANGED vars
               \/ \E action \in {1, 2} : DiskFull(action)
        PROVE  Goal
    BY <2>4 DEF SceneExit, TaskExit, TaskExitFails, TaskRehash, Call, WorkerDies,
                NoticedAgain, DiskFull, hashVars, migrVars, vars
  <2> HIDE DEF Goal
  <2>5. CASE Server
    BY <2>1, <2>2, <2>3, <2>5 DEF Server
  <2> QED BY <2>4, <2>5 DEF Next, Terminated
<1> QED BY <1>1 DEF Reopened

\* Every step keeps what is known when the scene queue is done.
LEMMA StepSceneDone ==
    ASSUME IInv, SInv, SceneDoneOK, [Next]_vars
    PROVE  SceneDoneOK'
<1>1. Forward
  BY StepSInv
<1>2. (sqdone => Undecided(sq) \subseteq Reopened)'
  <2>1. CASE SceneDone
    <3>1. /\ UNCHANGED <<sq, update_tasks>> /\ phase = "scenedone"
          /\ sqdone' => sqdone \/ SceneOver
      BY <2>1 DEF SceneDone, hashVars, migrVars
    <3>2. SceneOver => Undecided(sq) = {}
      BY <3>1, FreshNow, HeldBack DEF SceneOver
    <3> QED BY <3>1, <3>2 DEF SceneDoneOK, Reopened
  <2>2. CASE UpdateMigrated
    <3>1. sqdone' => sqdone /\ Reopened = {}
      BY <2>2 DEF UpdateMigrated, Reopened
    <3>2. Reopened' = {}
      BY <2>2 DEF UpdateMigrated, Reopened
    <3> QED BY <1>1, <3>1, <3>2 DEF Forward, SceneDoneOK
  <2>3. CASE ~SceneDone /\ ~UpdateMigrated
    <3>1. UNCHANGED sqdone /\ Reopened \subseteq Reopened'
      BY <2>3, SceneDoneSteps
    <3> QED BY <1>1, <3>1 DEF Forward, SceneDoneOK
  <2> QED BY <2>1, <2>2, <2>3
<1>3. (SetsceneOnly /\ sqdone => Setscene = {})'
  <2>1. CASE SceneDone
    BY <2>1 DEF SceneDone, SceneDoneOK
  <2>2. CASE UpdateMigrated
    BY <2>2 DEF UpdateMigrated, SceneDoneOK
  <2>3. CASE ~SceneDone /\ ~UpdateMigrated
    BY <2>3, SceneDoneSteps DEF SceneDoneOK
  <2> QED BY <2>1, <2>2, <2>3
<1>4. ASSUME phase' \in {"sched", "idle"}
      PROVE  ~SceneOver'
  <2>1. CASE SceneDone
    <3>1. UNCHANGED <<sq, coverVars, updated_taskhash_queue>> /\ (sqdone' <=> sqdone \/ SceneOver)
      BY <1>4, <2>1 DEF SceneDone, Goto, hashVars
    <3> QED BY <3>1 DEF SceneOver, NothingDeferred, coverVars
  <2>2. CASE \/ NoTaskNow
             \/ phase' = phase
                /\ UNCHANGED <<runqVars, sq, sqdone, coverVars, hashVars, stampVars>>
    BY <1>4, <2>2 DEF NoTaskNow, SceneDoneOK, SceneOver, NothingDeferred, coverVars, hashVars
  <2>3. CASE \/ ReadDone \/ Rehash \/ (\E t \in Setscene : Migrate(t)) \/ UpdateMigrated
             \/ NoScene \/ (\E t \in Setscene : SceneStart(t)) \/ UpdateHoldoff
    BY <1>4, <2>3, MigrateHands DEF ReadDone, Rehash, UpdateMigrated, NoScene, SceneStart,
                   UpdateHoldoff, Goto
  <2> QED BY <1>4, <2>1, <2>2, <2>3, StageSteps
<1> QED BY <1>2, <1>3, <1>4 DEF SceneDoneOK

\* Every step keeps what is known at each stage of execute().
LEMMA StepStage == IInv /\ SInv /\ StageInv /\ [Next]_vars => StageInv'
BY StepQueueFin, StepStuck, StepSceneDone DEF StageInv

\* All of it holds when the build starts.
LEMMA InitHandsStage == ASSUME Init PROVE HandsInv /\ StageInv
<1>1. HandsInv
  BY FS_EmptySet DEF Init, HandsInv
<1>2. StageInv
  <2>1. Setscene = {} => Undecided(sq) = {}
    BY DEF Undecided
  <2> QED BY <2>1 DEF Init, StageInv, QueueFin, StuckScene, StuckTasks, SceneDoneOK
<1> QED BY <1>1, <1>2

-----------------------------------------------------------------------------
(* Why a build fails *)

\* What the queues are worked through by: the steps keep all four.
QInv == IInv /\ SInv /\ HandsInv /\ StageInv

\* The invariant the theorems about failure and about the end rest on.
LEMMA QInvariance == Spec => []QInv
<1>1. Init => QInv
  BY InitIInv, InitSInv, InitHandsStage DEF QInv
<1>2. QInv /\ [Next]_vars => QInv'
  BY StepIInv, StepSInv, StepHands, StepStage DEF QInv
<1> QED BY <1>1, <1>2, PTL DEF Spec

\* When a call comes to the end with nothing under way, all is decided, and what
\* could still be started is limited by [number_threads].
LEMMA NothingMore ==
    ASSUME Acyclic, SceneAcyclic, QInv, phase = "idle", NothingDeferred,
           live = {}, active = 0, sq.active <= 0
    PROVE  /\ sq.live = {} /\ Undecided(sq) = {} /\ holdoff_tasks = {}
           /\ \A t \in Tasks : /\ Depends[t] \subseteq runq_complete
                               /\ t \notin runq_running
                               /\ ThreadFree(t)
                               => SetsceneOnly
           /\ updated_taskhash_queue = {} => ~SceneErrors
<1> USE DEF QInv
<1>1. Fresh
  BY FreshNow
<1>2. sq.live = {} /\ sq.active = 0
  <2>1. sq.live = {}
    BY NoneActive DEF SInv
  <2> QED BY <2>1, FS_EmptySet DEF SInv, SceneCount
<1>3. CanStartTask
  BY <1>2 DEF CanStartTask
<1>4. \A x : ~StampBusy(x)
  BY <1>2 DEF StampBusy, HandsInv
<1>5. Flagged = {} /\ Reopened = {}
  BY DEF SInv, MigrateOK, Flagged, Reopened
<1>6. Undecided(sq) = {}
  <2> SUFFICES ASSUME Undecided(sq) # {}
               PROVE  FALSE
    OBVIOUS
  <2>1. ~sqdone
    BY <1>5 DEF StageInv, SceneDoneOK
  <2>2. PICK t \in Undecided(sq) : sq_revdeps[t] \cap Undecided(sq) = {}
    BY DEF SceneAcyclic, Undecided
  <2>3. t \in Setscene /\ sq_revdeps[t] \subseteq Decided(sq) /\ t \notin sq.running
    BY <1>2, <2>2, RevdepsType DEF Undecided, SInv, SceneInv, Marked
  <2>4. t \in sq.buildable
    BY <1>5, <2>3 DEF SInv, SceneInv, ReadyOK
  <2>5. Next_setscene(t)
    BY <1>3, <1>4, <2>1, <2>3, <2>4 DEF Next_setscene, Candidate, NothingDeferred
  <2> QED BY <1>2, <2>3, <2>5 DEF StageInv, StuckScene
<1>7. /\ holdoff_tasks = {} /\ Tasks \subseteq tasks_covered \cup tasks_notcovered
      /\ \A t \in Tasks : Depends[t] \subseteq runq_complete => t \in runq_buildable
      /\ updated_taskhash_queue = {} => ~SceneErrors
  BY <1>1, <1>6, NoErrors
<1>8. ASSUME NEW t \in Tasks, Depends[t] \subseteq runq_complete, t \notin runq_running,
             ThreadFree(t), ~SetsceneOnly
      PROVE  FALSE
  <2>1. Next_task(t)
    BY <1>3, <1>4, <1>7, <1>8 DEF Next_task, BuildableNow
  <2> QED BY <2>1 DEF StageInv, StuckTasks
<1> QED BY <1>2, <1>6, <1>7, <1>8

\* A failure is not forgotten.
LEMMA FailedStays == ASSUME [Next]_vars PROVE failed_tids \subseteq failed_tids'
<1>1. CASE UNCHANGED vars
  BY <1>1 DEF vars, runqVars
<1>2. CASE Server
  BY <1>2 DEF Server, Call, ReadDone, AfterExecute, TornDown, Raised, Rehash, Migrate,
              UpdateMigrated, SceneNotNeeded, SceneFails, SceneCurrent, SceneStart,
              SceneRaises, NoScene, UpdateHoldoff, SceneDone, TaskNotAllowed, TaskFail,
              TaskSkip, TaskNoExec, TaskStart, TaskRaises,
              NoTaskNow, WaitForActive, BreakDeferral, Finished, runqVars
<1>3. CASE \/ \E t \in Setscene, ok \in BOOLEAN : SceneExit(t, ok)
           \/ \E t \in Tasks : TaskExit(t) \/ TaskExitFails(t)
           \/ \E t \in Tasks, h \in Hashes : TaskRehash(t, h)
           \/ \E stop \in {1, 2} : stop > interrupted /\ Call(stop)
           \/ WorkerDies \/ NoticedAgain
           \/ \E action \in {1, 2} : DiskFull(action)
  BY <1>3 DEF SceneExit, TaskExit, TaskExitFails, TaskFail, TaskRehash, Call, WorkerDies,
              NoticedAgain, DiskFull, runqVars
<1> QED BY <1>1, <1>2, <1>3 DEF Next, Terminated

\* How RunQueue.state changes.
StateMove ==
    \/ state' = state
    \/ died /\ state' \in {Outcome, "Complete"}
    \/ state' = "CleanUp" /\ (Abort \/ Enforce \/ interrupted' # 0 \/ full' # {})
    \/ state' = Outcome /\ (interrupted' = 2 \/ 2 \in full')
    \/ AfterExecute /\ state' = Outcome /\ state = "CleanUp" /\ ~StillActive
    \/ SceneDone
    \/ Finished

\* Where RunQueue.state can go in a step.
LEMMA StateMoves == ASSUME IInv, SInv, RaisedIsDeath, [Next]_vars PROVE StateMove
<1>1. CASE \E stop \in 0..2 : Call(stop)
  <2>1. PICK stop \in 0..2 : Call(stop)
    BY <1>1
  <2>2. CASE stop = 0
    BY <2>1, <2>2 DEF Call, Polled, StateMove
  <2>3. CASE stop = 1
    BY <2>1, <2>3 DEF Call, StateMove
  <2>4. CASE stop = 2
    <3>1. state' = Outcome /\ interrupted' = 2
      BY <2>1, <2>4 DEF Call, Outcome
    <3> QED BY <3>1 DEF StateMove
  <2> QED BY <2>2, <2>3, <2>4
<1>2. CASE AfterExecute
  <2>1. CASE state = "CleanUp" /\ StillActive
    BY <1>2, <2>1 DEF AfterExecute, Polled, StateMove
  <2>2. CASE state = "CleanUp" /\ ~StillActive
    BY <1>2, <2>2 DEF AfterExecute, StateMove
  <2>3. CASE state # "CleanUp"
    BY <1>2, <2>3 DEF AfterExecute, StateMove
  <2> QED BY <2>1, <2>2, <2>3
<1>3. CASE SceneDone \/ Finished
  BY <1>3 DEF StateMove
<1>4. CASE Raised
  BY <1>4 DEF Raised, RaisedIsDeath, StateMove
<1>5. CASE NoticedAgain \/ WaitForActive
  BY <1>5 DEF NoticedAgain, WaitForActive, Polled, StateMove
<1>6. CASE \E action \in {1, 2} : DiskFull(action)
  <2>1. PICK action \in {1, 2} : DiskFull(action)
    BY <1>6
  <2>2. action \in full'
    BY <2>1 DEF DiskFull
  <2>3. CASE action = 1
    BY <2>1, <2>2, <2>3 DEF DiskFull, StateMove
  <2>4. CASE action = 2
    BY <2>1, <2>2, <2>4 DEF DiskFull, StateMove
  <2> QED BY <2>3, <2>4
<1>7. CASE \E t \in Setscene : Migrate(t)
  BY <1>7, MigrateHands DEF StateMove
<1>8. CASE \/ \E t \in Setscene, ok \in BOOLEAN : SceneExit(t, ok)
           \/ \E t \in Tasks : TaskNotAllowed(t) \/ TaskExitFails(t)
  BY <1>8 DEF SceneExit, TaskNotAllowed, TaskExitFails, TaskFail, Allowed, StateMove
<1>9. CASE \/ ReadDone \/ TornDown \/ Rehash \/ UpdateMigrated \/ NoScene \/ UpdateHoldoff
           \/ NoTaskNow \/ UNCHANGED vars \/ WorkerDies
           \/ \E t \in Setscene : \/ SceneNotNeeded(t) \/ SceneFails(t) \/ SceneCurrent(t)
                                  \/ SceneStart(t) \/ SceneRaises(t) \/ BreakDeferral(t)
           \/ \E t \in Tasks : \/ TaskStart(t) \/ TaskRaises(t) \/ TaskSkip(t)
                               \/ TaskNoExec(t) \/ TaskExit(t)
           \/ \E t \in Tasks, h \in Hashes : TaskRehash(t, h)
  <2>1. state' = state
    BY <1>9 DEF ReadDone, TornDown, Rehash, UpdateMigrated, NoScene, UpdateHoldoff,
                NoTaskNow, SceneNotNeeded, SceneFails, SceneCurrent, SceneStart,
                SceneRaises, BreakDeferral, TaskStart, TaskRaises, TaskSkip, TaskNoExec,
                TaskExit, TaskRehash, WorkerDies, vars
  <2> QED BY <2>1 DEF StateMove
<1>10. Call(interrupted) \/ (\E stop \in {1, 2} : Call(stop)) => \E stop \in 0..2 : Call(stop)
  BY DEF IInv, FlowOK
<1>11. CASE Server
  BY <1>1, <1>2, <1>3, <1>4, <1>5, <1>7, <1>8, <1>9, <1>10, <1>11 DEF Server
<1> QED BY <1>1, <1>5, <1>6, <1>8, <1>9, <1>10, <1>11 DEF Next, Terminated

\* The summary of the scene queue's end finds no error.
LEMMA SceneDoneFine ==
    ASSUME Acyclic, IInv, SInv, SceneDone
    PROVE  /\ state' # state =>
                 state' = "Complete" /\ SetsceneOnly /\ sq.live = {} /\ phase' = "return"
           /\ UNCHANGED <<outside, runqVars, sq>>
<1>1. Fresh
  BY FreshNow DEF SceneDone
<1>2. SceneOver => ~SceneErrors
  <2>1. SceneOver => Undecided(sq) = {}
    BY <1>1, HeldBack DEF SceneOver
  <2> QED BY <1>1, <2>1, NoErrors DEF SceneOver
<1> QED BY <1>2 DEF SceneDone, SceneOver, Goto

\* Every step keeps FailedHasReason.
LEMMA StepFailed ==
    ASSUME Acyclic, SceneAcyclic, SetsceneOnly => Setscene # {},
           \A t \in Tasks : NumberThreads[TaskName[t]] \in Nat,
           QInv, RaisedIsDeath, FailedHasReason, [Next]_vars
    PROVE  FailedHasReason'
<1> SUFFICES ASSUME state' = "Failed", failed_tids' = {}
             PROVE  FALSE
  BY DEF FailedHasReason
<1>1. failed_tids = {} /\ state # "Failed" /\ Outcome # "Failed"
  BY FailedStays DEF FailedHasReason, Outcome
<1>2. CASE SceneDone
  BY <1>1, <1>2, SceneDoneFine DEF QInv
<1>3. CASE Finished
  <2>1. /\ phase = "idle" /\ active <= 0 /\ sq.active <= 0 /\ NothingDeferred
        /\ SceneErrors \/ ~AllBuilt
    BY <1>1, <1>3 DEF Finished
  <2>2. live = {} /\ active = 0
    <3>1. IsFiniteSet(live) /\ active = Cardinality(live)
      BY <1>1 DEF QInv, HandsInv
    <3>2. live = {}
      BY <2>1, <3>1, FS_EmptySet, FS_CardinalityType
    <3> QED BY <3>1, <3>2, FS_EmptySet
  <2>3. runq_running = runq_complete
    BY <1>1, <2>2 DEF QInv, HandsInv, IInv, QueueOK
  <2>4. updated_taskhash_queue = {}
    BY <2>1, <2>3 DEF QInv, StageInv, QueueFin, Unfinished
  <2>5. ~SceneErrors
    BY <2>1, <2>2, <2>4, NothingMore
  <2>6. ~SetsceneOnly
    <3> SUFFICES ASSUME SetsceneOnly
                 PROVE  FALSE
      OBVIOUS
    <3>1. ~sqdone
      BY DEF QInv, StageInv, SceneDoneOK
    <3>2. SceneOver
      BY <2>1, <2>2, <2>4, <3>1, NothingMore DEF SceneOver
    <3> QED BY <2>1, <3>2 DEF QInv, StageInv, SceneDoneOK
  <2>7. \A t \in Tasks : ThreadFree(t)
    <3>1. \A n : {u \in runq_running \ runq_complete : TaskName[u] = n} = {}
      BY <2>3
    <3>2. \A n : ThreadsTaken(n) = 0
      BY <3>1, FS_EmptySet DEF ThreadsTaken
    <3> QED BY <3>2 DEF ThreadFree
  <2>8. Tasks \subseteq runq_complete
    <3> SUFFICES ASSUME Tasks \ runq_complete # {}
                 PROVE  FALSE
      OBVIOUS
    <3> DEFINE S == Tasks \ runq_complete
    <3>1. PICK t \in S : Depends[t] \cap S = {}
      BY DEF Acyclic
    <3>2. Depends[t] \subseteq runq_complete
      BY <3>1
    <3> QED BY <2>1, <2>2, <2>3, <2>6, <2>7, <3>1, <3>2, NothingMore
  <2>9. AllBuilt
    BY <2>3, <2>8 DEF AllBuilt, QInv, IInv, QueueOK
  <2> QED BY <2>1, <2>5, <2>9
<1>4. CASE ~SceneDone /\ ~Finished
  BY <1>1, <1>4, StateMoves DEF QInv, StateMove
<1> QED BY <1>2, <1>3, <1>4

\* The sanity checks never fire: on a graph without cycles a build fails because a
\* task has failed, whatever was opened again, deferred, stopped, or lost with a worker.
THEOREM FailedTheorem ==
    ASSUME Acyclic, SceneAcyclic, SetsceneOnly => Setscene # {},
           \A t \in Tasks : NumberThreads[TaskName[t]] \in Nat
    PROVE  Spec => []FailedHasReason
<1>1. Init => FailedHasReason /\ RaisedIsDeath
  BY DEF Init, FailedHasReason, RaisedIsDeath
<1>2. QInv /\ RaisedIsDeath /\ FailedHasReason /\ [Next]_vars
         => FailedHasReason' /\ RaisedIsDeath'
  BY StepFailed, StepRaised DEF QInv
<1> QED BY <1>1, <1>2, QInvariance, PTL DEF Spec

-----------------------------------------------------------------------------
(* What a build leaves behind *)

\* Neither the user nor the disk monitor has forced the build to end, and no worker
\* has died.
Unforced == interrupted # 2 /\ 2 \notin full /\ ~died

\* A build that is not forced to end has nothing in the workers' hands when it does.
EndInv ==
    Unforced =>
        /\ state \in {"Failed", "Complete"} =>
              live = {} /\ sq.live = {} /\ phase \in {"return", "teardown", "done"}
        /\ phase \in {"teardown", "done"} => state \in {"Failed", "Complete"}
        /\ ~worker => phase = "done"

\* A build that was stopped or forced stays so.
LEMMA UnforcedStays ==
    ASSUME IInv, [Next]_vars
    PROVE  /\ Unforced' => Unforced
           /\ Undisturbed' => Undisturbed
<1>1. CASE UNCHANGED <<interrupted, died, full>>
  BY <1>1 DEF Unforced, Undisturbed
<1>2. CASE \E stop \in 0..2 : Call(stop)
  <2>1. interrupted \in 0..2 /\ UNCHANGED <<died, full>>
        /\ \E stop \in 0..2 : interrupted' = stop /\ stop >= interrupted
    BY <1>2 DEF Call, IInv, FlowOK
  <2> QED BY <2>1 DEF Unforced, Undisturbed
<1>3. CASE WorkerDies \/ \E action \in {1, 2} : DiskFull(action)
  BY <1>3 DEF WorkerDies, DiskFull, Unforced, Undisturbed
<1>4. CASE UNCHANGED vars
  BY <1>1, <1>4 DEF vars, outside
<1>5. ASSUME Server, ~(\E stop \in 0..2 : Call(stop))
      PROVE  UNCHANGED <<interrupted, died, full>>
  <2>1. ~Call(interrupted)
    BY <1>5 DEF IInv, FlowOK
  <2> QED BY <1>5, <2>1 DEF Server, ReadDone, AfterExecute, TornDown, Raised, Rehash, Migrate,
              UpdateMigrated, SceneNotNeeded, SceneFails, SceneCurrent, SceneStart,
              SceneRaises, NoScene, UpdateHoldoff, SceneDone, TaskNotAllowed,
              TaskSkip, TaskNoExec, TaskStart, TaskRaises,
              NoTaskNow, WaitForActive, BreakDeferral, Finished, outside
<1>6. CASE \/ \E t \in Setscene, ok \in BOOLEAN : SceneExit(t, ok)
           \/ \E t \in Tasks : TaskExit(t) \/ TaskExitFails(t)
           \/ \E t \in Tasks, h \in Hashes : TaskRehash(t, h)
           \/ NoticedAgain
  <2>1. UNCHANGED <<interrupted, died, full>>
    BY <1>6 DEF SceneExit, TaskExit, TaskExitFails, TaskRehash, NoticedAgain, outside
  <2> QED BY <1>1, <2>1
<1> QED BY <1>1, <1>2, <1>3, <1>4, <1>5, <1>6 DEF Next, Terminated

\* With both counters at nothing nothing is in the workers' hands.
LEMMA NoneLeft ==
    ASSUME CountOK, active + sq.active <= 0
    PROVE  live = {} /\ sq.live = {} /\ active = 0 /\ sq.active = 0
<1> DEFINE L == live
           M == sq.live
<1>1. IsFiniteSet(L) /\ IsFiniteSet(M) /\ Cardinality(L) + Cardinality(M) <= 0
      /\ active = Cardinality(L) /\ sq.active = Cardinality(M)
  BY DEF CountOK
<1> HIDE DEF L, M
<1>2. Cardinality(L) \in Nat /\ Cardinality(M) \in Nat
  BY <1>1, FS_CardinalityType
<1>3. Cardinality(L) = 0 /\ Cardinality(M) = 0
  BY <1>1, <1>2
<1>4. L = {} /\ M = {}
  BY <1>1, <1>3, FS_EmptySet
<1> QED BY <1>1, <1>3, <1>4 DEF L, M

\* Every step keeps the account of how a build ends.
LEMMA StepEnd ==
    ASSUME Acyclic, QInv, TInv, RaisedIsDeath, EndInv, [Next]_vars
    PROVE  EndInv'
<1> SUFFICES ASSUME Unforced, Unforced', EndInv
             PROVE  /\ state' \in {"Failed", "Complete"} =>
                          /\ live' = {} /\ sq'.live = {}
                          /\ phase' \in {"return", "teardown", "done"}
                    /\ phase' \in {"teardown", "done"} => state' \in {"Failed", "Complete"}
                    /\ ~worker' => phase' = "done"
  BY UnforcedStays DEF EndInv, QInv
<1> DEFINE Goal == /\ state' \in {"Failed", "Complete"} =>
                          /\ live' = {} /\ sq'.live = {}
                          /\ phase' \in {"return", "teardown", "done"}
                   /\ phase' \in {"teardown", "done"} => state' \in {"Failed", "Complete"}
                   /\ ~worker' => phase' = "done"
           Over == state \in {"Failed", "Complete"}
           Goes == state' \in {state, "CleanUp"} /\ worker' = worker
                   /\ phase' \notin {"teardown", "done"}
<1>1. /\ Over => live = {} /\ sq.live = {} /\ phase \in {"return", "teardown", "done"}
      /\ phase \in {"teardown", "done"} => Over
      /\ ~worker => phase = "done"
      /\ ~died /\ ~died' /\ interrupted' # 2 /\ 2 \notin full'
  BY DEF EndInv, Unforced
<1>2. state \in {"Running", "CleanUp", "Failed", "Complete"} /\ IInv /\ SInv
  BY DEF QInv, IInv, FlowOK
<1>3. ASSUME Goes, ~Over, worker
      PROVE  Goal
  BY <1>3
<1>4. CASE \/ \E t \in Setscene, ok \in BOOLEAN : SceneExit(t, ok)
           \/ \E t \in Tasks : TaskExit(t) \/ TaskExitFails(t)
           \/ \E t \in Tasks, h \in Hashes : TaskRehash(t, h)
  <2>1. ~Over /\ worker /\ phase \notin {"teardown", "done"}
    BY <1>1, <1>4 DEF SceneExit, TaskExit, TaskExitFails, TaskRehash, Reading
  <2>2. phase' = phase /\ worker' = worker /\ state' \in {state, "CleanUp"}
    BY <1>4 DEF SceneExit, TaskExit, TaskExitFails, TaskFail, TaskRehash, outside
  <2> HIDE DEF Goal
  <2> QED BY <1>3, <2>1, <2>2
<1>5. CASE \/ Rehash \/ UpdateMigrated \/ NoScene \/ UpdateHoldoff \/ NoTaskNow
           \/ WaitForActive
           \/ \E t \in Setscene : \/ SceneNotNeeded(t) \/ SceneFails(t) \/ SceneCurrent(t)
                                  \/ SceneStart(t) \/ SceneRaises(t) \/ BreakDeferral(t)
                                  \/ Migrate(t)
           \/ \E t \in Tasks : \/ TaskNotAllowed(t) \/ TaskSkip(t) \/ TaskNoExec(t)
                               \/ TaskStart(t) \/ TaskRaises(t)
  <2>1. phase \in {"migrate", "pending", "scene", "holdoff", "sched", "idle"}
    BY <1>5 DEF Rehash, UpdateMigrated, NoScene, UpdateHoldoff, NoTaskNow, WaitForActive,
                SceneNotNeeded, SceneFails, SceneCurrent, SceneStart, SceneRaises,
                BreakDeferral, Migrate, TaskNotAllowed, TaskSkip, TaskNoExec, TaskStart,
                TaskRaises, Runs
  <2>2. ~Over /\ worker
    BY <1>1, <2>1
  <2>3. ASSUME NEW t \in Setscene, Migrate(t)
        PROVE  Goes
    BY <1>2, <2>3, MigrateHands DEF outside
  <2>4. phase' \notin {"teardown", "done"}
    BY <1>2, <1>5, MigrateHands DEF Rehash, UpdateMigrated, NoScene, UpdateHoldoff, NoTaskNow,
                WaitForActive,
                SceneNotNeeded, SceneFails, SceneCurrent, SceneStart, SceneRaises,
                BreakDeferral, TaskNotAllowed, TaskSkip, TaskNoExec, TaskStart,
                TaskRaises, Goto, Return
  <2>5. worker' = worker /\ state' \in {state, "CleanUp"}
    BY <1>1, <1>5, <2>3 DEF Rehash, UpdateMigrated, NoScene, UpdateHoldoff, NoTaskNow,
                WaitForActive, Polled, outside,
                SceneNotNeeded, SceneFails, SceneCurrent, SceneStart, SceneRaises,
                BreakDeferral, TaskNotAllowed, TaskFail, TaskSkip, TaskNoExec, TaskStart,
                TaskRaises
  <2> HIDE DEF Goal
  <2> QED BY <1>3, <2>2, <2>4, <2>5
<1>6. CASE SceneDone
  <2>1. ~Over /\ worker /\ worker' = worker /\ phase' \in {"return", "sched"}
    BY <1>1, <1>6 DEF SceneDone, outside, Goto
  <2>2. CASE state' = state
    BY <2>1, <2>2
  <2>3. CASE state' # state
    <3>1. /\ state' = "Complete" /\ SetsceneOnly /\ sq.live = {} /\ phase' = "return"
          /\ UNCHANGED <<live, sq>>
      BY <1>2, <1>6, <2>3, SceneDoneFine DEF runqVars
    <3>2. live = {}
      BY <3>1 DEF QInv, HandsInv, IInv, QueueOK
    <3> QED BY <2>1, <3>1, <3>2
  <2> QED BY <2>2, <2>3
<1>7. CASE Finished
  <2>1. /\ active <= 0 /\ sq.active <= 0 /\ UNCHANGED <<live, sq, worker>>
        /\ phase' = "return" /\ phase = "idle"
    BY <1>7 DEF Finished, Return, Goto, runqVars, outside
  <2>2. active + sq.active <= 0
    <3>1. active \in Int /\ sq.active \in Int
      BY <1>2 DEF IInv, QueueOK, SceneOK, SceneType
    <3> QED BY <2>1, <3>1
  <2>3. live = {} /\ sq.live = {}
    BY <2>2, NoneLeft DEF TInv
  <2> QED BY <1>1, <2>1, <2>3
<1>8. CASE AfterExecute
  <2>1. phase = "return" /\ worker /\ UNCHANGED <<worker, live, sq>>
    BY <1>1, <1>8 DEF AfterExecute, outside, runqVars
  <2>2. CASE state = "CleanUp" /\ StillActive
    <3>1. state' = "CleanUp" /\ phase' = "finish"
      BY <1>1, <1>8, <2>1, <2>2 DEF AfterExecute, Polled, Goto
    <3> QED BY <2>1, <3>1
  <2>3. CASE state = "CleanUp" /\ ~StillActive
    <3>1. state' = Outcome /\ phase' = "teardown"
      BY <1>8, <2>3 DEF AfterExecute, Goto
    <3>2. active + sq.active <= 0
      <4>1. active \in Int /\ sq.active \in Int
        BY <1>2 DEF IInv, QueueOK, SceneOK, SceneType
      <4> QED BY <2>3, <4>1 DEF StillActive
    <3>3. live = {} /\ sq.live = {}
      BY <3>2, NoneLeft DEF TInv
    <3> QED BY <2>1, <3>1, <3>3 DEF Outcome
  <2>4. CASE state # "CleanUp"
    <3>1. state' = state /\ phase' = IF state = "Running" THEN "call" ELSE "teardown"
      BY <1>8, <2>4 DEF AfterExecute, Goto
    <3> QED BY <1>1, <1>2, <2>1, <2>4, <3>1
  <2> QED BY <2>2, <2>3, <2>4
<1>9. CASE TornDown
  <2>1. /\ phase = "teardown" /\ UNCHANGED <<state, live, sq>>
        /\ phase' = IF Over THEN "done" ELSE "call"
    BY <1>9 DEF TornDown, Goto, runqVars
  <2> QED BY <1>1, <2>1
<1>10. CASE ReadDone
  <2>1. /\ phase \in {"read", "wait", "finish"} /\ UNCHANGED <<state, worker>>
        /\ phase' \in {"migrate", "scene", "return", "call"} \/ Over
    BY <1>10 DEF ReadDone, Goto, outside
  <2> HIDE DEF Goal
  <2> QED BY <1>1, <1>3, <2>1
<1>11. CASE \E stop \in 0..2 : Call(stop)
  <2>1. PICK stop \in 0..2 : Call(stop)
    BY <1>11
  <2>2. phase = "call" /\ stop \in {0, 1} /\ worker' = worker /\ phase' \in {"read", "return"}
    BY <1>1, <2>1 DEF Call, Goto
  <2>3. state' \in {state, "CleanUp"}
    <3>1. CASE stop = 0
      BY <1>1, <2>1, <3>1 DEF Call, Polled
    <3>2. CASE stop = 1
      BY <2>1, <3>2 DEF Call
    <3> QED BY <2>2, <3>1, <3>2
  <2> HIDE DEF Goal
  <2> QED BY <1>1, <1>3, <2>2, <2>3
<1>12. CASE \E action \in {1, 2} : DiskFull(action)
  <2>1. PICK action \in {1, 2} : DiskFull(action)
    BY <1>12
  <2>2. action = 1
    BY <1>1, <2>1 DEF DiskFull
  <2>3. phase = "call" /\ state' = "CleanUp" /\ UNCHANGED <<worker, phase>>
    BY <2>1, <2>2 DEF DiskFull
  <2> QED BY <1>1, <2>3
<1>13. CASE WorkerDies \/ Raised
  BY <1>1, <1>13 DEF WorkerDies, Raised, RaisedIsDeath
<1>14. CASE NoticedAgain
  <2>1. state' = state /\ UNCHANGED <<phase, worker, live, sq>>
    BY <1>1, <1>14 DEF NoticedAgain, Polled, outside, runqVars
  <2> QED BY <1>1, <2>1
<1>15. CASE UNCHANGED vars
  BY <1>1, <1>15 DEF vars, outside, runqVars
<1> HIDE DEF Goal, Over, Goes
<1>16. Call(interrupted) \/ (\E stop \in {1, 2} : Call(stop)) => \E stop \in 0..2 : Call(stop)
  BY <1>2 DEF IInv, FlowOK
<1>17. CASE Server
  BY <1>5, <1>6, <1>7, <1>8, <1>9, <1>10, <1>11, <1>13, <1>16, <1>17 DEF Server
<1>18. CASE Terminated \/ (\E action \in {1, 2} : DiskFull(action))
  BY <1>12, <1>15, <1>18 DEF Terminated
<1>19. CASE \E stop \in {1, 2} : stop > interrupted /\ Call(stop)
  BY <1>11, <1>19
<1> QED BY <1>4, <1>13, <1>14, <1>15, <1>17, <1>18, <1>19 DEF Next

\* When the build starts nothing is counted as running.
LEMMA InitTInv == ASSUME Init PROVE TInv
<1>1. SceneCount /\ live = {} /\ active = 0
  BY InitSInv DEF SInv, Init
<1>2. sq.live = {}
  <2>1. PICK V \in SUBSET ToCheck(stampfiles, Setscene) :
                sq = UpdateSceneData(stampfiles, InitScene, Setscene, V)
    BY DEF Init
  <2>2. SameWork(sq, InitScene)
    BY <2>1, InitSceneOK, UpdateSceneDataOK DEF ToCheck
  <2> QED BY <2>2 DEF SameWork, InitScene
<1> QED BY <1>1, <1>2, FS_EmptySet DEF TInv, CountOK, ThreadLimit, SceneCount

\* All that is needed for the end of a build, setscene enforcement apart.
AllInv == QInv /\ TInv /\ RaisedIsDeath /\ EndInv

\* The invariant of builds without setscene enforcement.
LEMMA AllInvariance ==
    ASSUME Acyclic, ~Enforce
    PROVE  Spec => []AllInv
<1>1. Init => AllInv
  <2> SUFFICES ASSUME Init PROVE AllInv
    OBVIOUS
  <2>1. QInv
    BY InitIInv, InitSInv, InitHandsStage DEF QInv
  <2>2. RaisedIsDeath /\ EndInv
    BY DEF Init, RaisedIsDeath, EndInv
  <2> QED BY <2>1, <2>2, InitTInv DEF AllInv
<1>2. AllInv /\ [Next]_vars => AllInv'
  <2> SUFFICES ASSUME AllInv, [Next]_vars PROVE AllInv'
    OBVIOUS
  <2>1. QInv'
    BY StepIInv, StepSInv, StepHands, StepStage DEF QInv, AllInv
  <2>2. TInv' /\ RaisedIsDeath'
    BY StepThreads, StepRaised DEF AllInv, QInv
  <2>3. EndInv'
    BY StepEnd DEF AllInv
  <2> QED BY <2>1, <2>2, <2>3 DEF AllInv
<1> QED BY <1>1, <1>2, PTL DEF Spec

\* Unless it was forced to end, or a worker died, a build ends with nothing in a
\* worker's hands: neither queue says it is over while the other has tasks out.
THEOREM NothingLeftTheorem ==
    ASSUME Acyclic, ~Enforce
    PROVE  Spec => []NothingLeftBehind
<1>1. AllInv => NothingLeftBehind
  BY DEF AllInv, EndInv, Unforced, NothingLeftBehind
<1> QED BY <1>1, AllInvariance, PTL

-----------------------------------------------------------------------------
(* What --continue leaves undone *)

\* Nothing but a failed task ends a build that goes on after failures.
ContinueInv ==
    /\ SetsceneOnly => failed_tids = {}
    /\ ~Abort /\ Undisturbed => state # "CleanUp"
    /\ BuildsWhatItCan

\* With --setscene-only no ordinary task is started, so none fails.
LEMMA SceneOnlyFine ==
    ASSUME IInv, SInv, HandsInv, SetsceneOnly, failed_tids = {}, [Next]_vars
    PROVE  failed_tids' = {}
<1>1. live = {}
  BY DEF HandsInv, IInv, QueueOK
<1>2. \A t \in Tasks : /\ ~TaskStart(t) /\ ~TaskSkip(t) /\ ~TaskNoExec(t)
                       /\ ~TaskNotAllowed(t) /\ ~TaskExit(t) /\ ~TaskExitFails(t)
  BY <1>1 DEF TaskStart, TaskSkip, TaskNoExec, TaskNotAllowed, TaskExit, TaskExitFails,
              Runs, Next_task
<1>3. CASE \E t \in Setscene : SceneStart(t) \/ SceneExit(t, TRUE) \/ SceneExit(t, FALSE)
  BY <1>3 DEF SceneStart, SceneExit, runqVars
<1> QED BY <1>2, <1>3, OtherHands

\* A build that has failed is over: nothing is started, and nothing ends, any more.
LEMMA OverStays ==
    ASSUME IInv, SInv, [Next]_vars, live = {}, sq.live = {},
           phase \in {"return", "teardown", "done"}
    PROVE  UNCHANGED <<runq_complete, failed_tids>>
<1>1. \A t \in Tasks : /\ ~TaskStart(t) /\ ~TaskSkip(t) /\ ~TaskNoExec(t)
                       /\ ~TaskNotAllowed(t) /\ ~TaskExit(t) /\ ~TaskExitFails(t)
  BY DEF TaskStart, TaskSkip, TaskNoExec, TaskNotAllowed, TaskExit, TaskExitFails
<1>2. \A t \in Setscene : /\ ~SceneStart(t) /\ ~SceneExit(t, TRUE)
                          /\ ~SceneExit(t, FALSE)
  BY DEF SceneStart, SceneExit
<1> QED BY <1>1, <1>2, OtherHands

\* Every step keeps what BuildsWhatItCan rests on.
LEMMA StepContinue ==
    ASSUME Acyclic, SceneAcyclic, ~Enforce,
           \A t \in Tasks : NumberThreads[TaskName[t]] = 0,
           AllInv, ContinueInv, FailedHasReason', [Next]_vars
    PROVE  ContinueInv'
<1>1. (SetsceneOnly => failed_tids = {})'
  BY SceneOnlyFine DEF ContinueInv, AllInv, QInv
<1>2. ASSUME Undisturbed', ~Abort
      PROVE  /\ Undisturbed /\ Undisturbed' /\ state # "CleanUp"
             /\ state' = state \/ SceneDone \/ Finished
  <2>1. Undisturbed
    BY <1>2, UnforcedStays DEF AllInv, QInv
  <2>2. state # "CleanUp"
    BY <1>2, <2>1 DEF ContinueInv
  <2>3. StateMove
    BY StateMoves DEF AllInv, QInv
  <2> QED BY <1>2, <2>1, <2>2, <2>3 DEF StateMove, Undisturbed
<1>3. SceneDone => state' \in {state, "Complete"}
  BY SceneDoneFine DEF AllInv, QInv
<1>4. Finished => state' \in {"Failed", "Complete"}
  BY DEF Finished
<1>5. (~Abort /\ Undisturbed => state # "CleanUp")'
  BY <1>2, <1>3, <1>4
<1>6. ASSUME state' = "Failed", Undisturbed', ~Abort, NEW t \in Tasks,
             Depends[t] \subseteq runq_complete'
      PROVE  t \in runq_complete' \cup failed_tids'
  <2>1. CASE state = "Failed"
    <3>1. live = {} /\ sq.live = {} /\ phase \in {"return", "teardown", "done"}
      BY <1>2, <1>6, <2>1 DEF AllInv, EndInv, Unforced, Undisturbed
    <3>2. UNCHANGED <<runq_complete, failed_tids>>
      BY <3>1, OverStays DEF AllInv, QInv
    <3> QED BY <1>2, <1>6, <2>1, <3>2 DEF ContinueInv, BuildsWhatItCan
  <2>2. CASE state # "Failed"
    <3>1. /\ phase = "idle" /\ active <= 0 /\ sq.active <= 0 /\ NothingDeferred
          /\ UNCHANGED runqVars
      BY <1>2, <1>3, <1>6, <2>2 DEF Finished
    <3>2. active + sq.active <= 0
      <4>1. active \in Int /\ sq.active \in Int
        BY DEF AllInv, QInv, IInv, QueueOK, SceneOK, SceneType
      <4> QED BY <3>1, <4>1
    <3>3. live = {} /\ active = 0
      BY <3>2, NoneLeft DEF AllInv, TInv
    <3>4. ~SetsceneOnly
      BY <1>1, <1>6 DEF FailedHasReason
    <3>5. ThreadFree(t)
      BY DEF ThreadFree
    <3>6. t \in runq_running \ runq_complete => t \in failed_tids
      BY <3>3 DEF AllInv, QInv, HandsInv
    <3> QED BY <1>6, <3>1, <3>3, <3>4, <3>5, <3>6, NothingMore DEF AllInv, runqVars
  <2> QED BY <2>1, <2>2
<1>7. BuildsWhatItCan'
  BY <1>6 DEF BuildsWhatItCan
<1> QED BY <1>1, <1>5, <1>7 DEF ContinueInv

\* With --continue a build fails only when every task whose dependencies are complete
\* is complete or has failed: neither a decision left open, a deferral nor a holdoff
\* keeps a task back.  Setscene enforcement ends a build sooner; and where
\* [number_threads] is set, a task that has failed counts as under way for good, so
\* that others of its name may never be started.
THEOREM ContinueTheorem ==
    ASSUME Acyclic, SceneAcyclic, ~Enforce, SetsceneOnly => Setscene # {},
           \A t \in Tasks : NumberThreads[TaskName[t]] = 0
    PROVE  Spec => []BuildsWhatItCan
<1>1. Init => ContinueInv
  BY DEF Init, ContinueInv, BuildsWhatItCan
<1>2. AllInv /\ ContinueInv /\ FailedHasReason' /\ [Next]_vars => ContinueInv'
  BY StepContinue
<1>3. Spec => []FailedHasReason
  <2>1. \A t \in Tasks : NumberThreads[TaskName[t]] \in Nat
    OBVIOUS
  <2> QED BY <2>1, FailedTheorem
<1>4. ContinueInv => BuildsWhatItCan
  BY DEF ContinueInv
<1> QED BY <1>1, <1>2, <1>3, <1>4, AllInvariance, PTL DEF Spec

-----------------------------------------------------------------------------
(* Covered or not covered, never both *)

\* The three ways in which a setscene task that is decided is decided again, the
\* other way.  Nothing runs, and the covered task another waits for is failed.
ForcesCovered ==
    \E t \in Setscene : BreakDeferral(t) /\ sq.deferred[t] \in sq.covered \ runq_complete

\* A task that failed while it was deferred, as what it depends on explicitly
\* did, is looked at when the task it waits for ends, and is found in order.
FindsFailed ==
    \E t \in sq.notcovered : /\ sq.deferred[t] \in runq_complete' \ runq_complete
                             /\ sq'.deferred[t] = NoTask
                             /\ t \in Found(stampfiles', {t})

\* A task that is open again is found in order and then failed, as what it depends
\* on explicitly has failed.
FailsFound == UpdateMigrated /\ Flagged \cap Found(stampfiles, Reopened) # {}

DecidesTwice == ForcesCovered \/ FindsFailed \/ FailsFound

\* Some stamp of t, or of a task that shares its stamps, is there.
Based(files, t) == \E f \in files : f[1] = StampBase[t]

CoverInv == DecidedOnce /\ sq.notneeded \subseteq sq.covered

\* What one step does to what is covered.
CoverStep ==
    /\ CoverInv'
    /\ sq.covered \subseteq sq'.covered
    /\ \A t \in sq'.covered \ sq.covered :
          t \in NoExec \cup sq'.notneeded \/ Based(stampfiles', t)
    /\ sq.notneeded \subseteq sq'.notneeded
    /\ \A t \in sq'.notneeded \ sq.notneeded : t \in Setscene /\ SceneNotNeeded(t)

\* A stamp that counts for t is one a decision about t can rest on.
LEMMA StampBased ==
    ASSUME NEW files, NEW t, NEW kind, HasStamp(files, t, kind)
    PROVE  Based(files, t)
BY DEF HasStamp, Stamp, Based

\* What is found in order has a stamp, or nothing to run.
LEMMA FoundHas ==
    ASSUME NEW files, NEW T \in SUBSET Setscene, NEW t \in Found(files, T)
    PROVE  t \in T /\ (t \in NoExec \/ Based(files, t))
<1>1. CASE t \in NoExec
  BY <1>1 DEF Found, Present
<1>2. CASE t \notin NoExec
  <2>1. t \in T /\ (HasStamp(files, t, "setscene") \/ StampCurrentRecurse(files, t))
    BY <1>2 DEF Found, Present
  <2>2. CASE StampCurrentRecurse(files, t)
    <3> DEFINE G == [u \in Tasks |-> {d \in Depends[u] : /\ File[d] = File[u]
                                                         /\ HasStamp(files, d, "task")}]
    <3>1. t \in Reach({t}, G)
      <4> HIDE DEF G
      <4> QED BY <2>1, GraphAssumption DEF Reach, Closed
    <3>2. StampCurrent(files, t)
      BY <2>2, <3>1 DEF StampCurrentRecurse
    <3> QED BY <2>1, <3>2, StampBased DEF StampCurrent
  <2> QED BY <2>1, <2>2, StampBased
<1> QED BY <1>1, <1>2

\* A step that decides nothing.
LEMMA CoverSame ==
    ASSUME CoverInv, sq'.covered = sq.covered, sq'.notcovered = sq.notcovered,
           sq'.notneeded = sq.notneeded
    PROVE  CoverStep
BY DEF CoverInv, CoverStep, DecidedOnce

\* A setscene task ends: it is covered, or it has failed.
LEMMA CoverSceneExit ==
    ASSUME IInv, SInv, CoverInv, NEW t \in Setscene, NEW ok \in BOOLEAN, SceneExit(t, ok)
    PROVE  CoverStep
<1> DEFINE s == IF ok THEN CompleteOutright(sq, t) ELSE FailOutright(sq, {t})
<1>1. SceneOK(sq) /\ t \notin Decided(sq) /\ t \in sq.running \cap sq.buildable
  BY DEF SceneExit, IInv, SceneOK, SceneType, SInv, SceneInv, Marked
<1>2. SceneOK(s)
  BY <1>1, CompleteOutrightOK, FailOutrightOK
<1>3. sq' = [s EXCEPT !.active = @ - 1, !.live = @ \ {t}]
  BY DEF SceneExit
<1>4. CASE ok
  <2>1. /\ s.covered = sq.covered \cup {t} /\ s.notcovered = sq.notcovered
        /\ s.notneeded = sq.notneeded
    BY <1>1, <1>4, CompleteDecides DEF Decides
  <2> HIDE DEF s
  <2>2. /\ sq'.covered = sq.covered \cup {t} /\ sq'.notcovered = sq.notcovered
        /\ sq'.notneeded = sq.notneeded
    BY <1>2, <1>3, <2>1 DEF SceneOK, SceneType
  <2>3. Stamp(t, "setscene", unihash[t]) \in stampfiles'
    BY <1>4 DEF SceneExit, MakeStamp
  <2>4. Based(stampfiles', t)
    BY <2>3 DEF Stamp, Based
  <2> QED BY <1>1, <2>2, <2>4 DEF CoverStep, CoverInv, DecidedOnce, Decided
<1>5. CASE ~ok
  <2>1. /\ s.covered = sq.covered /\ s.notcovered = sq.notcovered \cup FailSet(sq, {t})
        /\ s.notneeded = sq.notneeded
    BY <1>1, <1>5, FailDecides DEF Decides
  <2> HIDE DEF s
  <2>2. /\ sq'.covered = sq.covered
        /\ sq'.notcovered = sq.notcovered \cup FailSet(sq, {t})
        /\ sq'.notneeded = sq.notneeded
    BY <1>2, <1>3, <2>1 DEF SceneOK, SceneType
  <2>3. FailSet(sq, {t}) \cap Decided(sq) = {}
    BY <1>1, FailSetOK DEF Undecided
  <2> QED BY <2>2, <2>3 DEF CoverStep, CoverInv, DecidedOnce, Decided
<1> QED BY <1>4, <1>5

\* A task ends: the one deferred after it may be found current.
LEMMA CoverTask ==
    ASSUME IInv, SInv, CoverInv, ~FindsFailed, NEW t \in Tasks,
           TaskSkip(t) \/ TaskNoExec(t) \/ TaskExit(t)
    PROVE  CoverStep
<1>1. PICK B, files : TaskCompleteOutright(t, B, files)
  <2>1. CASE TaskSkip(t)
    BY <2>1 DEF TaskSkip
  <2>2. CASE TaskNoExec(t)
    BY <2>2 DEF TaskNoExec
  <2>3. CASE TaskExit(t)
    BY <2>3 DEF TaskExit
  <2> QED BY <2>1, <2>2, <2>3
<1>2. t \notin runq_complete
  <2>1. CASE TaskSkip(t) \/ TaskNoExec(t)
    BY <2>1 DEF TaskSkip, TaskNoExec, Runs, Next_task, BuildableNow, IInv, QueueOK
  <2>2. CASE TaskExit(t)
    BY <2>2 DEF TaskExit, IInv, QueueOK
  <2> QED BY <2>1, <2>2
<1>3. t \in runq_complete' \ runq_complete /\ SceneOK(sq)
  BY <1>1, <1>2 DEF TaskCompleteOutright, IInv
<1> DEFINE waiting == {d \in Setscene : sq.deferred[d] = t}
           deferring(f) == [sq EXCEPT !.deferred = [d \in Setscene |->
                                IF d = f THEN NoTask
                                ELSE IF d \in waiting THEN f ELSE sq.deferred[d]]]
<1>4. CASE waiting = {}
  <2>1. sq' = sq
    BY <1>1, <1>4 DEF TaskCompleteOutright
  <2> QED BY <2>1, CoverSame
<1>5. CASE waiting # {}
  <2>1. PICK f \in waiting :
                /\ stampfiles' = SceneStamps(files, {f})
                /\ \E V \in SUBSET ToCheck(files, {f}) :
                      sq' = UpdateSceneData(files, deferring(f), {f}, V)
    BY <1>1, <1>5 DEF TaskCompleteOutright
  <2>2. PICK V \in SUBSET ToCheck(files, {f}) :
                sq' = UpdateSceneData(files, deferring(f), {f}, V)
    BY <2>1
  <2>3. V \in SUBSET {f} /\ {f} \in SUBSET Setscene /\ sq.deferred[f] = t
    BY DEF ToCheck
  <2> DEFINE s == deferring(f)
             K == Found(files, {f})
  <2>4. /\ SceneOK(s) /\ s.covered = sq.covered /\ s.notcovered = sq.notcovered
        /\ s.notneeded = sq.notneeded /\ s.deferred[f] = NoTask
    BY <1>3, <2>3 DEF SceneOK, SceneType
  <2> HIDE DEF deferring
  <2>5. /\ sq'.covered = sq.covered \cup K /\ sq'.notcovered = sq.notcovered
        /\ sq'.notneeded = sq.notneeded /\ sq'.deferred[f] = NoTask
    <3>1. /\ Decides(sq', s, K) /\ sq'.notcovered = s.notcovered
          /\ sq'.covered = s.covered \cup K
      <4>1. sq' = UpdateSceneData(files, s, {f}, V)
        BY <2>2
      <4> HIDE DEF s
      <4> QED BY <2>3, <2>4, <4>1, UpdateDecides
    <3> QED BY <2>4, <3>1 DEF Decides
  <2>6. K \subseteq {f} /\ (f \in K => f \in Found(stampfiles', {f}))
    <3>1. K \subseteq {f}
      BY <2>3, FoundHas
    <3>2. CASE f \in NoExec
      BY <3>1, <3>2 DEF Found
    <3>3. CASE f \notin NoExec
      <4>1. stampfiles' = files
        BY <2>1, <3>3 DEF SceneStamps
      <4> QED BY <3>1, <4>1
    <3> QED BY <3>2, <3>3
  <2>7. f \in K => f \notin sq.notcovered
    BY <1>3, <2>3, <2>5, <2>6 DEF FindsFailed
  <2>8. f \in K => f \in NoExec \/ Based(stampfiles', f)
    BY <2>3, <2>6, FoundHas
  <2> HIDE DEF K
  <2> QED BY <2>5, <2>6, <2>7, <2>8 DEF CoverStep, CoverInv, DecidedOnce
<1> QED BY <1>4, <1>5

\* A setscene task is decided without a worker.
LEMMA CoverMoves ==
    ASSUME IInv, SInv, CoverInv, ~ForcesCovered, NEW t \in Setscene,
           \/ SceneNotNeeded(t) \/ SceneFails(t) \/ SceneCurrent(t) \/ BreakDeferral(t)
    PROVE  CoverStep
<1> DEFINE s == [sq EXCEPT !.deferred[t] = NoTask]
<1>1. SceneOK(sq) /\ SceneOK(s)
  BY UndeferOK DEF IInv
<1>2. /\ s.covered = sq.covered /\ s.notcovered = sq.notcovered
      /\ s.notneeded = sq.notneeded /\ Decided(s) = Decided(sq)
  BY <1>1 DEF SceneOK, SceneType, Decided
<1>3. CASE SceneNotNeeded(t)
  <2> DEFINE r == Skip(sq, {t})
  <2>1. /\ SceneOK(r) /\ r.covered = sq.covered \cup {t} /\ r.notcovered = sq.notcovered
        /\ r.notneeded = sq.notneeded
    BY <1>1, SkipOK, SkipDecides DEF Decides
  <2>2. sq' = [r EXCEPT !.notneeded = @ \cup {t}, !.deferred[t] = NoTask]
    BY <1>3 DEF SceneNotNeeded
  <2> HIDE DEF r
  <2>3. /\ sq'.covered = sq.covered \cup {t} /\ sq'.notcovered = sq.notcovered
        /\ sq'.notneeded = sq.notneeded \cup {t}
    BY <2>1, <2>2 DEF SceneOK, SceneType
  <2>4. t \notin Decided(sq)
    BY <1>3 DEF SceneNotNeeded, Candidate, SInv, SceneInv, Marked
  <2> QED BY <1>3, <2>3, <2>4 DEF CoverStep, CoverInv, DecidedOnce, Decided
<1>4. CASE SceneFails(t)
  <2>1. sq' = FailOutright(s, {t})
    BY <1>4 DEF SceneFails
  <2>2. t \notin Decided(s)
    BY <1>2, <1>4 DEF SceneFails, Next_setscene, Candidate, SInv, SceneInv, Marked
  <2> HIDE DEF s
  <2>3. /\ sq'.covered = s.covered /\ sq'.notcovered = s.notcovered \cup FailSet(s, {t})
        /\ sq'.notneeded = s.notneeded
    BY <1>1, <2>1, FailDecides DEF Decides
  <2>4. FailSet(s, {t}) \cap Decided(s) = {}
    BY <2>2, FailSetOK DEF Undecided
  <2> QED BY <1>2, <2>3, <2>4 DEF CoverStep, CoverInv, DecidedOnce, Decided
<1>5. CASE SceneCurrent(t)
  <2>1. sq' = Skip(s, {t})
    BY <1>5 DEF SceneCurrent
  <2>2. t \notin Decided(s)
    BY <1>2, <1>5 DEF SceneCurrent, Usable, Next_setscene, Candidate, SInv, SceneInv, Marked
  <2> HIDE DEF s
  <2>3. /\ sq'.covered = s.covered \cup {t} /\ sq'.notcovered = s.notcovered
        /\ sq'.notneeded = s.notneeded
    BY <1>1, <2>1, SkipDecides DEF Decides
  <2>4. Based(stampfiles', t)
    BY <1>5, StampBased DEF SceneCurrent, stampVars
  <2> QED BY <1>2, <2>2, <2>3, <2>4 DEF CoverStep, CoverInv, DecidedOnce, Decided
<1>6. CASE BreakDeferral(t)
  <2> DEFINE u == sq.deferred[t]
  <2>1. u \in Setscene /\ (u \in runq_complete \/ u \notin sq.covered)
    BY <1>1, <1>6 DEF BreakDeferral, WasDeferred, SceneOK, SceneType, ForcesCovered
  <2>2. sq' = IF u \in runq_complete THEN s ELSE FailOutright(s, {u})
    BY <1>6 DEF BreakDeferral
  <2> HIDE DEF s, u
  <2>3. CASE u \in runq_complete
    BY <1>2, <2>2, <2>3, CoverSame
  <2>4. CASE u \notin runq_complete
    <3>1. /\ sq'.covered = s.covered /\ sq'.notcovered = s.notcovered \cup FailSet(s, {u})
          /\ sq'.notneeded = s.notneeded
      BY <1>1, <2>1, <2>2, <2>4, FailDecides DEF Decides
    <3>2. FailSet(s, {u}) \cap s.covered = {}
      BY <1>2, <2>1, <2>4, FailSetOK DEF Undecided, Decided
    <3> QED BY <1>2, <3>1, <3>2 DEF CoverStep, CoverInv, DecidedOnce
  <2> QED BY <2>3, <2>4
<1> QED BY <1>3, <1>4, <1>5, <1>6

\* A decision is opened again.
LEMMA CoverMigrate ==
    ASSUME IInv, SInv, CoverInv, NEW t \in Setscene, Migrate(t)
    PROVE  CoverStep
<1>1. t \in sq.notcovered \cup Undecided(sq) /\ SceneOK(sq)
  BY DEF Migrate, SInv, IInv, HashOK, PendingOK, Undecided
<1>2. t \notin sq.covered /\ t \notin sq.notneeded
  BY <1>1 DEF CoverInv, DecidedOnce, Undecided, Decided
<1>3. \/ sq' = sq
      \/ /\ sq'.covered = sq.covered \ {t} /\ sq'.notcovered = sq.notcovered \ {t}
         /\ sq'.notneeded = sq.notneeded \ {t}
  <2>1. CASE t \in runq_running \cup sq.live \/ Blocked(t)
    BY <2>1, NeverSkipped DEF Migrate
  <2>2. CASE ~(t \in runq_running \cup sq.live) /\ ~Blocked(t)
    <3> DEFINE undone  == {d \in sq_covered_tasks[t] \ (runq_complete \cup unskippable) :
                              d \in sq.done}
               fails   == HardDepFail(t)
               ready   == \/ sq_revdeps[t] = {}
                          \/ ~fails /\ sq_revdeps[t] \subseteq Decided(sq)
    <3>1. sq' = [sq EXCEPT
                    !.done = (@ \ {t}) \ undone,
                    !.buildable = IF ready THEN @ \cup {t} ELSE @ \ {t},
                    !.running = @ \ {t},
                    !.outrightfail = @ \ {t},
                    !.notcovered = @ \ {t},
                    !.covered = @ \ {t},
                    !.notneeded = @ \ {t},
                    !.stamps[t] = Stamp(t, "setscene", unihash[t])]
      BY <2>2, NeverSkipped DEF Migrate
    <3> HIDE DEF ready, undone, fails
    <3> QED BY <1>1, <3>1 DEF SceneOK, SceneType
  <2> QED BY <2>1, <2>2
<1>4. CASE sq' = sq
  BY <1>4, CoverSame
<1>5. CASE /\ sq'.covered = sq.covered \ {t} /\ sq'.notcovered = sq.notcovered \ {t}
           /\ sq'.notneeded = sq.notneeded \ {t}
  BY <1>2, <1>5 DEF CoverStep, CoverInv, DecidedOnce
<1> QED BY <1>3, <1>4, <1>5

\* What was opened again is found current, or failed.
LEMMA CoverUpdateMigrated ==
    ASSUME IInv, SInv, CoverInv, ~FailsFound, UpdateMigrated
    PROVE  CoverStep
<1> DEFINE T == Reopened
           bad == Flagged
           index(t) == HashIndex(t, unihash[t])
           defer(t) == t \in T /\ index(t) \in DOMAIN HashOwner /\ HashOwner[index(t)] # t
           newdef == [t \in Setscene |->
                         IF defer(t) THEN HashOwner[index(t)] ELSE sq.deferred[t]]
           need == sq.holdoff_need_update \/ changed
           s1 == [sq EXCEPT !.deferred = newdef, !.holdoff_need_update = need]
           K == Found(stampfiles, T)
<1>1. /\ SceneOK(sq) /\ T \in SUBSET Setscene /\ bad \in SUBSET T
      /\ T \cap Decided(sq) = {}
  <2>1. T \subseteq Setscene /\ bad \subseteq T
    BY DEF IInv, HashOK, Reopened, Flagged
  <2>2. T \cap sq.running = {} /\ Decided(sq) \subseteq sq.running
    BY DEF SInv, MigrateOK, SceneInv, Marked
  <2> HIDE DEF T, bad
  <2> QED BY <2>1, <2>2 DEF IInv
<1>2. bad \cap K = {}
  BY DEF FailsFound
<1>3. PICK V \in SUBSET ToCheck(stampfiles, T) :
              sq' = FailOutright(UpdateSceneData(stampfiles, s1, T, V), bad)
  BY DEF UpdateMigrated, Reopened, Flagged
<1>4. V \in SUBSET T /\ stampfiles \subseteq stampfiles'
  BY DEF ToCheck, UpdateMigrated, SceneStamps
<1>5. SceneOK(s1)
  <2>1. newdef \in [Setscene -> Setscene \cup {NoTask}]
    <3>1. \A t \in Setscene : sq.deferred[t] \in Setscene \cup {NoTask}
      BY <1>1 DEF SceneOK, SceneType
    <3> QED BY <3>1, HashOwnerType
  <2>2. need \in BOOLEAN
    OBVIOUS
  <2> HIDE DEF newdef, need
  <2> QED BY <1>1, <2>1, <2>2 DEF SceneOK, SceneType
<1>6. /\ s1.covered = sq.covered /\ s1.notcovered = sq.notcovered
      /\ s1.notneeded = sq.notneeded
  <2> HIDE DEF newdef, need
  <2> QED BY <1>1 DEF SceneOK, SceneType
<1> DEFINE r1 == UpdateSceneData(stampfiles, s1, T, V)
<1> HIDE DEF s1, newdef, need, T, bad, K
<1>7. /\ r1.covered = sq.covered \cup K /\ r1.notcovered = sq.notcovered
      /\ r1.notneeded = sq.notneeded /\ SceneOK(r1)
  <2>1. /\ Decides(r1, s1, Found(stampfiles, T)) /\ r1.notcovered = s1.notcovered
        /\ r1.covered = s1.covered \cup Found(stampfiles, T)
    BY <1>1, <1>4, <1>5, UpdateDecides
  <2> HIDE DEF r1
  <2> QED BY <1>6, <2>1 DEF Decides, K
<1> HIDE DEF r1
<1>8. /\ sq'.covered = r1.covered /\ sq'.notcovered = r1.notcovered \cup FailSet(r1, bad)
      /\ sq'.notneeded = r1.notneeded
  BY <1>1, <1>3, <1>7, FailDecides DEF Decides, r1
<1>9. FailSet(r1, bad) \cap r1.covered = {}
  <2>1. bad \cap r1.covered = {}
    BY <1>1, <1>2, <1>7 DEF Decided
  <2>2. FailSet(r1, bad) \subseteq bad \cup Undecided(r1)
    BY <1>1, FailSetOK
  <2> QED BY <2>1, <2>2 DEF Undecided, Decided
<1>10. K \subseteq T /\ \A t \in K : t \in NoExec \/ Based(stampfiles', t)
  BY <1>1, <1>4, FoundHas DEF K, Based
<1> QED BY <1>1, <1>7, <1>8, <1>9, <1>10 DEF CoverStep, CoverInv, DecidedOnce, Decided

\* The other steps decide nothing.
LEMMA CoverOther ==
    ASSUME IInv, SInv, CoverInv,
           \/ \E stop \in 0..2 : Call(stop)
           \/ ReadDone \/ AfterExecute \/ TornDown \/ Raised \/ WorkerDies \/ NoticedAgain
           \/ \E action \in {1, 2} : DiskFull(action)
           \/ NoScene \/ SceneDone \/ NoTaskNow \/ WaitForActive \/ Finished
           \/ Rehash \/ UpdateHoldoff
           \/ \E t \in Tasks : TaskNotAllowed(t) \/ TaskRaises(t) \/ TaskExitFails(t)
                               \/ TaskStart(t)
           \/ \E t \in Tasks, h \in Hashes : TaskRehash(t, h)
           \/ \E t \in Setscene : SceneStart(t) \/ SceneRaises(t)
           \/ UNCHANGED vars
    PROVE  CoverStep
<1> SUFFICES sq'.covered = sq.covered /\ sq'.notcovered = sq.notcovered
             /\ sq'.notneeded = sq.notneeded
  BY CoverSame
<1>1. SceneOK(sq)
  BY DEF IInv
<1>2. CASE UpdateHoldoff
  BY <1>1, <1>2 DEF UpdateHoldoff, SceneOK, SceneType
<1>3. CASE \E t \in Setscene : SceneStart(t) \/ SceneRaises(t)
  <2>1. PICK t \in Setscene : SceneStart(t) \/ SceneRaises(t)
    BY <1>3
  <2>2. CASE SceneStart(t)
    BY <1>1, <2>2 DEF SceneStart, SceneOK, SceneType
  <2>3. CASE SceneRaises(t)
    BY <1>1, <2>3 DEF SceneRaises, SceneOK, SceneType
  <2> QED BY <2>1, <2>2, <2>3
<1>4. CASE ~UpdateHoldoff /\ ~(\E t \in Setscene : SceneStart(t) \/ SceneRaises(t))
  <2>1. sq' = sq
    BY <1>4 DEF Call, ReadDone, AfterExecute, TornDown, Raised, WorkerDies, NoticedAgain,
                DiskFull, NoScene, SceneDone, NoTaskNow, WaitForActive, Finished, Rehash,
                TaskNotAllowed, TaskRaises, TaskExitFails, TaskStart, TaskRehash, vars
  <2> QED BY <2>1
<1> QED BY <1>2, <1>3, <1>4

\* Every step that decides nothing twice keeps what each decision rests on.
LEMMA StepCover ==
    ASSUME IInv, SInv, CoverInv, [Next]_vars, [~DecidesTwice]_vars
    PROVE  CoverStep
<1>1. CASE UNCHANGED vars
  BY <1>1, CoverOther
<1>2. CASE Next /\ ~DecidesTwice
  <2>1. ~ForcesCovered /\ ~FindsFailed /\ ~FailsFound
    BY <1>2 DEF DecidesTwice
  <2>2. CASE \/ ReadDone \/ AfterExecute \/ TornDown \/ Raised \/ WorkerDies \/ NoticedAgain
             \/ \E action \in {1, 2} : DiskFull(action)
             \/ NoScene \/ SceneDone \/ NoTaskNow \/ WaitForActive \/ Finished
             \/ Rehash \/ UpdateHoldoff
             \/ \E t \in Tasks : TaskNotAllowed(t) \/ TaskRaises(t) \/ TaskExitFails(t)
                                 \/ TaskStart(t)
             \/ \E t \in Tasks, h \in Hashes : TaskRehash(t, h)
             \/ \E t \in Setscene : SceneStart(t) \/ SceneRaises(t)
             \/ UNCHANGED vars
    BY <2>2, CoverOther
  <2>3. CASE \E t \in Setscene, ok \in BOOLEAN : SceneExit(t, ok)
    BY <2>3, CoverSceneExit
  <2>4. CASE \E t \in Setscene : \/ SceneNotNeeded(t) \/ SceneFails(t) \/ SceneCurrent(t)
                                 \/ BreakDeferral(t)
    BY <2>1, <2>4, CoverMoves
  <2>5. CASE \E t \in Tasks : TaskSkip(t) \/ TaskNoExec(t) \/ TaskExit(t)
    BY <2>1, <2>5, CoverTask
  <2>6. CASE UpdateMigrated \/ \E t \in Setscene : Migrate(t)
    BY <2>1, <2>6, CoverUpdateMigrated, CoverMigrate
  <2>7. CASE Call(interrupted) \/ (\E stop \in {1, 2} : Call(stop))
    <3>1. interrupted \in 0..2
      BY DEF IInv, FlowOK, FlagsOK
    <3>2. \E stop \in 0..2 : Call(stop)
      BY <2>7, <3>1
    <3> QED BY <3>2, CoverOther
  <2> QED BY <1>2, <2>2, <2>3, <2>4, <2>5, <2>6, <2>7 DEF Next, Server, Terminated
<1> QED BY <1>1, <1>2

\* When the build starts only what is found current is decided.
LEMMA InitCover ==
    ASSUME Init
    PROVE  /\ CoverInv /\ sq.notcovered = {} /\ sq.notneeded = {}
           /\ \A t \in sq.covered : t \in NoExec \/ Based(stampfiles, t)
<1>1. PICK V \in SUBSET ToCheck(stampfiles, Setscene) :
              sq = UpdateSceneData(stampfiles, InitScene, Setscene, V)
  BY DEF Init
<1> DEFINE T == Setscene
<1>2. V \in SUBSET T /\ T \in SUBSET Setscene /\ SceneOK(InitScene)
  BY InitSceneOK DEF ToCheck
<1> DEFINE s == InitScene
           r == UpdateSceneData(stampfiles, s, T, V)
<1>3. s.covered = {} /\ s.notcovered = {} /\ s.notneeded = {}
  BY DEF InitScene
<1>4. sq = r
  BY <1>1
<1>5. SceneOK(s)
  BY <1>2
<1> HIDE DEF s, T
<1>6. /\ sq.covered = Found(stampfiles, T) /\ sq.notcovered = {} /\ sq.notneeded = {}
  <2>1. /\ Decides(r, s, Found(stampfiles, T)) /\ r.notcovered = s.notcovered
        /\ r.covered = s.covered \cup Found(stampfiles, T)
    BY <1>2, <1>5, UpdateDecides
  <2> HIDE DEF r
  <2> QED BY <1>3, <1>4, <2>1 DEF Decides
<1> QED BY <1>2, <1>6, FoundHas DEF CoverInv, DecidedOnce

CInvariant == IInv /\ SInv /\ CoverInv

\* What each decision rests on, in builds that decide nothing twice.
LEMMA CoverInvariance == Spec /\ [][~DecidesTwice]_vars => []CInvariant
<1>1. Init => CInvariant
  BY InitIInv, InitSInv, InitCover DEF CInvariant
<1>2. CInvariant /\ [Next]_vars /\ [~DecidesTwice]_vars => CInvariant'
  BY StepIInv, StepSInv, StepCover DEF CInvariant, CoverStep
<1> QED BY <1>1, <1>2, PTL DEF Spec

\* A setscene task is covered or not covered and never both, unless a step decides
\* again, in one of the three ways above, what was decided.
THEOREM DecidedOnceTheorem == Spec /\ [][~DecidesTwice]_vars => []DecidedOnce
<1>1. CInvariant => DecidedOnce
  BY DEF CInvariant, CoverInv
<1> QED BY <1>1, CoverInvariance, PTL

-----------------------------------------------------------------------------
(* What was passed over as not needed *)

StandInv ==
    /\ NotNeededByAnyone
    /\ sq.notneeded \cap unskippable = {}

\* Such a step keeps DecisionsStand.
LEMMA StepStand ==
    ASSUME OneLayer, StandInv, CoverStep
    PROVE  StandInv'
<1> SUFFICES ASSUME NEW s \in sq'.notneeded
             PROVE  Squash(s) \subseteq sq'.covered /\ s \notin unskippable
  BY DEF StandInv, NotNeededByAnyone
<1>1. sq.covered \subseteq sq'.covered
  BY DEF CoverStep
<1>2. CASE s \in sq.notneeded
  BY <1>1, <1>2 DEF StandInv, NotNeededByAnyone
<1>3. CASE s \notin sq.notneeded
  <2>1. s \in Setscene /\ SceneNotNeeded(s)
    BY <1>3 DEF CoverStep
  <2>2. sq_revdeps[s] # {} /\ sq_revdeps[s] \subseteq sq.covered /\ s \notin unskippable
    BY <2>1 DEF SceneNotNeeded, NeedersCovered, Skippable
  <2>3. sq_harddeps[s] = {}
    BY <2>1, <2>2 DEF OneLayer, sq_revdeps
  <2>4. Squash(s) \subseteq sq_revdeps[s]
    BY <2>1, <2>3 DEF sq_revdeps
  <2> QED BY <1>1, <2>2, <2>4
<1> QED BY <1>2, <1>3

\* What was passed over stays so: every task that needs the output of one that
\* is not needed is covered and stays covered, and no migration asks for a task
\* that was skipped.  A task others depend on explicitly waits for what it itself
\* depends on explicitly, if anything, and not for those who need it: hence OneLayer.
THEOREM DecisionsTheorem ==
    ASSUME OneLayer
    PROVE  Spec /\ [][~DecidesTwice]_vars => []DecisionsStand
<1>1. Init => StandInv
  BY InitCover DEF StandInv, NotNeededByAnyone
<1>2. CInvariant /\ StandInv /\ [Next]_vars /\ [~DecidesTwice]_vars => StandInv'
  BY StepCover, StepStand DEF CInvariant
<1>3. StandInv => NotNeededByAnyone
  BY DEF StandInv
<1> QED BY <1>1, <1>2, <1>3, CoverInvariance, NeverTooLateTheorem, PTL
        DEF Spec, DecisionsStand

-----------------------------------------------------------------------------
(* What a task needs is there when it runs *)

SkippedTasks == runq_complete \ runq_tasksrun

AvailInv ==
    /\ \A d \in sq.covered : d \in NoExec \cup sq.notneeded \/ Based(stampfiles, d)
    /\ SkippedTasks \cap Setscene \subseteq sq.covered
    /\ SkippedTasks \cap unskippable \subseteq Setscene
    /\ InputsAvailable

\* A stamp gives way only to another stamp of the same task.
LEMMA BaseStays ==
    ASSUME NEW files, NEW d, Based(files, d)
    PROVE  /\ \A t, kind, h : Based(MakeStamp(files, t, kind, h), d)
           /\ \A T : Based(SceneStamps(files, T), d)
<1>1. PICK f \in files : f[1] = StampBase[d]
  BY DEF Based
<1>2. ASSUME NEW t, NEW kind, NEW h
      PROVE  Based(MakeStamp(files, t, kind, h), d)
  <2>1. CASE StampBase[t] = StampBase[d]
    <3>1. Stamp(t, kind, h) \in MakeStamp(files, t, kind, h) /\ Stamp(t, kind, h)[1] = StampBase[t]
      BY DEF MakeStamp, Stamp
    <3> QED BY <2>1, <3>1 DEF Based
  <2>2. CASE StampBase[t] # StampBase[d]
    <3>1. f \in MakeStamp(files, t, kind, h)
      BY <1>1, <2>2 DEF MakeStamp
    <3> QED BY <1>1, <3>1 DEF Based
  <2> QED BY <2>1, <2>2
<1>3. ASSUME NEW T
      PROVE  Based(SceneStamps(files, T), d)
  BY <1>1 DEF SceneStamps, Based
<1> QED BY <1>2, <1>3

\* What a step may do to the stamps and to the tasks that have run.
WorkMove ==
    /\ runq_tasksrun \subseteq runq_tasksrun'
    /\ \A d : Based(stampfiles, d) => Based(stampfiles', d)
    /\ \A d \in SkippedTasks' \ SkippedTasks :
          d \in tasks_covered /\ d \in Tasks /\ phase = "sched"
    /\ \A t \in live' \ live : t \in Tasks /\ TaskStart(t)

\* What the steps of a task do to the stamps and to the tasks that have run.
LEMMA TaskWorkMove ==
    ASSUME IInv, NEW t \in Tasks,
           TaskStart(t) \/ TaskSkip(t) \/ TaskNoExec(t) \/ TaskExit(t)
    PROVE  WorkMove
<1>1. CASE TaskStart(t)
  BY <1>1 DEF TaskStart, WorkMove, SkippedTasks
<1>2. CASE TaskSkip(t) \/ TaskNoExec(t) \/ TaskExit(t)
  <2>1. PICK B, files : /\ TaskCompleteOutright(t, B, files)
                        /\ files = stampfiles \/ files = TaskStamp(t)
    <3>1. CASE TaskSkip(t)
      BY <3>1 DEF TaskSkip
    <3>2. CASE TaskNoExec(t)
      BY <3>2 DEF TaskNoExec
    <3>3. CASE TaskExit(t)
      BY <3>3 DEF TaskExit
    <3> QED BY <1>2, <3>1, <3>2, <3>3
  <2>2. \E T : stampfiles' \in {files, SceneStamps(files, T)}
    BY <2>1 DEF TaskCompleteOutright
  <2>3. PICK h : files = stampfiles \/ files = MakeStamp(stampfiles, t, "task", h)
    BY <2>1 DEF TaskStamp
  <2>4. \A d : Based(stampfiles, d) => Based(stampfiles', d)
    BY <2>2, <2>3, BaseStays
  <2>5. runq_complete' = runq_complete \cup {t}
    BY <2>1 DEF TaskCompleteOutright
  <2>6. live' \subseteq live
    BY <1>2 DEF TaskSkip, TaskNoExec, TaskExit
  <2>7. \/ runq_tasksrun' = runq_tasksrun \cup {t}
        \/ runq_tasksrun' = runq_tasksrun /\ t \in tasks_covered /\ phase = "sched"
    BY <1>2 DEF TaskSkip, TaskNoExec, TaskExit
  <2> QED BY <2>4, <2>5, <2>6, <2>7 DEF WorkMove, SkippedTasks
<1> QED BY <1>1, <1>2

\* The other steps do no more.
LEMMA OtherWorkMove ==
    ASSUME IInv, SInv, [Next]_vars,
           ~ \E t \in Tasks : TaskStart(t) \/ TaskSkip(t) \/ TaskNoExec(t) \/ TaskExit(t)
    PROVE  WorkMove
<1> SUFFICES UNCHANGED <<runq_complete, runq_tasksrun>> /\ live' \subseteq live
             /\ \A d : Based(stampfiles, d) => Based(stampfiles', d)
  BY DEF WorkMove, SkippedTasks
<1>1. CASE \E t \in Setscene, ok \in BOOLEAN : SceneExit(t, ok)
  <2>1. PICK t, ok : SceneExit(t, ok)
    BY <1>1
  <2>2. UNCHANGED <<runq_complete, runq_tasksrun, live>>
    BY <2>1 DEF SceneExit, runqVars
  <2>3. stampfiles' \in {stampfiles, MakeStamp(stampfiles, t, "setscene", unihash[t])}
    BY <2>1 DEF SceneExit
  <2> QED BY <2>2, <2>3, BaseStays
<1>2. CASE UpdateMigrated
  <2>1. /\ UNCHANGED <<runq_complete, runq_tasksrun, live>>
        /\ stampfiles' = SceneStamps(stampfiles, Reopened)
    BY <1>2 DEF UpdateMigrated, runqVars, Reopened
  <2> QED BY <2>1, BaseStays
<1>3. CASE \E t \in Setscene : Migrate(t)
  BY <1>3 DEF Migrate
<1>4. CASE UpdateHoldoff \/ \E t \in Tasks : TaskNotAllowed(t)
  BY <1>4 DEF UpdateHoldoff, TaskNotAllowed, TaskFail, stampVars
<1>5. CASE \/ Call(interrupted) \/ (\E stop \in {1, 2} : Call(stop))
           \/ ReadDone \/ AfterExecute \/ TornDown \/ Raised \/ WorkerDies \/ NoticedAgain
           \/ \E action \in {1, 2} : DiskFull(action)
           \/ NoScene \/ SceneDone \/ NoTaskNow \/ WaitForActive \/ Finished \/ Rehash
           \/ \E t \in Tasks : TaskRaises(t)
           \/ \E t \in Tasks, h \in Hashes : TaskRehash(t, h)
           \/ \E t \in Setscene : \/ SceneNotNeeded(t) \/ SceneFails(t) \/ SceneCurrent(t)
                                  \/ SceneStart(t) \/ SceneRaises(t) \/ BreakDeferral(t)
           \/ UNCHANGED vars
  BY <1>5 DEF Call, ReadDone, AfterExecute, TornDown, Raised, WorkerDies, NoticedAgain,
              DiskFull, NoScene, SceneDone, NoTaskNow, WaitForActive, Finished, Rehash,
              TaskRaises, TaskRehash, SceneNotNeeded, SceneFails, SceneCurrent, SceneStart,
              SceneRaises, BreakDeferral, vars, runqVars, stampVars
<1>6. CASE \E t \in Tasks : TaskExitFails(t)
  BY <1>6 DEF TaskExitFails
<1> QED BY <1>1, <1>2, <1>3, <1>4, <1>5, <1>6 DEF Next, Server, Terminated

\* What may start is not covered, so nothing it needs was passed over.
LEMMA NeedsAreThere ==
    ASSUME CInvariant, StandInv, AvailInv, NEW t \in Tasks, TaskStart(t),
           NEW d \in Depends[t]
    PROVE  d \in runq_tasksrun \cup NoExec \/ Based(stampfiles, d)
<1> SUFFICES ASSUME d \notin runq_tasksrun \cup NoExec, ~Based(stampfiles, d)
             PROVE  FALSE
  OBVIOUS
<1>1. phase = "sched" /\ Next_task(t) /\ t \notin tasks_covered
  BY DEF TaskStart, Runs
<1>2. Fresh
  BY <1>1, FreshNow DEF CInvariant
<1>3. t \in NotCovered(sq)
  BY <1>1, <1>2 DEF Next_task, Fresh
<1>4. d \in SkippedTasks /\ d \in Tasks
  <2>1. t \in runq_buildable
    BY <1>1 DEF Next_task, BuildableNow
  <2>2. d \in runq_complete /\ d \in Tasks
    BY <2>1, GraphAssumption DEF CInvariant, IInv, QueueOK, DependencyOrder
  <2> QED BY <2>2 DEF SkippedTasks
<1>5. \A u \in Setscene : d \in sq_covered_tasks[u] => u \in sq.covered
  BY <1>4 DEF CInvariant, SInv, SkippedOK, SkippedTooSoon, SkippedTasks
<1>6. sq.covered \cap sq.notcovered = {} /\ sq.notcovered \subseteq Setscene
  BY DEF CInvariant, CoverInv, DecidedOnce, IInv, SceneOK, SceneType
<1>7. d \in Setscene => d \in sq.notneeded
  BY <1>4 DEF AvailInv
<1>8. d \notin Setscene => d \notin unskippable
  BY <1>4 DEF AvailInv
<1>9. t \in Revdeps(d)
  BY DEF Revdeps
<1>10. CASE t \in unskippable \ Setscene
  <2>1. d \in unskippable
    BY <1>4, <1>10, <1>9, UnskippableClosed
  <2> QED BY <1>7, <1>8, <2>1 DEF StandInv
<1>11. CASE \E u \in sq.notcovered : t \in {u} \cup sq_covered_tasks[u]
  <2>1. PICK u \in sq.notcovered : t \in {u} \cup sq_covered_tasks[u]
    BY <1>11
  <2>2. CASE d \in Setscene
    <3>1. u \in Squash(d)
      BY <1>6, <2>1 DEF Squash
    <3> QED BY <1>6, <1>7, <2>2, <3>1 DEF StandInv, NotNeededByAnyone
  <2>3. CASE d \notin Setscene
    <3>1. d \in sq_covered_tasks[u]
      BY <1>4, <1>6, <1>9, <2>1, <2>3, CoveredClosed
    <3> QED BY <1>5, <1>6, <3>1
  <2> QED BY <2>2, <2>3
<1>12. t \in sq.notcovered \/ t \in cantskip \/ t \in unskippable \ Setscene
       \/ \E u \in sq.notcovered : t \in sq_covered_tasks[u]
  BY <1>3 DEF NotCovered
<1>13. cantskip \subseteq unskippable \ Setscene
  BY GraphAssumption DEF cantskip, unskippable, Reach, Closed
<1> QED BY <1>10, <1>11, <1>12, <1>13

\* A task that is skipped is covered itself, or by a setscene task.
LEMMA SkippedIsCovered ==
    ASSUME CInvariant, phase = "sched", NEW d \in tasks_covered
    PROVE  /\ d \in Setscene => d \in sq.covered
           /\ d \in unskippable => d \in Setscene
<1>1. Fresh
  BY FreshNow DEF CInvariant
<1>2. d \in Covered(sq)
  BY <1>1 DEF Fresh
<1>3. d \in sq.done /\ d \notin NotCovered(sq)
      /\ (d \in sq.covered \/ \E u \in sq.covered : d \in sq_covered_tasks[u])
  BY <1>2 DEF Covered
<1>4. sq.covered \subseteq Setscene
  BY DEF CInvariant, IInv, SceneOK, SceneType
<1>5. d \in Setscene => d \in sq.covered
  BY <1>3, <1>4, CoveredBy
<1>6. d \in unskippable => d \in Setscene
  BY <1>3 DEF NotCovered
<1> QED BY <1>5, <1>6

\* Such a step keeps InputsAvailable.
LEMMA StepAvail ==
    ASSUME CInvariant, StandInv, AvailInv, CoverStep, WorkMove
    PROVE  AvailInv'
<1>1. \A d \in sq'.covered : d \in NoExec \cup sq'.notneeded \/ Based(stampfiles', d)
  BY DEF AvailInv, CoverStep, WorkMove
<1>2. \A d \in SkippedTasks' : /\ d \in Setscene => d \in sq'.covered
                               /\ d \in unskippable => d \in Setscene
  <2> SUFFICES ASSUME NEW d \in SkippedTasks'
               PROVE  /\ d \in Setscene => d \in sq'.covered
                      /\ d \in unskippable => d \in Setscene
    OBVIOUS
  <2>1. CASE d \in SkippedTasks
    BY <2>1 DEF AvailInv, CoverStep
  <2>2. CASE d \notin SkippedTasks
    <3>1. d \in tasks_covered /\ phase = "sched"
      BY <2>2 DEF WorkMove
    <3> QED BY <3>1, SkippedIsCovered DEF CoverStep
  <2> QED BY <2>1, <2>2
<1>3. InputsAvailable'
  <2> SUFFICES ASSUME NEW t \in live', NEW d \in Depends[t]
               PROVE  d \in runq_tasksrun' \cup NoExec \/ Based(stampfiles', d)
    BY DEF InputsAvailable, Based
  <2>1. d \in runq_tasksrun \cup NoExec \/ Based(stampfiles, d)
    <3>1. CASE t \in live
      BY <3>1 DEF AvailInv, InputsAvailable, Based
    <3>2. CASE t \notin live
      <4>1. t \in Tasks /\ TaskStart(t)
        BY <3>2 DEF WorkMove
      <4> QED BY <4>1, NeedsAreThere
    <3> QED BY <3>1, <3>2
  <2> QED BY <2>1 DEF WorkMove
<1> QED BY <1>1, <1>2, <1>3 DEF AvailInv

\* A task in a worker's hands finds the output of what it depends on: in every order
\* of decisions, migrations and failures, nothing a running task needs was passed
\* over, skipped or left without a stamp.
THEOREM InputsTheorem ==
    ASSUME OneLayer
    PROVE  Spec /\ [][~DecidesTwice]_vars => []InputsAvailable
<1>1. Init => StandInv /\ AvailInv
  <2> SUFFICES ASSUME Init
               PROVE  StandInv /\ AvailInv
    OBVIOUS
  <2>1. live = {} /\ SkippedTasks = {}
    BY DEF Init, SkippedTasks
  <2> QED BY <2>1, InitCover DEF StandInv, NotNeededByAnyone, AvailInv, InputsAvailable
<1>2. CInvariant /\ StandInv /\ AvailInv /\ [Next]_vars /\ [~DecidesTwice]_vars
          => (StandInv /\ AvailInv)'
  <2> SUFFICES ASSUME CInvariant, StandInv, AvailInv, [Next]_vars, [~DecidesTwice]_vars
               PROVE  (StandInv /\ AvailInv)'
    OBVIOUS
  <2>1. CoverStep
    BY StepCover DEF CInvariant
  <2>2. WorkMove
    BY TaskWorkMove, OtherWorkMove DEF CInvariant
  <2> QED BY <2>1, <2>2, StepStand, StepAvail
<1>3. AvailInv => InputsAvailable
  BY DEF AvailInv
<1> QED BY <1>1, <1>2, <1>3, CoverInvariance, PTL DEF Spec

-----------------------------------------------------------------------------
(* Builds without new hashes *)

\* Nothing is hashed again, and nothing is opened again.
StillHashes ==
    /\ updated_taskhash_queue = {} /\ unihash = InitHash
    /\ pending_migrations = {} /\ todo = {} /\ update_tasks = {}

StampsStand == \A t \in Setscene : sq.stamps[t] = Stamp(t, "setscene", InitHash[t])

\* Where no task is hashed again every hash stays what it was.
LEMMA StepStill ==
    ASSUME IInv, Rehashing = {}, StillHashes, [Next]_vars
    PROVE  StillHashes'
<1>1. CASE Rehash
  <2> DEFINE taken   == {e \in updated_taskhash_queue : ~Unfinished(e[1])}
             news(t) == {e \in taken : /\ e[2] # unihash[e[1]]
                                       /\ \/ e[1] = t
                                          \/ t \in Setscene /\ sq.deferred[t] = e[1]}
             applied == {t \in Tasks : news(t) # {}}
             uni     == [t \in Tasks |-> IF t \in applied
                                         THEN (CHOOSE e \in news(t) : TRUE)[2]
                                         ELSE unihash[t]]
             G       == [t \in Tasks |-> Revdeps(t)]
             from    == UNION {Revdeps(t) : t \in applied}
             total   == Reach(from, G)
  <2>1. taken = {} /\ applied = {} /\ from = {}
    BY DEF StillHashes
  <2>2. total = {}
    <3>1. {} \in Closed({}, G)
      <4> HIDE DEF G
      <4> QED BY DEF Closed
    <3> HIDE DEF G, from
    <3> QED BY <2>1, <3>1 DEF Reach
  <2>3. uni = unihash
    <3>1. unihash \in [Tasks -> Hashes]
      BY DEF IInv, HashOK
    <3>2. uni = [t \in Tasks |-> unihash[t]]
      BY <2>1
    <3> QED BY <3>1, <3>2
  <2>4. \E C \in SUBSET total : \E new \in [C -> Hashes] :
           LET moved == C \ (sq.covered \cup sq.live)
           IN  /\ unihash' = [t \in Tasks |-> IF t \in moved THEN new[t] ELSE uni[t]]
               /\ pending_migrations' = pending_migrations \cup (moved \cap Setscene)
    BY <1>1, SMTT(20) DEF Rehash
  <2>5. /\ updated_taskhash_queue' = updated_taskhash_queue \ taken
        /\ todo' = pending_migrations' /\ update_tasks' = {}
    BY <1>1 DEF Rehash
  <2>6. /\ unihash' = [t \in Tasks |-> uni[t]]
        /\ pending_migrations' = pending_migrations
    <3> HIDE DEF total, uni
    <3> QED BY <2>2, <2>4
  <2>7. unihash' = unihash
    <3>1. unihash \in [Tasks -> Hashes]
      BY DEF IInv, HashOK
    <3> HIDE DEF uni
    <3> QED BY <2>3, <2>6, <3>1
  <2> HIDE DEF taken
  <2> QED BY <2>5, <2>6, <2>7 DEF StillHashes
<1>2. CASE \E t \in Setscene : Migrate(t)
  BY <1>2 DEF Migrate, StillHashes
<1>3. CASE UpdateMigrated
  BY <1>3 DEF UpdateMigrated, StillHashes
<1>4. CASE \E t \in Tasks, h \in Hashes : TaskRehash(t, h)
  BY <1>4 DEF TaskRehash
<1>5. CASE UNCHANGED hashVars
  BY <1>5 DEF hashVars, migrVars, StillHashes
<1>6. CASE \/ Call(interrupted) \/ (\E stop \in {1, 2} : Call(stop))
           \/ ReadDone \/ AfterExecute \/ TornDown \/ Raised \/ WorkerDies \/ NoticedAgain
           \/ \E action \in {1, 2} : DiskFull(action)
           \/ NoScene \/ SceneDone \/ NoTaskNow \/ WaitForActive \/ Finished
           \/ UpdateHoldoff
           \/ \E t \in Tasks : \/ TaskRaises(t) \/ TaskNotAllowed(t) \/ TaskExitFails(t)
                               \/ TaskStart(t) \/ TaskSkip(t) \/ TaskNoExec(t) \/ TaskExit(t)
           \/ \E t \in Setscene, ok \in BOOLEAN : SceneExit(t, ok)
           \/ \E t \in Setscene : \/ SceneNotNeeded(t) \/ SceneFails(t) \/ SceneCurrent(t)
                                  \/ SceneStart(t) \/ SceneRaises(t) \/ BreakDeferral(t)
  <2>1. UNCHANGED hashVars
    BY <1>6 DEF Call, ReadDone, AfterExecute, TornDown, Raised, WorkerDies, NoticedAgain,
                DiskFull, NoScene, SceneDone, NoTaskNow, WaitForActive, Finished,
                UpdateHoldoff, TaskRaises, TaskNotAllowed, TaskExitFails, TaskStart,
                TaskSkip, TaskNoExec, TaskExit, SceneExit, SceneNotNeeded, SceneFails,
                SceneCurrent, SceneStart, SceneRaises, BreakDeferral
  <2> QED BY <1>5, <2>1
<1>7. CASE UNCHANGED vars
  BY <1>5, <1>7 DEF vars
<1> QED BY <1>1, <1>2, <1>3, <1>4, <1>6, <1>7 DEF Next, Server, Terminated

NoneDeferred == \A t \in Setscene : sq.deferred[t] = NoTask

\* No step but a migration gives a setscene task another stamp, and only one that
\* completes a task, or opens one again, has a task wait for another.
SameStamps == sq'.stamps = sq.stamps /\ (NoneDeferred => NoneDeferred')

\* The end of a setscene task changes no stamp and lets nothing go.
LEMMA StampsSceneExit ==
    ASSUME IInv, SInv, NEW t \in Setscene, NEW ok \in BOOLEAN, SceneExit(t, ok)
    PROVE  SameStamps /\ sq'.deferred = sq.deferred
<1> DEFINE s == IF ok THEN CompleteOutright(sq, t) ELSE FailOutright(sq, {t})
<1>1. SceneOK(sq) /\ t \in sq.running \cap sq.buildable
  BY DEF SceneExit, IInv, SceneOK, SceneType, SInv, SceneInv, Marked
<1>2. SceneOK(s)
  BY <1>1, CompleteOutrightOK, FailOutrightOK
<1>3. sq' = [s EXCEPT !.active = @ - 1, !.live = @ \ {t}]
  BY DEF SceneExit
<1>4. s.stamps = sq.stamps /\ s.deferred = sq.deferred
  <2>1. CASE ok
    BY <1>1, <2>1, CompleteDecides DEF Decides
  <2>2. CASE ~ok
    BY <1>1, <2>2, FailDecides DEF Decides
  <2> QED BY <2>1, <2>2
<1> HIDE DEF s
<1>5. sq'.stamps = sq.stamps /\ sq'.deferred = sq.deferred
  BY <1>2, <1>3, <1>4 DEF SceneOK, SceneType
<1> QED BY <1>5 DEF SameStamps, NoneDeferred

\* The end of a task changes no setscene stamp.
LEMMA StampsTask ==
    ASSUME IInv, NEW t \in Tasks, TaskSkip(t) \/ TaskNoExec(t) \/ TaskExit(t)
    PROVE  SameStamps
<1>1. PICK B, files : TaskCompleteOutright(t, B, files)
  <2>1. CASE TaskSkip(t)
    BY <2>1 DEF TaskSkip
  <2>2. CASE TaskNoExec(t)
    BY <2>2 DEF TaskNoExec
  <2>3. CASE TaskExit(t)
    BY <2>3 DEF TaskExit
  <2> QED BY <2>1, <2>2, <2>3
<1> DEFINE waiting == {d \in Setscene : sq.deferred[d] = t}
           deferring(f) == [sq EXCEPT !.deferred = [d \in Setscene |->
                                IF d = f THEN NoTask
                                ELSE IF d \in waiting THEN f ELSE sq.deferred[d]]]
<1>2. SceneOK(sq)
  BY DEF IInv
<1>3. CASE waiting = {}
  <2>1. sq' = sq
    BY <1>1, <1>3 DEF TaskCompleteOutright
  <2> QED BY <2>1 DEF SameStamps, NoneDeferred
<1>4. CASE waiting # {}
  <2>1. PICK f \in waiting : \E V \in SUBSET ToCheck(files, {f}) :
                                sq' = UpdateSceneData(files, deferring(f), {f}, V)
    BY <1>1, <1>4 DEF TaskCompleteOutright
  <2>2. PICK V \in SUBSET ToCheck(files, {f}) :
                sq' = UpdateSceneData(files, deferring(f), {f}, V)
    BY <2>1
  <2>3. V \in SUBSET {f} /\ {f} \in SUBSET Setscene /\ sq.deferred[f] = t
    BY DEF ToCheck
  <2> DEFINE s == deferring(f)
  <2>4. SceneOK(s) /\ s.stamps = sq.stamps
    BY <1>2, <2>3 DEF SceneOK, SceneType
  <2> HIDE DEF deferring
  <2>5. sq' = UpdateSceneData(files, s, {f}, V)
    BY <2>2
  <2> HIDE DEF s
  <2>6. sq'.stamps = sq.stamps
    <3>1. Decides(sq', s, Found(files, {f}))
      BY <2>3, <2>4, <2>5, UpdateDecides
    <3> QED BY <2>4, <3>1 DEF Decides
  <2>7. ~NoneDeferred
    BY <2>3, RunQueueAssumption DEF NoneDeferred
  <2> QED BY <2>6, <2>7 DEF SameStamps
<1> QED BY <1>3, <1>4

\* Nor does deciding one without a worker.
LEMMA StampsMoves ==
    ASSUME IInv, NEW t \in Setscene,
           \/ SceneNotNeeded(t) \/ SceneFails(t) \/ SceneCurrent(t) \/ BreakDeferral(t)
           \/ SceneStart(t) \/ SceneRaises(t)
    PROVE  SameStamps
<1> DEFINE s == [sq EXCEPT !.deferred[t] = NoTask]
<1>1. SceneOK(sq) /\ SceneOK(s)
  BY UndeferOK DEF IInv
<1>2. /\ s.stamps = sq.stamps
      /\ \A d \in Setscene : s.deferred[d] \in {sq.deferred[d], NoTask}
  BY <1>1 DEF SceneOK, SceneType
<1> SUFFICES /\ sq'.stamps = sq.stamps
             /\ \A d \in Setscene : sq'.deferred[d] \in {sq.deferred[d], NoTask}
  BY DEF SameStamps, NoneDeferred
<1>3. CASE SceneNotNeeded(t)
  <2> DEFINE r == Skip(sq, {t})
  <2>1. SceneOK(r) /\ r.stamps = sq.stamps /\ r.deferred = sq.deferred
    BY <1>1, SkipOK, SkipDecides DEF Decides
  <2>2. sq' = [r EXCEPT !.notneeded = @ \cup {t}, !.deferred[t] = NoTask]
    BY <1>3 DEF SceneNotNeeded
  <2> HIDE DEF r
  <2> QED BY <2>1, <2>2 DEF SceneOK, SceneType
<1>4. CASE SceneFails(t)
  <2>1. sq' = FailOutright(s, {t})
    BY <1>4 DEF SceneFails
  <2> HIDE DEF s
  <2> QED BY <1>1, <1>2, <2>1, FailDecides DEF Decides
<1>5. CASE SceneCurrent(t)
  <2>1. sq' = Skip(s, {t})
    BY <1>5 DEF SceneCurrent
  <2> HIDE DEF s
  <2> QED BY <1>1, <1>2, <2>1, SkipDecides DEF Decides
<1>6. CASE BreakDeferral(t)
  <2> DEFINE u == sq.deferred[t]
  <2>1. u \in Setscene
    BY <1>1, <1>6 DEF BreakDeferral, WasDeferred, SceneOK, SceneType
  <2>2. sq' = IF u \in runq_complete THEN s ELSE FailOutright(s, {u})
    BY <1>6 DEF BreakDeferral
  <2> HIDE DEF s, u
  <2> QED BY <1>1, <1>2, <2>1, <2>2, FailDecides DEF Decides
<1>7. CASE SceneStart(t)
  <2>1. /\ sq'.stamps = sq.stamps
        /\ sq'.deferred = [sq.deferred EXCEPT ![t] = NoTask]
    BY <1>1, <1>7 DEF SceneStart, SceneOK, SceneType
  <2> QED BY <1>1, <2>1 DEF SceneOK, SceneType
<1>8. CASE SceneRaises(t)
  <2>1. sq' = s
    BY <1>8 DEF SceneRaises
  <2> HIDE DEF s
  <2> QED BY <1>2, <2>1
<1> QED BY <1>3, <1>4, <1>5, <1>6, <1>7, <1>8

\* Nor does the end of a migration that opened nothing.
LEMMA StampsUpdateMigrated ==
    ASSUME IInv, StillHashes, UpdateMigrated
    PROVE  SameStamps /\ sq'.deferred = sq.deferred
<1> DEFINE T == {u[1] : u \in update_tasks}
           bad == {u[1] : u \in {v \in update_tasks : v[2]}}
           index(t) == HashIndex(t, unihash[t])
           defer(t) == t \in T /\ index(t) \in DOMAIN HashOwner /\ HashOwner[index(t)] # t
           newdef == [t \in Setscene |->
                         IF defer(t) THEN HashOwner[index(t)] ELSE sq.deferred[t]]
           need == sq.holdoff_need_update \/ changed
           s1 == [sq EXCEPT !.deferred = newdef, !.holdoff_need_update = need]
<1>1. PICK V \in SUBSET ToCheck(stampfiles, T) :
              sq' = FailOutright(UpdateSceneData(stampfiles, s1, T, V), bad)
  BY DEF UpdateMigrated
<1>2. T = {} /\ bad = {} /\ V = {} /\ SceneOK(sq)
  BY DEF StillHashes, ToCheck, IInv
<1>3. \A t \in Setscene : ~defer(t)
  BY <1>2
<1>4. newdef = sq.deferred
  <2>1. sq.deferred \in [Setscene -> Setscene \cup {NoTask}]
    BY <1>2 DEF SceneOK, SceneType
  <2>2. newdef = [t \in Setscene |-> sq.deferred[t]]
    <3> HIDE DEF defer
    <3> QED BY <1>3
  <2> QED BY <2>1, <2>2
<1>5. need \in BOOLEAN
  OBVIOUS
<1> HIDE DEF newdef, need
<1>6. SceneOK(s1) /\ s1.stamps = sq.stamps /\ s1.deferred = sq.deferred
  BY <1>2, <1>4, <1>5 DEF SceneOK, SceneType
<1> DEFINE r1 == UpdateSceneData(stampfiles, s1, T, V)
<1>7. SceneOK(r1) /\ r1.stamps = sq.stamps /\ r1.deferred = sq.deferred
  <2>1. T \in SUBSET Setscene /\ V \in SUBSET T
    BY <1>2
  <2> HIDE DEF T, s1
  <2>2. Decides(r1, s1, Found(stampfiles, T))
    BY <1>6, <2>1, UpdateDecides
  <2> HIDE DEF r1
  <2> QED BY <1>6, <2>2 DEF Decides
<1>8. sq'.stamps = sq.stamps /\ sq'.deferred = sq.deferred
  <2>1. bad \in SUBSET Setscene /\ sq' = FailOutright(r1, bad)
    BY <1>1, <1>2
  <2> HIDE DEF r1, bad
  <2> QED BY <1>7, <2>1, FailDecides DEF Decides
<1> QED BY <1>8 DEF SameStamps, NoneDeferred

\* No step does.
LEMMA StepStamps ==
    ASSUME IInv, SInv, StillHashes, [Next]_vars
    PROVE  SameStamps
<1>1. SceneOK(sq)
  BY DEF IInv
<1>2. CASE sq' = sq
  BY <1>2 DEF SameStamps, NoneDeferred
<1>3. CASE UpdateHoldoff
  <2>1. sq'.stamps = sq.stamps /\ sq'.deferred = sq.deferred
    BY <1>1, <1>3 DEF UpdateHoldoff, SceneOK, SceneType
  <2> QED BY <2>1 DEF SameStamps, NoneDeferred
<1>4. CASE UpdateMigrated
  BY <1>4, StampsUpdateMigrated
<1>5. CASE \E t \in Setscene : Migrate(t)
  BY <1>5 DEF Migrate, StillHashes
<1>6. CASE \E t \in Setscene, ok \in BOOLEAN : SceneExit(t, ok)
  BY <1>6, StampsSceneExit
<1>7. CASE \E t \in Setscene :
              \/ SceneNotNeeded(t) \/ SceneFails(t) \/ SceneCurrent(t) \/ BreakDeferral(t)
              \/ SceneStart(t) \/ SceneRaises(t)
  BY <1>7, StampsMoves
<1>8. CASE \E t \in Tasks : TaskSkip(t) \/ TaskNoExec(t) \/ TaskExit(t)
  BY <1>8, StampsTask
<1>9. CASE \/ Call(interrupted) \/ (\E stop \in {1, 2} : Call(stop))
           \/ ReadDone \/ AfterExecute \/ TornDown \/ Raised \/ WorkerDies \/ NoticedAgain
           \/ \E action \in {1, 2} : DiskFull(action)
           \/ NoScene \/ SceneDone \/ NoTaskNow \/ WaitForActive \/ Finished \/ Rehash
           \/ \E t \in Tasks : \/ TaskRaises(t) \/ TaskNotAllowed(t) \/ TaskExitFails(t)
                               \/ TaskStart(t)
           \/ \E t \in Tasks, h \in Hashes : TaskRehash(t, h)
           \/ UNCHANGED vars
  <2>1. sq' = sq
    BY <1>9 DEF Call, ReadDone, AfterExecute, TornDown, Raised, WorkerDies, NoticedAgain,
                DiskFull, NoScene, SceneDone, NoTaskNow, WaitForActive, Finished, Rehash,
                TaskNotAllowed, TaskRaises, TaskExitFails, TaskStart, TaskRehash, vars
  <2> QED BY <1>2, <2>1
<1> QED BY <1>3, <1>4, <1>5, <1>6, <1>7, <1>8, <1>9 DEF Next, Server, Terminated

\* What the workers have in hand is noted under the stamps they have had all along.
BusyOK ==
    /\ \A b \in build_stamps :
          b[2] \in {Stamp(b[1], "task", InitHash[b[1]]), Stamp(b[1], "setscene", InitHash[b[1]])}
    /\ \A b, c \in build_stamps : b[2] = c[2] => b[1] = c[1]

\* What is added was not there.
LEMMA OneMoreBusy ==
    ASSUME BusyOK, NEW t, NEW kind \in {"task", "setscene"},
           ~StampBusy(Stamp(t, kind, InitHash[t])),
           build_stamps' = build_stamps \cup {<<t, Stamp(t, kind, InitHash[t])>>}
    PROVE  BusyOK'
<1> DEFINE s == Stamp(t, kind, InitHash[t])
           n == <<t, s>>
<1>1. n[1] = t /\ n[2] = s
  OBVIOUS
<1>2. \A b \in build_stamps : b[2] # s
  BY DEF StampBusy
<1>3. build_stamps' = build_stamps \cup {n}
  OBVIOUS
<1>4. s \in {Stamp(t, "task", InitHash[t]), Stamp(t, "setscene", InitHash[t])}
  OBVIOUS
<1> HIDE DEF s, n
<1> QED BY <1>1, <1>2, <1>3, <1>4 DEF BusyOK

StillInv == StillHashes /\ StampsStand /\ BusyOK

\* Every step keeps the stamps of what is in hand apart.
LEMMA StepBusy ==
    ASSUME IInv, SInv, HandsInv, StillInv, [Next]_vars
    PROVE  BusyOK'
<1>1. CASE \E t \in Tasks : TaskStart(t)
  <2>1. PICK t \in Tasks : TaskStart(t)
    BY <1>1
  <2>2. /\ ~StampBusy(Stamp(t, "task", InitHash[t]))
        /\ build_stamps' = build_stamps \cup {<<t, Stamp(t, "task", InitHash[t])>>}
    BY <2>1 DEF TaskStart, Runs, Next_task, StillInv, StillHashes
  <2> QED BY <2>2, OneMoreBusy DEF StillInv
<1>2. CASE \E t \in Setscene : SceneStart(t)
  <2>1. PICK t \in Setscene : SceneStart(t)
    BY <1>2
  <2>2. /\ ~StampBusy(sq.stamps[t])
        /\ build_stamps' = build_stamps \cup {<<t, Stamp(t, "setscene", unihash[t])>>}
    BY <2>1 DEF SceneStart, SceneStarts, Usable, Next_setscene, Candidate
  <2>3. /\ ~StampBusy(Stamp(t, "setscene", InitHash[t]))
        /\ build_stamps' = build_stamps \cup {<<t, Stamp(t, "setscene", InitHash[t])>>}
    BY <2>2 DEF StillInv, StillHashes, StampsStand
  <2> QED BY <2>3, OneMoreBusy DEF StillInv
<1>3. CASE build_stamps' \subseteq build_stamps
  BY <1>3 DEF StillInv, BusyOK
<1>4. CASE \E t \in Tasks : \/ TaskSkip(t) \/ TaskNoExec(t) \/ TaskNotAllowed(t)
                            \/ TaskExit(t) \/ TaskExitFails(t)
  <2>1. build_stamps' \subseteq build_stamps
    BY <1>4 DEF TaskSkip, TaskNoExec, TaskNotAllowed, TaskExit, TaskExitFails, stampVars
  <2> QED BY <1>3, <2>1
<1>5. CASE \E t \in Setscene : SceneExit(t, TRUE) \/ SceneExit(t, FALSE)
  <2>1. build_stamps' \subseteq build_stamps
    BY <1>5 DEF SceneExit
  <2> QED BY <1>3, <2>1
<1> QED BY <1>1, <1>2, <1>3, <1>4, <1>5, OtherHands

\* The invariant of builds whose tasks keep their hashes.
LEMMA StillInvariance == ASSUME Rehashing = {} PROVE Spec => []StillInv
<1>1. Init => StillInv
  <2> SUFFICES ASSUME Init
               PROVE  StillInv
    OBVIOUS
  <2>1. PICK V \in SUBSET ToCheck(stampfiles, Setscene) :
                sq = UpdateSceneData(stampfiles, InitScene, Setscene, V)
    BY DEF Init
  <2> DEFINE T == Setscene
             s == InitScene
             r == UpdateSceneData(stampfiles, s, T, V)
  <2>2. \A t \in Setscene : s.stamps[t] = Stamp(t, "setscene", InitHash[t])
    BY DEF InitScene
  <2>3. V \in SUBSET T /\ T \in SUBSET Setscene
    BY DEF ToCheck
  <2>4. SceneOK(s)
    BY InitSceneOK
  <2>5. sq = r
    BY <2>1
  <2> HIDE DEF s, T
  <2>6. sq.stamps = s.stamps
    <3>1. Decides(r, s, Found(stampfiles, T))
      BY <2>3, <2>4, UpdateDecides
    <3> HIDE DEF r
    <3> QED BY <2>5, <3>1 DEF Decides
  <2> QED BY <2>2, <2>6 DEF Init, StillInv, StillHashes, StampsStand, BusyOK
<1>2. QInv /\ StillInv /\ [Next]_vars => StillInv'
  <2> SUFFICES ASSUME QInv, StillInv, [Next]_vars
               PROVE  StillInv'
    OBVIOUS
  <2>1. StillHashes'
    BY StepStill DEF QInv, StillInv
  <2>2. StampsStand'
    BY StepStamps DEF QInv, StillInv, StampsStand, SameStamps
  <2>3. BusyOK'
    BY StepBusy DEF QInv, StillInv
  <2> QED BY <2>1, <2>2, <2>3 DEF StillInv
<1> QED BY <1>1, <1>2, QInvariance, PTL DEF Spec

\* Two tasks that share a stamp file, and a work directory, are not in the workers'
\* hands together, in a build whose tasks keep their hashes.
THEOREM DistinctTheorem == ASSUME Rehashing = {} PROVE Spec => []DistinctStamps
<1>1. StillInv => DistinctStamps
  BY DEF StillInv, BusyOK, DistinctStamps
<1> QED BY <1>1, StillInvariance, PTL

\* No two setscene tasks of a recipe have the same hash when the build starts, so
\* none is deferred after another.
UniqueIndex ==
    \A s, t \in Setscene :
        HashIndex(s, InitHash[s]) = HashIndex(t, InitHash[t]) => s = t

\* Then no step decides again what was decided.
LEMMA NeverTwice ==
    ASSUME IInv, StillHashes, NoneDeferred, [Next]_vars
    PROVE  ~DecidesTwice
<1>1. ~ForcesCovered
  BY DEF ForcesCovered, BreakDeferral, WasDeferred, NoneDeferred
<1>2. ~FindsFailed
  <2> SUFFICES ASSUME NEW t \in sq.notcovered, sq.deferred[t] \in runq_complete',
                      sq.deferred[t] \notin runq_complete
               PROVE  FALSE
    BY DEF FindsFailed
  <2>1. t \in Setscene
    BY DEF IInv, SceneOK, SceneType
  <2>2. NoTask \in runq_complete' /\ NoTask \notin Tasks
    BY <2>1, RunQueueAssumption DEF NoneDeferred
  <2>3. runq_complete' \subseteq Tasks
    BY StepIInv DEF IInv, QueueOK
  <2> QED BY <2>2, <2>3
<1>3. ~FailsFound
  BY DEF FailsFound, Flagged, StillHashes
<1> QED BY <1>1, <1>2, <1>3 DEF DecidesTwice

\* No step of such a build decides twice, if no two setscene tasks are twins.
LEMMA StillDecided ==
    ASSUME Rehashing = {}, UniqueIndex
    PROVE  Spec => [][~DecidesTwice]_vars
<1>1. Init => NoneDeferred
  <2> SUFFICES ASSUME Init
               PROVE  NoneDeferred
    OBVIOUS
  <2>1. PICK V \in SUBSET ToCheck(stampfiles, Setscene) :
                sq = UpdateSceneData(stampfiles, InitScene, Setscene, V)
    BY DEF Init
  <2> DEFINE T == Setscene
             s == InitScene
             r == UpdateSceneData(stampfiles, s, T, V)
  <2>2. \A t \in Setscene : s.deferred[t] = NoTask
    <3>1. \A t \in Setscene : HashOwner[HashIndex(t, InitHash[t])] = t
      BY DEF HashOwner, UniqueIndex
    <3> QED BY <3>1 DEF InitScene
  <2>3. V \in SUBSET T /\ T \in SUBSET Setscene
    BY DEF ToCheck
  <2>4. SceneOK(s)
    BY InitSceneOK
  <2>5. sq = r
    BY <2>1
  <2> HIDE DEF s, T
  <2>6. sq.deferred = s.deferred
    <3>1. Decides(r, s, Found(stampfiles, T))
      BY <2>3, <2>4, UpdateDecides
    <3> HIDE DEF r
    <3> QED BY <2>5, <3>1 DEF Decides
  <2> QED BY <2>2, <2>6 DEF NoneDeferred
<1>2. IInv /\ SInv /\ StillInv /\ NoneDeferred /\ [Next]_vars
          => NoneDeferred' /\ ~DecidesTwice
  BY StepStamps, NeverTwice DEF StillInv, SameStamps
<1>3. ~DecidesTwice => [~DecidesTwice]_vars
  OBVIOUS
<1> QED BY <1>1, <1>2, <1>3, SInvariance, StillInvariance, PTL DEF Spec

\* Where tasks keep their hashes and none is deferred, what is decided is decided
\* once and for all, and a task that runs finds what it needs.
THEOREM UniqueTheorem ==
    ASSUME Rehashing = {}, UniqueIndex, OneLayer
    PROVE  Spec => [](DecidedOnce /\ DecisionsStand /\ InputsAvailable)
BY StillDecided, DecidedOnceTheorem, DecisionsTheorem, InputsTheorem, PTL

-----------------------------------------------------------------------------
(* One after the other *)

Twins(s, t) == HashIndex(s, InitHash[s]) = HashIndex(t, InitHash[t])

\* No more than two setscene tasks of a recipe have one hash.
Pairs ==
    \A r, s, t \in Setscene : Twins(r, s) /\ Twins(s, t) => r = s \/ s = t \/ r = t

\* A deferred task waits for its twin, which waits for nobody; of two twins that
\* wait for nobody one is decided; and what has been started is decided.
TwinInv ==
    /\ \A s \in Setscene : sq.deferred[s] # NoTask =>
          /\ Twins(s, sq.deferred[s]) /\ sq.deferred[s] # s
          /\ sq.deferred[sq.deferred[s]] = NoTask
    /\ \A s, t \in Undecided(sq) :
          Twins(s, t) /\ sq.deferred[s] = NoTask /\ sq.deferred[t] = NoTask => s = t
    /\ runq_running \cap Setscene \subseteq Decided(sq)

\* Nobody is deferred anew, and who no longer waits had a twin that is decided, or
\* is decided now.
Undefers ==
    \A s \in Setscene :
        \/ sq'.deferred[s] = sq.deferred[s]
        \/ /\ sq'.deferred[s] = NoTask
           /\ sq.deferred[s] \in Decided(sq') \/ s \in Decided(sq')

\* A task ends: what was deferred after it goes next.
LEMMA UndefersTask ==
    ASSUME Pairs, IInv, SInv, TwinInv, NEW t \in Tasks,
           TaskSkip(t) \/ TaskNoExec(t) \/ TaskExit(t),
           Decided(sq) \subseteq Decided(sq')
    PROVE  Undefers
<1>1. PICK B, files : TaskCompleteOutright(t, B, files)
  <2>1. CASE TaskSkip(t)
    BY <2>1 DEF TaskSkip
  <2>2. CASE TaskNoExec(t)
    BY <2>2 DEF TaskNoExec
  <2>3. CASE TaskExit(t)
    BY <2>3 DEF TaskExit
  <2> QED BY <2>1, <2>2, <2>3
<1>2. t \in Setscene => t \in Decided(sq)
  <2>1. CASE TaskSkip(t) \/ TaskNoExec(t)
    <3>1. phase = "sched" /\ Next_task(t)
      BY <2>1 DEF TaskSkip, TaskNoExec, Runs
    <3> QED BY <3>1, NextIsFree
  <2>2. CASE TaskExit(t)
    BY <2>2 DEF TaskExit, IInv, QueueOK, TwinInv
  <2> QED BY <2>1, <2>2
<1> DEFINE waiting == {d \in Setscene : sq.deferred[d] = t}
           newdef(f) == [d \in Setscene |-> IF d = f THEN NoTask
                                            ELSE IF d \in waiting THEN f ELSE sq.deferred[d]]
           deferring(f) == [sq EXCEPT !.deferred = newdef(f)]
<1>3. SceneOK(sq)
  BY DEF IInv
<1>4. CASE waiting = {}
  <2>1. sq' = sq
    BY <1>1, <1>4 DEF TaskCompleteOutright
  <2> QED BY <2>1 DEF Undefers
<1>5. CASE waiting # {}
  <2>1. PICK f \in waiting : \E V \in SUBSET ToCheck(files, {f}) :
                                sq' = UpdateSceneData(files, deferring(f), {f}, V)
    BY <1>1, <1>5 DEF TaskCompleteOutright
  <2>2. PICK V \in SUBSET ToCheck(files, {f}) :
                sq' = UpdateSceneData(files, deferring(f), {f}, V)
    BY <2>1
  <2>3. V \in SUBSET {f} /\ {f} \in SUBSET Setscene /\ sq.deferred[f] = t
    BY DEF ToCheck
  <2>4. t \in Setscene
    BY <1>3, <2>3, RunQueueAssumption DEF SceneOK, SceneType
  <2>5. waiting = {f}
    <3> SUFFICES ASSUME NEW d \in waiting
                 PROVE  d = f
      OBVIOUS
    <3>1. Twins(d, t) /\ d # t /\ Twins(f, t) /\ f # t
      BY <2>3, <2>4, RunQueueAssumption DEF TwinInv
    <3>2. Twins(t, f)
      BY <3>1 DEF Twins
    <3> QED BY <2>4, <3>1, <3>2 DEF Pairs
  <2> DEFINE s == deferring(f)
  <2>6. \A d \in Setscene : newdef(f)[d] = IF d = f THEN NoTask ELSE sq.deferred[d]
    BY <2>5
  <2>7. SceneOK(s) /\ s.deferred = newdef(f)
    BY <1>3, <2>3 DEF SceneOK, SceneType
  <2>8. sq' = UpdateSceneData(files, s, {f}, V)
    BY <2>2
  <2> HIDE DEF s, newdef
  <2>9. sq'.deferred = newdef(f)
    <3>1. Decides(sq', s, Found(files, {f}))
      BY <2>3, <2>7, <2>8, UpdateDecides
    <3> QED BY <2>7, <3>1 DEF Decides
  <2> QED BY <1>2, <2>3, <2>4, <2>6, <2>9 DEF Undefers
<1> QED BY <1>4, <1>5

\* A setscene task that is decided, started or forced waits no longer.
LEMMA UndefersMoves ==
    ASSUME IInv, SInv, TwinInv, NEW t \in Setscene,
           \/ SceneNotNeeded(t) \/ SceneFails(t) \/ SceneCurrent(t) \/ BreakDeferral(t)
           \/ SceneStart(t) \/ SceneRaises(t),
           Decided(sq) \subseteq Decided(sq')
    PROVE  Undefers
<1> DEFINE s == [sq EXCEPT !.deferred[t] = NoTask]
           u == sq.deferred[t]
<1>1. SceneOK(sq) /\ SceneOK(s)
  BY UndeferOK DEF IInv
<1>2. /\ s.deferred[t] = NoTask
      /\ \A d \in Setscene \ {t} : s.deferred[d] = sq.deferred[d]
  BY <1>1 DEF SceneOK, SceneType
<1>3. u \in Setscene \cup {NoTask}
  BY <1>1 DEF SceneOK, SceneType
<1>4. CASE SceneNotNeeded(t)
  <2> DEFINE r == Skip(sq, {t})
  <2>1. SceneOK(r) /\ r.deferred = sq.deferred /\ t \in r.covered
    BY <1>1, SkipOK, SkipDecides DEF Decides
  <2>2. sq' = [r EXCEPT !.notneeded = @ \cup {t}, !.deferred[t] = NoTask]
    BY <1>4 DEF SceneNotNeeded
  <2> HIDE DEF r
  <2>3. /\ sq'.deferred[t] = NoTask /\ t \in sq'.covered
        /\ \A d \in Setscene \ {t} : sq'.deferred[d] = sq.deferred[d]
    BY <2>1, <2>2 DEF SceneOK, SceneType
  <2> QED BY <2>3 DEF Undefers, Decided
<1>5. CASE SceneFails(t) \/ SceneCurrent(t) \/ SceneStart(t) \/ SceneRaises(t)
  <2>1. u \in runq_complete \cup {NoTask}
    BY <1>5 DEF SceneFails, SceneCurrent, SceneStart, SceneRaises, SceneStarts, Usable,
                Next_setscene
  <2>2. u = NoTask \/ u \in Decided(sq)
    BY <1>3, <2>1 DEF TwinInv, IInv, QueueOK
  <2>3. sq'.deferred = s.deferred
    <3>1. CASE SceneFails(t)
      <4>1. sq' = FailOutright(s, {t})
        BY <3>1 DEF SceneFails
      <4> HIDE DEF s
      <4> QED BY <1>1, <4>1, FailDecides DEF Decides
    <3>2. CASE SceneCurrent(t)
      <4>1. sq' = Skip(s, {t})
        BY <3>2 DEF SceneCurrent
      <4> HIDE DEF s
      <4> QED BY <1>1, <4>1, SkipDecides DEF Decides
    <3>3. CASE SceneStart(t)
      BY <1>1, <3>3 DEF SceneStart, SceneOK, SceneType
    <3>4. CASE SceneRaises(t)
      BY <3>4 DEF SceneRaises
    <3> QED BY <1>5, <3>1, <3>2, <3>3, <3>4
  <2> HIDE DEF s
  <2> QED BY <1>2, <2>2, <2>3 DEF Undefers
<1>6. CASE BreakDeferral(t)
  <2>1. u \in Setscene
    BY <1>3, <1>6 DEF BreakDeferral, WasDeferred
  <2>2. sq' = IF u \in runq_complete THEN s ELSE FailOutright(s, {u})
    BY <1>6 DEF BreakDeferral
  <2>3. CASE u \in runq_complete
    <3>1. u \in Decided(sq)
      BY <2>1, <2>3 DEF TwinInv, IInv, QueueOK
    <3>2. sq' = s
      BY <2>2, <2>3
    <3> HIDE DEF s
    <3> QED BY <1>2, <3>1, <3>2 DEF Undefers
  <2>4. CASE u \notin runq_complete
    <3>1. sq' = FailOutright(s, {u})
      BY <2>2, <2>4
    <3> DEFINE v == u
    <3>2. v \in Setscene /\ sq' = FailOutright(s, {v}) /\ v = sq.deferred[t]
      BY <2>1, <3>1
    <3> HIDE DEF s, v
    <3>3. sq'.deferred = s.deferred /\ v \in Decided(sq')
      BY <1>1, <3>2, FailDecides, FailSetOK DEF Decides
    <3> QED BY <1>2, <3>2, <3>3 DEF Undefers
  <2> QED BY <2>3, <2>4
<1> QED BY <1>4, <1>5, <1>6

\* No step lets a task go whose twin is still undecided.
LEMMA StepUndefers ==
    ASSUME Pairs, IInv, SInv, StillHashes, TwinInv, Decided(sq) \subseteq Decided(sq'),
           [Next]_vars
    PROVE  Undefers
<1>1. CASE sq'.deferred = sq.deferred
  BY <1>1 DEF Undefers
<1>2. CASE UpdateHoldoff
  <2>1. sq'.deferred = sq.deferred
    BY <1>2 DEF UpdateHoldoff, IInv, SceneOK, SceneType
  <2> QED BY <1>1, <2>1
<1>3. CASE UpdateMigrated
  BY <1>1, <1>3, StampsUpdateMigrated
<1>4. CASE \E t \in Setscene : Migrate(t)
  BY <1>4 DEF Migrate, StillHashes
<1>5. CASE \E t \in Setscene, ok \in BOOLEAN : SceneExit(t, ok)
  BY <1>1, <1>5, StampsSceneExit
<1>6. CASE \E t \in Setscene :
              \/ SceneNotNeeded(t) \/ SceneFails(t) \/ SceneCurrent(t) \/ BreakDeferral(t)
              \/ SceneStart(t) \/ SceneRaises(t)
  BY <1>6, UndefersMoves
<1>7. CASE \E t \in Tasks : TaskSkip(t) \/ TaskNoExec(t) \/ TaskExit(t)
  BY <1>7, UndefersTask
<1>8. CASE \/ Call(interrupted) \/ (\E stop \in {1, 2} : Call(stop))
           \/ ReadDone \/ AfterExecute \/ TornDown \/ Raised \/ WorkerDies \/ NoticedAgain
           \/ \E action \in {1, 2} : DiskFull(action)
           \/ NoScene \/ SceneDone \/ NoTaskNow \/ WaitForActive \/ Finished \/ Rehash
           \/ \E t \in Tasks : \/ TaskRaises(t) \/ TaskNotAllowed(t) \/ TaskExitFails(t)
                               \/ TaskStart(t)
           \/ \E t \in Tasks, h \in Hashes : TaskRehash(t, h)
           \/ UNCHANGED vars
  <2>1. sq' = sq
    BY <1>8 DEF Call, ReadDone, AfterExecute, TornDown, Raised, WorkerDies, NoticedAgain,
                DiskFull, NoScene, SceneDone, NoTaskNow, WaitForActive, Finished, Rehash,
                TaskNotAllowed, TaskRaises, TaskExitFails, TaskStart, TaskRehash, vars
  <2> QED BY <1>1, <2>1
<1> QED BY <1>2, <1>3, <1>4, <1>5, <1>6, <1>7, <1>8 DEF Next, Server, Terminated

\* What is started has been decided.
LEMMA StepStarted ==
    ASSUME IInv, SInv, runq_running \cap Setscene \subseteq Decided(sq),
           Decided(sq) \subseteq Decided(sq'), [Next]_vars
    PROVE  runq_running' \cap Setscene \subseteq Decided(sq')
<1>1. CASE \E t \in Tasks : TaskStart(t) \/ TaskSkip(t) \/ TaskNoExec(t)
  <2>1. PICK t \in Tasks : TaskStart(t) \/ TaskSkip(t) \/ TaskNoExec(t)
    BY <1>1
  <2>2. phase = "sched" /\ Next_task(t) /\ runq_running' = runq_running \cup {t}
    BY <2>1 DEF TaskStart, TaskSkip, TaskNoExec, Runs
  <2>3. t \in Setscene => t \in Decided(sq)
    BY <2>2, NextIsFree
  <2> QED BY <2>2, <2>3
<1>2. CASE UNCHANGED runq_running
  BY <1>2
<1>3. CASE \E t \in Tasks : TaskNotAllowed(t) \/ TaskExit(t) \/ TaskExitFails(t)
  BY <1>2, <1>3 DEF TaskNotAllowed, TaskExit, TaskExitFails
<1>4. CASE \E t \in Setscene : SceneStart(t) \/ SceneExit(t, TRUE) \/ SceneExit(t, FALSE)
  BY <1>2, <1>4 DEF SceneStart, SceneExit, runqVars
<1> QED BY <1>1, <1>2, <1>3, <1>4, OtherHands

\* Every step keeps TwinInv.
LEMMA StepTwin ==
    ASSUME Pairs, Rehashing = {}, IInv, SInv, StillHashes, TwinInv, [Next]_vars
    PROVE  TwinInv'
<1>1. Undecided(sq') \subseteq Undecided(sq)
  BY StepSInv, StepStill DEF Forward, Reopened, StillHashes
<1>2. Decided(sq) \subseteq Decided(sq')
  BY <1>1 DEF Undecided, Decided, IInv, SceneOK, SceneType
<1>3. Undefers
  BY <1>2, StepUndefers
<1>4. sq.deferred \in [Setscene -> Setscene \cup {NoTask}]
  BY DEF IInv, SceneOK, SceneType
<1>5. ASSUME NEW s \in Setscene, sq'.deferred[s] # NoTask
      PROVE  /\ Twins(s, sq'.deferred[s]) /\ sq'.deferred[s] # s
             /\ sq'.deferred[sq'.deferred[s]] = NoTask
  <2>1. sq'.deferred[s] = sq.deferred[s] /\ sq.deferred[s] \in Setscene
    BY <1>3, <1>4, <1>5 DEF Undefers
  <2>2. /\ Twins(s, sq.deferred[s]) /\ sq.deferred[s] # s
        /\ sq.deferred[sq.deferred[s]] = NoTask
    BY <1>5, <2>1 DEF TwinInv
  <2> QED BY <1>3, <2>1, <2>2 DEF Undefers
<1>6. ASSUME NEW s \in Undecided(sq'), NEW t \in Undecided(sq'), Twins(s, t),
             sq'.deferred[s] = NoTask, sq'.deferred[t] = NoTask
      PROVE  s = t
  <2>1. \A x, y \in Undecided(sq') :
           Twins(x, y) /\ sq'.deferred[x] = NoTask /\ sq.deferred[x] # NoTask => x = y
    <3> SUFFICES ASSUME NEW x \in Undecided(sq'), NEW y \in Undecided(sq'), Twins(x, y),
                        sq'.deferred[x] = NoTask, sq.deferred[x] # NoTask
                 PROVE  x = y
      OBVIOUS
    <3> DEFINE u == sq.deferred[x]
    <3>1. /\ x \in Setscene /\ x \notin Decided(sq')
          /\ y \in Setscene /\ y \notin Decided(sq')
      BY DEF Undecided
    <3>2. u \in Setscene /\ u \in Decided(sq')
      BY <1>3, <1>4, <3>1 DEF Undefers
    <3>3. Twins(x, u) /\ u # x
      BY <3>1 DEF TwinInv
    <3>4. Twins(u, x)
      BY <3>3 DEF Twins
    <3> HIDE DEF u
    <3> QED BY <3>1, <3>2, <3>3, <3>4 DEF Pairs
  <2>2. Twins(t, s)
    BY <1>6 DEF Twins
  <2>3. CASE sq.deferred[s] = NoTask /\ sq.deferred[t] = NoTask
    BY <1>1, <1>6, <2>3 DEF TwinInv
  <2> QED BY <1>6, <2>1, <2>2, <2>3
<1>7. runq_running' \cap Setscene \subseteq Decided(sq')
  BY <1>2, StepStarted DEF TwinInv
<1> QED BY <1>5, <1>6, <1>7 DEF TwinInv, Twins

\* When the build starts each setscene task is deferred after the first of its twins.
LEMMA InitTwin == Init => TwinInv
<1> SUFFICES ASSUME Init
             PROVE  TwinInv
  OBVIOUS
<1>1. PICK V \in SUBSET ToCheck(stampfiles, Setscene) :
              sq = UpdateSceneData(stampfiles, InitScene, Setscene, V)
  BY DEF Init
<1> DEFINE T == Setscene
           s == InitScene
           r == UpdateSceneData(stampfiles, s, T, V)
           owner(d) == HashOwner[HashIndex(d, InitHash[d])]
<1>2. \A d \in Setscene : s.deferred[d] = IF owner(d) = d THEN NoTask ELSE owner(d)
  BY DEF InitScene
<1>3. V \in SUBSET T /\ T \in SUBSET Setscene
  BY DEF ToCheck
<1>4. SceneOK(s)
  BY InitSceneOK
<1>5. sq = r
  BY <1>1
<1> HIDE DEF s, T
<1>6. sq.deferred = s.deferred
  <2>1. Decides(r, s, Found(stampfiles, T))
    BY <1>3, <1>4, UpdateDecides
  <2> HIDE DEF r
  <2> QED BY <1>5, <2>1 DEF Decides
<1>7. \A d \in Setscene : owner(d) \in Setscene /\ Twins(d, owner(d))
  <2> SUFFICES ASSUME NEW d \in Setscene
               PROVE  owner(d) \in Setscene /\ Twins(d, owner(d))
    OBVIOUS
  <2> DEFINE i == HashIndex(d, InitHash[d])
  <2>1. owner(d) = CHOOSE t \in Setscene : HashIndex(t, InitHash[t]) = i
    BY DEF HashOwner
  <2>2. \E t \in Setscene : HashIndex(t, InitHash[t]) = i
    OBVIOUS
  <2>3. owner(d) \in Setscene /\ HashIndex(owner(d), InitHash[owner(d)]) = i
    <3> HIDE DEF i
    <3> QED BY <2>1, <2>2
  <2> QED BY <2>3 DEF Twins
<1>8. \A d, e \in Setscene : Twins(d, e) => owner(d) = owner(e)
  BY DEF Twins
<1>9. \A d \in Setscene : sq.deferred[d] = IF owner(d) = d THEN NoTask ELSE owner(d)
  BY <1>2, <1>6
<1> HIDE DEF owner
<1>10. \A d \in Setscene : owner(owner(d)) = owner(d)
  BY <1>7, <1>8
<1>11. \A d \in Setscene : sq.deferred[d] # NoTask =>
          /\ Twins(d, sq.deferred[d]) /\ sq.deferred[d] # d
          /\ sq.deferred[sq.deferred[d]] = NoTask
  BY <1>7, <1>9, <1>10
<1>12. NoTask \notin Setscene
  BY RunQueueAssumption, GraphAssumption
<1>13. \A d, e \in Undecided(sq) :
          Twins(d, e) /\ sq.deferred[d] = NoTask /\ sq.deferred[e] = NoTask => d = e
  <2> SUFFICES ASSUME NEW d \in Setscene, NEW e \in Setscene, Twins(d, e),
                      sq.deferred[d] = NoTask, sq.deferred[e] = NoTask
               PROVE  d = e
    BY DEF Undecided
  <2>1. owner(d) = d /\ owner(e) = e
    BY <1>7, <1>9, <1>12
  <2> QED BY <1>8, <2>1
<1>14. runq_running \cap Setscene \subseteq Decided(sq)
  BY DEF Init
<1> QED BY <1>11, <1>13, <1>14 DEF TwinInv

\* Where tasks keep their hashes and no more than two setscene tasks of a recipe
\* share one, two that would unpack the same output are never in the workers'
\* hands together: the second waits, and when it no longer does the first is decided.
THEOREM OneAtATimeTheorem ==
    ASSUME Rehashing = {}, Pairs
    PROVE  Spec => []OneAtATime
<1>1. IInv /\ SInv /\ StillInv /\ TwinInv /\ [Next]_vars => TwinInv'
  BY StepTwin DEF StillInv
<1>2. IInv /\ SInv /\ StillInv /\ TwinInv => OneAtATime
  <2> SUFFICES ASSUME IInv, SInv, StillInv, TwinInv, NEW s \in sq.live, NEW t \in sq.live,
                      HashIndex(s, unihash[s]) = HashIndex(t, unihash[t])
               PROVE  s = t
    BY DEF OneAtATime
  <2>1. s \in Undecided(sq) /\ t \in Undecided(sq)
    BY DEF SInv, SceneInv, Marked, Undecided, IInv, SceneOK, SceneType
  <2>2. sq.deferred[s] = NoTask /\ sq.deferred[t] = NoTask
    BY DEF SInv, SceneInv, Marked
  <2>3. Twins(s, t)
    BY DEF Twins, StillInv, StillHashes
  <2> QED BY <2>1, <2>2, <2>3 DEF TwinInv
<1> QED BY <1>1, <1>2, InitTwin, SInvariance, StillInvariance, PTL DEF Spec

-----------------------------------------------------------------------------
(* How a build that is left alone ends *)

\* Setscene enforcement, if any, concerns ordinary tasks only.
EnforcesTasksOnly == Enforce => Setscene \subseteq Whitelisted

\* In such a build only a failed task leads to CleanUp, and Complete ends it.
OverInv ==
    Undisturbed =>
        /\ state \in {"Failed", "Complete"} => phase \in {"return", "teardown", "done"}
        /\ state = "CleanUp" => failed_tids # {}
        /\ state = "Complete" /\ sqdone => Tasks \subseteq runq_complete

\* A build that is over does not go on.
LEMMA OverPhase ==
    ASSUME IInv, SInv, [Next]_vars, phase \in {"return", "teardown", "done"},
           state \in {"Failed", "Complete"}
    PROVE  phase' \in {"return", "teardown", "done"}
<1>1. CASE AfterExecute \/ TornDown
  BY <1>1 DEF AfterExecute, TornDown, Goto
<1>2. CASE \/ \E t \in Setscene, ok \in BOOLEAN : SceneExit(t, ok)
           \/ \E t \in Tasks : TaskExit(t) \/ TaskExitFails(t)
           \/ \E t \in Tasks, h \in Hashes : TaskRehash(t, h)
           \/ WorkerDies \/ NoticedAgain \/ UNCHANGED vars
           \/ \E action \in {1, 2} : DiskFull(action)
  BY <1>2 DEF SceneExit, TaskExit, TaskExitFails, TaskRehash, WorkerDies, NoticedAgain,
              DiskFull, vars
<1>3. ~ \/ Call(interrupted) \/ (\E stop \in {1, 2} : Call(stop))
        \/ ReadDone \/ Raised \/ Rehash \/ UpdateMigrated \/ NoScene \/ UpdateHoldoff
        \/ SceneDone \/ NoTaskNow \/ WaitForActive \/ Finished
  BY DEF Call, ReadDone, Raised, Rehash, UpdateMigrated, NoScene, UpdateHoldoff, SceneDone,
         NoTaskNow, WaitForActive, Finished
<1>4. ~ \E t \in Setscene : \/ SceneNotNeeded(t) \/ SceneFails(t) \/ SceneCurrent(t)
                            \/ SceneStart(t) \/ SceneRaises(t) \/ BreakDeferral(t)
                            \/ Migrate(t)
  BY DEF SceneNotNeeded, SceneFails, SceneCurrent, SceneStart, SceneRaises, BreakDeferral,
         Migrate
<1>5. ~ \E t \in Tasks : \/ TaskNotAllowed(t) \/ TaskSkip(t) \/ TaskNoExec(t) \/ TaskStart(t)
                         \/ TaskRaises(t)
  BY DEF TaskNotAllowed, TaskSkip, TaskNoExec, TaskStart, TaskRaises, Runs
<1> QED BY <1>1, <1>2, <1>3, <1>4, <1>5 DEF Next, Server, Terminated

\* Left alone, the server goes into CleanUp only for a task that has failed.
LEMMA CleanUpFailed ==
    ASSUME EnforcesTasksOnly, IInv, SInv, RaisedIsDeath, [Next]_vars, Undisturbed',
           state # "CleanUp", state' = "CleanUp"
    PROVE  failed_tids' # {}
<1>1. interrupted' = 0 /\ full' = {} /\ ~died'
  BY DEF Undisturbed
<1>2. CASE \E stop \in 0..2 : Call(stop)
  <2>1. PICK stop \in 0..2 : Call(stop)
    BY <1>2
  <2>2. stop = 0 /\ ~died
    BY <1>1, <2>1 DEF Call
  <2>3. state' = state
    BY <2>1, <2>2 DEF Call, Polled
  <2> QED BY <2>3
<1>3. CASE \E t \in Tasks : TaskNotAllowed(t) \/ TaskExitFails(t)
  BY <1>3 DEF TaskNotAllowed, TaskExitFails, TaskFail
<1>4. CASE \E t \in Setscene, ok \in BOOLEAN : SceneExit(t, ok)
  BY <1>4 DEF SceneExit, EnforcesTasksOnly
<1>5. CASE \E t \in Setscene : Migrate(t)
  BY <1>5, MigrateHands
<1>6. CASE AfterExecute \/ Raised \/ SceneDone \/ Finished
  BY <1>6 DEF AfterExecute, Raised, SceneDone, Finished, Outcome
<1>7. CASE NoticedAgain \/ WaitForActive \/ \E action \in {1, 2} : DiskFull(action)
  BY <1>1, <1>7 DEF NoticedAgain, WaitForActive, DiskFull, Polled, outside
<1>8. CASE \/ ReadDone \/ TornDown \/ Rehash \/ UpdateMigrated \/ NoScene \/ UpdateHoldoff
           \/ NoTaskNow \/ UNCHANGED vars \/ WorkerDies
           \/ \E t \in Setscene : \/ SceneNotNeeded(t) \/ SceneFails(t) \/ SceneCurrent(t)
                                  \/ SceneStart(t) \/ SceneRaises(t) \/ BreakDeferral(t)
           \/ \E t \in Tasks : \/ TaskStart(t) \/ TaskRaises(t) \/ TaskSkip(t)
                               \/ TaskNoExec(t) \/ TaskExit(t)
           \/ \E t \in Tasks, h \in Hashes : TaskRehash(t, h)
  <2>1. state' = state
    BY <1>8 DEF ReadDone, TornDown, Rehash, UpdateMigrated, NoScene, UpdateHoldoff,
                NoTaskNow, SceneNotNeeded, SceneFails, SceneCurrent, SceneStart,
                SceneRaises, BreakDeferral, TaskStart, TaskRaises, TaskSkip, TaskNoExec,
                TaskExit, TaskRehash, WorkerDies, vars
  <2> QED BY <2>1
<1>9. interrupted \in 0..2
  BY DEF IInv, FlowOK
<1> HIDE DEF Undisturbed
<1> QED BY <1>2, <1>3, <1>4, <1>5, <1>6, <1>7, <1>8, <1>9 DEF Next, Server, Terminated

\* Only the end of the scene queue sets sqdone.
LEMMA DoneByScene ==
    ASSUME IInv, SInv, [Next]_vars, sqdone', ~sqdone
    PROVE  SceneDone
<1>1. CASE \E t \in Setscene : Migrate(t)
  BY <1>1, MigrateHands
<1>2. CASE UpdateMigrated
  BY <1>2 DEF UpdateMigrated
<1>3. CASE \/ ReadDone \/ AfterExecute \/ TornDown \/ Raised \/ WorkerDies \/ NoticedAgain
           \/ Call(interrupted) \/ (\E stop \in {1, 2} : Call(stop))
           \/ \E action \in {1, 2} : DiskFull(action)
           \/ NoScene \/ NoTaskNow \/ WaitForActive \/ Finished \/ Rehash \/ UpdateHoldoff
           \/ UNCHANGED vars
  BY <1>3 DEF ReadDone, AfterExecute, TornDown, Raised, WorkerDies, NoticedAgain, Call,
              DiskFull, NoScene, NoTaskNow, WaitForActive, Finished, Rehash, UpdateHoldoff,
              vars
<1>4. CASE \E t \in Setscene : \/ SceneNotNeeded(t) \/ SceneFails(t) \/ SceneCurrent(t)
                               \/ SceneStart(t) \/ SceneRaises(t) \/ BreakDeferral(t)
                               \/ SceneExit(t, TRUE) \/ SceneExit(t, FALSE)
  BY <1>4 DEF SceneNotNeeded, SceneFails, SceneCurrent, SceneStart, SceneRaises,
              BreakDeferral, SceneExit
<1>5. CASE \/ \E t \in Tasks : \/ TaskStart(t) \/ TaskRaises(t) \/ TaskSkip(t) \/ TaskNoExec(t)
                               \/ TaskExit(t) \/ TaskExitFails(t) \/ TaskNotAllowed(t)
           \/ \E t \in Tasks, h \in Hashes : TaskRehash(t, h)
  BY <1>5 DEF TaskStart, TaskRaises, TaskSkip, TaskNoExec, TaskExit, TaskExitFails,
              TaskNotAllowed, TaskRehash
<1> QED BY <1>1, <1>2, <1>3, <1>4, <1>5 DEF Next, Server, Terminated

\* What is complete stays so.
LEMMA CompleteStays ==
    ASSUME IInv, SInv, [Next]_vars
    PROVE  runq_complete \subseteq runq_complete'
<1>1. CASE \E t \in Tasks : \/ TaskStart(t) \/ TaskSkip(t) \/ TaskNoExec(t)
                            \/ TaskNotAllowed(t) \/ TaskExit(t) \/ TaskExitFails(t)
  BY <1>1 DEF TaskStart, TaskSkip, TaskNoExec, TaskNotAllowed, TaskExit, TaskExitFails,
              TaskCompleteOutright
<1>2. CASE \E t \in Setscene : SceneStart(t) \/ SceneExit(t, TRUE) \/ SceneExit(t, FALSE)
  BY <1>2 DEF SceneStart, SceneExit, runqVars
<1> QED BY <1>1, <1>2, OtherHands

\* Every step keeps OverInv.
LEMMA StepOver ==
    ASSUME EnforcesTasksOnly, IInv, SInv, RaisedIsDeath, OverInv, [Next]_vars
    PROVE  OverInv'
<1> SUFFICES ASSUME Undisturbed'
             PROVE  /\ state' \in {"Failed", "Complete"} =>
                          phase' \in {"return", "teardown", "done"}
                    /\ state' = "CleanUp" => failed_tids' # {}
                    /\ state' = "Complete" /\ sqdone' => Tasks \subseteq runq_complete'
  BY DEF OverInv
<1>1. Undisturbed
  BY UnforcedStays
<1>2. /\ state \in {"Failed", "Complete"} => phase \in {"return", "teardown", "done"}
      /\ state = "CleanUp" => failed_tids # {}
      /\ state = "Complete" /\ sqdone => Tasks \subseteq runq_complete
  BY <1>1 DEF OverInv
<1>3. interrupted' = 0 /\ full' = {} /\ ~died
  BY <1>1 DEF Undisturbed
<1>4. ASSUME state' = "CleanUp"
      PROVE  failed_tids' # {}
  BY <1>2, <1>4, FailedStays, CleanUpFailed
<1>5. ASSUME state' \in {"Failed", "Complete"}
      PROVE  /\ phase' \in {"return", "teardown", "done"}
             /\ state' = "Complete" /\ sqdone' => Tasks \subseteq runq_complete'
  <2>1. CASE state' = state
    <3>1. phase' \in {"return", "teardown", "done"}
      BY <1>2, <1>5, <2>1, OverPhase
    <3>2. ~SceneDone
      BY <1>2, <1>5, <2>1 DEF SceneDone
    <3>3. sqdone' => sqdone
      BY <3>2, DoneByScene DEF IInv, FlagsOK
    <3> QED BY <1>2, <2>1, <3>1, <3>3, CompleteStays
  <2>2. CASE AfterExecute /\ state = "CleanUp"
    <3>1. state' = Outcome
      BY <1>3, <1>5, <2>2 DEF AfterExecute, Polled
    <3>2. state' = "Failed"
      BY <1>2, <2>2, <3>1 DEF Outcome
    <3>3. ~StillActive
      BY <1>3, <1>5, <2>2 DEF AfterExecute, Polled
    <3> QED BY <2>2, <3>2, <3>3 DEF AfterExecute, Goto
  <2>3. CASE SceneDone /\ state' # state
    BY <1>5, <2>3 DEF SceneDone, SceneOver, Goto
  <2>4. CASE Finished
    BY <1>5, <2>4 DEF Finished, AllBuilt, Return, Goto, runqVars
  <2>5. StateMove
    BY StateMoves
  <2> QED BY <1>3, <1>5, <2>1, <2>2, <2>3, <2>4, <2>5 DEF StateMove
<1> QED BY <1>4, <1>5

-----------------------------------------------------------------------------
(* --force *)

\* The targets that could come from the cache have stamps of their own, none of
\* them from an earlier build, and something to run.
FreshTargets ==
    \A t \in Targets \cap Setscene :
        /\ t \notin NoExec
        /\ \A u \in Tasks : StampBase[u] = StampBase[t] => u = t
        /\ \A old \in OldStamps : ~Based(old, t)

\* What a step covers has a stamp, or nothing to run, or is not needed.
CoveredMove ==
    \A t \in sq'.covered \ sq.covered :
        t \in NoExec \/ Based(stampfiles', t) \/ (t \in Setscene /\ SceneNotNeeded(t))

\* The end of a task may cover the one that was deferred after it.
LEMMA CoveredTask ==
    ASSUME IInv, NEW t \in Tasks, TaskSkip(t) \/ TaskNoExec(t) \/ TaskExit(t)
    PROVE  CoveredMove
<1>1. PICK B, files : TaskCompleteOutright(t, B, files)
  <2>1. CASE TaskSkip(t)
    BY <2>1 DEF TaskSkip
  <2>2. CASE TaskNoExec(t)
    BY <2>2 DEF TaskNoExec
  <2>3. CASE TaskExit(t)
    BY <2>3 DEF TaskExit
  <2> QED BY <2>1, <2>2, <2>3
<1> DEFINE waiting == {d \in Setscene : sq.deferred[d] = t}
           deferring(f) == [sq EXCEPT !.deferred = [d \in Setscene |->
                                IF d = f THEN NoTask
                                ELSE IF d \in waiting THEN f ELSE sq.deferred[d]]]
<1>2. SceneOK(sq)
  BY DEF IInv
<1>3. CASE waiting = {}
  <2>1. sq' = sq
    BY <1>1, <1>3 DEF TaskCompleteOutright
  <2> QED BY <2>1 DEF CoveredMove
<1>4. CASE waiting # {}
  <2>1. PICK f \in waiting :
                /\ stampfiles' = SceneStamps(files, {f})
                /\ \E V \in SUBSET ToCheck(files, {f}) :
                      sq' = UpdateSceneData(files, deferring(f), {f}, V)
    BY <1>1, <1>4 DEF TaskCompleteOutright
  <2>2. PICK V \in SUBSET ToCheck(files, {f}) :
                sq' = UpdateSceneData(files, deferring(f), {f}, V)
    BY <2>1
  <2>3. V \in SUBSET {f} /\ {f} \in SUBSET Setscene /\ sq.deferred[f] = t
    BY DEF ToCheck
  <2> DEFINE s == deferring(f)
             K == Found(files, {f})
  <2>4. SceneOK(s) /\ s.covered = sq.covered
    BY <1>2, <2>3 DEF SceneOK, SceneType
  <2> HIDE DEF deferring
  <2>5. sq'.covered = sq.covered \cup K
    <3>1. sq'.covered = s.covered \cup K
      <4>1. sq' = UpdateSceneData(files, s, {f}, V)
        BY <2>2
      <4> HIDE DEF s
      <4> QED BY <2>3, <2>4, <4>1, UpdateDecides
    <3> QED BY <2>4, <3>1
  <2>6. \A d \in K : d \in NoExec \/ Based(files, d)
    BY <2>3, FoundHas
  <2>7. \A d \in K : d \in NoExec \/ Based(stampfiles', d)
    BY <2>1, <2>6, BaseStays
  <2> HIDE DEF K
  <2> QED BY <2>5, <2>7 DEF CoveredMove
<1> QED BY <1>3, <1>4

\* A setscene task is covered without a worker.
LEMMA CoveredMoves ==
    ASSUME IInv, NEW t \in Setscene,
           \/ SceneNotNeeded(t) \/ SceneFails(t) \/ SceneCurrent(t) \/ BreakDeferral(t)
    PROVE  CoveredMove
<1> DEFINE s == [sq EXCEPT !.deferred[t] = NoTask]
<1>1. SceneOK(sq) /\ SceneOK(s)
  BY UndeferOK DEF IInv
<1>2. s.covered = sq.covered
  BY <1>1 DEF SceneOK, SceneType
<1>3. CASE SceneNotNeeded(t)
  <2> DEFINE r == Skip(sq, {t})
  <2>1. SceneOK(r) /\ r.covered = sq.covered \cup {t}
    BY <1>1, SkipOK, SkipDecides
  <2>2. sq' = [r EXCEPT !.notneeded = @ \cup {t}, !.deferred[t] = NoTask]
    BY <1>3 DEF SceneNotNeeded
  <2> HIDE DEF r
  <2>3. sq'.covered = sq.covered \cup {t}
    BY <2>1, <2>2 DEF SceneOK, SceneType
  <2> QED BY <1>3, <2>3 DEF CoveredMove
<1>4. CASE SceneFails(t)
  <2>1. sq' = FailOutright(s, {t})
    BY <1>4 DEF SceneFails
  <2> HIDE DEF s
  <2>2. sq'.covered = s.covered
    BY <1>1, <2>1, FailDecides
  <2> QED BY <1>2, <2>2 DEF CoveredMove
<1>5. CASE SceneCurrent(t)
  <2>1. sq' = Skip(s, {t})
    BY <1>5 DEF SceneCurrent
  <2> HIDE DEF s
  <2>2. sq'.covered = s.covered \cup {t}
    BY <1>1, <2>1, SkipDecides
  <2>3. Based(stampfiles', t)
    BY <1>5, StampBased DEF SceneCurrent, stampVars
  <2> QED BY <1>2, <2>2, <2>3 DEF CoveredMove
<1>6. CASE BreakDeferral(t)
  <2> DEFINE u == sq.deferred[t]
  <2>1. u \in Setscene
    BY <1>1, <1>6 DEF BreakDeferral, WasDeferred, SceneOK, SceneType
  <2>2. sq' = IF u \in runq_complete THEN s ELSE FailOutright(s, {u})
    BY <1>6 DEF BreakDeferral
  <2> HIDE DEF s, u
  <2>3. sq'.covered = s.covered
    BY <1>1, <2>1, <2>2, FailDecides
  <2> QED BY <1>2, <2>3 DEF CoveredMove
<1> QED BY <1>3, <1>4, <1>5, <1>6

\* Decisions that were opened again are made again.
LEMMA CoveredMigrated ==
    ASSUME IInv, UpdateMigrated
    PROVE  CoveredMove
<1> DEFINE T == Reopened
           bad == Flagged
           index(t) == HashIndex(t, unihash[t])
           defer(t) == t \in T /\ index(t) \in DOMAIN HashOwner /\ HashOwner[index(t)] # t
           newdef == [t \in Setscene |->
                         IF defer(t) THEN HashOwner[index(t)] ELSE sq.deferred[t]]
           need == sq.holdoff_need_update \/ changed
           s1 == [sq EXCEPT !.deferred = newdef, !.holdoff_need_update = need]
           K == Found(stampfiles, T)
<1>1. SceneOK(sq) /\ T \in SUBSET Setscene /\ bad \in SUBSET Setscene
  BY DEF IInv, HashOK, Reopened, Flagged
<1>2. PICK V \in SUBSET ToCheck(stampfiles, T) :
              sq' = FailOutright(UpdateSceneData(stampfiles, s1, T, V), bad)
  BY DEF UpdateMigrated, Reopened, Flagged
<1>3. V \in SUBSET T /\ stampfiles \subseteq stampfiles'
  BY DEF ToCheck, UpdateMigrated, SceneStamps
<1>4. SceneOK(s1)
  <2>1. newdef \in [Setscene -> Setscene \cup {NoTask}]
    <3>1. \A t \in Setscene : sq.deferred[t] \in Setscene \cup {NoTask}
      BY <1>1 DEF SceneOK, SceneType
    <3> QED BY <3>1, HashOwnerType
  <2>2. need \in BOOLEAN
    OBVIOUS
  <2> HIDE DEF newdef, need
  <2> QED BY <1>1, <2>1, <2>2 DEF SceneOK, SceneType
<1>5. s1.covered = sq.covered
  <2> HIDE DEF newdef, need
  <2> QED BY <1>1 DEF SceneOK, SceneType
<1> DEFINE r1 == UpdateSceneData(stampfiles, s1, T, V)
<1> HIDE DEF s1, newdef, need, T, bad
<1>6. SceneOK(r1) /\ r1.covered = sq.covered \cup K
  <2>1. r1.covered = s1.covered \cup Found(stampfiles, T)
    BY <1>1, <1>3, <1>4, UpdateDecides
  <2>2. SceneOK(r1)
    <3>1. Decides(r1, s1, Found(stampfiles, T))
      BY <1>1, <1>3, <1>4, UpdateDecides
    <3> HIDE DEF r1
    <3> QED BY <3>1 DEF Decides
  <2> HIDE DEF r1
  <2> QED BY <1>5, <2>1, <2>2
<1>7. sq'.covered = r1.covered
  <2>1. sq' = FailOutright(r1, bad)
    BY <1>2
  <2> HIDE DEF r1
  <2> QED BY <1>1, <1>6, <2>1, FailDecides
<1>8. \A d \in K : d \in NoExec \/ Based(stampfiles', d)
  BY <1>1, <1>3, FoundHas DEF Based
<1> HIDE DEF r1, K
<1> QED BY <1>6, <1>7, <1>8 DEF CoveredMove

\* Every step covers only such tasks.
LEMMA StepCovered ==
    ASSUME IInv, SInv, [Next]_vars
    PROVE  CoveredMove
<1>1. SceneOK(sq)
  BY DEF IInv
<1>2. CASE sq'.covered \subseteq sq.covered
  BY <1>2 DEF CoveredMove
<1>3. CASE \E t \in Tasks : TaskSkip(t) \/ TaskNoExec(t) \/ TaskExit(t)
  BY <1>3, CoveredTask
<1>4. CASE \E t \in Setscene : \/ SceneNotNeeded(t) \/ SceneFails(t) \/ SceneCurrent(t)
                               \/ BreakDeferral(t)
  BY <1>4, CoveredMoves
<1>5. CASE UpdateMigrated
  BY <1>5, CoveredMigrated
<1>6. CASE \E t \in Setscene : Migrate(t)
  <2>1. PICK t \in Setscene : Migrate(t)
    BY <1>6
  <2>2. sq'.covered \subseteq sq.covered
    <3>1. CASE t \in runq_running \cup sq.live \/ Blocked(t)
      BY <2>1, <3>1, NeverSkipped DEF Migrate
    <3>2. CASE ~(t \in runq_running \cup sq.live) /\ ~Blocked(t)
      <4>1. \E U, X : sq' = [sq EXCEPT
                                !.done = (@ \ {t}) \ U,
                                !.buildable = X,
                                !.running = @ \ {t},
                                !.outrightfail = @ \ {t},
                                !.notcovered = @ \ {t},
                                !.covered = @ \ {t},
                                !.notneeded = @ \ {t},
                                !.stamps[t] = Stamp(t, "setscene", unihash[t])]
        BY <2>1, <3>2, NeverSkipped DEF Migrate
      <4> QED BY <1>1, <4>1 DEF SceneOK, SceneType
    <3> QED BY <3>1, <3>2
  <2> QED BY <1>2, <2>2
<1>7. CASE \E t \in Setscene, ok \in BOOLEAN : SceneExit(t, ok)
  <2>1. PICK t \in Setscene, ok \in BOOLEAN : SceneExit(t, ok)
    BY <1>7
  <2> DEFINE s == IF ok THEN CompleteOutright(sq, t) ELSE FailOutright(sq, {t})
  <2>2. t \in sq.running \cap sq.buildable
    BY <2>1 DEF SceneExit, IInv, SceneOK, SceneType, SInv, SceneInv, Marked
  <2>3. SceneOK(s)
    BY <1>1, <2>2, CompleteOutrightOK, FailOutrightOK
  <2>4. s.covered = sq.covered \cup (IF ok THEN {t} ELSE {})
    <3>1. CASE ok
      BY <1>1, <2>2, <3>1, CompleteDecides
    <3>2. CASE ~ok
      BY <1>1, <3>2, FailDecides
    <3> QED BY <3>1, <3>2
  <2>5. sq' = [s EXCEPT !.active = @ - 1, !.live = @ \ {t}]
    BY <2>1 DEF SceneExit
  <2> HIDE DEF s
  <2>6. sq'.covered = s.covered
    BY <2>3, <2>5 DEF SceneOK, SceneType
  <2>7. ASSUME ok
        PROVE  Based(stampfiles', t)
    <3>1. stampfiles' = MakeStamp(stampfiles, t, "setscene", unihash[t])
      BY <2>1, <2>7 DEF SceneExit
    <3>2. /\ Stamp(t, "setscene", unihash[t]) \in stampfiles'
          /\ Stamp(t, "setscene", unihash[t])[1] = StampBase[t]
      BY <3>1 DEF MakeStamp, Stamp
    <3> QED BY <3>2 DEF Based
  <2> QED BY <2>4, <2>6, <2>7 DEF CoveredMove
<1>8. CASE UpdateHoldoff \/ \E t \in Setscene : SceneStart(t) \/ SceneRaises(t)
  <2>1. CASE UpdateHoldoff
    BY <1>1, <1>2, <2>1 DEF UpdateHoldoff, SceneOK, SceneType
  <2>2. CASE \E t \in Setscene : SceneStart(t)
    BY <1>1, <1>2, <2>2 DEF SceneStart, SceneOK, SceneType
  <2>3. CASE \E t \in Setscene : SceneRaises(t)
    BY <1>1, <1>2, <2>3 DEF SceneRaises, SceneOK, SceneType
  <2> QED BY <1>8, <2>1, <2>2, <2>3
<1>9. CASE \/ Call(interrupted) \/ (\E stop \in {1, 2} : Call(stop))
           \/ ReadDone \/ AfterExecute \/ TornDown \/ Raised \/ WorkerDies \/ NoticedAgain
           \/ \E action \in {1, 2} : DiskFull(action)
           \/ NoScene \/ SceneDone \/ NoTaskNow \/ WaitForActive \/ Finished \/ Rehash
           \/ \E t \in Tasks : \/ TaskRaises(t) \/ TaskNotAllowed(t) \/ TaskExitFails(t)
                               \/ TaskStart(t)
           \/ \E t \in Tasks, h \in Hashes : TaskRehash(t, h)
           \/ UNCHANGED vars
  <2>1. sq' = sq
    BY <1>9 DEF Call, ReadDone, AfterExecute, TornDown, Raised, WorkerDies, NoticedAgain,
                DiskFull, NoScene, SceneDone, NoTaskNow, WaitForActive, Finished, Rehash,
                TaskNotAllowed, TaskRaises, TaskExitFails, TaskStart, TaskRehash, vars
  <2> QED BY <1>2, <2>1
<1> QED BY <1>3, <1>4, <1>5, <1>6, <1>7, <1>8, <1>9 DEF Next, Server, Terminated

\* Where a stamp comes from.
LEMMA NewBase ==
    ASSUME NEW files, NEW d
    PROVE  /\ \A t, kind, h : Based(MakeStamp(files, t, kind, h), d)
                                  => Based(files, d) \/ StampBase[t] = StampBase[d]
           /\ \A T : Based(SceneStamps(files, T), d)
                         => \/ Based(files, d)
                            \/ \E u \in NoExec : StampBase[u] = StampBase[d]
<1>1. ASSUME NEW t, NEW kind, NEW h, Based(MakeStamp(files, t, kind, h), d)
      PROVE  Based(files, d) \/ StampBase[t] = StampBase[d]
  <2>1. PICK f \in MakeStamp(files, t, kind, h) : f[1] = StampBase[d]
    BY <1>1 DEF Based
  <2>2. f \in files \/ f = Stamp(t, kind, h)
    BY DEF MakeStamp
  <2> QED BY <2>1, <2>2 DEF Stamp, Based
<1>2. ASSUME NEW T, Based(SceneStamps(files, T), d)
      PROVE  Based(files, d) \/ \E u \in NoExec : StampBase[u] = StampBase[d]
  <2>1. PICK f \in SceneStamps(files, T) : f[1] = StampBase[d]
    BY <1>2 DEF Based
  <2>2. f \in files \/ \E u \in NoExec : f = Stamp(u, "setscene", unihash[u])
    BY DEF SceneStamps
  <2> QED BY <2>1, <2>2 DEF Stamp, Based
<1> QED BY <1>1, <1>2

\* What a step makes stamps of was in a worker's hands, or has nothing to run.
BaseMove ==
    \A d \in Tasks :
        Based(stampfiles', d) =>
            \/ Based(stampfiles, d)
            \/ \E u \in sq.live \cup NoExec \cup runq_tasksrun' : StampBase[u] = StampBase[d]

\* The end of a task makes a stamp of that task only.
LEMMA TaskBaseMove ==
    ASSUME IInv, NEW t \in Tasks, TaskSkip(t) \/ TaskNoExec(t) \/ TaskExit(t)
    PROVE  BaseMove
<1>1. PICK B, files : /\ TaskCompleteOutright(t, B, files)
                      /\ \/ files = stampfiles
                         \/ files = TaskStamp(t) /\ t \in runq_tasksrun'
  <2>1. CASE TaskSkip(t)
    BY <2>1 DEF TaskSkip
  <2>2. CASE TaskNoExec(t)
    BY <2>2 DEF TaskNoExec
  <2>3. CASE TaskExit(t)
    BY <2>3 DEF TaskExit
  <2> QED BY <2>1, <2>2, <2>3
<1>2. \E T : stampfiles' \in {files, SceneStamps(files, T)}
  BY <1>1 DEF TaskCompleteOutright
<1>3. \/ files = stampfiles
      \/ t \in runq_tasksrun' /\ \E h : files = MakeStamp(stampfiles, t, "task", h)
  BY <1>1 DEF TaskStamp
<1>4. ASSUME NEW d \in Tasks, Based(files, d)
      PROVE  Based(stampfiles, d) \/ (t \in runq_tasksrun' /\ StampBase[t] = StampBase[d])
  BY <1>3, <1>4, NewBase
<1>5. ASSUME NEW d \in Tasks, Based(stampfiles', d)
      PROVE  Based(files, d) \/ \E u \in NoExec : StampBase[u] = StampBase[d]
  BY <1>2, <1>5, NewBase
<1> QED BY <1>4, <1>5 DEF BaseMove

\* No step makes another stamp.
LEMMA StepBase ==
    ASSUME IInv, SInv, [Next]_vars
    PROVE  BaseMove
<1>1. CASE \E t \in Tasks : TaskSkip(t) \/ TaskNoExec(t) \/ TaskExit(t)
  BY <1>1, TaskBaseMove
<1>2. CASE \E t \in Setscene, ok \in BOOLEAN : SceneExit(t, ok)
  <2>1. PICK t \in Setscene, ok \in BOOLEAN : SceneExit(t, ok)
    BY <1>2
  <2>2. t \in sq.live
    BY <2>1 DEF SceneExit
  <2>3. stampfiles' \in {stampfiles, MakeStamp(stampfiles, t, "setscene", unihash[t])}
    BY <2>1 DEF SceneExit
  <2> QED BY <2>2, <2>3, NewBase DEF BaseMove
<1>3. CASE UpdateMigrated
  <2>1. stampfiles' = SceneStamps(stampfiles, Reopened)
    BY <1>3 DEF UpdateMigrated, Reopened
  <2> QED BY <2>1, NewBase DEF BaseMove
<1>4. CASE stampfiles' = stampfiles
  BY <1>4 DEF BaseMove
<1>5. CASE \/ Call(interrupted) \/ (\E stop \in {1, 2} : Call(stop))
           \/ ReadDone \/ AfterExecute \/ TornDown \/ Raised \/ WorkerDies \/ NoticedAgain
           \/ \E action \in {1, 2} : DiskFull(action)
           \/ NoScene \/ SceneDone \/ NoTaskNow \/ WaitForActive \/ Finished \/ Rehash
           \/ UpdateHoldoff \/ UNCHANGED vars
  BY <1>4, <1>5 DEF Call, ReadDone, AfterExecute, TornDown, Raised, WorkerDies, NoticedAgain,
              DiskFull, NoScene, SceneDone, NoTaskNow, WaitForActive, Finished, Rehash,
              UpdateHoldoff, stampVars, vars
<1>6. CASE \E t \in Setscene : \/ SceneNotNeeded(t) \/ SceneFails(t) \/ SceneCurrent(t)
                               \/ SceneStart(t) \/ SceneRaises(t) \/ BreakDeferral(t)
                               \/ Migrate(t)
  BY <1>4, <1>6 DEF SceneNotNeeded, SceneFails, SceneCurrent, SceneStart, SceneRaises,
                    BreakDeferral, Migrate, stampVars
<1>7. CASE \/ \E t \in Tasks : \/ TaskNotAllowed(t) \/ TaskStart(t) \/ TaskRaises(t)
                               \/ TaskExitFails(t)
           \/ \E t \in Tasks, h \in Hashes : TaskRehash(t, h)
  BY <1>4, <1>7 DEF TaskNotAllowed, TaskFail, TaskStart, TaskRaises, TaskExitFails,
                    TaskRehash, stampVars
<1> QED BY <1>1, <1>2, <1>3, <1>5, <1>6, <1>7 DEF Next, Server, Terminated

\* A setscene task gets into a worker's hands when it is started.
LEMMA LiveMoves ==
    ASSUME IInv, SInv, [Next]_vars, NEW t \in sq'.live \ sq.live
    PROVE  t \in Setscene /\ SceneStart(t)
<1>1. CASE \E u \in Setscene : SceneStart(u)
  <2>1. PICK u \in Setscene : SceneStart(u)
    BY <1>1
  <2>2. sq'.live = sq.live \cup {u}
    BY <2>1 DEF SceneStart, IInv, SceneOK, SceneType
  <2> QED BY <2>1, <2>2
<1>2. CASE \E u \in Setscene : SceneExit(u, TRUE) \/ SceneExit(u, FALSE)
  <2>1. PICK u \in Setscene, ok \in BOOLEAN : SceneExit(u, ok)
    BY <1>2
  <2> DEFINE s == IF ok THEN CompleteOutright(sq, u) ELSE FailOutright(sq, {u})
  <2>2. SceneOK(s) /\ SameWork(s, sq)
    BY CompleteOutrightOK, FailOutrightOK DEF IInv
  <2>3. sq' = [s EXCEPT !.active = @ - 1, !.live = @ \ {u}]
    BY <2>1 DEF SceneExit
  <2> HIDE DEF s
  <2>4. sq'.live = sq.live \ {u}
    BY <2>2, <2>3 DEF SceneOK, SceneType, SameWork
  <2> QED BY <2>4
<1>3. CASE \E u \in Tasks : TaskSkip(u) \/ TaskNoExec(u) \/ TaskExit(u)
  <2>1. PICK u \in Tasks : TaskSkip(u) \/ TaskNoExec(u) \/ TaskExit(u)
    BY <1>3
  <2>2. PICK B \in SUBSET Tasks : \E files : TaskCompleteOutright(u, B, files)
    <3>1. runq_buildable \cup {u} \in SUBSET Tasks /\ runq_buildable \in SUBSET Tasks
      BY DEF IInv, QueueOK
    <3> QED BY <2>1, <3>1 DEF TaskSkip, TaskNoExec, TaskExit
  <2>3. PICK files : TaskCompleteOutright(u, B, files)
    BY <2>2
  <2>4. sq'.live = sq.live
    BY <2>3, TaskCompleteOutrightInv DEF SInv, SameWork, TaskCompleteOutright
  <2> QED BY <2>4
<1>4. CASE \E u \in Tasks : TaskStart(u) \/ TaskNotAllowed(u) \/ TaskExitFails(u)
  BY <1>4 DEF TaskStart, TaskNotAllowed, TaskExitFails
<1> QED BY <1>1, <1>2, <1>3, <1>4, OtherHands

\* Until it has run, a target has no stamp and no setscene variant in its place.
ForceInv ==
    /\ \A t \in Targets \cap Setscene :
          /\ t \notin sq.live
          /\ t \in runq_tasksrun \/ (t \notin sq.covered /\ ~Based(stampfiles, t))
    /\ Targets \cap SkippedTasks = {}

\* Every step keeps ForceInv.
LEMMA StepForce ==
    ASSUME Forced, FreshTargets, IInv, SInv, ForceInv, [Next]_vars
    PROVE  ForceInv'
<1>1. WorkMove /\ CoveredMove /\ BaseMove
  BY TaskWorkMove, OtherWorkMove, StepCovered, StepBase
<1>2. ASSUME NEW t \in Targets \cap Setscene
      PROVE  t \notin sq'.live
  <2>1. t \notin sq.live
    BY DEF ForceInv
  <2>2. ~SceneStart(t)
    BY DEF SceneStart, SceneStarts, Usable
  <2> QED BY <2>1, <2>2, LiveMoves
<1>3. ASSUME NEW t \in Targets \cap Setscene
      PROVE  t \in runq_tasksrun' \/ (t \notin sq'.covered /\ ~Based(stampfiles', t))
  <2> SUFFICES ASSUME t \notin runq_tasksrun'
               PROVE  t \notin sq'.covered /\ ~Based(stampfiles', t)
    OBVIOUS
  <2>1. t \notin sq.live /\ t \notin sq.covered /\ ~Based(stampfiles, t)
    BY <1>1 DEF ForceInv, WorkMove
  <2>2. t \in Tasks /\ t \notin NoExec /\ \A u \in Tasks : StampBase[u] = StampBase[t] => u = t
    BY GraphAssumption DEF FreshTargets
  <2>3. sq.live \cup NoExec \cup runq_tasksrun' \subseteq Tasks
    BY StepIInv, RunQueueAssumption, GraphAssumption DEF IInv, QueueOK, SceneOK, SceneType
  <2>4. ~Based(stampfiles', t)
    BY <1>1, <2>1, <2>2, <2>3 DEF BaseMove
  <2>5. ~SceneNotNeeded(t)
    BY DEF SceneNotNeeded, Skippable
  <2> QED BY <1>1, <2>1, <2>2, <2>4, <2>5 DEF CoveredMove
<1>4. ASSUME NEW d \in Targets, d \in SkippedTasks'
      PROVE  FALSE
  <2>1. d \notin runq_tasksrun /\ d \notin runq_tasksrun'
    BY <1>1, <1>4 DEF SkippedTasks, WorkMove
  <2>2. d \in tasks_covered /\ d \in Tasks /\ phase = "sched"
    BY <1>1, <1>4 DEF ForceInv, WorkMove
  <2>3. d \in Covered(sq)
    BY <2>2, FreshNow DEF Fresh
  <2>4. d \in sq.done /\ d \notin NotCovered(sq)
        /\ (d \in sq.covered \/ \E u \in sq.covered : d \in sq_covered_tasks[u])
    BY <2>3 DEF Covered
  <2>5. d \in Setscene
    BY <2>4 DEF NotCovered, cantskip
  <2>6. d \in sq.covered
    BY <2>4, <2>5, CoveredBy DEF IInv, SceneOK, SceneType
  <2> QED BY <2>1, <2>5, <2>6 DEF ForceInv
<1> QED BY <1>2, <1>3, <1>4 DEF ForceInv

\* With --force every target runs, in every order of decisions, migrations and
\* failures: none is taken from the cache, found in order or passed over.
THEOREM ForcedTheorem ==
    ASSUME EnforcesTasksOnly, FreshTargets
    PROVE  Spec => []ForcedTargetsRun
<1>1. CASE Forced
  <2> DEFINE Inv == RaisedIsDeath /\ OverInv /\ ForceInv
  <2>1. Init => Inv
    <3> SUFFICES ASSUME Init
                 PROVE  Inv
      OBVIOUS
    <3>1. RaisedIsDeath /\ OverInv /\ SkippedTasks = {}
      BY DEF Init, RaisedIsDeath, OverInv, SkippedTasks
    <3>2. ASSUME NEW t \in Targets \cap Setscene
          PROVE  t \notin sq.live /\ t \notin sq.covered /\ ~Based(stampfiles, t)
      <4>1. ~Based(stampfiles, t)
        <5>1. PICK old \in OldStamps : stampfiles = SceneStamps(old, Setscene)
          BY DEF Init
        <5>2. ~Based(old, t) /\ t \in Tasks /\ t \notin NoExec
              /\ \A u \in Tasks : StampBase[u] = StampBase[t] => u = t
          BY GraphAssumption DEF FreshTargets
        <5> QED BY <5>1, <5>2, NewBase, RunQueueAssumption
      <4>2. t \notin sq.covered
        BY <4>1, InitCover DEF FreshTargets
      <4>3. sq.live = {}
        <5>1. PICK V \in SUBSET ToCheck(stampfiles, Setscene) :
                      sq = UpdateSceneData(stampfiles, InitScene, Setscene, V)
          BY DEF Init
        <5>2. SameWork(sq, InitScene)
          BY <5>1, InitSceneOK, UpdateSceneDataOK DEF ToCheck
        <5> QED BY <5>2 DEF SameWork, InitScene
      <4> QED BY <4>1, <4>2, <4>3
    <3> QED BY <3>1, <3>2 DEF ForceInv
  <2>2. (IInv /\ SInv) /\ Inv /\ [Next]_vars => Inv'
    BY <1>1, StepRaised, StepOver, StepForce
  <2>3. IInv /\ Inv => ForcedTargetsRun
    BY DEF ForcedTargetsRun, OverInv, ForceInv, SkippedTasks, IInv
  <2> HIDE DEF Inv
  <2> QED BY <2>1, <2>2, <2>3, SInvariance, PTL DEF Spec
<1>2. CASE ~Forced
  <2>1. ForcedTargetsRun
    BY <1>2 DEF ForcedTargetsRun
  <2> QED BY <2>1, PTL
<1> QED BY <1>1, <1>2

=============================================================================
