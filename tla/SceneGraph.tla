----------------------------- MODULE SceneGraph -----------------------------
(***************************************************************************)
(* The task graph of a build, and the graph of its setscene tasks that     *)
(* build_scenequeue_data() derives from it.                                *)
(*                                                                         *)
(* A task of Setscene can be replaced by its setscene variant, which       *)
(* fetches the task's output from a cache; what the task alone needed is   *)
(* then not needed either.  The functions keep the names of SQData.        *)
(***************************************************************************)
EXTENDS Integers, FiniteSets

CONSTANTS
    Tasks,              \* runtaskentries: every task of the build
    Depends,            \* Depends[t]: the tasks t depends on
    Setscene,           \* runq_setscene_tids
    SetsceneDepends,    \* [depends] of a setscene variant, on other variants
    Targets             \* target_tids: what the user asked for

ASSUME GraphAssumption ==
    /\ Depends \in [Tasks -> SUBSET Tasks]
    /\ Setscene \subseteq Tasks
    /\ SetsceneDepends \in [Setscene -> SUBSET Setscene]
    /\ Targets \subseteq Tasks

Revdeps(t) == {u \in Tasks : t \in Depends[u]}

\* What S reaches by Succ, S included: the least set that is closed.
Closed(S, Succ) == {X \in SUBSET Tasks : S \subseteq X /\ \A x \in X : Succ[x] \subseteq X}

Reach(S, Succ) == {t \in Tasks : \A X \in Closed(S, Succ) : t \in X}

\* The ordinary tasks whose output only matters if s itself has to run.
sq_covered_tasks ==
    [s \in Setscene |-> Reach(Depends[s] \ Setscene,
                              [t \in Tasks |-> Depends[t] \ Setscene])]

\* The graph collapsed onto the setscene tasks: who needs s, directly or
\* through ordinary tasks.
Squash(s) == {r \in Setscene : \/ s \in Depends[r]
                               \/ \E n \in sq_covered_tasks[r] : s \in Depends[n]}

sq_harddeps == [h \in Setscene |-> {s \in Setscene : h \in SetsceneDepends[s]}]

\* What has to be decided before s is looked at: first those who need s, as
\* they may make s unnecessary.  A variant others depend on explicitly goes
\* before them instead.
sq_revdeps ==
    [s \in Setscene |-> SetsceneDepends[s] \cup
                        (IF sq_harddeps[s] = {} THEN Squash(s) ELSE {})]

sq_deps == [r \in Setscene |-> {s \in Setscene : r \in sq_revdeps[s]}]

cantskip == Targets \ Setscene

\* What the build needs whatever the caches hold: from the end points down to
\* the first setscene tasks, these included.
unskippable ==
    Reach({t \in Tasks : Revdeps(t) = {}} \cup cantskip,
          [t \in Tasks |-> IF t \in Setscene THEN {} ELSE Depends[t]])
=============================================================================
