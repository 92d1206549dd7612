--------------------------- MODULE LockfileProofs ---------------------------
(***************************************************************************)
(* Lockfile is a readers/writer lock for any set of processes and any set  *)
(* of inodes, whatever processes die.                                      *)
(***************************************************************************)
EXTENDS Lockfile, TLAPS

(***************************************************************************)
(* MutualExclusion is not inductive: it says nothing of the processes that *)
(* are about to hold the lock, nor of the one that is about to unlink the  *)
(* file.  The strengthening has three parts: what flock a process has at   *)
(* each position, that flocks on one inode exclude each other, and that    *)
(* the inode of a holder, or of the process about to unlink, is the one at *)
(* the path.                                                               *)
(***************************************************************************)
ModeAtPC ==
    \A p \in Procs :
        /\ pc[p] \in {"idle", "open", "flock", "none"} => mode[p] = "no"
        /\ pc[p] \in {"exists", "compare", "held"} => mode[p] = Op(p)
        /\ pc[p] = "unlink" => mode[p] = "exclusive"

FlocksExclude ==
    \A p, q \in Procs :
        p # q /\ fd[p] = fd[q] /\ mode[p] = "exclusive" => mode[q] = "no"

HolderOwnsFile ==
    \A p \in Procs : pc[p] \in {"held", "unlink"} => disk = fd[p]

IInv == TypeOK /\ ModeAtPC /\ FlocksExclude /\ HolderOwnsFile

LEMMA InitIInv == Init => IInv
BY NoInodeAssumption
   DEF Init, IInv, TypeOK, ModeAtPC, FlocksExclude, HolderOwnsFile, Requests,
       PCs, Acquiring

\* Every step of the lock keeps the strengthened invariant.
LEMMA NextIInv == IInv /\ [Next]_vars => IInv'
<1> SUFFICES ASSUME IInv, [Next]_vars PROVE IInv'
    OBVIOUS
<1> USE DEF IInv, TypeOK, ModeAtPC, FlocksExclude, HolderOwnsFile, PCs,
        Acquiring, Goto, CloseFile, Op
<1>1. ASSUME NEW p \in Procs, NEW r \in Requests, Call(p, r) PROVE IInv'
      BY <1>1 DEF Call, Requests
<1>2. ASSUME NEW p \in Procs, Open(p) PROVE IInv'
  <2>1. TypeOK' /\ ModeAtPC'
        BY <1>2, NoInodeAssumption DEF Open
  <2>2. FlocksExclude'
        BY <1>2 DEF Open
  <2>3. HolderOwnsFile'
        BY <1>2, NoInodeAssumption DEF Open
  <2> QED BY <2>1, <2>2, <2>3
<1>3. ASSUME NEW p \in Procs, Flock(p) PROVE IInv'
  <2>1. TypeOK' /\ ModeAtPC' /\ HolderOwnsFile'
        BY <1>3 DEF Flock
  <2>2. FlocksExclude'
        BY <1>3 DEF Flock, Grantable
  <2> QED BY <2>1, <2>2
<1>4. ASSUME NEW p \in Procs, FlockFails(p) PROVE IInv'
      BY <1>4 DEF FlockFails
<1>5. ASSUME NEW p \in Procs, Exists(p) PROVE IInv'
      BY <1>5 DEF Exists
<1>6. ASSUME NEW p \in Procs, Compare(p) PROVE IInv'
      BY <1>6 DEF Compare
<1>7. ASSUME NEW p \in Procs, Drop(p) PROVE IInv'
      BY <1>7 DEF Drop
<1>8. ASSUME NEW p \in Procs, ReturnNone(p) PROVE IInv'
      BY <1>8 DEF ReturnNone
<1>9. ASSUME NEW p \in Procs, Unlock(p) PROVE IInv'
  <2>1. TypeOK' /\ ModeAtPC' /\ HolderOwnsFile'
        BY <1>9 DEF Unlock
  <2>2. FlocksExclude'
        BY <1>9 DEF Unlock, Grantable
  <2> QED BY <2>1, <2>2
<1>10. ASSUME NEW p \in Procs, Unlink(p) PROVE IInv'
  <2>1. TypeOK' /\ ModeAtPC' /\ FlocksExclude'
        BY <1>10 DEF Unlink
  <2>2. ASSUME NEW q \in Procs, pc'[q] \in {"held", "unlink"} PROVE FALSE
    <3>1. q # p /\ pc[q] \in {"held", "unlink"} /\ fd[q] = fd[p]
          BY <1>10, <2>2 DEF Unlink
    <3>2. mode[q] # "no" /\ mode[p] = "exclusive"
          BY <1>10, <3>1 DEF Unlink
    <3> QED BY <3>1, <3>2
  <2> QED BY <2>1, <2>2
<1>11. ASSUME NEW p \in Procs, Close(p) PROVE IInv'
      BY <1>11 DEF Close
<1>12. ASSUME NEW p \in Procs, Crash(p) PROVE IInv'
      BY <1>12 DEF Crash
<1>13. CASE UNCHANGED vars
      BY <1>13 DEF vars
<1> QED
    BY <1>1, <1>2, <1>3, <1>4, <1>5, <1>6, <1>7, <1>8, <1>9, <1>10, <1>11,
       <1>12, <1>13 DEF Next, Step

LEMMA Invariance == Spec => []IInv
BY InitIInv, NextIInv, PTL DEF Spec

\* A writer shares the lock with nobody: two holders have a flock on the inode
\* that is at the path, so on the same one.
THEOREM MutexTheorem == Spec => []MutualExclusion
<1>1. IInv => MutualExclusion
      BY DEF IInv, TypeOK, ModeAtPC, FlocksExclude, HolderOwnsFile,
             MutualExclusion, Writer, Holds, Op
<1> QED BY <1>1, Invariance, PTL

\* The file of a holder is never removed by somebody else.
THEOREM HeldFileTheorem == Spec => []HeldFileStays
<1>1. IInv => HeldFileStays
      BY DEF IInv, HolderOwnsFile, HeldFileStays, Holds
<1> QED BY <1>1, Invariance, PTL

\* Both, and the types: what the callers of lockfile() rely on.
THEOREM LockSafetyTheorem == Spec => []LockSafety
<1>1. IInv => TypeOK
      BY DEF IInv
<1> QED BY <1>1, Invariance, MutexTheorem, HeldFileTheorem, PTL DEF LockSafety

-----------------------------------------------------------------------------

held == [p \in Procs |-> IF Holds(p) THEN Op(p) ELSE "no"]

\* A step that takes nobody into or out of "held" is a stuttering step.
LEMMA SameHolders ==
    ASSUME \A p \in Procs : Holds(p)' <=> Holds(p),
           \A p \in Procs : Holds(p) => req'[p] = req[p]
    PROVE  held' = held
BY DEF held, Op

\* Each step acquires the lock, releases it, or changes no holder.
LEMMA NextRefines ==
    IInv /\ [Next]_vars => [RW!RWNext]_held
<1> SUFFICES ASSUME IInv, [Next]_vars PROVE [RW!RWNext]_held
    OBVIOUS
<1> USE DEF IInv, TypeOK, PCs, Acquiring, Holds, Goto, CloseFile
<1>1. ASSUME NEW p \in Procs, Compare(p), disk = fd[p]
      PROVE  RW!Acquire(p, "shared") \/ RW!Acquire(p, "exclusive")
  <2>1. held[p] = "no" /\ held' = [held EXCEPT ![p] = Op(p)]
        BY <1>1 DEF Compare, held, Op
  <2>2. ASSUME NEW q \in Procs
        PROVE  /\ held[q] # "exclusive"
               /\ Op(p) = "exclusive" => held[q] = "no"
        BY <1>1 DEF Compare, held, Op, ModeAtPC, FlocksExclude, HolderOwnsFile
  <2>3. CASE req[p].shared
        BY <2>1, <2>2, <2>3 DEF RW!Acquire, held, Op
  <2>4. CASE ~req[p].shared
        BY <2>1, <2>2, <2>4 DEF RW!Acquire, held, Op
  <2> QED BY <2>3, <2>4
<1>2. ASSUME NEW p \in Procs, Unlock(p) \/ (Crash(p) /\ Holds(p))
      PROVE  RW!Release(p)
  <2>1. /\ pc[p] = "held" /\ req' = req
        /\ \E l \in {"unlink", "close", "idle"} : pc' = [pc EXCEPT ![p] = l]
        BY <1>2 DEF Unlock, Crash
  <2>2. pc \in [Procs -> PCs]
        OBVIOUS
  <2> HIDE DEF IInv, TypeOK, PCs, Acquiring, Goto, CloseFile
  <2>3. \A q \in Procs : pc'[q] = "held" <=> (q # p /\ pc[q] = "held")
        BY <2>1, <2>2
  <2>4. held[p] # "no"
        BY <2>1 DEF held, Op
  <2>5. held' = [held EXCEPT ![p] = "no"]
        BY <2>1, <2>3 DEF held, Op
  <2> QED BY <2>4, <2>5 DEF RW!Release, held
<1>3. ASSUME NEW p \in Procs,
             \/ \E r \in Requests : Call(p, r)
             \/ Open(p) \/ Flock(p) \/ FlockFails(p) \/ Exists(p)
             \/ Compare(p) /\ disk # fd[p]
             \/ Drop(p) \/ ReturnNone(p) \/ Unlink(p) \/ Close(p)
             \/ Crash(p) /\ ~Holds(p)
      PROVE  held' = held
  <2>1. /\ \A q \in Procs : Holds(q)' <=> Holds(q)
        /\ \A q \in Procs : Holds(q) => req'[q] = req[q]
        BY <1>3 DEF Call, Open, Flock, FlockFails, Exists, Compare, Drop,
                    ReturnNone, Unlink, Close, Crash
  <2> QED BY <2>1, SameHolders
<1>4. CASE UNCHANGED vars
      BY <1>4 DEF vars, held, Op
<1>5. CASE Next
  <2>1. PICK p \in Procs : \/ \E r \in Requests : Call(p, r)
                           \/ Step(p)
                           \/ Crash(p)
        BY <1>5 DEF Next
  <2>2. CASE Compare(p) /\ disk = fd[p]
        BY <2>2, <1>1 DEF RW!RWNext
  <2>3. CASE Unlock(p) \/ (Crash(p) /\ Holds(p))
        BY <2>3, <1>2 DEF RW!RWNext
  <2>4. CASE ~(Compare(p) /\ disk = fd[p]) /\ ~(Unlock(p) \/ (Crash(p) /\ Holds(p)))
    <3> HIDE DEF IInv, TypeOK, PCs, Acquiring, Holds, Goto, CloseFile
    <3> QED BY <2>1, <2>4, <1>3 DEF Step
  <2> QED BY <2>2, <2>3, <2>4
<1> QED BY <1>4, <1>5

\* Lockfile implements the readers/writer lock its callers count on.
THEOREM RefinementTheorem == Spec => ImplementsRWLock
<1>1. Init => RW!RWInit
      BY DEF Init, RW!RWInit, Holds
<1>2. IInv /\ [Next]_vars => [RW!RWNext]_held
      BY NextRefines
<1> QED BY <1>1, <1>2, Invariance, PTL DEF Spec, ImplementsRWLock, RW!RWSpec, held
=============================================================================
