------------------------------ MODULE Lockfile ------------------------------
(***************************************************************************)
(* bb.utils.lockfile() and unlockfile(): a lock made of a file that its    *)
(* holder removes when it is done.                                         *)
(*                                                                         *)
(* flock() locks an inode, the callers want to lock a path.  The file at   *)
(* the path is unlinked by whoever releases the lock, so a process may     *)
(* have opened, and then locked, an inode that is no longer the one at the *)
(* path; lockfile() therefore compares inode numbers after locking and     *)
(* starts again when they differ.                                          *)
(*                                                                         *)
(* One path is modelled.  Each system call is a step: the open (which      *)
(* creates the file when it is missing), the flock, the exists test, the   *)
(* stat, the unlink, the close.  A process may die at any of them; the     *)
(* kernel then drops its descriptor and its flock, and the file stays.     *)
(***************************************************************************)
CONSTANTS
    Procs,      \* the processes that use the lock
    Inodes,     \* the inode numbers of the file system
    NoInode     \* no file at the path, no descriptor open

ASSUME NoInodeAssumption == NoInode \notin Inodes

VARIABLES
    pc,         \* where each process is in lockfile() or unlockfile()
    req,        \* the arguments of the call a process is in
    fd,         \* the inode behind a process's open file, or NoInode
    mode,       \* the flock a process has on that inode
    disk        \* the inode at the path, or NoInode

vars == <<pc, req, fd, mode, disk>>

Requests == [shared : BOOLEAN, retry : BOOLEAN, block : BOOLEAN]

\* Positions inside lockfile(): the loop between "open" and "held".
Acquiring == {"open", "flock", "exists", "compare", "drop"}

PCs == Acquiring \cup {"idle", "held", "none", "unlink", "close"}

\* The types, and when a process has the file open.
TypeOK ==
    /\ pc \in [Procs -> PCs]
    /\ req \in [Procs -> Requests]
    /\ fd \in [Procs -> Inodes \cup {NoInode}]
    /\ mode \in [Procs -> {"no", "shared", "exclusive"}]
    /\ disk \in Inodes \cup {NoInode}
    /\ \A p \in Procs : fd[p] = NoInode <=> pc[p] \in {"idle", "open", "none"}

Init ==
    /\ pc = [p \in Procs |-> "idle"]
    /\ req = [p \in Procs |-> [shared |-> FALSE, retry |-> TRUE, block |-> FALSE]]
    /\ fd = [p \in Procs |-> NoInode]
    /\ mode = [p \in Procs |-> "no"]
    /\ disk \in Inodes \cup {NoInode}     \* a dead process may have left the file

Goto(p, l) == pc' = [pc EXCEPT ![p] = l]

-----------------------------------------------------------------------------
(* lockfile() *)

Call(p, r) ==
    /\ pc[p] = "idle"
    /\ req' = [req EXCEPT ![p] = r]
    /\ Goto(p, "open")
    /\ UNCHANGED <<fd, mode, disk>>

\* An inode number is in use while the path or an open file refers to it.
Unused(i) == i # disk /\ \A q \in Procs : fd[q] # i

Open(p) ==
    /\ pc[p] = "open"
    /\ IF disk = NoInode
       THEN \E i \in Inodes : Unused(i) /\ disk' = i
       ELSE UNCHANGED disk
    /\ fd' = [fd EXCEPT ![p] = disk']
    /\ Goto(p, "flock")
    /\ UNCHANGED <<req, mode>>

\* flock(2): p's lock in mode m is compatible with those of all the others.
Grantable(p, m) ==
    \A q \in Procs \ {p} :
        fd[q] = fd[p] => /\ mode[q] # "exclusive"
                         /\ m = "exclusive" => mode[q] = "no"

Op(p) == IF req[p].shared THEN "shared" ELSE "exclusive"

NonBlocking(p) == ~req[p].retry /\ ~req[p].block

Flock(p) ==
    /\ pc[p] = "flock"
    /\ Grantable(p, Op(p))
    /\ mode' = [mode EXCEPT ![p] = Op(p)]
    /\ Goto(p, "exists")
    /\ UNCHANGED <<req, fd, disk>>

FlockFails(p) ==                            \* EWOULDBLOCK, an OSError
    /\ pc[p] = "flock"
    /\ NonBlocking(p)
    /\ ~Grantable(p, Op(p))
    /\ Goto(p, "drop")
    /\ UNCHANGED <<req, fd, mode, disk>>

\* Mutant of Exists: a file at the path is taken for the file that was locked.
ExistsIsEnough(p) ==
    /\ pc[p] = "exists"
    /\ Goto(p, IF disk # NoInode THEN "held" ELSE "drop")
    /\ UNCHANGED <<req, fd, mode, disk>>

Exists(p) ==
    /\ pc[p] = "exists"
    /\ Goto(p, IF disk # NoInode THEN "compare" ELSE "drop")
    /\ UNCHANGED <<req, fd, mode, disk>>

\* Mutant of Compare: the inode numbers are not compared.
CompareNothing(p) ==
    /\ pc[p] = "compare"
    /\ Goto(p, IF disk # NoInode THEN "held" ELSE "drop")
    /\ UNCHANGED <<req, fd, mode, disk>>

\* The stat may also find no file: the OSError leads to the same close.
Compare(p) ==
    /\ pc[p] = "compare"
    /\ Goto(p, IF disk = fd[p] THEN "held" ELSE "drop")
    /\ UNCHANGED <<req, fd, mode, disk>>

\* Closing the file releases the flock with it.
CloseFile(p) ==
    /\ fd' = [fd EXCEPT ![p] = NoInode]
    /\ mode' = [mode EXCEPT ![p] = "no"]

\* Mutant of Drop: the file is opened once, before the loop.
DropKeepsFile(p) ==
    /\ pc[p] = "drop"
    /\ mode' = [mode EXCEPT ![p] = "no"]
    /\ Goto(p, IF req[p].retry THEN "flock" ELSE "none")
    /\ UNCHANGED <<req, fd, disk>>

Drop(p) ==
    /\ pc[p] = "drop"
    /\ CloseFile(p)
    /\ Goto(p, IF req[p].retry THEN "open" ELSE "none")
    /\ UNCHANGED <<req, disk>>

ReturnNone(p) ==
    /\ pc[p] = "none"
    /\ Goto(p, "idle")
    /\ UNCHANGED <<req, fd, mode, disk>>

-----------------------------------------------------------------------------
(* unlockfile() *)

\* The promotion to an exclusive lock: nothing to do for a writer.  When
\* another reader is in the way the call fails, and flock(2) has by then
\* taken the shared lock away.
Unlock(p) ==
    /\ pc[p] = "held"
    /\ IF Grantable(p, "exclusive")
       THEN /\ mode' = [mode EXCEPT ![p] = "exclusive"]
            /\ Goto(p, "unlink")
       ELSE /\ mode' = [mode EXCEPT ![p] = "no"]
            /\ Goto(p, "close")
    /\ UNCHANGED <<req, fd, disk>>

\* os.unlink() takes the name: whatever inode is at the path goes.
Unlink(p) ==
    /\ pc[p] = "unlink"
    /\ disk' = NoInode
    /\ Goto(p, "close")
    /\ UNCHANGED <<req, fd, mode>>

Close(p) ==
    /\ pc[p] = "close"
    /\ CloseFile(p)
    /\ Goto(p, "idle")
    /\ UNCHANGED <<req, disk>>

-----------------------------------------------------------------------------

Crash(p) ==
    /\ pc[p] # "idle"
    /\ CloseFile(p)
    /\ Goto(p, "idle")
    /\ UNCHANGED <<req, disk>>

\* What p does on its own once it is in a call, or has the lock.
Step(p) ==
    \/ Open(p)
    \/ Flock(p)
    \/ FlockFails(p)
    \/ Exists(p)
    \/ Compare(p)
    \/ Drop(p)
    \/ ReturnNone(p)
    \/ Unlock(p)
    \/ Unlink(p)
    \/ Close(p)

Next == \E p \in Procs :
    \/ \E r \in Requests : Call(p, r)
    \/ Step(p)
    \/ Crash(p)

Spec == Init /\ [][Next]_vars

\* Every process that is in a call, and every holder, gets to run: the callers
\* release the lock in a finally clause or at the end of a short section.  A
\* run in which processes keep dying for ever is no witness against progress.
FairSpec ==
    /\ Spec
    /\ \A p \in Procs : WF_vars(Step(p))
    /\ <>[][\A p \in Procs : ~Crash(p)]_vars

-----------------------------------------------------------------------------
(* Properties *)

Holds(p) == pc[p] = "held"

Writer(p) == Holds(p) /\ ~req[p].shared

\* Two processes between lockfile() and unlockfile() are both readers, even
\* though they may have locked different inodes.
MutualExclusion ==
    \A p, q \in Procs : p # q /\ Writer(p) => ~Holds(q)

\* The file a holder locked stays the one at the path for as long as it is
\* held: no releasing process unlinks it under a holder, which would let the
\* next caller in through a new inode.
HeldFileStays == \A p \in Procs : Holds(p) => disk = fd[p]

\* What the callers of lockfile() rely on, whoever crashes or gives up meanwhile: a writer is
\* alone, and the file that is locked stays the file at the path.
LockSafety == TypeOK /\ MutualExclusion /\ HeldFileStays

\* The lock is a readers/writer lock.
RW == INSTANCE RWLock WITH
        holds <- [p \in Procs |-> IF Holds(p) THEN Op(p) ELSE "no"]

ImplementsRWLock == RW!RWSpec

\* The retry loop is not a livelock: while a process is in it, the lock is
\* taken by it or by somebody else.
SomebodyGetsIt ==
    \A p \in Procs :
        (pc[p] \in Acquiring /\ req[p].retry) ~>
            (pc[p] = "idle" \/ \E q \in Procs : Holds(q))
=============================================================================
