------------------------------- MODULE RWLock -------------------------------
(***************************************************************************)
(* What the callers of bb.utils.lockfile() and unlockfile() rely on: a     *)
(* readers/writer lock named by a path.  A caller holds the lock in one of *)
(* two modes, a writer holds it alone, and a caller may lose it by dying.  *)
(* Lockfile is shown to implement this.                                    *)
(***************************************************************************)
CONSTANT Procs

VARIABLE holds          \* holds[p]: the mode p has the lock in

RWTypeOK == holds \in [Procs -> {"no", "shared", "exclusive"}]

RWInit == holds = [p \in Procs |-> "no"]

Acquire(p, mode) ==
    /\ holds[p] = "no"
    /\ \A q \in Procs : holds[q] # "exclusive"
    /\ mode = "exclusive" => \A q \in Procs : holds[q] = "no"
    /\ holds' = [holds EXCEPT ![p] = mode]

Release(p) ==
    /\ holds[p] # "no"
    /\ holds' = [holds EXCEPT ![p] = "no"]

RWNext == \E p \in Procs :
    \/ Acquire(p, "shared")
    \/ Acquire(p, "exclusive")
    \/ Release(p)

RWSpec == RWInit /\ [][RWNext]_holds
=============================================================================
