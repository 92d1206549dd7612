------------------------------ MODULE TaskOrder ------------------------------
(***************************************************************************)
(* What the execution of a task graph promises: a task is started at most  *)
(* once, after everything it depends on is finished, and stays finished.   *)
(* A task that needs no work is started and finished in one step.          *)
(***************************************************************************)
CONSTANTS Tasks, Depends

VARIABLES started, finished

Init == started = {} /\ finished = {}

Ready(t) == t \in Tasks \ started /\ Depends[t] \subseteq finished

Begin(t) ==
    /\ Ready(t)
    /\ started' = started \cup {t}
    /\ UNCHANGED finished

End(t) ==
    /\ t \in started \ finished
    /\ finished' = finished \cup {t}
    /\ UNCHANGED started

Skip(t) ==
    /\ Ready(t)
    /\ started' = started \cup {t}
    /\ finished' = finished \cup {t}

Next == \E t \in Tasks : Begin(t) \/ End(t) \/ Skip(t)

Spec == Init /\ [][Next]_<<started, finished>>
=============================================================================
