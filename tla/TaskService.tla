----------------------------- MODULE TaskService -----------------------------
(***************************************************************************)
(* What the run queue counts on when it gives tasks to a worker: a task it *)
(* sent reports any number of events, then at most one exit code, and      *)
(* nothing comes after the exit code or from a task that was not sent.     *)
(***************************************************************************)
EXTENDS Sequences

CONSTANTS Task, Events, Codes, None

VARIABLES sent, heard, result

vars == <<sent, heard, result>>

Init ==
    /\ sent = {}
    /\ heard = [t \in Task |-> <<>>]
    /\ result = [t \in Task |-> None]

Send(t) ==
    /\ t \notin sent
    /\ sent' = sent \cup {t}
    /\ UNCHANGED <<heard, result>>

InHand(t) == t \in sent /\ result[t] = None

Report(t, e) ==
    /\ InHand(t)
    /\ heard' = [heard EXCEPT ![t] = Append(@, e)]
    /\ UNCHANGED <<sent, result>>

End(t, c) ==
    /\ InHand(t)
    /\ result' = [result EXCEPT ![t] = c]
    /\ UNCHANGED <<sent, heard>>

Next == \E t \in Task :
            \/ Send(t)
            \/ \E e \in Events : Report(t, e)
            \/ \E c \in Codes : End(t, c)

Spec == Init /\ [][Next]_vars
=============================================================================
