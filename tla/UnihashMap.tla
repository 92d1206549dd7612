----------------------------- MODULE UnihashMap -----------------------------
(***************************************************************************)
(* What builders count on when they share a hash equivalence server: two   *)
(* maps that are written once.  The first taskhash known for a task, and   *)
(* the first unihash known for an output, stay; whoever reports an output  *)
(* is told its unihash, whoever asks for a taskhash is told its unihash.   *)
(*                                                                         *)
(* A request takes effect between the call and the return of the builder   *)
(* that makes it.  One that was sent again, or given up, may take effect   *)
(* once more at any later time.                                            *)
(***************************************************************************)
CONSTANTS Builder, Taskhash, Outhash, None, NoAnswer, Idle

VARIABLES
    first,              \* first[t]: the unihash of taskhash t
    output,             \* output[o]: the unihash of output o
    late,               \* requests that may still arrive
    op, answer          \* of each builder: what it asks, what it will be told

vars == <<first, output, late, op, answer>>

Requests ==
    [ask : {"get"}, taskhash : Taskhash]
    \cup [ask : {"report"}, taskhash : Taskhash, outhash : Outhash, unihash : Taskhash]
    \cup [ask : {"report-equiv"}, taskhash : Taskhash, unihash : Taskhash]

Init ==
    /\ first = [t \in Taskhash |-> None]
    /\ output = [o \in Outhash |-> None]
    /\ late = {}
    /\ op = [b \in Builder |-> Idle]
    /\ answer = [b \in Builder |-> NoAnswer]

Once(map, k, v) == IF map[k] = None THEN [map EXCEPT ![k] = v] ELSE map

Effect(r) ==
    \/ r.ask = "get" /\ UNCHANGED <<first, output>>
    \/ /\ r.ask = "report"
       /\ output' = Once(output, r.outhash, r.unihash)
       /\ first' = Once(first, r.taskhash, output'[r.outhash])
    \/ /\ r.ask = "report-equiv"
       /\ first' = Once(first, r.taskhash, r.unihash)
       /\ UNCHANGED output

Told(r) == IF r.ask = "report" THEN output'[r.outhash] ELSE first'[r.taskhash]

Ask(b, r) ==
    /\ op[b] = Idle
    /\ op' = [op EXCEPT ![b] = r]
    /\ UNCHANGED <<first, output, late, answer>>

Answer(b) ==
    /\ op[b] # Idle
    /\ Effect(op[b])
    /\ answer' = [answer EXCEPT ![b] = Told(op[b])]
    /\ UNCHANGED <<late, op>>

Late(r) ==
    /\ Effect(r)
    /\ late' = late \ {r}
    /\ UNCHANGED <<op, answer>>

\* The answer is lost, and the request sent again.
Again(b) ==
    /\ op[b] # Idle
    /\ answer' = [answer EXCEPT ![b] = NoAnswer]
    /\ late' \in {late, late \cup {op[b]}}
    /\ UNCHANGED <<first, output, op>>

\* The builder takes the answer, or gives up; it may ask something else at once.
Return(b) ==
    /\ op[b] # Idle
    /\ \/ answer[b] # NoAnswer /\ late' = late
       \/ late' \in {late, late \cup {op[b]}}
    /\ answer' = [answer EXCEPT ![b] = NoAnswer]
    /\ \E r \in Requests \cup {Idle} : op' = [op EXCEPT ![b] = r]
    /\ UNCHANGED <<first, output>>

Next ==
    \/ \E b \in Builder :
          \/ \E r \in Requests : Ask(b, r)
          \/ Answer(b)
          \/ Again(b)
          \/ Return(b)
    \/ \E r \in late : Late(r)

Spec == Init /\ [][Next]_vars
=============================================================================
