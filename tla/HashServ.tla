------------------------------ MODULE HashServ ------------------------------
(***************************************************************************)
(* The hash equivalence server and the builders that use it, for one task  *)
(* and one method of hashing outputs.                                      *)
(*                                                                         *)
(* A taskhash is computed from what a task reads.  Taskhashes that lead to *)
(* one output are given one unihash, by which the output is stored and     *)
(* found; a unihash is the taskhash that had the output first.  Builders   *)
(* ask for the unihash of a taskhash, report the output of a taskhash, or  *)
(* report that a taskhash is as good as another one.                       *)
(*                                                                         *)
(* The server handles a request, its commit included, without letting      *)
(* another one in.  A builder sends its request again when its connection  *)
(* breaks or cannot be had.  The server may have read what was sent on the *)
(* old connection, or read it later.  The death and the restart of the     *)
(* server are the loss of all connections: the table is on disk.           *)
(***************************************************************************)
EXTENDS Naturals, Sequences, FiniteSets

CONSTANTS
    Builder, Taskhash, Outhash,
    Outputs,            \* Outputs[t]: what a run of the task may produce
    NoOutput,           \* the empty outhash that report-equiv enters
    None,               \* no unihash
    NoAnswer, Idle,
    Tries,              \* how often a request is sent, 4 in the code
    MaxBuilds,          \* bound: builds of each builder
    MaxClock,           \* bound: the times that can be told apart
    MaxStray,           \* bound: requests left on broken connections
    SetBack             \* the clock of the server may be set back

Get(t)          == [ask |-> "get", taskhash |-> t]
Report(t, o, u) == [ask |-> "report", taskhash |-> t, outhash |-> o, unihash |-> u]
Equiv(t, u)     == [ask |-> "report-equiv", taskhash |-> t, unihash |-> u]

Requests ==
    {Get(t) : t \in Taskhash}
    \cup {Report(t, o, u) : t \in Taskhash, o \in Outhash, u \in Taskhash}
    \cup {Equiv(t, u) : t \in Taskhash, u \in Taskhash}

ASSUME HashServAssumption ==
    /\ Outputs \in [Taskhash -> SUBSET Outhash]
    /\ NoOutput \notin Outhash
    /\ None \notin Taskhash
    /\ NoAnswer \notin Taskhash \cup {None}
    /\ Idle \notin Requests
    /\ Tries \in Nat \ {0}
    /\ {MaxBuilds, MaxClock, MaxStray} \subseteq Nat
    /\ SetBack \in BOOLEAN

VARIABLES
    rows,               \* tasks_v2, in the order of the id
    clock,              \* datetime.now() at the server
    stray,              \* requests on broken connections the server may still read
    req,                \* of each builder: the request it waits for,
    sent,               \*   whether the server has that to read,
    tries,              \*   how often it was sent in vain,
    reply,              \*   and the answer under way
    phase,              \* what a builder is doing
    builds,
    taskhash,           \* siggen.taskhash
    cache,              \* the entry of siggen.unitaskhashes
    unihash,            \* runtaskentries[tid].unihash
    made                \* the output of the task's last run

serverVars  == <<rows, clock>>
connVars    == <<stray, req, sent, tries, reply>>
builderVars == <<phase, builds, taskhash, cache, unihash, made>>
vars == <<serverVars, connVars, builderVars>>

\* What a builder does; in the first four phases it waits for the server.
Waiting == {"asking", "reporting", "remapping", "equiv"}
Phases  == Waiting \cup {"idle", "ready", "reported", "unreported", "covered"}

Init ==
    /\ rows = <<>> /\ clock = 0
    /\ stray = {}
    /\ req = [b \in Builder |-> Idle] /\ sent = [b \in Builder |-> FALSE]
    /\ tries = [b \in Builder |-> 0] /\ reply = [b \in Builder |-> NoAnswer]
    /\ phase = [b \in Builder |-> "idle"] /\ builds = [b \in Builder |-> 0]
    /\ taskhash = [b \in Builder |-> None] /\ unihash = [b \in Builder |-> None]
    /\ cache = [b \in Builder |-> <<None, None>>]
    /\ made = [b \in Builder |-> NoOutput]

-----------------------------------------------------------------------------
(* The server. *)

ByTask(table, t)   == {i \in DOMAIN table : table[i].taskhash = t}
ByOutput(table, o) == {i \in DOMAIN table : table[i].outhash = o}

\* ORDER BY created ASC; rows of one time come in the order of their id.
Older(table, i, j) ==
    table[i].created < table[j].created \/ (table[i].created = table[j].created /\ i <= j)

Oldest(table, I) == CHOOSE i \in I : \A j \in I : Older(table, i, j)

UnihashOf(table, I) == IF I = {} THEN None ELSE table[Oldest(table, I)].unihash

query_equivalent(table, t) == UnihashOf(table, ByTask(table, t))

Insert(t, o, u) ==
    Append(rows, [taskhash |-> t, outhash |-> o, unihash |-> u, created |-> clock])

Exact(r, o) == ByTask(rows, r.taskhash) \cap ByOutput(rows, o)

\* Mutant: outputs of other taskhashes are not looked at.
FoundOwn(r) ==
    IF Exact(r, r.outhash) # {} THEN UnihashOf(rows, Exact(r, r.outhash)) ELSE r.unihash

\* The unihash handle_report() finds for an output: that of this taskhash, or
\* else the oldest, or else the one the builder has.
Found(r) ==
    IF Exact(r, r.outhash) # {} THEN UnihashOf(rows, Exact(r, r.outhash))
    ELSE IF ByOutput(rows, r.outhash) # {} THEN UnihashOf(rows, ByOutput(rows, r.outhash))
    ELSE r.unihash

\* Each handler: the table it leaves, and its answer.
handle_get(r) == [rows |-> rows, answer |-> query_equivalent(rows, r.taskhash)]

handle_report(r) ==
    [rows   |-> IF Exact(r, r.outhash) # {} THEN rows
                ELSE Insert(r.taskhash, r.outhash, Found(r)),
     answer |-> Found(r)]

\* Mutant: the answer is not looked up.
EquivAsAsked(r) ==
    [rows   |-> IF Exact(r, NoOutput) # {} THEN rows
                ELSE Insert(r.taskhash, NoOutput, r.unihash),
     answer |-> r.unihash]

handle_equivreport(r) ==
    LET table == IF Exact(r, NoOutput) # {} THEN rows
                 ELSE Insert(r.taskhash, NoOutput, r.unihash)
    IN  [rows |-> table, answer |-> query_equivalent(table, r.taskhash)]

dispatch_message(r) ==
    CASE r.ask = "get"          -> handle_get(r)
      [] r.ask = "report"       -> handle_report(r)
      [] r.ask = "report-equiv" -> handle_equivreport(r)

Handle(b) ==
    /\ sent[b]
    /\ rows' = dispatch_message(req[b]).rows
    /\ reply' = [reply EXCEPT ![b] = dispatch_message(req[b]).answer]
    /\ sent' = [sent EXCEPT ![b] = FALSE]
    /\ UNCHANGED <<clock, stray, req, tries, builderVars>>

\* The answer to a request on a broken connection goes nowhere.
HandleStray(r) ==
    /\ rows' = dispatch_message(r).rows
    /\ stray' = stray \ {r}
    /\ UNCHANGED <<clock, req, sent, tries, reply, builderVars>>

Tick ==
    /\ \/ clock < MaxClock /\ clock' = clock + 1
       \/ SetBack /\ clock > 0 /\ clock' = clock - 1
    /\ UNCHANGED <<rows, connVars, builderVars>>

-----------------------------------------------------------------------------
(* The connection of a builder: _send_wrapper(). *)

Ask(b, r) ==
    /\ req' = [req EXCEPT ![b] = r]
    /\ sent' = [sent EXCEPT ![b] = TRUE]
    /\ tries' = [tries EXCEPT ![b] = 0]
    /\ reply' = [reply EXCEPT ![b] = NoAnswer]

AskNothing(b) ==
    /\ req' = [req EXCEPT ![b] = Idle]
    /\ sent' = [sent EXCEPT ![b] = FALSE]
    /\ tries' = [tries EXCEPT ![b] = 0]
    /\ reply' = [reply EXCEPT ![b] = NoAnswer]

\* What is left on the connection that b closes.
Leaves(b) ==
    \/ stray' = stray
    \/ /\ sent[b] /\ Cardinality(stray) < MaxStray
       /\ stray' = stray \cup {req[b]}

Again(b) ==
    /\ req[b] # Idle
    /\ tries[b] + 1 < Tries
    /\ tries' = [tries EXCEPT ![b] = @ + 1]
    /\ sent' = [sent EXCEPT ![b] = TRUE]
    /\ reply' = [reply EXCEPT ![b] = NoAnswer]
    /\ Leaves(b)
    /\ UNCHANGED <<serverVars, req, builderVars>>

-----------------------------------------------------------------------------
(* The builders. *)

\* A new build, or another taskhash for a task that has not run yet.
Start(b, t) ==
    /\ phase[b] \in {"idle", "ready", "reported", "unreported", "covered"}
    /\ builds[b] < MaxBuilds
    /\ builds' = [builds EXCEPT ![b] = @ + 1]
    /\ taskhash' = [taskhash EXCEPT ![b] = t]
    /\ \/ /\ cache[b][1] = t
          /\ unihash' = [unihash EXCEPT ![b] = cache[b][2]]
          /\ phase' = [phase EXCEPT ![b] = "ready"]
          /\ UNCHANGED <<req, sent, tries, reply>>
       \/ /\ cache[b][1] # t
          /\ phase' = [phase EXCEPT ![b] = "asking"]
          /\ Ask(b, Get(t))
          /\ UNCHANGED unihash
    /\ UNCHANGED <<serverVars, stray, cache, made>>

\* get_unihash() takes the taskhash itself when the server has no answer, or
\* cannot be reached; either is kept.
Fallback(b, answer) == IF answer \in Taskhash THEN answer ELSE taskhash[b]

\* Mutant: an entry is not replaced.
SetOnce(b, u) ==
    cache' = [cache EXCEPT ![b] = IF cache[b][1] = None THEN <<taskhash[b], u>> ELSE @]

set_unihash(b, u) == cache' = [cache EXCEPT ![b] = <<taskhash[b], u>>]

GotUnihash(b, answer) ==
    /\ phase[b] = "asking"
    /\ set_unihash(b, Fallback(b, answer))
    /\ unihash' = [unihash EXCEPT ![b] = Fallback(b, answer)]
    /\ phase' = [phase EXCEPT ![b] = "ready"]
    /\ AskNothing(b)

\* The task runs, and report_unihash() reports what it made.
Run(b, o) ==
    /\ phase[b] = "ready" /\ o \in Outputs[taskhash[b]]
    /\ made' = [made EXCEPT ![b] = o]
    /\ phase' = [phase EXCEPT ![b] = "reporting"]
    /\ Ask(b, Report(taskhash[b], o, unihash[b]))
    /\ UNCHANGED <<serverVars, stray, builds, taskhash, cache, unihash>>

Reported(b, answer) ==
    /\ phase[b] = "reporting"
    /\ \/ /\ answer \in Taskhash
          /\ set_unihash(b, answer)
          /\ unihash' = [unihash EXCEPT ![b] = answer]
          /\ phase' = [phase EXCEPT ![b] = "reported"]
       \/ /\ answer \notin Taskhash
          /\ phase' = [phase EXCEPT ![b] = "unreported"]
          /\ UNCHANGED <<cache, unihash>>
    /\ AskNothing(b)

\* The task is taken from the cache of outputs.
Cover(b) ==
    /\ phase[b] = "ready"
    /\ phase' = [phase EXCEPT ![b] = "covered"]
    /\ UNCHANGED <<serverVars, connVars, builds, taskhash, cache, unihash, made>>

\* A task it depends on got another unihash, and with it this one another
\* taskhash; but it is covered and stays so.
Rehash(b, t) ==
    /\ phase[b] = "covered" /\ taskhash[b] # t
    /\ builds[b] < MaxBuilds
    /\ builds' = [builds EXCEPT ![b] = @ + 1]
    /\ taskhash' = [taskhash EXCEPT ![b] = t]
    /\ phase' = [phase EXCEPT ![b] = "remapping"]
    /\ Ask(b, Get(t))
    /\ UNCHANGED <<serverVars, stray, cache, unihash, made>>

Remapped(b, answer) ==
    /\ phase[b] = "remapping"
    /\ set_unihash(b, Fallback(b, answer))
    /\ \/ /\ Fallback(b, answer) = unihash[b]
          /\ phase' = [phase EXCEPT ![b] = "covered"]
          /\ AskNothing(b)
       \/ /\ Fallback(b, answer) # unihash[b]
          /\ phase' = [phase EXCEPT ![b] = "equiv"]
          /\ Ask(b, Equiv(taskhash[b], unihash[b]))
    /\ UNCHANGED unihash

\* report_unihash_equiv(): the answer is what the builder had, or what it
\* wanted, or something else, which changes nothing.
ReportedEquiv(b, answer) ==
    /\ phase[b] = "equiv"
    /\ IF answer = unihash[b] THEN set_unihash(b, answer) ELSE UNCHANGED cache
    /\ phase' = [phase EXCEPT ![b] = "covered"]
    /\ AskNothing(b)
    /\ UNCHANGED unihash

Continue(b, answer) ==
    /\ \/ GotUnihash(b, answer)
       \/ Reported(b, answer)
       \/ Remapped(b, answer)
       \/ ReportedEquiv(b, answer)
    /\ UNCHANGED <<serverVars, builds, taskhash, made>>

Return(b) ==
    /\ reply[b] # NoAnswer
    /\ Continue(b, reply[b])
    /\ UNCHANGED stray

\* HashConnectionError
GiveUp(b) ==
    /\ req[b] # Idle
    /\ tries[b] + 1 = Tries
    /\ Leaves(b)
    /\ Continue(b, NoAnswer)

Next ==
    \/ \E b \in Builder :
          \/ \E t \in Taskhash : Start(b, t) \/ Rehash(b, t)
          \/ \E o \in Outhash : Run(b, o)
          \/ Cover(b)
          \/ Handle(b) \/ Again(b) \/ Return(b) \/ GiveUp(b)
    \/ \E r \in stray : HandleStray(r)
    \/ Tick

Spec == Init /\ [][Next]_vars

-----------------------------------------------------------------------------
(* Properties *)

Row == [taskhash : Taskhash, outhash : Outhash \cup {NoOutput}, unihash : Taskhash,
        created : 0..MaxClock]

\* Types; the table has one row for an output of a taskhash.
TypeOK ==
    /\ rows \in Seq(Row) /\ clock \in 0..MaxClock
    /\ \A i, j \in DOMAIN rows :
          rows[i].taskhash = rows[j].taskhash /\ rows[i].outhash = rows[j].outhash => i = j
    /\ stray \subseteq Requests
    /\ req \in [Builder -> Requests \cup {Idle}]
    /\ sent \in [Builder -> BOOLEAN]
    /\ tries \in [Builder -> 0..Tries - 1]
    /\ reply \in [Builder -> Taskhash \cup {None, NoAnswer}]
    /\ phase \in [Builder -> Phases]
    /\ builds \in [Builder -> 0..MaxBuilds]
    /\ {taskhash, unihash} \subseteq [Builder -> Taskhash \cup {None}]
    /\ cache \in [Builder -> (Taskhash \X Taskhash) \cup {<<None, None>>}]
    /\ made \in [Builder -> Outhash \cup {NoOutput}]

\* Builders that made one output, and were answered when they reported it, hold
\* one unihash, whatever was lost, repeated or late in between.
SameOutputSameHash ==
    \A b, c \in Builder :
        phase[b] = "reported" /\ phase[c] = "reported" /\ made[b] = made[c]
            => unihash[b] = unihash[c]

\* The table and what builders were told agree: an output has one row for each taskhash and
\* one unihash, whatever is lost, sent again or overtaken.
HashSafety == TypeOK /\ SameOutputSameHash

\* A builder that knows the unihash of its taskhash is not told another one; it
\* is told one it neither had nor wanted only after it had to fall back.
UnwantedOnlyAfterFallback ==
    \A b \in Builder :
        phase[b] = "equiv" /\ reply[b] \notin {NoAnswer, unihash[b], cache[b][2]}
            => cache[b][2] = taskhash[b]

\* The table is two maps that are written once.
Map == INSTANCE UnihashMap WITH
           first  <- [t \in Taskhash |-> query_equivalent(rows, t)],
           output <- [o \in Outhash |-> UnihashOf(rows, ByOutput(rows, o))],
           late   <- stray,
           op     <- req,
           answer <- reply

ImplementsUnihashMap == Map!Spec
=============================================================================
