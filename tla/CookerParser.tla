---------------------------- MODULE CookerParser ----------------------------
(***************************************************************************)
(* Parsing with several processes: Parser and CookerParser of cooker.py,   *)
(* and the cache the parsers share with the server, MultiProcessCache.     *)
(*                                                                         *)
(* A parser has its own list of files and puts a result for each into a    *)
(* queue.  What is put waits in the parser until a thread of it has        *)
(* written it to the pipe that all share, and the parser does not end      *)
(* before.  The thread writes under a lock that all share too, and a       *)
(* result goes in two parts, so that a parser may be killed with the lock, *)
(* or between the parts.  It looks for an order to quit between two files. *)
(* When it ends by itself it saves what it has found in a file of its own, *)
(* which the server merges into the cache.                                 *)
(*                                                                         *)
(* The server waits for its parsers without limit, or, when the shutdown   *)
(* is forced, for a moment: then parsers may go on behind its back.        *)
(***************************************************************************)
EXTENDS Naturals, Sequences, FiniteSets

CONSTANTS
    N,              \* BB_NUMBER_PARSE_THREADS
    Files,          \* the number of recipes
    Capacity,       \* the parts of results that fit into the pipe
    MayDie          \* the parsers that may be killed

ASSUME ParserAssumption ==
    N \in Nat \ {0} /\ Files \in Nat /\ Capacity \in Nat \ {0}

Parsers == 0 .. N - 1
Recipes == 0 .. Files - 1

VARIABLES
    parser,         \* the parsers
    pipe,           \* the results that are in the pipe of result_queue, in part at least
    writing,        \* the parser that has the write lock of the queue
    sent,           \* the parts it has written
    reading,        \* the server has the first part of the first result
    tokens,         \* what is in parser_quit
    main,           \* where the server is
    force,          \* the shutdown is forced
    parsed,         \* the recipes whose results the server has taken
    count,          \* self.parsed
    saved,          \* the parsers' cache files
    cache           \* the cache file

queue == <<pipe, writing, sent, reading>>
vars == <<parser, queue, tokens, main, force, parsed, count, saved, cache>>

\* Mutant: a parser has every recipe that its neighbour has.
Overlap(p) == {r \in Recipes : r >= p}

\* chunkify()
Jobs(p) == {r \in Recipes : r % N = p}

Init ==
    /\ parser = [p \in Parsers |-> [pc |-> "loop", jobs |-> Jobs(p), job |-> {}, buffer |-> <<>>,
                                    found |-> {}]]
    /\ pipe = <<>> /\ writing = {} /\ sent = 0 /\ reading = FALSE
    /\ tokens = 0
    /\ main = "parse"
    /\ force = FALSE
    /\ parsed = {}
    /\ count = 0
    /\ saved = [p \in Parsers |-> "none"]
    /\ cache = {}

-----------------------------------------------------------------------------
(* A parser *)

At(p, l) == parser[p].pc = l
Ended(p) == parser[p].pc \in {"gone", "dead"}
Goto(p, l) == parser' = [parser EXCEPT ![p].pc = l]

TakesToken(p) ==
    /\ At(p, "loop")
    /\ tokens > 0
    /\ tokens' = tokens - 1
    /\ Goto(p, "flush")
    /\ UNCHANGED <<queue, main, force, parsed, count, saved, cache>>

\* get_nowait() may find nothing at any time: the order is on its way, or another parser
\* has the lock of the readers, or has died with it.
StartJob(p) ==
    /\ At(p, "loop")
    /\ \E r \in parser[p].jobs :
          parser' = [parser EXCEPT ![p].pc = "parse", ![p].jobs = @ \ {r}, ![p].job = {r}]
    /\ UNCHANGED <<queue, tokens, main, force, parsed, count, saved, cache>>

NoMoreJobs(p) ==
    /\ At(p, "loop")
    /\ parser[p].jobs = {}
    /\ Goto(p, "flush")
    /\ UNCHANGED <<queue, tokens, main, force, parsed, count, saved, cache>>

\* parse() returns the recipe, or an exception, as the result.
EndJob(p) ==
    /\ At(p, "parse")
    /\ \E r \in parser[p].job, ok \in BOOLEAN :
          parser' = [parser EXCEPT ![p].pc = "loop", ![p].job = {}, ![p].found = @ \cup {r},
                                   ![p].buffer = Append(@, [recipe |-> r, ok |-> ok])]
    /\ UNCHANGED <<queue, tokens, main, force, parsed, count, saved, cache>>

\* Mutant: the parser does not wait for what its thread has yet to begin.
LeavesThread(p) ==
    /\ At(p, "flush") /\ p \notin writing
    /\ saved' = [saved EXCEPT ![p] = "torn"]
    /\ parser' = [parser EXCEPT ![p].pc = "save", ![p].buffer = <<>>]
    /\ UNCHANGED <<queue, tokens, main, force, parsed, count, cache>>

\* results.join_thread(), and then parser_cache_save(): first the file is there ...
JoinThread(p) ==
    /\ At(p, "flush")
    /\ parser[p].buffer = <<>> /\ p \notin writing
    /\ saved' = [saved EXCEPT ![p] = "torn"]
    /\ Goto(p, "save")
    /\ UNCHANGED <<queue, tokens, main, force, parsed, count, cache>>

\* ... and then what is in it, lost if the file has been unlinked.
SaveExtras(p) ==
    /\ At(p, "save")
    /\ saved' = [saved EXCEPT ![p] = IF @ = "torn" THEN "whole" ELSE @]
    /\ Goto(p, "gone")
    /\ UNCHANGED <<queue, tokens, main, force, parsed, count, cache>>

\* A parser that is killed keeps the write lock if it has it.
Die(p) ==
    /\ p \in MayDie
    /\ ~Ended(p)
    /\ Goto(p, "dead")
    /\ UNCHANGED <<queue, tokens, main, force, parsed, count, saved, cache>>

-----------------------------------------------------------------------------
(* The thread of a parser's queue *)

\* A result is two parts, of which the server may have one and the writer owe one.
InPipe ==
    2 * Len(pipe) - (IF reading THEN 1 ELSE 0) - (IF sent = 1 THEN 1 ELSE 0)

Acquire(p) ==
    /\ ~Ended(p) /\ parser[p].buffer # <<>>
    /\ writing = {}
    /\ writing' = {p}
    /\ UNCHANGED <<parser, pipe, sent, reading, tokens, main, force, parsed, count, saved, cache>>

\* The size of the result ...
WriteFirst(p) ==
    /\ ~Ended(p) /\ p \in writing /\ sent = 0
    /\ parser[p].buffer # <<>>
    /\ InPipe < Capacity
    /\ pipe' = Append(pipe, Head(parser[p].buffer))
    /\ parser' = [parser EXCEPT ![p].buffer = Tail(@)]
    /\ sent' = 1
    /\ UNCHANGED <<writing, reading, tokens, main, force, parsed, count, saved, cache>>

\* ... and what it is.
WriteRest(p) ==
    /\ ~Ended(p) /\ p \in writing /\ sent = 1
    /\ InPipe < Capacity
    /\ sent' = 2
    /\ UNCHANGED <<parser, pipe, writing, reading, tokens, main, force, parsed, count, saved,
                    cache>>

Release(p) ==
    /\ ~Ended(p) /\ p \in writing /\ sent = 2
    /\ writing' = {} /\ sent' = 0
    /\ UNCHANGED <<parser, pipe, reading, tokens, main, force, parsed, count, saved, cache>>

-----------------------------------------------------------------------------
(* The server: parse_next() *)

\* shutdown(): every parser is to find an order to quit.
Shutdown(f) ==
    /\ main' = "drain"
    /\ force' = f
    /\ tokens' = N

\* get() has seen something in the pipe, and waits for the rest of it without limit.
GetBegins ==
    /\ main = "drain" \/ (main = "parse" /\ count < Files)
    /\ ~reading /\ pipe # <<>>
    /\ reading' = TRUE
    /\ UNCHANGED <<parser, pipe, writing, sent, tokens, main, force, parsed, count, saved, cache>>

\* The rest has come.
GetEnds ==
    /\ reading /\ (Len(pipe) > 1 \/ sent # 1)
    /\ reading' = FALSE
    /\ pipe' = Tail(pipe)
    /\ UNCHANGED <<writing, sent>>

TakeResult ==
    /\ main = "parse"
    /\ GetEnds
    /\ IF Head(pipe).ok
       THEN /\ parsed' = parsed \cup {Head(pipe).recipe}
            /\ count' = count + 1
            /\ UNCHANGED <<main, force, tokens>>
       ELSE Shutdown(TRUE) /\ UNCHANGED <<parsed, count>>
    /\ UNCHANGED <<parser, saved, cache>>

AllParsed ==
    /\ main = "parse" /\ count >= Files
    /\ Shutdown(FALSE)
    /\ UNCHANGED <<parser, queue, parsed, count, saved, cache>>

\* stateShutdown and stateForceShutdown, between two results.
Stop ==
    /\ main = "parse" /\ ~reading
    /\ \E f \in BOOLEAN : Shutdown(f)
    /\ UNCHANGED <<parser, queue, parsed, count, saved, cache>>

-----------------------------------------------------------------------------
(* The server: shutdown() *)

Drain ==
    /\ main = "drain"
    /\ GetEnds
    /\ UNCHANGED <<parser, tokens, main, force, parsed, count, saved, cache>>

\* Mutant: the loop goes on when nothing comes, as that of parse_generator() does.
KeepsWaiting == main = "drain" /\ pipe = <<>> /\ UNCHANGED vars

\* Nothing has come for 0.25 s: a parser may still be at a long recipe, or wait for the lock.
Drained ==
    /\ main = "drain"
    /\ pipe = <<>>
    /\ main' = "join"
    /\ UNCHANGED <<parser, queue, tokens, force, parsed, count, saved, cache>>

\* Each join() has returned.  That of a forced shutdown does after 0.1 s, and the SIGTERM of
\* terminate() then meets the handler that the parser has from the server, which ends nothing.
Joined == main = "join" /\ (force \/ \A p \in Parsers : Ended(p))

\* Mutant: the parsers save without the lock.
NeverLocked == TRUE

\* A parser that saves has cachefile.lock, shared; the merge takes it for itself.
Unlocked == \A p \in Parsers : ~At(p, "save")

Found(S) == UNION {parser[p].found : p \in S}

\* parser_cache_savemerge(): a file whose writer was killed is thrown away, or stops the
\* merge, as its last bytes have it.
SaveMerge ==
    /\ Joined /\ Unlocked
    /\ \/ /\ cache' = cache \cup Found({p \in Parsers : saved[p] = "whole"})
          /\ saved' = [p \in Parsers |-> "none"]
          /\ main' = "done"
       \/ /\ \E t \in Parsers, S \in SUBSET Parsers :
                /\ saved[t] = "torn" /\ t \notin S
                /\ saved' = [p \in Parsers |-> IF p \in S THEN "none" ELSE saved[p]]
          /\ cache' = cache
          /\ main' = "failed"
    /\ UNCHANGED <<parser, queue, tokens, force, parsed, count>>

-----------------------------------------------------------------------------

ParserSteps(p) ==
    \/ TakesToken(p) \/ StartJob(p) \/ NoMoreJobs(p) \/ EndJob(p)
    \/ JoinThread(p) \/ SaveExtras(p)

ThreadSteps(p) == Acquire(p) \/ WriteFirst(p) \/ WriteRest(p) \/ Release(p)

ServerSteps ==
    \/ GetBegins \/ TakeResult \/ AllParsed
    \/ Drain \/ Drained \/ SaveMerge

\* A parser was killed with the write lock: no other writes again.
DiedWriting == \E p \in writing : At(p, "dead")

\* The server waits in get(), or will, for the rest of a result that does not come.
HalfRead == main \in {"parse", "drain"} /\ DiedWriting /\ sent = 1

\* The server waits in join() for a parser that has yet to write something.
Owes(p) == ~Ended(p) /\ (parser[p].buffer # <<>> \/ (p \in writing /\ sent = 1))

JoinsWriter ==
    /\ main = "join" /\ ~force
    /\ \E p \in Parsers : Owes(p)
    /\ DiedWriting \/ InPipe = Capacity

\* Where the server may end, or hang.
Stopped ==
    /\ main \in {"done", "failed"} \/ HalfRead \/ JoinsWriter
    /\ UNCHANGED vars

Next ==
    \/ \E p \in Parsers : ParserSteps(p) \/ ThreadSteps(p) \/ Die(p)
    \/ ServerSteps
    \/ Stop
    \/ Stopped

Spec == Init /\ [][Next]_vars

FairSpec ==
    /\ Spec
    /\ \A p \in Parsers : WF_vars(ParserSteps(p)) /\ WF_vars(ThreadSteps(p))
    /\ WF_vars(ServerSteps)

-----------------------------------------------------------------------------
(* Properties *)

TypeOK ==
    /\ DOMAIN parser = Parsers
    /\ \A p \in Parsers :
          /\ parser[p].pc \in {"loop", "parse", "flush", "save", "gone", "dead"}
          /\ parser[p].jobs \subseteq Recipes /\ parser[p].found \subseteq Recipes
    /\ InPipe \in 0 .. Capacity
    /\ writing \subseteq Parsers /\ sent \in 0 .. 2 /\ reading \in BOOLEAN
    /\ tokens \in 0 .. N
    /\ main \in {"parse", "drain", "join", "done", "failed"}
    /\ saved \in [Parsers -> {"none", "torn", "whole"}]
    /\ parsed \subseteq Recipes /\ cache \subseteq Recipes

\* Parsing is over without error or stop only when each recipe has been taken, and
\* none was counted twice on the way.
EachRecipeOnce ==
    /\ count = Cardinality(parsed)
    /\ main # "parse" /\ ~force /\ count >= Files => parsed = Recipes

\* No recipe is parsed twice, or left out of what the server counts, however parsers end.
ParsingSafety == TypeOK /\ EachRecipeOnce

\* What a parser that ended by itself has found is in the cache after the merge, or, when the
\* parser outlived a forced shutdown, in a whole file that the next merge will find.
ExtrasKept ==
    main = "done" =>
        \A p \in Parsers : At(p, "gone") => parser[p].found \subseteq cache \/ saved[p] = "whole"

\* No process of the parser, which would keep bitbake.lock, is left when a shutdown that was
\* not forced is over.
NoneLeft == main \in {"done", "failed"} /\ ~force => \A p \in Parsers : Ended(p)

\* Once the server is done with parsing no parser is left unless it forced the shutdown, and
\* no merge loses what a parser has saved or is saving.
CleanEnd == NoneLeft /\ ExtrasKept

\* Parsing comes to an end, unless a parser is killed.
ParsingEnds ==
    main = "parse" ~> main # "parse" \/ \E p \in Parsers : At(p, "dead")

\* So does a shutdown, but for what may hold it for ever: a parser killed in the middle of a
\* result, and, when it is not forced, a parser joined with something to write that does not
\* fit into the pipe, or that a killed one keeps it from writing.
ShutdownEnds == main = "drain" ~> main \in {"done", "failed"} \/ HalfRead \/ JoinsWriter
=============================================================================
