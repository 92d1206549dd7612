------------------------------- MODULE PRServ -------------------------------
(***************************************************************************)
(* The PR server (prserv/serv.py, prserv/db.py): it gives each checksum of *)
(* a version and package architecture a number, higher than those it gave  *)
(* before.  One such pair is modelled, in the mode without history, which  *)
(* is the only one a server is started in.                                 *)
(*                                                                         *)
(* The main thread puts connections into a queue, a second thread answers  *)
(* them.  Both use one connection to the database.  An answer is sent      *)
(* before it is committed.  Signals are handled in the main thread while   *)
(* the other one works.                                                    *)
(***************************************************************************)
EXTENDS Naturals, Sequences

CONSTANTS
    Checksums,
    Imports,        \* the numbers that may be imported
    NoRow,          \* the value of a checksum that has no row
    MaxValue,       \* bound: no requests are sent once a row has this value
    MaxQueue,       \* bound: the requests on their way
    MayDie          \* the server may be killed

ASSUME PRAssumption == NoRow \notin Nat \cup Checksums /\ MaxValue \in Nat /\ Imports \subseteq Nat /\ MayDie \in BOOLEAN

VARIABLES
    rows,           \* the table as the server sees it
    disk,           \* the table as it was committed
    dirty,
    tx,             \* a transaction is open
    main,           \* the main thread
    signal,         \* the signal it handles
    handler,        \* the handler thread
    request,        \* what that works on
    quitflag,
    requests,       \* connections that wait to be accepted
    queue,          \* requestqueue
    given,          \* the last number that was answered, and to which checksum
    imported,       \* the numbers that were imported
    decremented     \* a number was answered that is not above those before it

table == <<rows, disk, dirty, tx>>
threads == <<main, signal, handler, request, quitflag>>
history == <<given, imported, decremented>>
vars == <<table, threads, requests, queue, history>>

None == [ask |-> "none"]    \* also what SIGTERM puts into the queue
Get(k) == [ask |-> "getPR", checksum |-> k]
Import(k, v) == [ask |-> "importone", checksum |-> k, value |-> v]
Quit == [ask |-> "quit"]

Request == {Get(k) : k \in Checksums} \cup {Quit}
           \cup {Import(k, v) : k \in Checksums, v \in Imports}

NoAnswer == [checksum |-> NoRow, value |-> 0]

Values == {rows[k] : k \in Checksums} \ {NoRow}

\* max(value)
Highest == CHOOSE v \in Values : \A w \in Values : w <= v

\* ifnull(max(value)+1,0)
Above == IF Values = {} THEN 0 ELSE Highest + 1

Init ==
    /\ rows = [k \in Checksums |-> NoRow] /\ disk = rows
    /\ dirty = FALSE /\ tx = FALSE /\ quitflag = FALSE
    /\ main = "select" /\ signal = "none"
    /\ handler = "loop" /\ request = None
    /\ requests = <<>> /\ queue = <<>>
    /\ given = NoAnswer /\ imported = {} /\ decremented = FALSE

-----------------------------------------------------------------------------
(* The table *)

\* Mutant: an old row is answered, whatever came after it.
getValueHist(k) == IF rows[k] # NoRow THEN rows ELSE [rows EXCEPT ![k] = Above]

\* The row of k is good when it is the highest, and replaced by one that is when not.
getValue(k) == IF rows[k] # NoRow /\ rows[k] = Highest THEN rows
               ELSE [rows EXCEPT ![k] = Above]

\* A row is only ever raised.
importone(k, v) == IF rows[k] # NoRow /\ rows[k] >= v THEN rows
                   ELSE [rows EXCEPT ![k] = v]

\* sync() in two steps: commit(), and BEGIN, which fails inside a transaction.  A commit is
\* whole or not at all, which a kill in its middle does not respect: see the README.
Commit == disk' = rows /\ tx' = FALSE

-----------------------------------------------------------------------------
(* Clients *)

Ask(r) ==
    /\ Len(requests) + Len(queue) < MaxQueue
    /\ Values # {} => Highest < MaxValue
    /\ requests' = Append(requests, r)
    /\ UNCHANGED <<table, threads, queue, history>>

-----------------------------------------------------------------------------
(* The main thread: it does nothing else while it handles a signal *)

\* handle_request()
ProcessRequest ==
    /\ main = "select" /\ signal = "none" /\ ~quitflag /\ requests # <<>>
    /\ queue' = Append(queue, Head(requests))
    /\ requests' = Tail(requests)
    /\ UNCHANGED <<table, threads, history>>

LoopEnds ==
    /\ main = "select" /\ signal = "none" /\ quitflag
    /\ main' = "join"
    /\ UNCHANGED <<table, signal, handler, request, quitflag, requests, queue, history>>

\* The process ends: what is not committed is lost, and so are the connections.
ProcessEnds ==
    /\ main' = "off" /\ signal' = "none" /\ handler' = "ended" /\ request' = None
    /\ rows' = disk /\ tx' = FALSE
    /\ queue' = <<>> /\ requests' = <<>>

\* join() and db.disconnect(); after an exception the interpreter joins the thread.
Disconnect ==
    /\ main \in {"join", "raised"} /\ signal = "none" /\ handler = "ended"
    /\ ProcessEnds
    /\ UNCHANGED <<disk, dirty, quitflag, history>>

\* The next build starts a server again, over what the former has committed.
Restart ==
    /\ main = "off"
    /\ main' = "select" /\ handler' = "loop"
    /\ dirty' = FALSE /\ quitflag' = FALSE
    /\ UNCHANGED <<rows, disk, tx, signal, request, requests, queue, history>>

\* sigint_handler(), sigterm_handler(): commit() ...
SignalHandler(s) ==
    /\ main \in {"select", "join"} /\ signal = "none"
    /\ Commit
    /\ signal' = s
    /\ UNCHANGED <<rows, dirty, main, handler, request, quitflag, requests, queue, history>>

\* ... BEGIN, whose exception ends the main thread,
SignalRaises ==
    /\ signal # "none"
    /\ tx \/ (signal = "term" /\ quitflag)
    /\ tx' = TRUE
    /\ main' = "raised" /\ signal' = "none"
    /\ UNCHANGED <<rows, disk, dirty, handler, request, quitflag, requests, queue, history>>

\* ... and after SIGTERM quit(), which raises when its pipe is closed already.
SignalReturns ==
    /\ signal # "none" /\ ~tx /\ ~(signal = "term" /\ quitflag)
    /\ tx' = TRUE
    /\ quitflag' = (quitflag \/ signal = "term")
    /\ queue' = IF signal = "term" THEN Append(queue, None) ELSE queue
    /\ signal' = "none"
    /\ UNCHANGED <<rows, disk, dirty, main, handler, request, requests, history>>

\* Answers that were not committed are as if they had not been given.
Killed ==
    /\ MayDie
    /\ main # "off"
    /\ ProcessEnds
    /\ given' = IF rows = disk THEN given ELSE NoAnswer
    /\ UNCHANGED <<disk, dirty, quitflag, imported, decremented>>

-----------------------------------------------------------------------------
(* The handler thread *)

At(l) == handler = l /\ main # "off"

\* Mutant: the thread waits for the next request without looking at the flag.
WaitsOn ==
    /\ At("loop")
    /\ queue # <<>>
    /\ queue' = Tail(queue)
    /\ request' = Head(queue)
    /\ handler' = IF Head(queue) = None THEN "loop" ELSE "work"
    /\ UNCHANGED <<table, main, signal, quitflag, requests, history>>

LoopHead ==
    /\ At("loop")
    /\ \/ /\ quitflag
          /\ handler' = "ended" /\ UNCHANGED <<queue, request>>
       \/ /\ ~quitflag /\ queue # <<>>
          /\ queue' = Tail(queue)
          /\ request' = Head(queue)
          /\ handler' = IF Head(queue) = None THEN "loop" ELSE "work"
    /\ UNCHANGED <<table, main, signal, quitflag, requests, history>>

\* finish_request(): rows are written, which begins a transaction when there is none,
\* and the answer is sent.
Write(after) ==
    /\ rows' = after
    /\ handler' = "sync"
    /\ UNCHANGED <<disk, main, signal, request, requests, queue>>

getPR ==
    /\ At("work") /\ request.ask = "getPR"
    /\ LET k == request.checksum
           after == getValue(k)
           v == after[k]
       IN  /\ Write(after)
           /\ dirty' = (dirty \/ after # rows)
           /\ tx' = (tx \/ after # rows)
           /\ given' = [checksum |-> k, value |-> v]
           /\ decremented' = \/ decremented
                             \/ v < given.value
                             \/ /\ v = given.value /\ given.checksum \notin {k, NoRow}
                                /\ v \notin imported
    /\ UNCHANGED <<quitflag, imported>>

ImportOne ==
    /\ At("work") /\ request.ask = "importone"
    /\ Write(importone(request.checksum, request.value))
    /\ dirty' = TRUE /\ tx' = TRUE
    /\ imported' = imported \cup {request.value}
    /\ UNCHANGED <<quitflag, given, decremented>>

quit ==
    /\ At("work") /\ request.ask = "quit"
    /\ Write(rows)
    /\ quitflag' = TRUE
    /\ UNCHANGED <<dirty, tx, history>>

\* Mutant: the table is only committed when nothing is left to do.
SyncWhenIdle ==
    /\ At("sync")
    /\ request' = None
    /\ IF dirty /\ queue = <<>> THEN Commit /\ handler' = "begin"
       ELSE handler' = "loop" /\ UNCHANGED <<disk, tx>>
    /\ UNCHANGED <<rows, dirty, main, signal, quitflag, requests, queue, history>>

\* sync_if_dirty()
SyncIfDirty ==
    /\ At("sync")
    /\ request' = None
    /\ IF dirty THEN Commit /\ handler' = "begin"
       ELSE handler' = "loop" /\ UNCHANGED <<disk, tx>>
    /\ UNCHANGED <<rows, dirty, main, signal, quitflag, requests, queue, history>>

\* The exception of a BEGIN that fails ends the thread.
SyncBegins ==
    /\ At("begin")
    /\ tx' = TRUE
    /\ handler' = IF tx THEN "ended" ELSE "loop"
    /\ dirty' = tx
    /\ UNCHANGED <<rows, disk, main, signal, request, quitflag, requests, queue, history>>

-----------------------------------------------------------------------------

Main == ProcessRequest \/ LoopEnds \/ Disconnect \/ SignalRaises \/ SignalReturns
Handler == LoopHead \/ getPR \/ ImportOne \/ quit \/ SyncIfDirty \/ SyncBegins

Next ==
    \/ Main
    \/ Handler
    \/ \E r \in Request : Ask(r)
    \/ \E s \in {"int", "term"} : SignalHandler(s)
    \/ Restart
    \/ Killed

Spec == Init /\ [][Next]_vars

\* Both threads go on, and signals do not come between every two steps of the main thread.
FairSpec ==
    /\ Spec
    /\ WF_vars(Main) /\ WF_vars(Handler)
    /\ SF_vars(ProcessRequest) /\ SF_vars(LoopEnds \/ Disconnect)

-----------------------------------------------------------------------------
(* Properties *)

Table == [Checksums -> Nat \cup {NoRow}]

TypeOK ==
    /\ rows \in Table /\ disk \in Table
    /\ dirty \in BOOLEAN /\ tx \in BOOLEAN /\ quitflag \in BOOLEAN
    /\ main \in {"select", "join", "raised", "off"}
    /\ signal \in {"none", "int", "term"}
    /\ handler \in {"loop", "work", "sync", "begin", "ended"}
    /\ request \in Request \cup {None}
    /\ handler = "work" => request \in Request
    /\ requests \in Seq(Request) /\ queue \in Seq(Request \cup {None})
    /\ given.value \in Nat /\ given.checksum \in Checksums \cup {NoRow}
    /\ imported \subseteq Nat /\ decremented \in BOOLEAN

\* A number is never below one that was answered before, and above those of other checksums
\* unless it was imported for both: over restarts and signals, and over a kill as far as
\* the answers were committed.
NumbersRise == ~decremented

\* The server never gives a number out twice or takes one back, in a consistent state.
PRSafety == TypeOK /\ NumbersRise

\* What was answered is committed before the next request is looked at, whichever thread
\* commits it: only a kill between the answer and the commit can lose it.
AnswersCommitted == handler \in {"loop", "work", "begin", "ended"} => disk = rows

\* The exception of a BEGIN has ended a thread of a server that has not begun to quit.
MainLost == main = "raised" /\ ~quitflag
HandlerLost == handler = "ended" /\ ~quitflag

Asked ==
    \/ request = Quit
    \/ \E i \in DOMAIN requests : requests[i] = Quit
    \/ \E i \in DOMAIN queue : queue[i] = Quit

\* A server that gets SIGTERM ends, unless the BEGIN of the signal handler raises: then the flag
\* is not set.
TermEnds == quitflag \/ signal = "term" ~> main = "off" \/ MainLost

\* A server that is asked to quit ends, unless a thread was lost before the request was served.
RequestEnds == Asked ~> main = "off" \/ MainLost \/ HandlerLost

\* A server that was told to quit ends, by a request or a signal, or both, and in whatever
\* state the signal finds the other thread, but for a BEGIN that raises before the flag is set.
QuitEnds == TermEnds /\ RequestEnds

=============================================================================
