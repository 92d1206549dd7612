--------------------------- MODULE ServerProcess ---------------------------
(***************************************************************************)
(* The bitbake server of a build directory and the clients that start it,  *)
(* connect to it and wait for it: setup_bitbake(), BitBakeServer,          *)
(* ProcessServer, connectProcessServer(), the one asynchronous command,    *)
(* and the cooker's state as far as these change it.                       *)
(*                                                                         *)
(* bitbake.lock is held through one open file that the server inherits     *)
(* from the client that starts it, and every process it forks from it.     *)
(* What lockfile() does is in Lockfile; here taking the lock is one step.  *)
(*                                                                         *)
(* The server has one thread, which goes round accept, control, command    *)
(* and idle; a round looks only at what the select at its end found ready. *)
(* A client is a UI that sends one asynchronous command, as knotty does,   *)
(* or one that tells the server to terminate (bitbake -m).                 *)
(***************************************************************************)
EXTENDS Naturals, Sequences, FiniteSets

CONSTANTS
    Clients, Servers,
    NoOne,
    Gone,           \* a client that has closed its connection
    Timeout,        \* BB_SERVER_TIMEOUT is set: the server outlives its clients
    Tries,          \* the attempts of a client, 8 in the code
    Backlog,        \* the connections that wait to be accepted
    Killers,        \* the clients that may tell the server to terminate
    MayDie          \* the processes that may be killed

ASSUME ServerAssumption ==
    /\ NoOne \notin Clients \cup Servers /\ Gone \notin Clients \cup {NoOne}
    /\ Clients \cap Servers = {}
    /\ Timeout \in BOOLEAN
    /\ Tries \in Nat \ {0}

VARIABLES
    owner,          \* the process bitbake.lock was passed to, or NoOne
    sock,           \* the server whose socket is at the path, or NoOne
    cl,             \* the clients
    sv,             \* the servers
    lost            \* the servers' parser processes that nobody waits for any more

vars == <<owner, sock, cl, sv, lost>>

LockFree == owner = NoOne /\ lost = {}

-----------------------------------------------------------------------------
(* The state of a client and of a server *)

NewClient == [kills |-> FALSE, pc |-> "try", tries |-> Tries, server |-> NoOne, reply |-> "none",
              end |-> FALSE, stops |-> 0, eof |-> FALSE]

Fresh == [pc |-> "init", ready |-> {}, backlog |-> <<>>, queue |-> <<>>,
          control |-> NoOne, haveui |-> FALSE, hadanyui |-> FALSE, quit |-> FALSE,
          pipe |-> <<>>, state |-> "initial", command |-> NoOne, idle |-> {},
          parser |-> "none", held |-> FALSE, baseconfig_valid |-> TRUE]

Init ==
    /\ owner = NoOne
    /\ sock = NoOne
    /\ \E killers \in SUBSET Killers :
          cl = [c \in Clients |-> [NewClient EXCEPT !.kills = c \in killers]]
    /\ sv = [s \in Servers |-> [Fresh EXCEPT !.pc = "off"]]
    /\ lost = {}

ClientPCs == {"try", "start", "ready", "look", "waitlock", "unlock", "connect", "reply",
              "setup", "sent", "wait", "stopping", "leaving", "closing", "out"}

Rounds == {"accept", "control", "command", "idle"}

ServerPCs == Rounds \cup {"off", "init", "unlink", "shutdown", "close", "relock"}

Connected == {"reply", "setup", "sent", "wait", "stopping", "leaving", "closing"}

-----------------------------------------------------------------------------
(* A client: setup_bitbake() *)

Goto(c, l) == cl' = [cl EXCEPT ![c].pc = l]

\* What a server has of client c once c has closed its connection.
Departed(r, c) ==
    LET Swap(x) == IF x = c THEN Gone ELSE x
    IN  [r EXCEPT !.backlog = [i \in DOMAIN @ |-> Swap(@[i])],
                  !.queue   = [i \in DOMAIN @ |-> Swap(@[i])],
                  !.control = Swap(@), !.command = Swap(@)]

\* Client c closes its connection, if it has one, and goes to l.
Close(c, l, tries) ==
    /\ cl' = [cl EXCEPT ![c] = [NewClient EXCEPT !.kills = cl[c].kills, !.pc = l, !.tries = tries]]
    /\ sv' = IF cl[c].pc \in Connected
             THEN [sv EXCEPT ![cl[c].server] = Departed(@, c)] ELSE sv

Leave(c) == Close(c, "out", cl[c].tries)

\* An exception that is caught: the next attempt, if there is one.
Retry(c) == Close(c, IF cl[c].tries = 1 THEN "out" ELSE "try", cl[c].tries - 1)

LockBitbake(c) ==
    /\ cl[c].pc = "try"
    /\ \/ LockFree /\ owner' = c /\ Goto(c, "start")
       \/ ~LockFree /\ owner' = owner /\ Goto(c, "look")
    /\ UNCHANGED <<sock, sv, lost>>

\* A process that does not run yet, which one does not matter.
NewProcess == CHOOSE s \in Servers : sv[s].pc = "off" /\ s \notin lost

\* BitBakeServer(): an old socket is removed, a new one is made, and the daemon
\* that is forked has the lock from now on.
StartServer(c) ==
    /\ cl[c].pc = "start" /\ ~cl[c].kills
    /\ \E s \in Servers : sv[s].pc = "off" /\ s \notin lost
    /\ owner' = NewProcess
    /\ sock' = NewProcess
    /\ sv' = [sv EXCEPT ![NewProcess] = Fresh]
    /\ cl' = [cl EXCEPT ![c].pc = "ready", ![c].server = NewProcess]
    /\ UNCHANGED lost

\* bitbake -m: there is no server to terminate.
NotRunning(c) ==
    /\ cl[c].pc = "start" /\ cl[c].kills
    /\ owner' = NoOne
    /\ Leave(c)
    /\ UNCHANGED <<sock, lost>>

\* The server has told that it is there, or its end is noticed, or 95 s are over.
ServerReady(c) ==
    /\ cl[c].pc = "ready"
    /\ sv[cl[c].server].pc # "init"
    /\ Goto(c, IF sv[cl[c].server].pc = "off" THEN "out" ELSE "connect")
    /\ UNCHANGED <<owner, sock, sv, lost>>

NotReady(c) ==
    /\ cl[c].pc = "ready"
    /\ Goto(c, "out")
    /\ UNCHANGED <<owner, sock, sv, lost>>

Look(c) ==
    /\ cl[c].pc = "look"
    /\ Goto(c, IF sock = NoOne THEN "waitlock" ELSE "connect")
    /\ UNCHANGED <<owner, sock, sv, lost>>

\* The lock is waited for, for 5 s, only to be given back.
WaitLock(c) ==
    /\ cl[c].pc = "waitlock"
    /\ \/ LockFree /\ owner' = c /\ Goto(c, "unlock") /\ UNCHANGED sv
       \/ ~LockFree /\ owner' = owner /\ Retry(c)
    /\ UNCHANGED <<sock, lost>>

Unlock(c) ==
    /\ cl[c].pc = "unlock"
    /\ owner' = NoOne
    /\ Retry(c)
    /\ UNCHANGED <<sock, lost>>

\* connectProcessServer(): the pipes and the first command, setFeatures, are sent
\* along with the connection.
CanConnect == sock # NoOne /\ sv[sock].pc # "off" /\ Len(sv[sock].backlog) < Backlog

Connect(c) ==
    /\ cl[c].pc = "connect"
    /\ \/ /\ CanConnect
          /\ sv' = [sv EXCEPT ![sock].backlog = Append(@, c)]
          /\ cl' = [cl EXCEPT ![c].pc = "reply", ![c].server = sock]
       \/ ~CanConnect /\ Retry(c)
    /\ UNCHANGED <<owner, sock, lost>>

-----------------------------------------------------------------------------
(* A client: the UI *)

\* c writes the command m and waits for the reply at l.  A server that is going
\* away does not read any more.
Send(c, m, l) ==
    /\ cl' = [cl EXCEPT ![c].pc = l, ![c].reply = "none"]
    /\ sv' = [sv EXCEPT ![cl[c].server].pipe = Append(@, m)]

\* ServerCommunicator.runCommand() has its reply: what the client does next.
TakeReply(c) ==
    /\ cl[c].reply # "none" /\ ~cl[c].eof
    /\ \/ cl[c].pc = "reply" /\ cl[c].reply = "ok" /\ ~cl[c].kills /\ Send(c, "updateConfig", "setup")
       \/ cl[c].pc = "setup" /\ cl[c].reply = "ok" /\ Send(c, "buildTargets", "sent")
       \/ cl[c].pc = "sent" /\ cl[c].reply = "ok" /\ Goto(c, "wait") /\ UNCHANGED sv
       \/ cl[c].pc \in {"setup", "sent"} /\ cl[c].reply = "error" /\ Leave(c)
       \/ cl[c].pc = "reply" /\ cl[c].reply = "error" /\ Goto(c, "closing") /\ UNCHANGED sv
       \/ cl[c].pc = "stopping" /\ cl[c].stops = 1 /\ Goto(c, "wait") /\ UNCHANGED sv
       \/ cl[c].pc = "stopping" /\ cl[c].stops = 2 /\ Leave(c)
    /\ UNCHANGED <<owner, sock, lost>>

\* bitbake -m: terminateServer is sent, which has no reply, and the connection closed.
SendTerminate(c) ==
    /\ cl[c].pc = "reply" /\ cl[c].reply = "ok" /\ ~cl[c].eof
    /\ cl[c].kills
    /\ Send(c, "terminateServer", "leaving")
    /\ UNCHANGED <<owner, sock, lost>>

Terminate(c) ==
    /\ cl[c].pc = "leaving"
    /\ Leave(c)
    /\ UNCHANGED <<owner, sock, lost>>

\* No reply: the server has closed the connection, or 60 s are over.  Only while
\* the client connects is this one more attempt.
NoReply(c) ==
    /\ \/ cl[c].pc = "reply" /\ Goto(c, "closing") /\ UNCHANGED sv
       \/ cl[c].pc \in {"setup", "sent", "stopping"} /\ Leave(c)
    /\ UNCHANGED <<owner, sock, lost>>

\* connectProcessServer() closes the pipe for the commands first, then the connection.
CloseConnection(c) ==
    /\ cl[c].pc = "closing"
    /\ Retry(c)
    /\ UNCHANGED <<owner, sock, lost>>

\* An end event, the first that comes, ends the UI.
EndEvent(c) ==
    /\ cl[c].pc = "wait"
    /\ cl[c].end
    /\ Leave(c)
    /\ UNCHANGED <<owner, sock, lost>>

\* Ctrl-C: stateShutdown, and the second time stateForceShutdown, after which the
\* UI does not wait for the end.  Only so does a UI notice that its server is gone.
Interrupt(c) ==
    /\ cl[c].pc = "wait"
    /\ \/ cl[c].eof /\ Leave(c)
       \/ /\ ~cl[c].eof
          /\ cl' = [cl EXCEPT ![c].pc = "stopping", ![c].reply = "none", ![c].stops = @ + 1]
          /\ sv' = [sv EXCEPT ![cl[c].server].pipe =
                      Append(@, <<"stateShutdown", "stateForceShutdown">>[cl[c].stops + 1])]
    /\ UNCHANGED <<owner, sock, lost>>

ClientDies(c) ==
    /\ c \in MayDie
    /\ cl[c].pc # "out"
    /\ owner' = IF owner = c THEN NoOne ELSE owner
    /\ Leave(c)
    /\ UNCHANGED <<sock, lost>>

-----------------------------------------------------------------------------
(* The server *)

At(s, l) == sv[s].pc = l /\ ~sv[s].quit

\* Mutant: the command of a client that leaves is forgotten.
CompleteForgets(r) ==
    [r EXCEPT !.state = "initial", !.baseconfig_valid = FALSE, !.command = NoOne]

\* cooker.clientComplete()
ClientComplete(r) == [r EXCEPT !.state = "initial", !.baseconfig_valid = FALSE]

\* Mutant: a connection that waits is left for a round that does not come.
NextForgotten(r) ==
    LET u == IF r.haveui THEN ClientComplete(r) ELSE r
    IN  [u EXCEPT !.haveui = FALSE, !.pipe = <<>>, !.control = NoOne,
                  !.quit = @ \/ (~Timeout /\ r.backlog = <<>> /\ r.queue = <<>>)]

\* disconnect_client(): the newest of the connections that wait is next.
Disconnect(r) ==
    LET n == Len(r.queue)
        u == IF r.haveui THEN ClientComplete(r) ELSE r
        d == [u EXCEPT !.haveui = FALSE, !.pipe = <<>>, !.control = NoOne]
    IN  IF n > 0
        THEN [d EXCEPT !.control = r.queue[n], !.queue = SubSeq(r.queue, 1, n - 1)]
        ELSE [d EXCEPT !.quit = @ \/ (~Timeout /\ r.backlog = <<>>)]

\* _startServer(): the cooker is made, or cannot be.
ServerStarts(s) ==
    /\ sv[s].pc = "init"
    /\ sv' = [sv EXCEPT ![s].pc = "accept"]
    /\ UNCHANGED <<owner, sock, cl, lost>>

\* A process has ended: its descriptors are closed, what it forked lives on.
Ended(s) ==
    /\ sv' = [sv EXCEPT ![s] = [Fresh EXCEPT !.pc = "off"]]
    /\ cl' = [c \in Clients |-> IF cl[c].server = s /\ cl[c].pc \in Connected
                                THEN [cl[c] EXCEPT !.eof = TRUE] ELSE cl[c]]
    /\ lost' = IF sv[s].parser = "live" THEN lost \cup {s} ELSE lost

ServerFails(s) ==
    /\ sv[s].pc = "init"
    /\ owner' = NoOne
    /\ Ended(s)
    /\ UNCHANGED sock

ServerDies(s) ==
    /\ s \in MayDie
    /\ sv[s].pc \notin {"off", "init"}
    /\ owner' = IF owner = s THEN NoOne ELSE owner
    /\ Ended(s)
    /\ UNCHANGED sock

Accept(s) ==
    /\ At(s, "accept")
    /\ LET r == [sv[s] EXCEPT !.pc = "control"]
           b == r.backlog
       IN  \/ "sock" \notin r.ready /\ sv' = [sv EXCEPT ![s] = r]
           \/ /\ "sock" \in r.ready /\ r.control = NoOne
              /\ sv' = [sv EXCEPT ![s] = [r EXCEPT !.backlog = <<>>, !.control = Head(b),
                                                  !.queue = @ \o Tail(b)]]
           \/ /\ "sock" \in r.ready /\ r.control # NoOne
              /\ sv' = [sv EXCEPT ![s] = [r EXCEPT !.backlog = <<>>, !.queue = @ \o b]]
    /\ UNCHANGED <<owner, sock, cl, lost>>

\* The control socket: a client's pipes arrive, or it has closed.
Register(r) == [r EXCEPT !.haveui = TRUE, !.hadanyui = TRUE, !.pipe = <<"setFeatures">>]

Control(s) ==
    /\ At(s, "control")
    /\ LET r == [sv[s] EXCEPT !.pc = "command"]
           readable == "control" \in r.ready
       IN  \/ ~readable /\ sv' = [sv EXCEPT ![s] = r]
           \/ readable /\ ~r.haveui /\ sv' = [sv EXCEPT ![s] = Register(r)]
           \/ readable /\ r.control = Gone /\ sv' = [sv EXCEPT ![s] = Disconnect(r)]
    /\ UNCHANGED <<owner, sock, cl, lost>>

\* The server has had no UI for too long.
TimesOut(s) ==
    /\ At(s, "control")
    /\ ~sv[s].haveui /\ (Timeout \/ ~sv[s].hadanyui)
    /\ sv' = [sv EXCEPT ![s].quit = TRUE]
    /\ UNCHANGED <<owner, sock, cl, lost>>

-----------------------------------------------------------------------------
(* Commands: Command.runCommand() *)

\* initConfigurationData()
Reset(r) == [r EXCEPT !.state = "initial", !.baseconfig_valid = TRUE]

\* parser.shutdown(), in one step: CookerParser has where it may hang.
ParserShutdown(r) == [r EXCEPT !.parser = IF @ = "live" THEN "done" ELSE @]

\* A forced shutdown does not wait: parsers may go on, with the lock.
MayLeaveParsers(s) ==
    \/ UNCHANGED lost
    \/ sv[s].parser = "live" /\ lost' = lost \cup {s}

Busy(r) == r.command # NoOne

\* What becomes of the server, and the reply.
SetFeatures(r) ==
    IF r.state \in {"parsing", "running"} THEN {<<r, "error">>}
    ELSE {<<r, "ok">>, <<Reset(r), "ok">>}

\* updateConfig, and the commands with needconfig that follow it.
UpdateConfig(r) ==
    {<<Reset(r), "ok">>, <<[r EXCEPT !.state = "initial", !.baseconfig_valid = FALSE], "error">>} \cup
        (IF r.baseconfig_valid \/ r.state = "running" THEN {<<r, "ok">>} ELSE {})

BuildTargets(r) ==
    IF Busy(r) THEN {<<r, "error">>}
    ELSE {<<[r EXCEPT !.command = r.control, !.idle = @ \cup {"run"}], "ok">>}

\* Mutant: a stop is only noted while files are parsed.
StopsParsing(r, st) == [ParserShutdown(r) EXCEPT !.state = IF @ = "parsing" THEN st ELSE @]

\* stateShutdown, stateForceShutdown
StopCooker(r, st) == [ParserShutdown(r) EXCEPT !.state = st]

RunCommand(m, r) ==
    CASE m = "setFeatures"        -> SetFeatures(r)
      [] m = "updateConfig"       -> UpdateConfig(r)
      [] m = "buildTargets"       -> BuildTargets(r)
      [] m = "stateShutdown"      -> {<<StopCooker(r, "shutdown"), "ok">>}
      [] m = "stateForceShutdown" -> {<<StopCooker(r, "forceshutdown"), "ok">>}
      [] m = "terminateServer"    -> {<<[r EXCEPT !.quit = TRUE], "none">>}

NoCommand(s) ==
    /\ At(s, "command")
    /\ "command" \notin sv[s].ready \/ ~sv[s].haveui
    /\ sv' = [sv EXCEPT ![s].pc = "idle"]
    /\ UNCHANGED <<owner, sock, cl, lost>>

HandleCommand(s) ==
    /\ At(s, "command")
    /\ "command" \in sv[s].ready /\ sv[s].haveui /\ sv[s].pipe # <<>>
    /\ \E x \in RunCommand(Head(sv[s].pipe), [sv[s] EXCEPT !.pipe = Tail(@), !.pc = "idle"]) :
          /\ sv' = [sv EXCEPT ![s] = x[1]]
          /\ cl' = IF sv[s].control \in Clients
                   THEN [cl EXCEPT ![sv[s].control].reply = x[2]] ELSE cl
    /\ IF Head(sv[s].pipe) = "stateForceShutdown" THEN MayLeaveParsers(s) ELSE lost' = lost
    /\ UNCHANGED <<owner, sock>>

\* The end of the pipe.  Nothing counts as ready in the round that follows.
CommandEOF(s) ==
    /\ At(s, "command")
    /\ "command" \in sv[s].ready /\ sv[s].haveui /\ sv[s].pipe = <<>>
    /\ sv' = [sv EXCEPT ![s] = [Disconnect(@) EXCEPT !.ready = {}, !.pc = "accept"]]
    /\ UNCHANGED <<owner, sock, cl, lost>>

-----------------------------------------------------------------------------
(* Idle functions *)

PipeClosed(c) == c = Gone \/ (c \in Clients /\ cl[c].pc = "closing")

\* What select() finds.
Readable(r) ==
    (IF r.backlog # <<>> THEN {"sock"} ELSE {})
        \cup (IF r.control # NoOne /\ (r.control = Gone \/ ~r.haveui) THEN {"control"} ELSE {})
        \cup (IF r.haveui /\ (PipeClosed(r.control) \/ r.pipe # <<>>) THEN {"command"} ELSE {})

\* Client c is told of an end, of its own command or of another; its UI leaves for either.
Tell(c) == cl' = IF c \in Clients THEN [cl EXCEPT ![c].end = TRUE] ELSE cl

\* The round is over with the server in state r, and an end event may have been fired.
\* bb.event.fire(): what is fired without a UI is kept, and the next UI gets it first.
EndRound(s, r, fired) ==
    LET q == [r EXCEPT !.held = ~r.haveui /\ (@ \/ fired)]
    IN  /\ sv' = [sv EXCEPT ![s] = [q EXCEPT !.ready = Readable(q), !.pc = "accept"]]
        /\ IF r.haveui /\ (r.held \/ fired) THEN Tell(r.control) ELSE cl' = cl
        /\ UNCHANGED <<owner, sock>>

\* Mutant: a command ends and its client is not told.
FinishUntold(s, r) ==
    EndRound(s, [r EXCEPT !.command = NoOne, !.state = "initial"], FALSE)

\* finishAsyncCommand()
Finish(s, r) ==
    EndRound(s, [r EXCEPT !.command = NoOne, !.state = "initial"], TRUE)

\* No idle function but those that only look for changed files, and the heartbeat,
\* which is not due in every round.
IdleRound(s) ==
    /\ At(s, "idle")
    /\ sv[s].idle = {}
    /\ \/ EndRound(s, sv[s], FALSE)
       \/ /\ sv' = [sv EXCEPT ![s].ready = Readable(sv[s]), ![s].pc = "accept"]
          /\ UNCHANGED <<owner, sock, cl>>
    /\ UNCHANGED lost

Stopping(r) == r.state \in {"shutdown", "forceshutdown"}

\* runAsyncCommand(): updateCache() raises when the cooker is stopping ...
RunStopped(s) ==
    /\ At(s, "idle")
    /\ "run" \in sv[s].idle
    /\ Stopping(sv[s])
    /\ Finish(s, [ParserShutdown(sv[s]) EXCEPT !.idle = @ \ {"run"}])
    /\ MayLeaveParsers(s)

\* ... and otherwise parses one more file.  A parser that is still at work when
\* the state was reset is forgotten, with its processes.  An error forces the shutdown.
Parse(s) ==
    /\ At(s, "idle")
    /\ "run" \in sv[s].idle
    /\ sv[s].state \in {"initial", "parsing"}
    /\ LET again == sv[s].state = "initial"
           r == [sv[s] EXCEPT !.state = "parsing", !.parser = "live",
                              !.baseconfig_valid = TRUE]
           left == IF again /\ sv[s].parser = "live" THEN lost \cup {s} ELSE lost
       IN  \/ EndRound(s, r, FALSE) /\ lost' = left
           \/ /\ EndRound(s, [r EXCEPT !.state = "running", !.parser = "done"], FALSE)
              /\ lost' = left
           \/ /\ Finish(s, [r EXCEPT !.parser = "done", !.idle = @ \ {"run"}])
              /\ lost' \in {left, lost \cup {s}}

\* The command itself: buildTargets() ends in an idle function of its own, or fails.
StartBuild(s) ==
    /\ At(s, "idle")
    /\ "run" \in sv[s].idle
    /\ sv[s].state = "running"
    /\ \/ EndRound(s, [sv[s] EXCEPT !.idle = (@ \ {"run"}) \cup {"build"}], FALSE)
       \/ Finish(s, [sv[s] EXCEPT !.idle = @ \ {"run"}])
    /\ UNCHANGED lost

\* buildTargetsIdle(): the run queue goes on, or has ended.
BuildGoesOn(s) ==
    /\ At(s, "idle")
    /\ "build" \in sv[s].idle
    /\ EndRound(s, sv[s], FALSE)
    /\ UNCHANGED lost

BuildEnds(s) ==
    /\ At(s, "idle")
    /\ "build" \in sv[s].idle
    /\ Finish(s, [sv[s] EXCEPT !.idle = @ \ {"build"}])
    /\ UNCHANGED lost

\* An exception in an idle function ends the server.
IdleFails(s, f) ==
    /\ At(s, "idle")
    /\ f \in sv[s].idle
    /\ sv' = [sv EXCEPT ![s].idle = @ \ {f}, ![s].quit = TRUE]
    /\ UNCHANGED <<owner, sock, cl, lost>>

-----------------------------------------------------------------------------
(* The end of the server *)

Quits(s) ==
    /\ sv[s].pc \in Rounds /\ sv[s].quit
    /\ sv' = [sv EXCEPT ![s].pc = "unlink"]
    /\ UNCHANGED <<owner, sock, cl, lost>>

\* The socket is removed and closed; connections that were not accepted end.
CloseSocket(s) ==
    /\ sv' = [sv EXCEPT ![s].pc = "shutdown", ![s].backlog = <<>>]
    /\ cl' = [c \in Clients |->
                IF \E i \in DOMAIN sv[s].backlog : sv[s].backlog[i] = c
                THEN [cl[c] EXCEPT !.eof = TRUE] ELSE cl[c]]
    /\ UNCHANGED <<owner, lost>>

\* Mutant: the socket is removed when the lock is no longer held.
UnlinkLast(s) ==
    \/ sv[s].pc = "unlink" /\ CloseSocket(s) /\ UNCHANGED sock
    \/ sv[s].pc = "relock" /\ sock # NoOne /\ sock' = NoOne /\ UNCHANGED <<owner, cl, sv, lost>>

UnlinkSocket(s) ==
    /\ sv[s].pc = "unlink"
    /\ sock' = NoOne
    /\ CloseSocket(s)

\* cooker.shutdown(True), post_serve(): the UI is told that the cooker exits.
CookerShutdown(s) ==
    /\ sv[s].pc = "shutdown"
    /\ sv' = [sv EXCEPT ![s] = [ParserShutdown(@) EXCEPT !.pc = "close"]]
    /\ IF sv[s].haveui THEN Tell(sv[s].control) ELSE cl' = cl
    /\ MayLeaveParsers(s)
    /\ UNCHANGED <<owner, sock>>

CloseLock(s) ==
    /\ sv[s].pc = "close"
    /\ owner' = NoOne
    /\ sv' = [sv EXCEPT ![s] = [Fresh EXCEPT !.pc = "relock"]]
    /\ UNCHANGED <<sock, cl, lost>>

\* The lock is taken again, for as long as it takes, to remove its file.
Relock(s) ==
    /\ sv[s].pc = "relock"
    /\ LockFree
    /\ Ended(s)
    /\ UNCHANGED <<owner, sock>>

\* Parser processes that were forgotten or left may end, unless their pipe is full.
LostEnd(s) ==
    /\ s \in lost
    /\ lost' = lost \ {s}
    /\ UNCHANGED <<owner, sock, cl, sv>>

-----------------------------------------------------------------------------

ClientSteps(c) ==
    \/ LockBitbake(c) \/ ServerReady(c) \/ Look(c) \/ WaitLock(c)
    \/ Unlock(c) \/ Connect(c) \/ TakeReply(c) \/ EndEvent(c) \/ Terminate(c) \/ CloseConnection(c)
    \/ StartServer(c) \/ NotRunning(c) \/ SendTerminate(c)
    \/ cl[c].eof /\ NoReply(c)

ServerSteps(s) ==
    \/ ServerStarts(s) \/ Accept(s) \/ Control(s)
    \/ NoCommand(s) \/ HandleCommand(s) \/ CommandEOF(s)
    \/ IdleRound(s) \/ RunStopped(s) \/ Parse(s) \/ StartBuild(s)
    \/ BuildGoesOn(s) \/ BuildEnds(s)
    \/ Quits(s) \/ UnlinkSocket(s) \/ CookerShutdown(s) \/ CloseLock(s) \/ Relock(s)

Done == (\A c \in Clients : cl[c].pc = "out") /\ UNCHANGED vars

Next ==
    \/ \E c \in Clients : \/ ClientSteps(c)
                          \/ NotReady(c) \/ NoReply(c)
                          \/ Interrupt(c) \/ ClientDies(c)
    \/ \E s \in Servers : \/ ServerSteps(s)
                          \/ ServerFails(s) \/ ServerDies(s) \/ TimesOut(s) \/ LostEnd(s)
                          \/ \E f \in {"run", "build"} : IdleFails(s, f)
    \/ Done

Spec == Init /\ [][Next]_vars

\* Each process takes its steps; parsing and building come to an end, and so does
\* the time a server waits for a UI.
Ends(s) == \/ Parse(s) /\ sv'[s].state # "parsing"
           \/ BuildEnds(s)
           \/ TimesOut(s)

FairSpec ==
    /\ Spec
    /\ \A c \in Clients : WF_vars(ClientSteps(c))
    /\ \A s \in Servers : WF_vars(ServerSteps(s))
    /\ SF_vars(\E s \in Servers : Ends(s))

-----------------------------------------------------------------------------
(* Properties *)

TypeOK ==
    /\ owner \in Clients \cup Servers \cup {NoOne}
    /\ sock \in Servers \cup {NoOne}
    /\ lost \subseteq Servers
    /\ \A c \in Clients :
          /\ cl[c].pc \in ClientPCs
          /\ cl[c].server \in Servers \cup {NoOne}
          /\ cl[c].pc \in Connected => cl[c].server # NoOne
    /\ \A s \in Servers :
          /\ sv[s].pc \in ServerPCs
          /\ sv[s].control \in Clients \cup {NoOne, Gone}
          /\ sv[s].haveui => sv[s].control # NoOne
          /\ sv[s].command \in Clients \cup {NoOne, Gone}
          /\ sv[s].state \in {"initial", "parsing", "running", "shutdown", "forceshutdown"}

\* The server whose loop runs is the only one, and the socket at the path is its
\* own: whoever connects gets to it.
OneServer ==
    \A s \in Servers :
        sv[s].pc \in Rounds \cup {"init"} => owner = s /\ sock = s

\* However servers end, one at a time serves, in a consistent state.
ServerSafety == TypeOK /\ OneServer

\* A command that was accepted is worked on until its end event, whoever leaves
\* meanwhile; and no other command is begun before.
CommandKept ==
    \A s \in Servers :
        /\ sv[s].command # NoOne /\ sv[s].pc \in Rounds /\ ~sv[s].quit
              => Cardinality(sv[s].idle) = 1
        /\ sv[s].idle # {} => sv[s].command # NoOne /\ Cardinality(sv[s].idle) = 1

\* Once a UI has its reply to stateShutdown, its command does not go on to build.
StopHonoured ==
    [][\A c \in Clients, s \in Servers :
          /\ cl[c].pc = "wait" /\ cl[c].stops = 1
          /\ sv[s].command = c /\ "run" \in sv[s].idle
          => "build" \notin sv'[s].idle]_vars

\* A UI that waits for the end of its command gets away, unless its server is
\* killed.
UIComesBack == \A c \in Clients : cl[c].pc = "wait" ~> cl[c].pc # "wait" \/ cl[c].eof

\* A client that has connected gets an answer, or sees its connection end, and
\* does not need the 60 s, unless parser processes are left that keep the lock.
ClientHeard == \A c \in Clients : cl[c].pc = "reply" ~> cl[c].pc # "reply" \/ lost # {}

=============================================================================
