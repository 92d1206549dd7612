---------------------------- MODULE ServerProofs ----------------------------
(***************************************************************************)
(* One server at a time, a command that is worked on, and a stop that is   *)
(* honoured, for any number of clients and servers.                        *)
(*                                                                         *)
(* That bitbake.lock is held says nothing of a client that is about to     *)
(* fork a server, or of a server that has removed its socket.  So the      *)
(* invariant says of every process that acts upon the lock that it has it. *)
(*                                                                         *)
(* That a stop is honoured takes an account, of each client and each       *)
(* server, of where the client waits, what is in its pipe and who has its  *)
(* reply: only then is a reply to stateShutdown known to be that one's.    *)
(***************************************************************************)
EXTENDS ServerProcess, Integers, TLAPS, FiniteSetTheorems

Peers == Clients \cup {Gone}

Messages == {"setFeatures", "updateConfig", "buildTargets", "stateShutdown",
             "stateForceShutdown", "terminateServer"}

Client == [kills : BOOLEAN, pc : ClientPCs, tries : Int, server : Servers \cup {NoOne},
           reply : {"none", "ok", "error"}, end : BOOLEAN, stops : 0 .. 2, eof : BOOLEAN]

Server == [pc : ServerPCs, ready : SUBSET {"sock", "control", "command"}, backlog : Seq(Peers),
           queue : Seq(Peers), control : Peers \cup {NoOne}, haveui : BOOLEAN,
           hadanyui : BOOLEAN, quit : BOOLEAN, pipe : Seq(Messages),
           state : {"initial", "parsing", "running", "shutdown", "forceshutdown"},
           command : Peers \cup {NoOne}, idle : {{}, {"run"}, {"build"}},
           parser : {"none", "live", "done"}, held : BOOLEAN, baseconfig_valid : BOOLEAN]

\* A client that is connected knows its server.
ClientOK(x) ==
    /\ x \in Client
    /\ x.pc \in Connected => x.server \in Servers
    /\ x.pc # "stopping" => x.stops # 2

\* What select() found is still there; a command has an idle function.
ServerOK(r) ==
    /\ r \in Server
    /\ r.haveui => r.control # NoOne
    /\ r.pc = "init" => r.ready = {} /\ r.command = NoOne
    /\ r.pc \in {"accept", "control"} /\ "control" \in r.ready => r.control # NoOne
    /\ r.pc = "accept" /\ "sock" \in r.ready => r.backlog # <<>>
    /\ r.command # NoOne /\ r.pc \in Rounds /\ ~r.quit => r.idle # {}
    /\ r.idle # {} => r.command # NoOne

DataOK ==
    /\ owner \in Clients \cup Servers \cup {NoOne}
    /\ sock \in Servers \cup {NoOne}
    /\ lost \subseteq Servers
    /\ cl \in [Clients -> Client] /\ \A c \in Clients : ClientOK(cl[c])
    /\ sv \in [Servers -> Server] /\ \A s \in Servers : ServerOK(sv[s])

Holding == Rounds \cup {"init", "unlink", "shutdown", "close"}

Serving == Rounds \cup {"init", "unlink"}

\* Who has the lock and whose the socket is.
LockOK ==
    /\ \A c \in Clients : cl[c].pc \in {"start", "unlock"} => owner = c
    /\ \A s \in Servers : sv[s].pc \in Holding => owner = s
    /\ \A s \in Servers : sv[s].pc \in Serving => sock = s

IInv == DataOK /\ LockOK

-----------------------------------------------------------------------------
(* Lemmas on the records *)

LEMMA Names == NoOne \notin Clients /\ NoOne \notin Servers /\ Gone \notin Clients /\ Gone # NoOne
               /\ Clients \cap Servers = {} /\ Tries \in Int
BY ServerAssumption DEF ServerAssumption

LEMMA Implied == IInv => TypeOK /\ OneServer /\ CommandKept
<1> SUFFICES ASSUME IInv PROVE TypeOK /\ OneServer /\ CommandKept
    OBVIOUS
<1>1. /\ \A c \in Clients : ClientOK(cl[c])
      /\ \A s \in Servers : ServerOK(sv[s])
      BY DEF IInv, DataOK
<1>2. TypeOK
  <2>1. owner \in Clients \cup Servers \cup {NoOne} /\ sock \in Servers \cup {NoOne}
        /\ lost \subseteq Servers
        BY DEF IInv, DataOK
  <2>2. ASSUME NEW c \in Clients
        PROVE  /\ cl[c].pc \in ClientPCs
               /\ cl[c].server \in Servers \cup {NoOne}
               /\ cl[c].pc \in Connected => cl[c].server # NoOne
        BY <1>1, Names DEF ClientOK, Client
  <2>3. ASSUME NEW s \in Servers
        PROVE  /\ sv[s].pc \in ServerPCs
               /\ sv[s].control \in Clients \cup {NoOne, Gone}
               /\ sv[s].haveui => sv[s].control # NoOne
               /\ sv[s].command \in Clients \cup {NoOne, Gone}
               /\ sv[s].state \in {"initial", "parsing", "running", "shutdown", "forceshutdown"}
        BY <1>1 DEF ServerOK, Server, Peers
  <2> QED BY <2>1, <2>2, <2>3 DEF TypeOK
<1>3. OneServer
      BY DEF IInv, LockOK, OneServer, Holding, Serving
<1>4. ASSUME NEW s \in Servers
      PROVE  /\ sv[s].idle \in {{}, {"run"}, {"build"}}
             /\ sv[s].command # NoOne /\ sv[s].pc \in Rounds /\ ~sv[s].quit => sv[s].idle # {}
             /\ sv[s].idle # {} => sv[s].command # NoOne
      BY <1>1 DEF ServerOK, Server
<1>5. \A s \in Servers : sv[s].idle # {} => Cardinality(sv[s].idle) = 1
      BY <1>4, FS_Singleton
<1>6. CommandKept
      BY <1>4, <1>5 DEF CommandKept
<1> QED BY <1>2, <1>3, <1>6

LEMMA NewClientOK ==
    ASSUME NEW k \in BOOLEAN, NEW l \in ClientPCs \ Connected, NEW t \in Int
    PROVE  /\ ClientOK([NewClient EXCEPT !.kills = k])
           /\ [NewClient EXCEPT !.kills = k].pc = "try"
           /\ ClientOK([NewClient EXCEPT !.kills = k, !.pc = l, !.tries = t])
           /\ [NewClient EXCEPT !.kills = k, !.pc = l, !.tries = t].pc = l
<1>1. /\ NewClient \in Client
      /\ NewClient.pc = "try" /\ NewClient.stops = 0
      BY Names DEF NewClient, Client, ClientPCs
<1> DEFINE x == [NewClient EXCEPT !.kills = k]
<1>2. x \in Client /\ x.pc = "try" /\ x.stops = 0
      BY <1>1 DEF Client
<1> DEFINE y == [NewClient EXCEPT !.kills = k, !.pc = l, !.tries = t]
<1>3. y \in Client /\ y.pc = l /\ y.stops = 0
      BY <1>1 DEF Client
<1> HIDE DEF x, y
<1>4. ClientOK(x) /\ ClientOK(y)
      BY <1>2, <1>3 DEF ClientOK, Connected
<1> QED BY <1>2, <1>3, <1>4 DEF x, y

LEMMA FreshOK == ServerOK(Fresh) /\ ServerOK([Fresh EXCEPT !.pc = "off"])
                 /\ ServerOK([Fresh EXCEPT !.pc = "relock"])
<1>1. <<>> \in Seq(Peers) /\ <<>> \in Seq(Messages)
      OBVIOUS
<1>2. Fresh \in Server
      BY <1>1 DEF Fresh, Server, ServerPCs, Rounds
<1>3. /\ Fresh.haveui = FALSE /\ Fresh.ready = {} /\ Fresh.command = NoOne /\ Fresh.idle = {}
      BY DEF Fresh
<1>4. ServerOK(Fresh)
      BY <1>2, <1>3 DEF ServerOK
<1>5. ASSUME NEW l \in {"off", "relock"}
      PROVE  ServerOK([Fresh EXCEPT !.pc = l])
  <2> DEFINE q == [Fresh EXCEPT !.pc = l]
  <2>1. q \in Server
        BY <1>2 DEF Server, ServerPCs
  <2>2. q.haveui = FALSE /\ q.ready = {} /\ q.command = NoOne /\ q.idle = {}
        BY <1>2, <1>3 DEF Server
  <2> HIDE DEF q
  <2>3. ServerOK(q)
        BY <2>1, <2>2 DEF ServerOK
  <2> QED BY <2>3 DEF q
<1> QED BY <1>4, <1>5

\* One client changes.
LEMMA OneClient ==
    ASSUME DataOK, NEW c \in Clients, NEW x, ClientOK(x), cl' = [cl EXCEPT ![c] = x]
    PROVE  /\ cl' \in [Clients -> Client] /\ \A d \in Clients : ClientOK(cl'[d])
           /\ cl'[c] = x /\ \A d \in Clients \ {c} : cl'[d] = cl[d]
<1>1. cl \in [Clients -> Client] /\ x \in Client
      BY DEF DataOK, ClientOK
<1>2. /\ cl' \in [Clients -> Client] /\ cl'[c] = x
      /\ \A d \in Clients \ {c} : cl'[d] = cl[d]
      BY <1>1
<1>3. \A d \in Clients : ClientOK(cl[d])
      BY DEF DataOK
<1> QED BY <1>2, <1>3

\* One server changes.
LEMMA OneRecord ==
    ASSUME DataOK, NEW s \in Servers, NEW r, ServerOK(r), sv' = [sv EXCEPT ![s] = r]
    PROVE  /\ sv' \in [Servers -> Server] /\ \A t \in Servers : ServerOK(sv'[t])
           /\ sv'[s] = r /\ \A t \in Servers \ {s} : sv'[t] = sv[t]
<1>1. sv \in [Servers -> Server] /\ r \in Server
      BY DEF DataOK, ServerOK
<1>2. /\ sv' \in [Servers -> Server] /\ sv'[s] = r
      /\ \A t \in Servers \ {s} : sv'[t] = sv[t]
      BY <1>1
<1>3. \A t \in Servers : ServerOK(sv[t])
      BY DEF DataOK
<1> QED BY <1>2, <1>3

\* A client that goes leaves its mark wherever it waits.
LEMMA SwapOK ==
    ASSUME NEW c \in Clients, NEW q \in Seq(Peers)
    PROVE  /\ [i \in DOMAIN q |-> IF q[i] = c THEN Gone ELSE q[i]] \in Seq(Peers)
           /\ q # <<>> => [i \in DOMAIN q |-> IF q[i] = c THEN Gone ELSE q[i]] # <<>>
<1> DEFINE f == [i \in DOMAIN q |-> IF q[i] = c THEN Gone ELSE q[i]]
<1>1. DOMAIN q = 1 .. Len(q) /\ Len(q) \in Nat /\ \A i \in DOMAIN q : q[i] \in Peers
      OBVIOUS
<1>2. DOMAIN f = 1 .. Len(q) /\ \A i \in DOMAIN f : f[i] \in Peers
      BY <1>1 DEF Peers
<1>3. f \in [1 .. Len(q) -> Peers]
      BY <1>1 DEF Peers
<1> HIDE DEF f
<1>4. f \in Seq(Peers)
      BY <1>1, <1>3
<1>5. q # <<>> => f # <<>>
      BY <1>1, <1>2
<1> QED BY <1>4, <1>5 DEF f

LEMMA DepartedOK ==
    ASSUME NEW r, ServerOK(r), NEW c \in Clients
    PROVE  ServerOK(Departed(r, c)) /\ Departed(r, c).pc = r.pc
<1> DEFINE b == [i \in DOMAIN r.backlog |-> IF r.backlog[i] = c THEN Gone ELSE r.backlog[i]]
<1> DEFINE q == [i \in DOMAIN r.queue |-> IF r.queue[i] = c THEN Gone ELSE r.queue[i]]
<1> DEFINE x == IF r.control = c THEN Gone ELSE r.control
<1> DEFINE y == IF r.command = c THEN Gone ELSE r.command
<1>1. Departed(r, c) = [r EXCEPT !.backlog = b, !.queue = q, !.control = x, !.command = y]
      BY DEF Departed
<1>2. r \in Server /\ r.backlog \in Seq(Peers) /\ r.queue \in Seq(Peers)
      BY DEF ServerOK, Server
<1>3. b \in Seq(Peers) /\ q \in Seq(Peers) /\ (r.backlog # <<>> => b # <<>>)
      BY <1>2, SwapOK
<1>4. /\ x \in Peers \cup {NoOne} /\ (r.control # NoOne => x # NoOne)
      /\ y \in Peers \cup {NoOne} /\ (r.command # NoOne <=> y # NoOne)
      BY <1>2, Names DEF Server, Peers
<1> HIDE DEF b, q, x, y
<1> DEFINE d == [r EXCEPT !.backlog = b, !.queue = q]
<1>5. d \in Server
      BY <1>2, <1>3 DEF Server
<1>6. /\ d.pc = r.pc /\ d.ready = r.ready /\ d.backlog = b /\ d.idle = r.idle
      /\ d.quit = r.quit /\ d.haveui = r.haveui
      BY <1>2 DEF Server
<1>7. Departed(r, c) = [d EXCEPT !.control = x, !.command = y]
      BY <1>1, <1>2 DEF Server
<1> HIDE DEF d
<1>8. Departed(r, c) \in Server
      BY <1>4, <1>5, <1>7 DEF Server
<1>9. LET e == Departed(r, c)
      IN  /\ e.pc = d.pc /\ e.ready = d.ready /\ e.backlog = d.backlog /\ e.idle = d.idle
          /\ e.quit = d.quit /\ e.haveui = d.haveui /\ e.control = x /\ e.command = y
      BY <1>5, <1>7 DEF Server
<1> QED BY <1>3, <1>4, <1>6, <1>8, <1>9 DEF ServerOK

\* What the loop of a server relies on.
SameLoop(r, q) == /\ q.pc = r.pc /\ q.ready = r.ready /\ q.backlog = r.backlog
                  /\ q.command = r.command /\ q.idle = r.idle

LEMMA ServerFields ==
    ASSUME NEW r \in Server
    PROVE  /\ r.pc \in ServerPCs /\ r.backlog \in Seq(Peers) /\ r.queue \in Seq(Peers)
           /\ r.control \in Peers \cup {NoOne} /\ r.pipe \in Seq(Messages)
           /\ r.command \in Peers \cup {NoOne} /\ r.idle \in {{}, {"run"}, {"build"}}
BY DEF Server

LEMMA CompleteOK ==
    ASSUME NEW r \in Server
    PROVE  LET u == ClientComplete(r)
           IN  u \in Server /\ SameLoop(r, u) /\ u.queue = r.queue /\ u.quit = r.quit
BY DEF ClientComplete, Server, SameLoop

LEMMA CutOffOK ==
    ASSUME NEW r \in Server
    PROVE  LET d == [r EXCEPT !.haveui = FALSE, !.pipe = <<>>, !.control = NoOne]
           IN  d \in Server /\ SameLoop(r, d) /\ d.queue = r.queue /\ d.quit = r.quit /\ d.haveui = FALSE
<1>1. <<>> \in Seq(Messages)
      OBVIOUS
<1> QED BY <1>1 DEF Server, SameLoop

LEMMA DisconnectOK ==
    ASSUME NEW r, ServerOK(r), r.pc = "command"
    PROVE  ServerOK(Disconnect(r)) /\ Disconnect(r).pc = "command"
<1> DEFINE n == Len(r.queue)
<1> DEFINE u == IF r.haveui THEN ClientComplete(r) ELSE r
<1> DEFINE d == [u EXCEPT !.haveui = FALSE, !.pipe = <<>>, !.control = NoOne]
<1>1. r \in Server /\ r.queue \in Seq(Peers)
      BY ServerFields DEF ServerOK
<1>2. u \in Server /\ SameLoop(r, u) /\ u.queue = r.queue /\ u.quit = r.quit
      BY <1>1, CompleteOK DEF SameLoop
<1> HIDE DEF u
<1>3. d \in Server /\ SameLoop(u, d) /\ d.queue = u.queue /\ d.quit = u.quit /\ d.haveui = FALSE
      BY <1>2, CutOffOK
<1> HIDE DEF d
<1>4. SameLoop(r, d) /\ d.quit = r.quit
      BY <1>2, <1>3 DEF SameLoop
<1>5. CASE n > 0
  <2> DEFINE h == r.queue[n]
  <2> DEFINE k == SubSeq(r.queue, 1, n - 1)
  <2>1. Disconnect(r) = [d EXCEPT !.control = h, !.queue = k]
        BY <1>5 DEF Disconnect, d, u
  <2>2. h \in Peers \cup {NoOne} /\ k \in Seq(Peers)
        BY <1>1, <1>5
  <2> HIDE DEF h, k
  <2> DEFINE e == [d EXCEPT !.control = h]
  <2>3. e \in Server
        BY <1>3, <2>2 DEF Server
  <2>4. Disconnect(r) = [e EXCEPT !.queue = k]
        BY <1>3, <2>1 DEF Server
  <2> HIDE DEF e
  <2>5. Disconnect(r) \in Server
        BY <2>2, <2>3, <2>4 DEF Server
  <2>6. /\ SameLoop(d, Disconnect(r))
        /\ Disconnect(r).quit = d.quit /\ Disconnect(r).haveui = FALSE
        BY <1>3, <2>1 DEF Server, SameLoop
  <2> QED BY <1>3, <1>4, <2>5, <2>6 DEF ServerOK, SameLoop
<1>6. CASE ~(n > 0)
  <2> DEFINE q == d.quit \/ (~Timeout /\ r.backlog = <<>>)
  <2>1. Disconnect(r) = [d EXCEPT !.quit = q]
        BY <1>6 DEF Disconnect, d, u
  <2>2. q \in BOOLEAN /\ (d.quit => q)
        OBVIOUS
  <2> HIDE DEF q
  <2>3. /\ Disconnect(r) \in Server /\ SameLoop(d, Disconnect(r))
        /\ Disconnect(r).quit = q /\ Disconnect(r).haveui = FALSE
        BY <1>3, <2>1, <2>2 DEF Server, SameLoop
  <2> QED BY <1>3, <1>4, <2>2, <2>3 DEF ServerOK, SameLoop
<1> QED BY <1>5, <1>6

\* What a command or an idle function leaves alone when it changes the cooker only.
Keeps(r, q) == /\ SameLoop(r, q) /\ q.queue = r.queue /\ q.quit = r.quit
               /\ q.haveui = r.haveui /\ q.control = r.control

LEMMA KeepsOK ==
    ASSUME NEW r, NEW q \in Server, ServerOK(r), Keeps(r, q)
    PROVE  ServerOK(q)
BY DEF ServerOK, Keeps, SameLoop

LEMMA CookerOK ==
    ASSUME NEW r \in Server
    PROVE  /\ Reset(r) \in Server /\ Keeps(r, Reset(r))
           /\ ClientComplete(r) \in Server /\ Keeps(r, ClientComplete(r))
           /\ ParserShutdown(r) \in Server /\ Keeps(r, ParserShutdown(r))
           /\ ParserShutdown(r).state = r.state
<1>1. Reset(r) \in Server /\ Keeps(r, Reset(r))
      BY DEF Reset, Server, Keeps, SameLoop
<1>2. ClientComplete(r) \in Server /\ Keeps(r, ClientComplete(r))
      BY DEF ClientComplete, Server, Keeps, SameLoop
<1> DEFINE p == IF r.parser = "live" THEN "done" ELSE r.parser
<1>3. ParserShutdown(r) = [r EXCEPT !.parser = p] /\ p \in {"none", "live", "done"}
      BY DEF ParserShutdown, Server
<1> HIDE DEF p
<1>4. ParserShutdown(r) \in Server
      BY <1>3 DEF Server
<1>5. Keeps(r, ParserShutdown(r)) /\ ParserShutdown(r).state = r.state
      BY <1>3 DEF Server, Keeps, SameLoop
<1> QED BY <1>1, <1>2, <1>4, <1>5

LEMMA StopOK ==
    ASSUME NEW r \in Server, NEW st \in {"shutdown", "forceshutdown"}
    PROVE  StopCooker(r, st) \in Server /\ Keeps(r, StopCooker(r, st))
<1>1. ParserShutdown(r) \in Server /\ Keeps(r, ParserShutdown(r))
      BY CookerOK
<1> DEFINE p == ParserShutdown(r)
<1>2. StopCooker(r, st) = [p EXCEPT !.state = st]
      BY DEF StopCooker
<1> HIDE DEF p
<1>3. p \in Server /\ Keeps(r, p)
      BY <1>1 DEF p
<1>4. StopCooker(r, st) \in Server
      BY <1>2, <1>3 DEF Server
<1>5. Keeps(p, StopCooker(r, st))
      BY <1>2, <1>3 DEF Server, Keeps, SameLoop
<1> QED BY <1>3, <1>4, <1>5 DEF Keeps, SameLoop

LEMMA BuildOK ==
    ASSUME NEW r, ServerOK(r), r.pc = "idle", r.haveui, ~Busy(r)
    PROVE  LET q == [r EXCEPT !.command = r.control, !.idle = @ \cup {"run"}]
           IN  ServerOK(q) /\ q.pc = r.pc
<1>1. r \in Server /\ r.command = NoOne /\ r.idle = {} /\ r.control # NoOne
      BY DEF ServerOK, Busy
<1>2. r.control \in Peers \cup {NoOne} /\ {} \cup {"run"} = {"run"}
      BY <1>1, ServerFields
<1> DEFINE q == [r EXCEPT !.command = r.control, !.idle = @ \cup {"run"}]
<1>3. q = [r EXCEPT !.command = r.control, !.idle = {"run"}]
      BY <1>1
<1> HIDE DEF q
<1>4. q \in Server
      BY <1>1, <1>2, <1>3 DEF Server
<1>5. /\ q.pc = r.pc /\ q.ready = r.ready /\ q.backlog = r.backlog /\ q.haveui = r.haveui
      /\ q.control = r.control /\ q.command = r.control /\ q.idle = {"run"}
      BY <1>1, <1>3 DEF Server
<1>6. ServerOK(q)
      BY <1>1, <1>4, <1>5 DEF ServerOK
<1> QED BY <1>5, <1>6 DEF q

LEMMA QuitOK ==
    ASSUME NEW r, ServerOK(r)
    PROVE  ServerOK([r EXCEPT !.quit = TRUE]) /\ [r EXCEPT !.quit = TRUE].pc = r.pc
<1> DEFINE q == [r EXCEPT !.quit = TRUE]
<1>1. r \in Server
      BY DEF ServerOK
<1>2. q \in Server
      BY <1>1 DEF Server
<1>3. SameLoop(r, q) /\ q.haveui = r.haveui /\ q.control = r.control /\ q.quit = TRUE
      BY <1>1 DEF Server, SameLoop
<1> HIDE DEF q
<1>4. ServerOK(q) /\ q.pc = r.pc
      BY <1>2, <1>3 DEF ServerOK, SameLoop
<1> QED BY <1>4 DEF q

\* Every command leaves a server as the loop expects it, and has a reply.
LEMMA RunCommandOK ==
    ASSUME NEW r, ServerOK(r), r.pc = "idle", r.haveui, NEW m \in Messages, NEW x \in RunCommand(m, r)
    PROVE  ServerOK(x[1]) /\ x[1].pc = r.pc /\ x[2] \in {"none", "ok", "error"}
<1>1. r \in Server
      BY DEF ServerOK
<1>2. ASSUME NEW q \in Server, Keeps(r, q)
      PROVE  ServerOK(q) /\ q.pc = r.pc
      BY <1>2, KeepsOK DEF Keeps, SameLoop
<1>3. /\ ServerOK(r) /\ ServerOK(Reset(r)) /\ Reset(r).pc = r.pc
      /\ ServerOK(ClientComplete(r)) /\ ClientComplete(r).pc = r.pc
      BY <1>1, <1>2, CookerOK
<1>4. CASE m = "setFeatures"
  <2>1. x \in SetFeatures(r)
        BY <1>4 DEF RunCommand
  <2> QED BY <1>3, <2>1 DEF SetFeatures
<1>5. CASE m = "updateConfig"
  <2>1. x \in UpdateConfig(r)
        BY <1>5 DEF RunCommand
  <2>2. x = <<r, "ok">> \/ x = <<Reset(r), "ok">> \/ x = <<ClientComplete(r), "error">>
        BY <2>1 DEF UpdateConfig, ClientComplete
  <2> QED BY <1>3, <2>2
<1>6. CASE m = "buildTargets"
  <2>1. x \in BuildTargets(r)
        BY <1>6 DEF RunCommand
  <2>2. CASE Busy(r)
        BY <1>3, <2>1, <2>2 DEF BuildTargets
  <2>3. CASE ~Busy(r)
    <3> DEFINE q == [r EXCEPT !.command = r.control, !.idle = @ \cup {"run"}]
    <3>1. x = <<q, "ok">>
          BY <2>1, <2>3 DEF BuildTargets
    <3>2. ServerOK(q) /\ q.pc = r.pc
          BY <2>3, BuildOK
    <3> HIDE DEF q
    <3> QED BY <3>1, <3>2
  <2> QED BY <2>2, <2>3
<1>7. CASE m = "stateShutdown"
  <2>1. x = <<StopCooker(r, "shutdown"), "ok">>
        BY <1>7 DEF RunCommand
  <2> QED BY <1>1, <1>2, <2>1, StopOK
<1>8. CASE m = "stateForceShutdown"
  <2>1. x = <<StopCooker(r, "forceshutdown"), "ok">>
        BY <1>8 DEF RunCommand
  <2> QED BY <1>1, <1>2, <2>1, StopOK
<1>9. CASE m = "terminateServer"
  <2>1. x = <<[r EXCEPT !.quit = TRUE], "none">>
        BY <1>9 DEF RunCommand
  <2> QED BY <2>1, QuitOK
<1> QED BY <1>4, <1>5, <1>6, <1>7, <1>8, <1>9 DEF Messages

\* What select() finds is there.
LEMMA RoundOK ==
    ASSUME NEW r, ServerOK(r), r.pc \in Rounds
    PROVE  ServerOK([r EXCEPT !.ready = Readable(r), !.pc = "accept"])
<1> DEFINE q == [r EXCEPT !.ready = Readable(r), !.pc = "accept"]
<1>1. r \in Server
      BY DEF ServerOK
<1>2. /\ Readable(r) \in SUBSET {"sock", "control", "command"}
      /\ "sock" \in Readable(r) => r.backlog # <<>>
      /\ "control" \in Readable(r) => r.control # NoOne
      BY DEF Readable
<1>3. q \in Server
      BY <1>1, <1>2 DEF Server, ServerPCs, Rounds
<1>4. /\ q.pc = "accept" /\ q.ready = Readable(r) /\ q.backlog = r.backlog /\ q.haveui = r.haveui
      /\ q.control = r.control /\ q.command = r.command /\ q.idle = r.idle /\ q.quit = r.quit
      BY <1>1 DEF Server
<1> HIDE DEF q
<1>5. ServerOK(q)
      BY <1>2, <1>3, <1>4 DEF ServerOK
<1> QED BY <1>5 DEF q

\* A client is told of an end.
LEMMA TellOK ==
    ASSUME DataOK, NEW c, Tell(c)
    PROVE  /\ cl' \in [Clients -> Client] /\ \A d \in Clients : ClientOK(cl'[d])
           /\ \A d \in Clients : cl'[d].pc = cl[d].pc
<1>1. CASE c \notin Clients
      BY <1>1 DEF Tell, DataOK
<1>2. CASE c \in Clients
  <2> DEFINE x == [cl[c] EXCEPT !.end = TRUE]
  <2>1. cl' = [cl EXCEPT ![c] = x]
        BY <1>2 DEF Tell
  <2>2. cl[c] \in Client /\ ClientOK(cl[c])
        BY <1>2 DEF DataOK
  <2>3. ClientOK(x) /\ x.pc = cl[c].pc
        BY <2>2 DEF ClientOK, Client
  <2> HIDE DEF x
  <2>4. /\ cl' \in [Clients -> Client] /\ \A d \in Clients : ClientOK(cl'[d])
        /\ cl'[c] = x /\ \A d \in Clients \ {c} : cl'[d] = cl[d]
        BY <1>2, <2>1, <2>3, OneClient
  <2> QED BY <2>3, <2>4
<1> QED BY <1>1, <1>2

\* The end of a round: the server goes to the next, and clients are only told.
LEMMA EndRoundOK ==
    ASSUME DataOK, NEW s \in Servers, NEW r, ServerOK(r), r.pc \in Rounds, NEW fired \in BOOLEAN,
           EndRound(s, r, fired)
    PROVE  /\ sv' \in [Servers -> Server] /\ \A t \in Servers : ServerOK(sv'[t])
           /\ sv'[s].pc = "accept" /\ \A t \in Servers \ {s} : sv'[t] = sv[t]
           /\ cl' \in [Clients -> Client] /\ \A c \in Clients : ClientOK(cl'[c])
           /\ \A c \in Clients : cl'[c].pc = cl[c].pc
           /\ UNCHANGED <<owner, sock>>
<1> DEFINE h == ~r.haveui /\ (r.held \/ fired)
<1> DEFINE q == [r EXCEPT !.held = h]
<1> DEFINE z == [q EXCEPT !.ready = Readable(q), !.pc = "accept"]
<1>1. sv' = [sv EXCEPT ![s] = z] /\ UNCHANGED <<owner, sock>>
      /\ (cl' = cl \/ Tell(r.control))
      BY DEF EndRound
<1>2. r \in Server /\ h \in BOOLEAN
      BY DEF ServerOK
<1> HIDE DEF h
<1>3. q \in Server /\ Keeps(r, q)
      BY <1>2 DEF Server, Keeps, SameLoop
<1>4. ServerOK(q) /\ q.pc \in Rounds
      BY <1>3, KeepsOK DEF Keeps, SameLoop
<1> HIDE DEF q
<1>5. ServerOK(z)
      BY <1>4, RoundOK
<1>6. z.pc = "accept"
      BY <1>3 DEF Server
<1> HIDE DEF z
<1>7. /\ sv' \in [Servers -> Server] /\ \A t \in Servers : ServerOK(sv'[t])
      /\ sv'[s] = z /\ \A t \in Servers \ {s} : sv'[t] = sv[t]
      BY <1>1, <1>5, OneRecord
<1>8. /\ cl' \in [Clients -> Client] /\ \A c \in Clients : ClientOK(cl'[c])
      /\ \A c \in Clients : cl'[c].pc = cl[c].pc
      BY <1>1, TellOK DEF DataOK
<1> QED BY <1>1, <1>6, <1>7, <1>8

-----------------------------------------------------------------------------
(* The initial states *)

LEMMA InitIInv == Init => IInv
<1> SUFFICES ASSUME Init PROVE IInv
    OBVIOUS
<1>0. "try" \in ClientPCs \ Connected /\ 0 \in Int
      BY DEF ClientPCs, Connected
<1>1. ASSUME NEW k \in BOOLEAN
      PROVE  /\ ClientOK([NewClient EXCEPT !.kills = k])
             /\ [NewClient EXCEPT !.kills = k].pc = "try"
      BY <1>0, NewClientOK
<1>2. PICK killers \in SUBSET Killers :
          cl = [c \in Clients |-> [NewClient EXCEPT !.kills = c \in killers]]
      BY DEF Init
<1>3. \A c \in Clients : ClientOK(cl[c]) /\ cl[c].pc = "try"
  <2> SUFFICES ASSUME NEW c \in Clients PROVE ClientOK(cl[c]) /\ cl[c].pc = "try"
      OBVIOUS
  <2> DEFINE k == c \in killers
  <2>1. k \in BOOLEAN
        OBVIOUS
  <2>2. cl[c] = [NewClient EXCEPT !.kills = k]
        BY <1>2
  <2> HIDE DEF k
  <2> QED BY <1>1, <2>1, <2>2
<1>4. cl \in [Clients -> Client]
      BY <1>2, <1>3 DEF ClientOK
<1>5. \A s \in Servers : ServerOK(sv[s]) /\ sv[s].pc = "off"
  <2>1. [Fresh EXCEPT !.pc = "off"].pc = "off"
        BY DEF Fresh
  <2> QED BY <2>1, FreshOK DEF Init
<1>6. sv \in [Servers -> Server]
      BY <1>5 DEF Init, ServerOK
<1>7. DataOK
      BY <1>3, <1>4, <1>5, <1>6 DEF Init, DataOK
<1>8. LockOK
      BY <1>3, <1>5 DEF LockOK, Holding, Serving, Rounds
<1> QED BY <1>7, <1>8 DEF IInv

\* Nobody comes to act upon the lock.
LEMMA Framed ==
    ASSUME IInv, UNCHANGED <<owner, sock>>, lost' \subseteq Servers,
           cl' \in [Clients -> Client], \A c \in Clients : ClientOK(cl'[c]),
           sv' \in [Servers -> Server], \A s \in Servers : ServerOK(sv'[s]),
           \A c \in Clients : cl'[c].pc \in {"start", "unlock"} => cl[c].pc = cl'[c].pc,
           \A s \in Servers : sv'[s].pc \in Serving => sv[s].pc \in Serving,
           \A s \in Servers : sv'[s].pc \in Holding => sv[s].pc \in Holding
    PROVE  IInv'
<1>1. DataOK /\ LockOK
      BY DEF IInv
<1>2. DataOK'
      BY <1>1 DEF DataOK
<1>3. LockOK'
      BY <1>1 DEF LockOK
<1> QED BY <1>2, <1>3 DEF IInv

LEMMA GotoOK ==
    ASSUME DataOK, NEW c \in Clients, NEW l \in ClientPCs, Goto(c, l),
           l \in Connected => cl[c].server \in Servers,
           l # "stopping" => cl[c].stops # 2
    PROVE  /\ cl' \in [Clients -> Client] /\ \A d \in Clients : ClientOK(cl'[d])
           /\ cl'[c].pc = l /\ \A d \in Clients \ {c} : cl'[d] = cl[d]
<1> DEFINE x == [cl[c] EXCEPT !.pc = l]
<1>1. cl' = [cl EXCEPT ![c] = x]
      BY DEF Goto
<1>2. cl[c] \in Client
      BY DEF DataOK
<1>3. x \in Client
      BY <1>2 DEF Client
<1>4. x.pc = l /\ x.server = cl[c].server /\ x.stops = cl[c].stops
      BY <1>2 DEF Client
<1> HIDE DEF x
<1>5. ClientOK(x)
      BY <1>3, <1>4 DEF ClientOK
<1> QED BY <1>1, <1>4, <1>5, OneClient

LEMMA CloseOK ==
    ASSUME DataOK, NEW c \in Clients, NEW l \in {"out", "try"}, NEW t \in Int, Close(c, l, t)
    PROVE  /\ cl' \in [Clients -> Client] /\ \A d \in Clients : ClientOK(cl'[d])
           /\ cl'[c].pc = l /\ \A d \in Clients \ {c} : cl'[d] = cl[d]
           /\ sv' \in [Servers -> Server] /\ \A s \in Servers : ServerOK(sv'[s])
           /\ \A s \in Servers : sv'[s].pc = sv[s].pc
<1> DEFINE x == [NewClient EXCEPT !.kills = cl[c].kills, !.pc = l, !.tries = t]
<1>1. cl' = [cl EXCEPT ![c] = x]
      BY DEF Close
<1>2. cl[c] \in Client /\ ClientOK(cl[c])
      BY DEF DataOK
<1>3. cl[c].kills \in BOOLEAN
      BY <1>2 DEF Client
<1> DEFINE k == cl[c].kills
<1>4. ClientOK(x) /\ x.pc = l
  <2>1. l \in ClientPCs \ Connected /\ k \in BOOLEAN
        BY <1>3 DEF ClientPCs, Connected
  <2>2. x = [NewClient EXCEPT !.kills = k, !.pc = l, !.tries = t]
        OBVIOUS
  <2> HIDE DEF k, x
  <2>3. /\ ClientOK([NewClient EXCEPT !.kills = k, !.pc = l, !.tries = t])
        /\ [NewClient EXCEPT !.kills = k, !.pc = l, !.tries = t].pc = l
        BY <2>1, NewClientOK
  <2> QED BY <2>2, <2>3
<1> HIDE DEF x
<1>5. /\ cl' \in [Clients -> Client] /\ \A d \in Clients : ClientOK(cl'[d])
      /\ cl'[c].pc = l /\ \A d \in Clients \ {c} : cl'[d] = cl[d]
      BY <1>1, <1>4, OneClient
<1>6. CASE cl[c].pc \in Connected
  <2> DEFINE s == cl[c].server
  <2> DEFINE r == Departed(sv[s], c)
  <2>1. s \in Servers
        BY <1>2, <1>6 DEF ClientOK
  <2>2. sv' = [sv EXCEPT ![s] = r]
        BY <1>6 DEF Close
  <2>3. ServerOK(sv[s])
        BY <2>1 DEF DataOK
  <2> HIDE DEF s
  <2>4. ServerOK(r) /\ r.pc = sv[s].pc
        BY <2>3, DepartedOK
  <2> HIDE DEF r
  <2>5. /\ sv' \in [Servers -> Server] /\ \A q \in Servers : ServerOK(sv'[q])
        /\ sv'[s] = r /\ \A q \in Servers \ {s} : sv'[q] = sv[q]
        BY <2>1, <2>2, <2>4, OneRecord
  <2> QED BY <1>5, <2>4, <2>5
<1>7. CASE cl[c].pc \notin Connected
  <2>1. sv' = sv
        BY <1>7 DEF Close
  <2> QED BY <1>5, <2>1 DEF DataOK
<1> QED BY <1>6, <1>7

\* A client that leaves, or tries again, and had not the lock.
LEMMA LeaveOK ==
    ASSUME IInv, NEW c \in Clients, Leave(c) \/ Retry(c), UNCHANGED <<owner, sock, lost>>
    PROVE  IInv'
<1>1. cl[c].tries \in Int /\ DataOK
      BY DEF IInv, DataOK, Client
<1>2. PICK l \in {"out", "try"}, t \in Int : Close(c, l, t)
      BY <1>1 DEF Leave, Retry
<1>3. /\ cl' \in [Clients -> Client] /\ \A d \in Clients : ClientOK(cl'[d])
      /\ cl'[c].pc = l /\ \A d \in Clients \ {c} : cl'[d] = cl[d]
      /\ sv' \in [Servers -> Server] /\ \A s \in Servers : ServerOK(sv'[s])
      /\ \A s \in Servers : sv'[s].pc = sv[s].pc
      BY <1>1, <1>2, CloseOK
<1>4. lost' \subseteq Servers
      BY <1>1 DEF DataOK
<1> QED BY <1>3, <1>4, Framed

\* A client that has the lock gives it back as it goes.
LEMMA GiveBackOK ==
    ASSUME IInv, NEW c \in Clients, Leave(c) \/ Retry(c), owner = c, owner' = NoOne,
           UNCHANGED <<sock, lost>>
    PROVE  IInv'
<1>1. cl[c].tries \in Int /\ DataOK
      BY DEF IInv, DataOK, Client
<1>2. PICK l \in {"out", "try"}, t \in Int : Close(c, l, t)
      BY <1>1 DEF Leave, Retry
<1>3. /\ cl' \in [Clients -> Client] /\ \A d \in Clients : ClientOK(cl'[d])
      /\ cl'[c].pc = l /\ \A d \in Clients \ {c} : cl'[d] = cl[d]
      /\ sv' \in [Servers -> Server] /\ \A s \in Servers : ServerOK(sv'[s])
      /\ \A s \in Servers : sv'[s].pc = sv[s].pc
      BY <1>1, <1>2, CloseOK
<1>4. DataOK'
      BY <1>1, <1>3 DEF DataOK
<1>5. \A s \in Servers : sv[s].pc \notin Holding
      BY Names DEF IInv, LockOK
<1>6. \A d \in Clients \ {c} : cl[d].pc \notin {"start", "unlock"}
      BY DEF IInv, LockOK
<1>7. \A s \in Servers : sv[s].pc \notin Serving
      BY <1>5 DEF Holding, Serving
<1>8. LockOK'
      BY <1>3, <1>5, <1>6, <1>7 DEF LockOK
<1> QED BY <1>4, <1>8 DEF IInv

\* The lock was free, and client c takes it.
LEMMA TakeLockOK ==
    ASSUME IInv, NEW c \in Clients, NEW l \in {"start", "unlock"}, Goto(c, l),
           cl[c].pc # "stopping", LockFree, owner' = c, UNCHANGED <<sock, sv, lost>>
    PROVE  IInv'
<1>1. DataOK
      BY DEF IInv
<1>2. /\ cl' \in [Clients -> Client] /\ \A d \in Clients : ClientOK(cl'[d])
      /\ cl'[c].pc = l /\ \A d \in Clients \ {c} : cl'[d] = cl[d]
  <2>1. cl[c].stops # 2 /\ l \in ClientPCs /\ l \notin Connected /\ l # "stopping"
        BY <1>1 DEF DataOK, ClientOK, ClientPCs, Connected
  <2> QED BY <1>1, <2>1, GotoOK
<1>3. DataOK'
      BY <1>1, <1>2 DEF DataOK
<1>4. \A s \in Servers : sv[s].pc \notin Holding
      BY Names DEF IInv, LockOK, LockFree
<1>5. \A d \in Clients \ {c} : cl[d].pc \notin {"start", "unlock"}
      BY Names DEF IInv, LockOK, LockFree
<1>6. \A s \in Servers : sv[s].pc \notin Serving
      BY <1>4 DEF Holding, Serving
<1>7. LockOK'
      BY <1>2, <1>4, <1>5, <1>6 DEF LockOK
<1> QED BY <1>3, <1>7 DEF IInv

-----------------------------------------------------------------------------
(* The steps of a client *)

\* A client goes on, and has not taken the lock.
LEMMA GoOnOK ==
    ASSUME IInv, NEW c \in Clients, NEW l \in ClientPCs \ {"start", "unlock"}, Goto(c, l),
           l \in Connected => cl[c].server \in Servers,
           l # "stopping" => cl[c].stops # 2,
           UNCHANGED <<owner, sock, sv, lost>>
    PROVE  IInv'
<1>1. DataOK
      BY DEF IInv
<1>2. /\ cl' \in [Clients -> Client] /\ \A d \in Clients : ClientOK(cl'[d])
      /\ cl'[c].pc = l /\ \A d \in Clients \ {c} : cl'[d] = cl[d]
      BY <1>1, GotoOK
<1>3. /\ lost' \subseteq Servers /\ sv' \in [Servers -> Server]
      /\ \A s \in Servers : ServerOK(sv'[s])
      BY <1>1 DEF DataOK
<1>4. \A s \in Servers : sv'[s].pc = sv[s].pc
      OBVIOUS
<1> QED BY <1>2, <1>3, <1>4, Framed

\* A client has sent something to its server, and waits.
LEMMA SentOK ==
    ASSUME IInv, NEW c \in Clients, NEW x, ClientOK(x), x.pc \notin {"start", "unlock"},
           cl' = [cl EXCEPT ![c] = x],
           NEW s \in Servers, NEW q \in Seq(Messages), sv' = [sv EXCEPT ![s].pipe = q],
           UNCHANGED <<owner, sock, lost>>
    PROVE  IInv'
<1>1. DataOK
      BY DEF IInv
<1>2. /\ cl' \in [Clients -> Client] /\ \A d \in Clients : ClientOK(cl'[d])
      /\ cl'[c] = x /\ \A d \in Clients \ {c} : cl'[d] = cl[d]
      BY <1>1, OneClient
<1> DEFINE r == [sv[s] EXCEPT !.pipe = q]
<1>3. sv' = [sv EXCEPT ![s] = r]
      OBVIOUS
<1>4. ServerOK(sv[s]) /\ sv[s] \in Server
      BY <1>1 DEF DataOK
<1>5. r \in Server /\ Keeps(sv[s], r)
      BY <1>4 DEF Server, Keeps, SameLoop
<1> HIDE DEF r
<1>6. ServerOK(r) /\ r.pc = sv[s].pc
      BY <1>4, <1>5, KeepsOK DEF Keeps, SameLoop
<1>7. /\ sv' \in [Servers -> Server] /\ \A t \in Servers : ServerOK(sv'[t])
      /\ sv'[s] = r /\ \A t \in Servers \ {s} : sv'[t] = sv[t]
      BY <1>1, <1>3, <1>6, OneRecord
<1>8. \A t \in Servers : sv'[t].pc = sv[t].pc
      BY <1>6, <1>7
<1>9. lost' \subseteq Servers
      BY <1>1 DEF DataOK
<1> QED BY <1>2, <1>7, <1>8, <1>9, Framed

LEMMA SendOK ==
    ASSUME IInv, NEW c \in Clients, NEW m \in Messages, NEW l \in Connected, Send(c, m, l),
           cl[c].pc \in Connected \ {"stopping"},
           UNCHANGED <<owner, sock, lost>>
    PROVE  IInv'
<1>1. ClientOK(cl[c]) /\ cl[c] \in Client /\ \A s \in Servers : sv[s] \in Server
      BY DEF IInv, DataOK
<1> DEFINE s == cl[c].server
<1> DEFINE x == [cl[c] EXCEPT !.pc = l, !.reply = "none"]
<1> DEFINE q == Append(sv[s].pipe, m)
<1>2. s \in Servers /\ cl[c].stops # 2
      BY <1>1 DEF ClientOK
<1>3. cl' = [cl EXCEPT ![c] = x] /\ sv' = [sv EXCEPT ![s].pipe = q]
      BY DEF Send
<1>4. sv[s].pipe \in Seq(Messages)
      BY <1>1, <1>2, ServerFields
<1>5. q \in Seq(Messages)
      BY <1>4
<1>6. x \in Client
      BY <1>1 DEF Client, ClientPCs, Connected
<1>7. x.pc = l /\ x.server = s /\ x.stops = cl[c].stops
      BY <1>1 DEF Client
<1> HIDE DEF x, q, s
<1>8. ClientOK(x) /\ x.pc \notin {"start", "unlock"}
      BY <1>2, <1>6, <1>7 DEF ClientOK, Connected
<1> QED BY <1>2, <1>3, <1>5, <1>8, SentOK

\* The lock is free, or it is not.
LEMMA LockSteps ==
    ASSUME IInv, NEW c \in Clients, LockBitbake(c) \/ WaitLock(c)
    PROVE  IInv'
<1>0. ClientOK(cl[c])
      BY DEF IInv, DataOK
<1>1. CASE LockBitbake(c)
  <2>1. cl[c].pc = "try" /\ UNCHANGED <<sock, sv, lost>>
        BY <1>1 DEF LockBitbake
  <2>2. CASE LockFree /\ owner' = c /\ Goto(c, "start")
        BY <2>1, <2>2, TakeLockOK
  <2>3. CASE ~LockFree /\ owner' = owner /\ Goto(c, "look")
        BY <1>0, <2>1, <2>3, GoOnOK DEF ClientOK, ClientPCs, Connected
  <2> QED BY <1>1, <2>2, <2>3 DEF LockBitbake
<1>2. CASE WaitLock(c)
  <2>1. cl[c].pc = "waitlock" /\ UNCHANGED <<sock, lost>>
        BY <1>2 DEF WaitLock
  <2>2. CASE LockFree /\ owner' = c /\ Goto(c, "unlock") /\ UNCHANGED sv
        BY <2>1, <2>2, TakeLockOK
  <2>3. CASE ~LockFree /\ owner' = owner /\ Retry(c)
        BY <2>1, <2>3, LeaveOK
  <2> QED BY <1>2, <2>2, <2>3 DEF WaitLock
<1> QED BY <1>1, <1>2

\* The lock passes from the client to the server, which has the socket too.
LEMMA StartStep ==
    ASSUME IInv, NEW c \in Clients, StartServer(c)
    PROVE  IInv'
<1>1. DataOK /\ owner = c /\ cl[c].pc = "start" /\ ClientOK(cl[c]) /\ cl[c] \in Client
      BY DEF IInv, DataOK, LockOK, StartServer
<1> DEFINE s == NewProcess
<1>2. s \in Servers
  <2>1. \E t \in Servers : sv[t].pc = "off" /\ t \notin lost
        BY DEF StartServer
  <2> QED BY <2>1 DEF NewProcess
<1>3. /\ owner' = s /\ sock' = s /\ sv' = [sv EXCEPT ![s] = Fresh] /\ lost' = lost
      /\ cl' = [cl EXCEPT ![c].pc = "ready", ![c].server = s]
      BY DEF StartServer
<1> HIDE DEF s
<1> DEFINE x == [cl[c] EXCEPT !.pc = "ready", !.server = s]
<1>4. cl' = [cl EXCEPT ![c] = x]
      BY <1>3
<1>5. x \in Client
      BY <1>1, <1>2 DEF Client, ClientPCs
<1>6. x.pc = "ready" /\ x.server = s /\ x.stops = cl[c].stops
      BY <1>1 DEF Client
<1> HIDE DEF x
<1>7. ClientOK(x)
      BY <1>1, <1>2, <1>5, <1>6 DEF ClientOK
<1>8. /\ cl' \in [Clients -> Client] /\ \A d \in Clients : ClientOK(cl'[d])
      /\ cl'[c] = x /\ \A d \in Clients \ {c} : cl'[d] = cl[d]
      BY <1>1, <1>4, <1>7, OneClient
<1>9. /\ sv' \in [Servers -> Server] /\ \A t \in Servers : ServerOK(sv'[t])
      /\ sv'[s] = Fresh /\ \A t \in Servers \ {s} : sv'[t] = sv[t]
      BY <1>1, <1>2, <1>3, FreshOK, OneRecord
<1>10. DataOK'
       BY <1>1, <1>2, <1>3, <1>8, <1>9 DEF DataOK
<1>11. \A t \in Servers : sv[t].pc \notin Holding
       BY <1>1, Names DEF IInv, LockOK
<1>12. \A t \in Servers : sv[t].pc \notin Serving
       BY <1>11 DEF Holding, Serving
<1>13. \A d \in Clients \ {c} : cl[d].pc \notin {"start", "unlock"}
       BY <1>1 DEF IInv, LockOK
<1>14. \A d \in Clients : cl'[d].pc \notin {"start", "unlock"}
       BY <1>6, <1>8, <1>13
<1>15. LockOK'
       BY <1>3, <1>9, <1>11, <1>12, <1>14 DEF LockOK
<1> QED BY <1>10, <1>15 DEF IInv

LEMMA ConnectStep ==
    ASSUME IInv, NEW c \in Clients, Connect(c)
    PROVE  IInv'
<1>1. DataOK /\ cl[c].pc = "connect" /\ UNCHANGED <<owner, sock, lost>>
      BY DEF IInv, Connect
<1>2. CASE ~CanConnect /\ Retry(c)
      BY <1>1, <1>2, LeaveOK
<1>3. CASE /\ CanConnect
           /\ sv' = [sv EXCEPT ![sock].backlog = Append(@, c)]
           /\ cl' = [cl EXCEPT ![c].pc = "reply", ![c].server = sock]
  <2>1. sock \in Servers
        BY <1>1, <1>3 DEF DataOK, CanConnect
  <2>2. /\ ClientOK(cl[c]) /\ cl[c] \in Client
        /\ ServerOK(sv[sock]) /\ sv[sock] \in Server
        BY <1>1, <2>1 DEF DataOK
  <2> DEFINE x == [cl[c] EXCEPT !.pc = "reply", !.server = sock]
  <2>3. cl' = [cl EXCEPT ![c] = x]
        BY <1>3
  <2>4. x \in Client
        BY <2>1, <2>2 DEF Client, ClientPCs
  <2>5. x.pc = "reply" /\ x.server = sock /\ x.stops = cl[c].stops
        BY <2>2 DEF Client
  <2> HIDE DEF x
  <2>6. ClientOK(x)
        BY <1>1, <2>1, <2>2, <2>4, <2>5 DEF ClientOK
  <2>7. /\ cl' \in [Clients -> Client] /\ \A d \in Clients : ClientOK(cl'[d])
        /\ cl'[c] = x /\ \A d \in Clients \ {c} : cl'[d] = cl[d]
        BY <1>1, <2>3, <2>6, OneClient
  <2> DEFINE b == Append(sv[sock].backlog, c)
  <2> DEFINE r == [sv[sock] EXCEPT !.backlog = b]
  <2>8. sv' = [sv EXCEPT ![sock] = r]
        BY <1>3
  <2>9. sv[sock].backlog \in Seq(Peers) /\ c \in Peers
        BY <2>2, ServerFields DEF Peers
  <2>10. b \in Seq(Peers) /\ b # <<>>
         BY <2>9
  <2> HIDE DEF b
  <2>11. r \in Server
         BY <2>2, <2>10 DEF Server
  <2>12. /\ r.pc = sv[sock].pc /\ r.ready = sv[sock].ready /\ r.backlog = b
         /\ r.command = sv[sock].command /\ r.idle = sv[sock].idle /\ r.quit = sv[sock].quit
         /\ r.haveui = sv[sock].haveui /\ r.control = sv[sock].control
         BY <2>2 DEF Server
  <2> HIDE DEF r
  <2>13. ServerOK(r)
         BY <2>2, <2>10, <2>11, <2>12 DEF ServerOK
  <2>14. /\ sv' \in [Servers -> Server] /\ \A t \in Servers : ServerOK(sv'[t])
         /\ sv'[sock] = r /\ \A t \in Servers \ {sock} : sv'[t] = sv[t]
         BY <1>1, <2>1, <2>8, <2>13, OneRecord
  <2>15. \A t \in Servers : sv'[t].pc = sv[t].pc
         BY <2>12, <2>14
  <2>16. lost' \subseteq Servers
         BY <1>1 DEF DataOK
  <2> QED BY <1>1, <2>5, <2>7, <2>14, <2>15, <2>16, Framed
<1> QED BY <1>2, <1>3 DEF Connect

LEMMA ReplySteps ==
    ASSUME IInv, NEW c \in Clients, TakeReply(c) \/ SendTerminate(c) \/ NoReply(c)
    PROVE  IInv'
<1>0. ClientOK(cl[c])
      BY DEF IInv, DataOK
<1>1. cl[c].pc \in Connected => cl[c].server \in Servers
      BY <1>0 DEF ClientOK
<1>2. UNCHANGED <<owner, sock, lost>>
      BY DEF TakeReply, SendTerminate, NoReply
<1>3. CASE cl[c].pc \in {"reply", "setup"} /\ \E m \in Messages, l \in Connected : Send(c, m, l)
      BY <1>2, <1>3, SendOK DEF Connected
<1>4. CASE Leave(c)
      BY <1>2, <1>4, LeaveOK
<1>5. CASE /\ cl[c].pc \in Connected /\ cl[c].stops # 2
           /\ (Goto(c, "wait") \/ Goto(c, "closing")) /\ UNCHANGED sv
      BY <1>1, <1>2, <1>5, GoOnOK DEF ClientPCs
<1>6. CASE TakeReply(c)
  <2>1. CASE cl[c].pc = "reply" /\ Send(c, "updateConfig", "setup")
        BY <1>3, <2>1 DEF Messages, Connected
  <2>2. CASE cl[c].pc = "setup" /\ Send(c, "buildTargets", "sent")
        BY <1>3, <2>2 DEF Messages, Connected
  <2>3. CASE cl[c].pc = "sent" /\ Goto(c, "wait") /\ UNCHANGED sv
        BY <1>0, <1>5, <2>3 DEF ClientOK, Connected
  <2>4. CASE cl[c].pc = "reply" /\ Goto(c, "closing") /\ UNCHANGED sv
        BY <1>0, <1>5, <2>4 DEF ClientOK, Connected
  <2>5. CASE cl[c].pc = "stopping" /\ cl[c].stops = 1 /\ Goto(c, "wait") /\ UNCHANGED sv
        BY <1>5, <2>5 DEF Connected
  <2> QED BY <1>4, <1>6, <2>1, <2>2, <2>3, <2>4, <2>5 DEF TakeReply
<1>7. CASE SendTerminate(c)
      BY <1>3, <1>7 DEF SendTerminate, Messages, Connected
<1>8. CASE NoReply(c)
  <2>1. CASE cl[c].pc = "reply" /\ Goto(c, "closing") /\ UNCHANGED sv
        BY <1>0, <1>5, <2>1 DEF ClientOK, Connected
  <2> QED BY <1>4, <1>8, <2>1 DEF NoReply
<1> QED BY <1>6, <1>7, <1>8

LEMMA InterruptStep ==
    ASSUME IInv, NEW c \in Clients, Interrupt(c)
    PROVE  IInv'
<1>0. /\ ClientOK(cl[c]) /\ cl[c] \in Client /\ \A s \in Servers : sv[s] \in Server
      BY DEF IInv, DataOK
<1>1. cl[c].pc = "wait" /\ UNCHANGED <<owner, sock, lost>>
      BY DEF Interrupt
<1>2. CASE Leave(c)
      BY <1>1, <1>2, LeaveOK
<1> DEFINE s == cl[c].server
<1> DEFINE m == <<"stateShutdown", "stateForceShutdown">>[cl[c].stops + 1]
<1> DEFINE x == [cl[c] EXCEPT !.pc = "stopping", !.reply = "none", !.stops = @ + 1]
<1> DEFINE q == Append(sv[s].pipe, m)
<1>3. CASE cl' = [cl EXCEPT ![c] = x] /\ sv' = [sv EXCEPT ![s].pipe = q]
  <2>1. s \in Servers /\ cl[c].stops \in {0, 1}
        BY <1>0, <1>1 DEF ClientOK, Client, Connected
  <2>2. m \in Messages
        BY <2>1 DEF Messages
  <2>3. sv[s].pipe \in Seq(Messages)
        BY <1>0, <2>1, ServerFields
  <2> HIDE DEF m
  <2>4. q \in Seq(Messages)
        BY <2>2, <2>3
  <2> DEFINE n == cl[c].stops + 1
  <2> DEFINE y == [cl[c] EXCEPT !.pc = "stopping", !.reply = "none"]
  <2>5. n \in 0 .. 2
        BY <2>1
  <2>6. y \in Client
        BY <1>0 DEF Client, ClientPCs
  <2>7. y.pc = "stopping" /\ y.server = s /\ y.stops = cl[c].stops
        BY <1>0 DEF Client
  <2>8. x = [y EXCEPT !.stops = n]
        BY <1>0, <2>7 DEF Client
  <2> HIDE DEF x, q, s, y, n
  <2>9. x \in Client /\ x.pc = "stopping" /\ x.server = s
        BY <2>5, <2>6, <2>7, <2>8 DEF Client
  <2>10. ClientOK(x)
         BY <2>1, <2>9 DEF ClientOK
  <2> QED BY <1>1, <1>3, <2>1, <2>4, <2>9, <2>10, SentOK
<1> QED BY <1>2, <1>3 DEF Interrupt

LEMMA ClientStep ==
    ASSUME IInv, NEW c \in Clients,
           ClientSteps(c) \/ NotReady(c) \/ NoReply(c) \/ Interrupt(c) \/ ClientDies(c)
    PROVE  IInv'
<1>0. ClientOK(cl[c]) /\ LockOK
      BY DEF IInv, DataOK
<1>1. CASE LockBitbake(c) \/ WaitLock(c)
      BY <1>1, LockSteps
<1>2. CASE StartServer(c)
      BY <1>2, StartStep
<1>3. CASE Connect(c)
      BY <1>3, ConnectStep
<1>4. CASE TakeReply(c) \/ SendTerminate(c) \/ NoReply(c)
      BY <1>4, ReplySteps
<1>5. CASE Interrupt(c)
      BY <1>5, InterruptStep
<1>6. CASE ServerReady(c) \/ NotReady(c) \/ Look(c)
  <2>1. /\ cl[c].pc \in {"ready", "look"} /\ UNCHANGED <<owner, sock, sv, lost>>
        /\ \E l \in {"out", "connect", "waitlock"} : Goto(c, l)
        BY <1>6 DEF ServerReady, NotReady, Look
  <2>2. \A l \in {"out", "connect", "waitlock"} :
            l \in ClientPCs \ {"start", "unlock"} /\ l \notin Connected /\ l # "stopping"
        BY DEF ClientPCs, Connected
  <2>3. cl[c].stops # 2
        BY <1>0, <2>1 DEF ClientOK
  <2> QED BY <2>1, <2>2, <2>3, GoOnOK
<1>7. CASE EndEvent(c) \/ Terminate(c) \/ CloseConnection(c)
      BY <1>7, LeaveOK DEF EndEvent, Terminate, CloseConnection
<1>8. CASE NotRunning(c) \/ Unlock(c)
  <2>1. owner = c
        BY <1>0, <1>8 DEF LockOK, NotRunning, Unlock
  <2> QED BY <1>8, <2>1, GiveBackOK DEF NotRunning, Unlock
<1>9. CASE ClientDies(c)
  <2>1. CASE owner = c
        BY <1>9, <2>1, GiveBackOK DEF ClientDies
  <2>2. CASE owner # c
        BY <1>9, <2>2, LeaveOK DEF ClientDies
  <2> QED BY <2>1, <2>2
<1> QED BY <1>1, <1>2, <1>3, <1>4, <1>5, <1>6, <1>7, <1>8, <1>9 DEF ClientSteps

-----------------------------------------------------------------------------
(* The steps of a server *)

\* A server goes on from a record to another, keeping what it has of the lock.
LEMMA RecordOK ==
    ASSUME IInv, NEW s \in Servers, NEW r, ServerOK(r), sv' = [sv EXCEPT ![s] = r],
           r.pc \in Serving => sv[s].pc \in Serving,
           r.pc \in Holding => sv[s].pc \in Holding,
           UNCHANGED <<owner, sock>>, lost' \subseteq Servers,
           cl' \in [Clients -> Client], \A c \in Clients : ClientOK(cl'[c]),
           \A c \in Clients : cl'[c].pc = cl[c].pc
    PROVE  IInv'
<1>1. DataOK
      BY DEF IInv
<1>2. /\ sv' \in [Servers -> Server] /\ \A t \in Servers : ServerOK(sv'[t])
      /\ sv'[s] = r /\ \A t \in Servers \ {s} : sv'[t] = sv[t]
      BY <1>1, OneRecord
<1>3. /\ \A t \in Servers : sv'[t].pc \in Serving => sv[t].pc \in Serving
      /\ \A t \in Servers : sv'[t].pc \in Holding => sv[t].pc \in Holding
      BY <1>2
<1> QED BY <1>2, <1>3, Framed

LEMMA QuietOK ==
    ASSUME IInv, NEW s \in Servers, NEW r, ServerOK(r), sv' = [sv EXCEPT ![s] = r],
           r.pc \in Serving => sv[s].pc \in Serving,
           r.pc \in Holding => sv[s].pc \in Holding,
           UNCHANGED <<owner, sock, lost, cl>>
    PROVE  IInv'
<1>1. /\ cl' \in [Clients -> Client] /\ \A c \in Clients : ClientOK(cl'[c])
      /\ \A c \in Clients : cl'[c].pc = cl[c].pc
      /\ lost' \subseteq Servers
      BY DEF IInv, DataOK
<1> QED BY <1>1, RecordOK

\* A server is taken on to another place of the round.
LEMMA PlaceOK ==
    ASSUME NEW r, ServerOK(r), NEW l \in {"control", "command", "idle"}, r.pc \in Rounds,
           l = "control" => r.pc = "accept"
    PROVE  ServerOK([r EXCEPT !.pc = l]) /\ [r EXCEPT !.pc = l].pc = l
<1> DEFINE q == [r EXCEPT !.pc = l]
<1>1. r \in Server
      BY DEF ServerOK
<1>2. q \in Server
      BY <1>1 DEF Server, ServerPCs, Rounds
<1>3. /\ q.pc = l /\ q.ready = r.ready /\ q.backlog = r.backlog /\ q.command = r.command
      /\ q.idle = r.idle /\ q.quit = r.quit /\ q.haveui = r.haveui /\ q.control = r.control
      BY <1>1 DEF Server
<1> HIDE DEF q
<1>4. ServerOK(q)
      BY <1>2, <1>3 DEF ServerOK
<1> QED BY <1>3, <1>4 DEF q

LEMMA Places == /\ Rounds \subseteq Serving /\ Serving \subseteq Holding
                /\ Rounds = {"accept", "control", "command", "idle"}
BY DEF Rounds, Serving, Holding

LEMMA AcceptStep ==
    ASSUME IInv, NEW s \in Servers, Accept(s)
    PROVE  IInv'
<1> DEFINE r == [sv[s] EXCEPT !.pc = "control"]
<1>1. ServerOK(sv[s]) /\ sv[s] \in Server /\ sv[s].pc = "accept"
      BY DEF IInv, DataOK, Accept, At
<1>2. UNCHANGED <<owner, sock, cl, lost>>
      BY DEF Accept
<1>3. ServerOK(r) /\ r.pc = "control" /\ r \in Server
      BY <1>1, Places, PlaceOK DEF ServerOK
<1>4. r.ready = sv[s].ready /\ r.backlog = sv[s].backlog
      BY <1>1 DEF Server
<1>5. ASSUME NEW q, ServerOK(q), q.pc = "control", sv' = [sv EXCEPT ![s] = q]
      PROVE  IInv'
      BY <1>1, <1>2, <1>5, Places, QuietOK
<1> DEFINE h == Head(r.backlog)
<1> DEFINE t == r.queue \o Tail(r.backlog)
<1> DEFINE u == r.queue \o r.backlog
<1> DEFINE y == [r EXCEPT !.backlog = <<>>, !.control = h, !.queue = t]
<1> DEFINE z == [r EXCEPT !.backlog = <<>>, !.queue = u]
<1>6. \/ sv' = [sv EXCEPT ![s] = r]
      \/ "sock" \in r.ready /\ sv' = [sv EXCEPT ![s] = y]
      \/ sv' = [sv EXCEPT ![s] = z]
      BY DEF Accept
<1> HIDE DEF r
<1>7. r.backlog \in Seq(Peers) /\ r.queue \in Seq(Peers) /\ <<>> \in Seq(Peers)
      BY <1>3, ServerFields
<1>8. u \in Seq(Peers)
      BY <1>7
<1>9. ASSUME "sock" \in r.ready
      PROVE  h \in Peers \cup {NoOne} /\ h # NoOne /\ t \in Seq(Peers)
  <2>1. r.backlog # <<>>
        BY <1>1, <1>4, <1>9 DEF ServerOK
  <2>2. h \in Peers /\ t \in Seq(Peers)
        BY <1>7, <2>1
  <2> QED BY <2>2, Names DEF Peers
<1> HIDE DEF h, t, u
<1>10. ServerOK(z) /\ z.pc = "control"
  <2>1. z \in Server
        BY <1>3, <1>7, <1>8 DEF Server
  <2>2. /\ z.pc = "control" /\ z.ready = r.ready /\ z.command = r.command /\ z.idle = r.idle
        /\ z.quit = r.quit /\ z.haveui = r.haveui /\ z.control = r.control
        BY <1>3 DEF Server
  <2> HIDE DEF z
  <2> QED BY <1>3, <2>1, <2>2 DEF ServerOK
<1>11. ASSUME "sock" \in r.ready
       PROVE  ServerOK(y) /\ y.pc = "control"
  <2>1. y \in Server
        BY <1>3, <1>7, <1>9, <1>11 DEF Server
  <2>2. /\ y.pc = "control" /\ y.ready = r.ready /\ y.command = r.command /\ y.idle = r.idle
        /\ y.quit = r.quit /\ y.haveui = r.haveui /\ y.control = h
        BY <1>3 DEF Server
  <2> HIDE DEF y
  <2> QED BY <1>3, <1>9, <1>11, <2>1, <2>2 DEF ServerOK
<1> HIDE DEF y, z
<1> QED BY <1>3, <1>5, <1>6, <1>10, <1>11

LEMMA ControlStep ==
    ASSUME IInv, NEW s \in Servers, Control(s)
    PROVE  IInv'
<1> DEFINE r == [sv[s] EXCEPT !.pc = "command"]
<1>1. ServerOK(sv[s]) /\ sv[s] \in Server /\ sv[s].pc = "control"
      BY DEF IInv, DataOK, Control, At
<1>2. UNCHANGED <<owner, sock, cl, lost>>
      BY DEF Control
<1>3. ServerOK(r) /\ r.pc = "command" /\ r \in Server
      BY <1>1, Places, PlaceOK DEF ServerOK
<1>4. r.ready = sv[s].ready /\ r.control = sv[s].control
      BY <1>1 DEF Server
<1>5. ASSUME NEW q, ServerOK(q), q.pc = "command", sv' = [sv EXCEPT ![s] = q]
      PROVE  IInv'
      BY <1>1, <1>2, <1>5, Places, QuietOK
<1>6. \/ sv' = [sv EXCEPT ![s] = r]
      \/ "control" \in r.ready /\ sv' = [sv EXCEPT ![s] = Register(r)]
      \/ sv' = [sv EXCEPT ![s] = Disconnect(r)]
      BY DEF Control
<1> HIDE DEF r
<1>7. ServerOK(Disconnect(r)) /\ Disconnect(r).pc = "command"
      BY <1>3, DisconnectOK
<1>8. ASSUME "control" \in r.ready
      PROVE  ServerOK(Register(r)) /\ Register(r).pc = "command"
  <2>1. r.control # NoOne
        BY <1>1, <1>4, <1>8 DEF ServerOK
  <2> DEFINE m == <<"setFeatures">>
  <2>2. m \in Seq(Messages)
        BY DEF Messages
  <2>3. Register(r) = [r EXCEPT !.haveui = TRUE, !.hadanyui = TRUE, !.pipe = m]
        BY DEF Register
  <2> HIDE DEF m
  <2> DEFINE q == Register(r)
  <2>4. q \in Server
        BY <1>3, <2>2, <2>3 DEF Server
  <2>5. SameLoop(r, q) /\ q.control = r.control /\ q.quit = r.quit
        BY <1>3, <2>3 DEF Server, SameLoop
  <2> HIDE DEF q
  <2>6. ServerOK(q) /\ q.pc = "command"
        BY <1>3, <2>1, <2>4, <2>5 DEF ServerOK, SameLoop
  <2> QED BY <2>6 DEF q
<1> QED BY <1>3, <1>5, <1>6, <1>7, <1>8

LEMMA CommandSteps ==
    ASSUME IInv, NEW s \in Servers, NoCommand(s) \/ HandleCommand(s) \/ CommandEOF(s)
    PROVE  IInv'
<1>1. ServerOK(sv[s]) /\ sv[s] \in Server /\ sv[s].pc = "command"
      BY DEF IInv, DataOK, NoCommand, HandleCommand, CommandEOF, At
<1>2. UNCHANGED <<owner, sock>> /\ lost' \subseteq Servers
      BY DEF IInv, DataOK, NoCommand, HandleCommand, CommandEOF, MayLeaveParsers
<1>3. CASE NoCommand(s)
  <2> DEFINE r == [sv[s] EXCEPT !.pc = "idle"]
  <2>1. sv' = [sv EXCEPT ![s] = r] /\ cl' = cl /\ lost' = lost
        BY <1>3 DEF NoCommand
  <2>2. ServerOK(r) /\ r.pc = "idle"
        BY <1>1, Places, PlaceOK
  <2> HIDE DEF r
  <2> QED BY <1>1, <1>2, <2>1, <2>2, Places, QuietOK
<1>4. CASE HandleCommand(s)
  <2> DEFINE p == Tail(sv[s].pipe)
  <2> DEFINE m == Head(sv[s].pipe)
  <2> DEFINE g == [sv[s] EXCEPT !.pipe = p]
  <2> DEFINE r == [sv[s] EXCEPT !.pipe = Tail(@), !.pc = "idle"]
  <2>1. r = [g EXCEPT !.pc = "idle"] /\ sv[s].haveui /\ sv[s].pipe # <<>>
        BY <1>4 DEF HandleCommand
  <2>2. PICK x \in RunCommand(m, r) :
            /\ sv' = [sv EXCEPT ![s] = x[1]]
            /\ cl' = IF sv[s].control \in Clients
                     THEN [cl EXCEPT ![sv[s].control].reply = x[2]] ELSE cl
        BY <1>4 DEF HandleCommand
  <2>3. sv[s].pipe \in Seq(Messages)
        BY <1>1, ServerFields
  <2>4. m \in Messages /\ p \in Seq(Messages)
        BY <2>1, <2>3
  <2> HIDE DEF m, p, r
  <2>5. g \in Server /\ Keeps(sv[s], g)
        BY <1>1, <2>4 DEF Server, Keeps, SameLoop
  <2>6. ServerOK(g) /\ g.pc \in Rounds /\ g.haveui
    <3>1. ServerOK(g)
          BY <1>1, <2>5, KeepsOK
    <3> QED BY <1>1, <2>1, <2>5, <3>1, Places DEF Keeps, SameLoop
  <2>7. [g EXCEPT !.pc = "idle"].haveui = g.haveui
        BY <2>5 DEF Server
  <2> HIDE DEF g
  <2>8. ServerOK(r) /\ r.pc = "idle" /\ r.haveui
        BY <2>1, <2>6, <2>7, PlaceOK
  <2>9. ServerOK(x[1]) /\ x[1].pc = "idle" /\ x[2] \in {"none", "ok", "error"}
        BY <2>4, <2>8, RunCommandOK
  <2>10. /\ cl' \in [Clients -> Client] /\ \A c \in Clients : ClientOK(cl'[c])
         /\ \A c \in Clients : cl'[c].pc = cl[c].pc
    <3>1. CASE sv[s].control \notin Clients
          BY <2>2, <3>1 DEF IInv, DataOK
    <3>2. CASE sv[s].control \in Clients
      <4> DEFINE c == sv[s].control
      <4> DEFINE y == [cl[c] EXCEPT !.reply = x[2]]
      <4>1. cl' = [cl EXCEPT ![c] = y]
            BY <2>2, <3>2
      <4>2. cl[c] \in Client /\ ClientOK(cl[c]) /\ DataOK /\ c \in Clients
            BY <3>2 DEF IInv, DataOK
      <4>3. y \in Client
            BY <2>9, <4>2 DEF Client
      <4>4. y.pc = cl[c].pc /\ y.server = cl[c].server /\ y.stops = cl[c].stops
            BY <4>2 DEF Client
      <4> HIDE DEF y, c
      <4>5. ClientOK(y)
            BY <4>2, <4>3, <4>4 DEF ClientOK
      <4>6. /\ cl' \in [Clients -> Client] /\ \A d \in Clients : ClientOK(cl'[d])
            /\ cl'[c] = y /\ \A d \in Clients \ {c} : cl'[d] = cl[d]
            BY <4>1, <4>2, <4>5, OneClient
      <4> QED BY <4>4, <4>6
    <3> QED BY <3>1, <3>2
  <2> QED BY <1>1, <1>2, <2>2, <2>9, <2>10, Places, RecordOK
<1>5. CASE CommandEOF(s)
  <2> DEFINE d == Disconnect(sv[s])
  <2> DEFINE r == [d EXCEPT !.ready = {}, !.pc = "accept"]
  <2>1. sv' = [sv EXCEPT ![s] = r] /\ cl' = cl /\ lost' = lost
        BY <1>5 DEF CommandEOF
  <2>2. ServerOK(d) /\ d.pc = "command" /\ d \in Server
        BY <1>1, DisconnectOK DEF ServerOK
  <2> HIDE DEF d
  <2>3. r \in Server
        BY <2>2 DEF Server, ServerPCs, Rounds
  <2>4. /\ r.pc = "accept" /\ r.ready = {} /\ r.command = d.command /\ r.idle = d.idle
        /\ r.quit = d.quit /\ r.haveui = d.haveui /\ r.control = d.control
        BY <2>2 DEF Server
  <2> HIDE DEF r
  <2>5. ServerOK(r)
        BY <2>2, <2>3, <2>4, Places DEF ServerOK
  <2> QED BY <1>1, <1>2, <2>1, <2>4, <2>5, Places, QuietOK
<1> QED BY <1>3, <1>4, <1>5

LEMMA RoundStep ==
    ASSUME IInv, NEW s \in Servers, sv[s].pc = "idle", lost' \subseteq Servers,
           NEW r, ServerOK(r), r.pc = "idle", NEW fired \in BOOLEAN, EndRound(s, r, fired)
    PROVE  IInv'
<1>1. DataOK /\ r.pc \in Rounds
      BY Places DEF IInv
<1>2. /\ sv' \in [Servers -> Server] /\ \A t \in Servers : ServerOK(sv'[t])
      /\ sv'[s].pc = "accept" /\ \A t \in Servers \ {s} : sv'[t] = sv[t]
      /\ cl' \in [Clients -> Client] /\ \A c \in Clients : ClientOK(cl'[c])
      /\ \A c \in Clients : cl'[c].pc = cl[c].pc
      /\ UNCHANGED <<owner, sock>>
      BY <1>1, EndRoundOK
<1>3. /\ \A t \in Servers : sv'[t].pc \in Serving => sv[t].pc \in Serving
      /\ \A t \in Servers : sv'[t].pc \in Holding => sv[t].pc \in Holding
      BY <1>2, Places
<1> QED BY <1>2, <1>3, Framed

\* A command ends with its last idle function.
LEMMA FinishStep ==
    ASSUME IInv, NEW s \in Servers, sv[s].pc = "idle", lost' \subseteq Servers,
           NEW r \in Server, r.pc = "idle", r.idle = {}, r.haveui => r.control # NoOne,
           Finish(s, r)
    PROVE  IInv'
<1> DEFINE q == [r EXCEPT !.command = NoOne, !.state = "initial"]
<1>1. EndRound(s, q, TRUE)
      BY DEF Finish
<1>2. q \in Server
      BY DEF Server
<1>3. /\ q.pc = "idle" /\ q.idle = {} /\ q.command = NoOne /\ q.haveui = r.haveui
      /\ q.control = r.control
      BY DEF Server
<1> HIDE DEF q
<1>4. ServerOK(q)
      BY <1>2, <1>3 DEF ServerOK
<1> QED BY <1>1, <1>3, <1>4, RoundStep

\* No idle function is left when the only one goes.
LEMMA DropOK ==
    ASSUME NEW r \in Server, NEW f \in r.idle
    PROVE  LET q == [r EXCEPT !.idle = @ \ {f}]
           IN  /\ q \in Server /\ q.idle = {} /\ q.pc = r.pc /\ q.haveui = r.haveui
               /\ q.control = r.control /\ q.ready = r.ready /\ q.backlog = r.backlog
<1>1. r.idle \in {{}, {"run"}, {"build"}}
      BY ServerFields
<1>2. r.idle \ {f} = {}
      BY <1>1
<1> QED BY <1>2 DEF Server

LEMMA EndSteps ==
    ASSUME IInv, NEW s \in Servers, RunStopped(s) \/ BuildEnds(s) \/ \E f \in {"run", "build"} : IdleFails(s, f)
    PROVE  IInv'
<1>1. /\ DataOK /\ ServerOK(sv[s]) /\ sv[s] \in Server
      /\ sv[s].haveui => sv[s].control # NoOne
      BY DEF IInv, DataOK, ServerOK
<1>2. sv[s].pc = "idle" /\ lost' \subseteq Servers
      BY <1>1 DEF DataOK, RunStopped, BuildEnds, IdleFails, At, MayLeaveParsers
<1>3. CASE RunStopped(s)
  <2> DEFINE p == ParserShutdown(sv[s])
  <2>1. "run" \in sv[s].idle /\ Finish(s, [p EXCEPT !.idle = @ \ {"run"}])
        BY <1>3 DEF RunStopped
  <2>2. p \in Server /\ Keeps(sv[s], p)
        BY <1>1, CookerOK
  <2> HIDE DEF p
  <2> DEFINE q == [p EXCEPT !.idle = @ \ {"run"}]
  <2>3. "run" \in p.idle /\ p.pc = "idle" /\ (p.haveui => p.control # NoOne)
        BY <1>1, <1>2, <2>1, <2>2 DEF Keeps, SameLoop
  <2>4. q \in Server /\ q.idle = {} /\ q.pc = "idle" /\ (q.haveui => q.control # NoOne)
        BY <2>2, <2>3, DropOK
  <2> HIDE DEF q
  <2> QED BY <1>2, <2>1, <2>4, FinishStep DEF q
<1>4. CASE BuildEnds(s)
  <2> DEFINE q == [sv[s] EXCEPT !.idle = @ \ {"build"}]
  <2>1. "build" \in sv[s].idle /\ Finish(s, q)
        BY <1>4 DEF BuildEnds
  <2>2. q \in Server /\ q.idle = {} /\ q.pc = "idle" /\ (q.haveui => q.control # NoOne)
        BY <1>1, <1>2, <2>1, DropOK
  <2> HIDE DEF q
  <2> QED BY <1>2, <2>1, <2>2, FinishStep
<1>5. ASSUME NEW f \in {"run", "build"}, IdleFails(s, f)
      PROVE  IInv'
  <2> DEFINE p == [sv[s] EXCEPT !.idle = @ \ {f}]
  <2> DEFINE q == [p EXCEPT !.quit = TRUE]
  <2>1. f \in sv[s].idle /\ sv' = [sv EXCEPT ![s] = q] /\ UNCHANGED <<owner, sock, cl, lost>>
        BY <1>5 DEF IdleFails
  <2>2. /\ p \in Server /\ p.idle = {} /\ p.pc = "idle" /\ (p.haveui => p.control # NoOne)
        BY <1>1, <1>2, <2>1, DropOK
  <2> HIDE DEF p
  <2>3. q \in Server
        BY <2>2 DEF Server
  <2>4. /\ q.idle = {} /\ q.pc = "idle" /\ q.quit = TRUE /\ q.haveui = p.haveui
        /\ q.control = p.control
        BY <2>2 DEF Server
  <2> HIDE DEF q
  <2>5. ServerOK(q)
        BY <2>2, <2>3, <2>4 DEF ServerOK
  <2> QED BY <1>2, <2>1, <2>4, <2>5, QuietOK
<1> QED BY <1>3, <1>4, <1>5

LEMMA ParseStep ==
    ASSUME IInv, NEW s \in Servers, Parse(s)
    PROVE  IInv'
<1>1. /\ DataOK /\ ServerOK(sv[s]) /\ sv[s] \in Server
      BY DEF IInv, DataOK
<1>2. sv[s].pc = "idle" /\ "run" \in sv[s].idle
      BY DEF Parse, At
<1>3. lost' \subseteq Servers
      BY <1>1 DEF DataOK, Parse
<1> DEFINE r == [sv[s] EXCEPT !.state = "parsing", !.parser = "live", !.baseconfig_valid = TRUE]
<1> DEFINE u == [r EXCEPT !.state = "running", !.parser = "done"]
<1> DEFINE w == [r EXCEPT !.parser = "done"]
<1>4. \/ EndRound(s, r, FALSE)
      \/ EndRound(s, u, FALSE)
      \/ Finish(s, [r EXCEPT !.parser = "done", !.idle = @ \ {"run"}])
      BY DEF Parse
<1>5. r \in Server /\ Keeps(sv[s], r)
      BY <1>1 DEF Server, Keeps, SameLoop
<1>6. [r EXCEPT !.parser = "done", !.idle = @ \ {"run"}] = [w EXCEPT !.idle = @ \ {"run"}]
      BY <1>5 DEF Server
<1> HIDE DEF r
<1>7. ServerOK(r) /\ r.pc = "idle"
      BY <1>1, <1>2, <1>5, KeepsOK DEF Keeps, SameLoop
<1>8. u \in Server /\ Keeps(r, u) /\ w \in Server /\ Keeps(r, w)
      BY <1>5 DEF Server, Keeps, SameLoop
<1> HIDE DEF u, w
<1>9. ServerOK(u) /\ u.pc = "idle" /\ ServerOK(w) /\ w.pc = "idle"
      BY <1>7, <1>8, KeepsOK DEF Keeps, SameLoop
<1>10. "run" \in w.idle
       BY <1>2, <1>5, <1>8 DEF Keeps, SameLoop
<1> DEFINE q == [w EXCEPT !.idle = @ \ {"run"}]
<1>11. q \in Server /\ q.idle = {} /\ q.pc = "idle" /\ (q.haveui => q.control # NoOne)
  <2>1. w.haveui => w.control # NoOne
        BY <1>9 DEF ServerOK
  <2> QED BY <1>8, <1>9, <1>10, <2>1, DropOK
<1> HIDE DEF q
<1>12. CASE Finish(s, q)
       BY <1>2, <1>3, <1>11, <1>12, FinishStep
<1>13. CASE EndRound(s, r, FALSE) \/ EndRound(s, u, FALSE)
       BY <1>2, <1>3, <1>7, <1>9, <1>13, RoundStep
<1> QED BY <1>4, <1>6, <1>12, <1>13 DEF q

LEMMA StartBuildStep ==
    ASSUME IInv, NEW s \in Servers, StartBuild(s)
    PROVE  IInv'
<1>1. /\ DataOK /\ ServerOK(sv[s]) /\ sv[s] \in Server
      /\ sv[s].haveui => sv[s].control # NoOne
      BY DEF IInv, DataOK, ServerOK
<1>2. sv[s].pc = "idle" /\ "run" \in sv[s].idle /\ lost' \subseteq Servers
      BY <1>1 DEF DataOK, StartBuild, At
<1> DEFINE q == [sv[s] EXCEPT !.idle = @ \ {"run"}]
<1> DEFINE r == [sv[s] EXCEPT !.idle = (@ \ {"run"}) \cup {"build"}]
<1>3. EndRound(s, r, FALSE) \/ Finish(s, q)
      BY DEF StartBuild
<1>4. CASE Finish(s, q)
  <2>1. q \in Server /\ q.idle = {} /\ q.pc = "idle" /\ (q.haveui => q.control # NoOne)
        BY <1>1, <1>2, DropOK
  <2> HIDE DEF q
  <2> QED BY <1>2, <1>4, <2>1, FinishStep
<1>5. CASE EndRound(s, r, FALSE)
  <2>1. sv[s].idle \in {{}, {"run"}, {"build"}}
        BY <1>1, ServerFields
  <2>2. r = [sv[s] EXCEPT !.idle = {"build"}]
    <3>1. (sv[s].idle \ {"run"}) \cup {"build"} = {"build"}
          BY <2>1
    <3> QED BY <3>1
  <2> HIDE DEF r
  <2>3. r \in Server
        BY <1>1, <2>2 DEF Server
  <2>4. /\ r.pc = "idle" /\ r.idle = {"build"} /\ r.command = sv[s].command
        /\ r.haveui = sv[s].haveui /\ r.control = sv[s].control
        BY <1>1, <1>2, <2>2 DEF Server
  <2>5. ServerOK(r)
        BY <1>1, <1>2, <2>3, <2>4 DEF ServerOK
  <2> QED BY <1>2, <1>5, <2>4, <2>5, RoundStep
<1> QED BY <1>3, <1>4, <1>5

LEMMA IdleSteps ==
    ASSUME IInv, NEW s \in Servers, IdleRound(s) \/ BuildGoesOn(s)
    PROVE  IInv'
<1>1. /\ DataOK /\ ServerOK(sv[s]) /\ sv[s] \in Server
      BY DEF IInv, DataOK, ServerOK
<1>2. sv[s].pc = "idle" /\ lost' = lost /\ lost' \subseteq Servers
      BY <1>1 DEF DataOK, IdleRound, BuildGoesOn, At
<1>3. CASE EndRound(s, sv[s], FALSE)
      BY <1>1, <1>2, <1>3, RoundStep
<1>4. CASE /\ sv' = [sv EXCEPT ![s].ready = Readable(sv[s]), ![s].pc = "accept"]
           /\ UNCHANGED <<owner, sock, cl>>
  <2> DEFINE q == [sv[s] EXCEPT !.ready = Readable(sv[s]), !.pc = "accept"]
  <2>1. sv' = [sv EXCEPT ![s] = q]
        BY <1>4
  <2>2. ServerOK(q)
        BY <1>1, <1>2, Places, RoundOK
  <2>3. q.pc = "accept"
        BY <1>1 DEF Server
  <2> HIDE DEF q
  <2> QED BY <1>2, <1>4, <2>1, <2>2, <2>3, Places, QuietOK
<1> QED BY <1>3, <1>4 DEF IdleRound, BuildGoesOn

\* The server begins its rounds, gives up, or leaves them.
LEMMA TurnSteps ==
    ASSUME IInv, NEW s \in Servers, ServerStarts(s) \/ TimesOut(s) \/ Quits(s)
    PROVE  IInv'
<1>1. /\ ServerOK(sv[s]) /\ sv[s] \in Server
      BY DEF IInv, DataOK
<1>2. UNCHANGED <<owner, sock, cl, lost>>
      BY DEF ServerStarts, TimesOut, Quits
<1>3. CASE ServerStarts(s)
  <2> DEFINE r == [sv[s] EXCEPT !.pc = "accept"]
  <2>1. sv[s].pc = "init" /\ sv' = [sv EXCEPT ![s] = r]
        BY <1>3 DEF ServerStarts
  <2>2. r \in Server
        BY <1>1 DEF Server, ServerPCs, Rounds
  <2>3. /\ r.pc = "accept" /\ r.ready = sv[s].ready /\ r.command = sv[s].command
        /\ r.idle = sv[s].idle /\ r.haveui = sv[s].haveui /\ r.control = sv[s].control
        BY <1>1 DEF Server
  <2> HIDE DEF r
  <2>4. ServerOK(r)
        BY <1>1, <2>1, <2>2, <2>3 DEF ServerOK
  <2> QED BY <1>2, <2>1, <2>3, <2>4, QuietOK DEF Serving, Holding, Rounds
<1>4. CASE TimesOut(s)
  <2> DEFINE r == [sv[s] EXCEPT !.quit = TRUE]
  <2>1. sv' = [sv EXCEPT ![s] = r]
        BY <1>4 DEF TimesOut
  <2>2. ServerOK(r) /\ r.pc = sv[s].pc
        BY <1>1, QuitOK
  <2> HIDE DEF r
  <2> QED BY <1>2, <2>1, <2>2, QuietOK
<1>5. CASE Quits(s)
  <2> DEFINE r == [sv[s] EXCEPT !.pc = "unlink"]
  <2>1. sv[s].pc \in Rounds /\ sv' = [sv EXCEPT ![s] = r]
        BY <1>5 DEF Quits
  <2>2. r \in Server
        BY <1>1 DEF Server, ServerPCs
  <2>3. /\ r.pc = "unlink" /\ r.command = sv[s].command
        /\ r.idle = sv[s].idle /\ r.haveui = sv[s].haveui /\ r.control = sv[s].control
        BY <1>1 DEF Server
  <2> HIDE DEF r
  <2>4. ServerOK(r)
        BY <1>1, <2>2, <2>3, Places DEF ServerOK
  <2> QED BY <1>2, <2>1, <2>3, <2>4, QuietOK, Places
<1> QED BY <1>3, <1>4, <1>5

\* A server that has the lock gives it back.
LEMMA FreeOK ==
    ASSUME IInv, NEW s \in Servers, owner = s, owner' = NoOne,
           sock' \in {sock, NoOne}, lost' \subseteq Servers,
           cl' \in [Clients -> Client], \A c \in Clients : ClientOK(cl'[c]),
           \A c \in Clients : cl'[c].pc = cl[c].pc,
           sv' \in [Servers -> Server], \A t \in Servers : ServerOK(sv'[t]),
           sv'[s].pc \notin Holding, \A t \in Servers \ {s} : sv'[t] = sv[t]
    PROVE  IInv'
<1>1. DataOK'
      BY DEF IInv, DataOK
<1>2. \A t \in Servers \ {s} : sv[t].pc \notin Holding
      BY DEF IInv, LockOK
<1>3. \A t \in Servers : sv'[t].pc \notin Holding
      BY <1>2
<1>4. \A t \in Servers : sv'[t].pc \notin Serving
      BY <1>3, Places
<1>5. \A c \in Clients : cl'[c].pc \notin {"start", "unlock"}
      BY Names DEF IInv, LockOK
<1>6. LockOK'
      BY <1>3, <1>4, <1>5 DEF LockOK
<1> QED BY <1>1, <1>6 DEF IInv

\* The clients of a server that has ended see it.
LEMMA EofOK ==
    ASSUME DataOK, NEW S,
           cl' = [c \in Clients |-> IF c \in S THEN [cl[c] EXCEPT !.eof = TRUE] ELSE cl[c]]
    PROVE  /\ cl' \in [Clients -> Client] /\ \A c \in Clients : ClientOK(cl'[c])
           /\ \A c \in Clients : cl'[c].pc = cl[c].pc
<1>1. ASSUME NEW c \in Clients
      PROVE  ClientOK(cl'[c]) /\ cl'[c] \in Client /\ cl'[c].pc = cl[c].pc
  <2> DEFINE x == [cl[c] EXCEPT !.eof = TRUE]
  <2>1. cl[c] \in Client /\ ClientOK(cl[c])
        BY DEF DataOK
  <2>2. x \in Client
        BY <2>1 DEF Client
  <2>3. x.pc = cl[c].pc /\ x.server = cl[c].server /\ x.stops = cl[c].stops
        BY <2>1 DEF Client
  <2>4. cl'[c] = x \/ cl'[c] = cl[c]
        OBVIOUS
  <2> HIDE DEF x
  <2>5. ClientOK(x)
        BY <2>1, <2>2, <2>3 DEF ClientOK
  <2> QED BY <2>1, <2>2, <2>3, <2>4, <2>5
<1>2. cl' \in [Clients -> Client]
      BY <1>1
<1> QED BY <1>1, <1>2

LEMMA EndedOK ==
    ASSUME DataOK, NEW s \in Servers, Ended(s)
    PROVE  /\ cl' \in [Clients -> Client] /\ \A c \in Clients : ClientOK(cl'[c])
           /\ \A c \in Clients : cl'[c].pc = cl[c].pc
           /\ sv' \in [Servers -> Server] /\ \A t \in Servers : ServerOK(sv'[t])
           /\ sv'[s].pc = "off" /\ \A t \in Servers \ {s} : sv'[t] = sv[t]
           /\ lost' \subseteq Servers
<1> DEFINE r == [Fresh EXCEPT !.pc = "off"]
<1>1. sv' = [sv EXCEPT ![s] = r]
      BY DEF Ended
<1>2. ServerOK(r) /\ r.pc = "off"
  <2>1. r.pc = "off"
        BY DEF Fresh
  <2> QED BY <2>1, FreshOK
<1> HIDE DEF r
<1>3. /\ sv' \in [Servers -> Server] /\ \A t \in Servers : ServerOK(sv'[t])
      /\ sv'[s] = r /\ \A t \in Servers \ {s} : sv'[t] = sv[t]
      BY <1>1, <1>2, OneRecord
<1>4. lost' \subseteq Servers
      BY DEF Ended, DataOK
<1> DEFINE S == {c \in Clients : cl[c].server = s /\ cl[c].pc \in Connected}
<1>5. cl' = [c \in Clients |-> IF c \in S THEN [cl[c] EXCEPT !.eof = TRUE] ELSE cl[c]]
      BY DEF Ended
<1> HIDE DEF S
<1>6. /\ cl' \in [Clients -> Client] /\ \A c \in Clients : ClientOK(cl'[c])
      /\ \A c \in Clients : cl'[c].pc = cl[c].pc
      BY <1>5, EofOK
<1> QED BY <1>2, <1>3, <1>4, <1>6

LEMMA DeathSteps ==
    ASSUME IInv, NEW s \in Servers, ServerFails(s) \/ ServerDies(s) \/ Relock(s)
    PROVE  IInv'
<1>1. DataOK /\ LockOK /\ Ended(s) /\ sock' = sock
      BY DEF IInv, ServerFails, ServerDies, Relock
<1>2. /\ cl' \in [Clients -> Client] /\ \A c \in Clients : ClientOK(cl'[c])
      /\ \A c \in Clients : cl'[c].pc = cl[c].pc
      /\ sv' \in [Servers -> Server] /\ \A t \in Servers : ServerOK(sv'[t])
      /\ sv'[s].pc = "off" /\ \A t \in Servers \ {s} : sv'[t] = sv[t]
      /\ lost' \subseteq Servers
      BY <1>1, EndedOK
<1>3. "off" \notin Holding /\ "off" \notin Serving
      BY DEF Holding, Serving, Rounds
<1>4. CASE owner = s /\ owner' = NoOne
      BY <1>1, <1>2, <1>3, <1>4, FreeOK
<1>5. CASE owner' = owner
  <2>1. /\ \A t \in Servers : sv'[t].pc \in Serving => sv[t].pc \in Serving
        /\ \A t \in Servers : sv'[t].pc \in Holding => sv[t].pc \in Holding
        BY <1>2, <1>3
  <2> QED BY <1>1, <1>2, <1>5, <2>1, Framed
<1>6. ServerFails(s) => owner = s /\ owner' = NoOne
      BY <1>1 DEF ServerFails, LockOK, Holding
<1> QED BY <1>4, <1>5, <1>6 DEF ServerDies, Relock

LEMMA UnlinkStep ==
    ASSUME IInv, NEW s \in Servers, UnlinkSocket(s)
    PROVE  IInv'
<1>1. DataOK /\ LockOK /\ sv[s] \in Server /\ ServerOK(sv[s])
      BY DEF IInv, DataOK
<1>2. sv[s].pc = "unlink" /\ sock' = NoOne /\ UNCHANGED <<owner, lost>>
      BY DEF UnlinkSocket, CloseSocket
<1>3. owner = s
      BY <1>1, <1>2 DEF LockOK, Holding
<1> DEFINE r == [sv[s] EXCEPT !.pc = "shutdown", !.backlog = <<>>]
<1>4. sv' = [sv EXCEPT ![s] = r]
      BY DEF UnlinkSocket, CloseSocket
<1>5. <<>> \in Seq(Peers)
      OBVIOUS
<1>6. r \in Server
      BY <1>1, <1>5 DEF Server, ServerPCs
<1>7. /\ r.pc = "shutdown" /\ r.command = sv[s].command /\ r.idle = sv[s].idle
      /\ r.haveui = sv[s].haveui /\ r.control = sv[s].control
      BY <1>1 DEF Server
<1> HIDE DEF r
<1>8. ServerOK(r)
      BY <1>1, <1>6, <1>7, Places DEF ServerOK
<1>9. /\ sv' \in [Servers -> Server] /\ \A t \in Servers : ServerOK(sv'[t])
      /\ sv'[s] = r /\ \A t \in Servers \ {s} : sv'[t] = sv[t]
      BY <1>1, <1>4, <1>8, OneRecord
<1> DEFINE S == {c \in Clients : \E i \in DOMAIN sv[s].backlog : sv[s].backlog[i] = c}
<1>10. cl' = [c \in Clients |-> IF c \in S THEN [cl[c] EXCEPT !.eof = TRUE] ELSE cl[c]]
       BY DEF UnlinkSocket, CloseSocket
<1> HIDE DEF S
<1>11. /\ cl' \in [Clients -> Client] /\ \A c \in Clients : ClientOK(cl'[c])
       /\ \A c \in Clients : cl'[c].pc = cl[c].pc
       BY <1>1, <1>10, EofOK
<1>12. DataOK'
       BY <1>1, <1>2, <1>9, <1>11 DEF DataOK
<1>13. \A t \in Servers \ {s} : sv[t].pc \notin Holding /\ sv[t].pc \notin Serving
       BY <1>1, <1>3, Places DEF LockOK
<1>14. "shutdown" \notin Serving
       BY DEF Serving, Rounds
<1>15. LockOK'
       BY <1>1, <1>2, <1>3, <1>7, <1>9, <1>11, <1>13, <1>14 DEF LockOK
<1> QED BY <1>12, <1>15 DEF IInv

LEMMA ShutdownStep ==
    ASSUME IInv, NEW s \in Servers, CookerShutdown(s)
    PROVE  IInv'
<1>1. DataOK /\ sv[s] \in Server /\ ServerOK(sv[s])
      BY DEF IInv, DataOK
<1> DEFINE p == ParserShutdown(sv[s])
<1> DEFINE r == [p EXCEPT !.pc = "close"]
<1>2. /\ sv[s].pc = "shutdown" /\ sv' = [sv EXCEPT ![s] = r] /\ UNCHANGED <<owner, sock>>
      /\ lost' \subseteq Servers
      /\ (cl' = cl \/ Tell(sv[s].control))
      BY <1>1 DEF DataOK, CookerShutdown, MayLeaveParsers
<1>3. p \in Server /\ Keeps(sv[s], p)
      BY <1>1, CookerOK
<1> HIDE DEF p
<1>4. ServerOK(p)
      BY <1>1, <1>3, KeepsOK
<1>5. r \in Server
      BY <1>3 DEF Server, ServerPCs
<1>6. /\ r.pc = "close" /\ r.command = p.command /\ r.idle = p.idle
      /\ r.haveui = p.haveui /\ r.control = p.control
      BY <1>3 DEF Server
<1> HIDE DEF r
<1>7. ServerOK(r)
      BY <1>4, <1>5, <1>6, Places DEF ServerOK
<1>8. /\ cl' \in [Clients -> Client] /\ \A c \in Clients : ClientOK(cl'[c])
      /\ \A c \in Clients : cl'[c].pc = cl[c].pc
      BY <1>1, <1>2, TellOK DEF DataOK
<1> QED BY <1>2, <1>6, <1>7, <1>8, RecordOK DEF Holding, Serving, Rounds

LEMMA CloseLockStep ==
    ASSUME IInv, NEW s \in Servers, CloseLock(s)
    PROVE  IInv'
<1>1. DataOK /\ LockOK
      BY DEF IInv
<1> DEFINE r == [Fresh EXCEPT !.pc = "relock"]
<1>2. /\ sv[s].pc = "close" /\ owner' = NoOne /\ sv' = [sv EXCEPT ![s] = r]
      /\ UNCHANGED <<sock, cl, lost>>
      BY DEF CloseLock
<1>3. owner = s
      BY <1>1, <1>2 DEF LockOK, Holding
<1>4. r.pc = "relock"
      BY DEF Fresh
<1>5. ServerOK(r)
      BY FreshOK
<1> HIDE DEF r
<1>6. /\ sv' \in [Servers -> Server] /\ \A t \in Servers : ServerOK(sv'[t])
      /\ sv'[s] = r /\ \A t \in Servers \ {s} : sv'[t] = sv[t]
      BY <1>1, <1>2, <1>5, OneRecord
<1>7. sv'[s].pc \notin Holding
      BY <1>4, <1>6 DEF Holding, Rounds
<1>8. /\ cl' \in [Clients -> Client] /\ \A c \in Clients : ClientOK(cl'[c])
      /\ \A c \in Clients : cl'[c].pc = cl[c].pc
      /\ lost' \subseteq Servers
      BY <1>1, <1>2 DEF DataOK
<1> QED BY <1>2, <1>3, <1>6, <1>7, <1>8, FreeOK

LEMMA LostStep ==
    ASSUME IInv, NEW s \in Servers, LostEnd(s)
    PROVE  IInv'
<1>1. lost' \subseteq Servers /\ UNCHANGED <<owner, sock, cl, sv>>
      BY DEF IInv, DataOK, LostEnd
<1> QED BY <1>1 DEF IInv, DataOK, LockOK

LEMMA ServerStep ==
    ASSUME IInv, NEW s \in Servers,
           \/ ServerSteps(s) \/ ServerFails(s) \/ ServerDies(s) \/ TimesOut(s) \/ LostEnd(s)
           \/ \E f \in {"run", "build"} : IdleFails(s, f)
    PROVE  IInv'
<1>1. CASE ServerStarts(s) \/ TimesOut(s) \/ Quits(s)
      BY <1>1, TurnSteps
<1>2. CASE Accept(s)
      BY <1>2, AcceptStep
<1>3. CASE Control(s)
      BY <1>3, ControlStep
<1>4. CASE NoCommand(s) \/ HandleCommand(s) \/ CommandEOF(s)
      BY <1>4, CommandSteps
<1>5. CASE IdleRound(s) \/ BuildGoesOn(s)
      BY <1>5, IdleSteps
<1>6. CASE RunStopped(s) \/ BuildEnds(s) \/ \E f \in {"run", "build"} : IdleFails(s, f)
      BY <1>6, EndSteps
<1>7. CASE Parse(s)
      BY <1>7, ParseStep
<1>8. CASE StartBuild(s)
      BY <1>8, StartBuildStep
<1>9. CASE UnlinkSocket(s)
      BY <1>9, UnlinkStep
<1>10. CASE CookerShutdown(s)
       BY <1>10, ShutdownStep
<1>11. CASE CloseLock(s)
       BY <1>11, CloseLockStep
<1>12. CASE ServerFails(s) \/ ServerDies(s) \/ Relock(s)
       BY <1>12, DeathSteps
<1>13. CASE LostEnd(s)
       BY <1>13, LostStep
<1> QED BY <1>1, <1>2, <1>3, <1>4, <1>5, <1>6, <1>7, <1>8, <1>9, <1>10, <1>11, <1>12, <1>13
        DEF ServerSteps

LEMMA StepIInv == IInv /\ [Next]_vars => IInv'
<1> SUFFICES ASSUME IInv, [Next]_vars PROVE IInv'
    OBVIOUS
<1>1. CASE UNCHANGED vars
      BY <1>1 DEF vars, IInv, DataOK, LockOK
<1>2. ASSUME NEW c \in Clients,
             ClientSteps(c) \/ NotReady(c) \/ NoReply(c) \/ Interrupt(c) \/ ClientDies(c)
      PROVE  IInv'
      BY <1>2, ClientStep
<1>3. ASSUME NEW s \in Servers,
             \/ ServerSteps(s) \/ ServerFails(s) \/ ServerDies(s) \/ TimesOut(s) \/ LostEnd(s)
             \/ \E f \in {"run", "build"} : IdleFails(s, f)
      PROVE  IInv'
      BY <1>3, ServerStep
<1> QED BY <1>1, <1>2, <1>3 DEF Next, Done

LEMMA Invariance == Spec => []IInv
<1> QED BY InitIInv, StepIInv, PTL DEF Spec

-----------------------------------------------------------------------------
(* Theorems *)

\* However clients and servers start, end and are killed, one server at a time serves, has
\* bitbake.lock and the socket at the path.
THEOREM ServerSafetyTheorem == Spec => []ServerSafety
<1>1. IInv => ServerSafety
      BY Implied DEF ServerSafety
<1> QED BY <1>1, Invariance, PTL

\* A command that was accepted has one idle function until its end, whichever clients leave or
\* come meanwhile, and there is no idle function without a command.
THEOREM CommandKeptTheorem == Spec => []CommandKept
<1>1. IInv => CommandKept
      BY Implied
<1> QED BY <1>1, Invariance, PTL

-----------------------------------------------------------------------------
(* What a client and its server know of each other *)

\* Client c waits to be the one that is served.
Waiting(r, c) == \/ \E i \in DOMAIN r.backlog : r.backlog[i] = c
                 \/ \E i \in DOMAIN r.queue : r.queue[i] = c

\* The command x is waiting to hear of.
Asked(x) ==
    CASE x.pc = "reply" -> "setFeatures"
      [] x.pc = "setup" -> "updateConfig"
      [] x.pc = "sent"  -> "buildTargets"
      [] OTHER -> IF x.stops = 1 THEN "stateShutdown" ELSE "stateForceShutdown"

Unheard(x) == x.pc = "closing" \/ (x.pc = "reply" /\ x.reply = "none")

\* The server has answered x.
Talks(x) == x.pc \in {"setup", "sent", "wait", "stopping"} \/ (x.pc = "reply" /\ x.reply # "none")

\* x has its reply to stateShutdown.
Told(x) == x.stops = 1 /\ (x.pc = "wait" \/ (x.pc = "stopping" /\ x.reply # "none"))

\* The part of a round in which the server acts upon what it found.
Acting(r) == r.pc \in {"accept", "control", "command"} /\ "command" \in r.ready

Placed(r, s, x, c) ==
    c \in {r.control, r.command} \/ Waiting(r, c) => x.pc \in Connected /\ x.server = s

Queued(r, x, c) ==
    /\ Waiting(r, c) /\ r.control # c => Unheard(x)
    /\ r.control = c /\ ~r.haveui => Unheard(x)
    /\ r.pc \in {"off", "relock"} => r.control # c

Spoken(r, x, c) ==
    r.control = c /\ r.haveui =>
        /\ x.pc \in {"reply", "setup", "sent", "stopping"} =>
              r.pipe = IF x.reply = "none" THEN <<Asked(x)>> ELSE <<>>
        /\ x.pc = "wait" => r.pipe = <<>>
        /\ x.pc = "closing" => r.pipe \in {<<>>, <<"setFeatures">>}
        /\ x.pc = "leaving" => r.pipe \in {<<>>, <<"terminateServer">>}
        /\ Acting(r) => r.pipe # <<>> \/ x.pc = "closing"

Working(r, x, c) ==
    r.command = c => /\ r.control = c /\ r.haveui
                     /\ x.pc \in {"sent", "wait", "stopping"}
                     /\ x.pc = "sent" => x.reply = "ok"

Served(r, s, x, c) ==
    r.pc # "relock" /\ x.server = s /\ ~x.eof /\ Talks(x) => r.control = c /\ r.haveui

Stopped(r, x, c) == Told(x) /\ r.command = c /\ "run" \in r.idle => Stopping(r)

Pair(r, s, x, c) ==
    /\ Placed(r, s, x, c) /\ Queued(r, x, c) /\ Spoken(r, x, c)
    /\ Working(r, x, c) /\ Served(r, s, x, c) /\ Stopped(r, x, c)

\* Before it is connected a client has no reply, and before it waits it stops nothing.
Calm(x) == /\ x.pc \notin Connected => x.reply = "none"
           /\ x.pc \notin {"wait", "stopping"} => x.stops = 0

PInv ==
    /\ \A c \in Clients : Calm(cl[c])
    /\ \A s \in Servers, c \in Clients : Pair(sv[s], s, cl[c], c)

SInv == IInv /\ PInv

\* A server goes on, and nothing changes between it and c.
LEMMA PairSame ==
    ASSUME NEW r, NEW q, NEW s, NEW x, NEW c, Pair(r, s, x, c),
           q.control = c <=> r.control = c,
           q.control = c => q.haveui = r.haveui /\ q.pipe = r.pipe,
           q.command = c => r.command = c,
           q.command = c /\ "run" \in q.idle => "run" \in r.idle /\ (Stopping(r) => Stopping(q)),
           Waiting(q, c) => Waiting(r, c),
           q.pc \in {"off", "relock"} <=> r.pc \in {"off", "relock"},
           q.pc = "relock" <=> r.pc = "relock",
           Acting(q) => \/ Acting(r)
                        \/ q.haveui /\ q.control = c => q.pipe # <<>> \/ x.pc = "closing"
    PROVE  Pair(q, s, x, c)
<1>1. Placed(q, s, x, c) /\ Queued(q, x, c)
  BY DEF Pair, Placed, Queued
<1>2. Spoken(q, x, c)
  BY DEF Pair, Spoken
<1>3. Working(q, x, c) /\ Served(q, s, x, c) /\ Stopped(q, x, c)
  BY DEF Pair, Working, Served, Stopped
<1> QED BY <1>1, <1>2, <1>3 DEF Pair

\* c is told of an end, or sees that its connection has ended.
Flagged(x, y) == /\ y.pc = x.pc /\ y.server = x.server /\ y.reply = x.reply /\ y.stops = x.stops
                 /\ x.eof => y.eof

LEMMA PairFlagged ==
    ASSUME NEW r, NEW s, NEW x, NEW y, NEW c, Pair(r, s, x, c), Flagged(x, y)
    PROVE  Pair(r, s, y, c)
<1>1. /\ Unheard(x) = Unheard(y) /\ Talks(x) = Talks(y) /\ Told(x) = Told(y)
      /\ Asked(x) = Asked(y)
  BY DEF Flagged, Unheard, Talks, Told, Asked
<1>2. Placed(r, s, y, c) /\ Queued(r, y, c) /\ Working(r, y, c) /\ Served(r, s, y, c)
      /\ Stopped(r, y, c)
  BY <1>1 DEF Pair, Flagged, Placed, Queued, Working, Served, Stopped
<1>3. Spoken(r, y, c)
  BY <1>1 DEF Pair, Flagged, Spoken
<1> QED BY <1>2, <1>3 DEF Pair

\* c is unknown to the server.
Unknown(r, c) == c \notin {r.control, r.command} /\ ~Waiting(r, c)

LEMMA PairUnknown ==
    ASSUME NEW r, NEW s, NEW y, NEW c, Unknown(r, c),
           r.pc = "relock" \/ y.server # s \/ y.eof \/ ~Talks(y)
    PROVE  Pair(r, s, y, c)
BY DEF Pair, Unknown, Placed, Queued, Spoken, Working, Served, Stopped

LEMMA NotPlaced ==
    ASSUME NEW r, NEW s, NEW x, NEW c, Pair(r, s, x, c), x.pc \notin Connected \/ x.server # s
    PROVE  Unknown(r, c)
BY DEF Pair, Placed, Unknown

\* One server makes a step.
LEMMA ServerMoves ==
    ASSUME SInv, NEW s \in Servers, \A t \in Servers \ {s} : sv'[t] = sv[t],
           \A c \in Clients : Flagged(cl[c], cl'[c]),
           \A c \in Clients : Pair(sv'[s], s, cl'[c], c)
    PROVE  PInv'
<1>1. ASSUME NEW c \in Clients
      PROVE  Calm(cl'[c])
  BY DEF SInv, PInv, Flagged, Calm
<1>2. ASSUME NEW t \in Servers, NEW c \in Clients
      PROVE  Pair(sv'[t], t, cl'[c], c)
  <2>1. Pair(sv[t], t, cl[c], c)
    BY DEF SInv, PInv
  <2>2. Pair(sv[t], t, cl'[c], c)
    BY <2>1, PairFlagged
  <2> QED BY <2>2
<1> QED BY <1>1, <1>2 DEF PInv

\* One client makes a step.
LEMMA ClientMoves ==
    ASSUME SInv, NEW c \in Clients, \A d \in Clients \ {c} : cl'[d] = cl[d],
           Calm(cl'[c]),
           \A s \in Servers, d \in Clients \ {c} : Pair(sv'[s], s, cl[d], d),
           \A s \in Servers : Pair(sv'[s], s, cl'[c], c)
    PROVE  PInv'
<1>1. ASSUME NEW s \in Servers, NEW d \in Clients
      PROVE  Pair(sv'[s], s, cl'[d], d)
  OBVIOUS
<1>2. ASSUME NEW d \in Clients
      PROVE  Calm(cl'[d])
  BY DEF SInv, PInv
<1> QED BY <1>1, <1>2 DEF PInv

LEMMA PInvOf ==
    ASSUME SInv, NEW s \in Servers, NEW c \in Clients
    PROVE  /\ Pair(sv[s], s, cl[c], c) /\ c # NoOne /\ c # Gone
           /\ sv[s] \in Server /\ cl[c] \in Client /\ Calm(cl[c])
           /\ ClientOK(cl[c]) /\ ServerOK(sv[s])
BY Names DEF SInv, PInv, IInv, DataOK

-----------------------------------------------------------------------------
(* The steps of a client, and what its server knows of it *)

LEMMA DepartedPair ==
    ASSUME NEW r \in Server, NEW c \in Clients
    PROVE  LET q == Departed(r, c)
           IN  /\ q.control = (IF r.control = c THEN Gone ELSE r.control)
               /\ q.command = (IF r.command = c THEN Gone ELSE r.command)
               /\ q.pc = r.pc /\ q.haveui = r.haveui /\ q.pipe = r.pipe /\ q.ready = r.ready
               /\ q.idle = r.idle /\ q.state = r.state
               /\ \A d \in Clients : Waiting(q, d) => Waiting(r, d) /\ d # c
<1> DEFINE b == [i \in DOMAIN r.backlog |-> IF r.backlog[i] = c THEN Gone ELSE r.backlog[i]]
           k == [i \in DOMAIN r.queue |-> IF r.queue[i] = c THEN Gone ELSE r.queue[i]]
           x == IF r.control = c THEN Gone ELSE r.control
           y == IF r.command = c THEN Gone ELSE r.command
           q == Departed(r, c)
<1>1. q = [r EXCEPT !.backlog = b, !.queue = k, !.control = x, !.command = y]
  BY DEF Departed
<1>2. /\ q.control = x /\ q.command = y /\ q.pc = r.pc /\ q.haveui = r.haveui
      /\ q.pipe = r.pipe /\ q.ready = r.ready /\ q.idle = r.idle /\ q.state = r.state
      /\ q.backlog = b /\ q.queue = k
  <2> HIDE DEF b, k, x, y, q
  <2> QED BY <1>1 DEF Server
<1>3. ASSUME NEW d \in Clients, Waiting(q, d)
      PROVE  Waiting(r, d) /\ d # c
  <2> HIDE DEF q
  <2>1. \/ \E i \in DOMAIN b : b[i] = d
        \/ \E i \in DOMAIN k : k[i] = d
    BY <1>2, <1>3 DEF Waiting
  <2>2. d # Gone
    BY Names
  <2> QED BY <2>1, <2>2 DEF Waiting
<1> HIDE DEF q
<1> QED BY <1>2, <1>3 DEF q

\* A client that goes is no longer known to any server.
LEMMA ClosePair ==
    ASSUME SInv, NEW c \in Clients, NEW l \in {"out", "try"}, NEW t, Close(c, l, t)
    PROVE  PInv'
<1> DEFINE y == [NewClient EXCEPT !.kills = cl[c].kills, !.pc = l, !.tries = t]
<1>1. /\ cl' = [cl EXCEPT ![c] = y] /\ y.pc = l /\ y.reply = "none" /\ y.stops = 0
  BY DEF Close, NewClient
<1> HIDE DEF y
<1>2. /\ cl'[c] = y /\ \A d \in Clients \ {c} : cl'[d] = cl[d]
  BY <1>1 DEF SInv, IInv, DataOK
<1>3. Calm(y) /\ ~Talks(y)
  BY <1>1 DEF Calm, Talks
<1>4. ASSUME NEW s \in Servers
      PROVE  (sv'[s] = sv[s] /\ Unknown(sv[s], c)) \/ sv'[s] = Departed(sv[s], c)
  <2>1. CASE cl[c].pc \in Connected /\ cl[c].server = s
    BY <2>1 DEF Close, SInv, IInv, DataOK
  <2>2. CASE ~(cl[c].pc \in Connected /\ cl[c].server = s)
    <3>1. Unknown(sv[s], c)
      BY <2>2, PInvOf, NotPlaced
    <3>2. sv'[s] = sv[s]
      BY <2>2 DEF Close, SInv, IInv, DataOK
    <3> QED BY <3>1, <3>2
  <2> QED BY <2>1, <2>2
<1>5. ASSUME NEW s \in Servers, NEW d \in Clients \ {c}
      PROVE  Pair(sv'[s], s, cl[d], d)
  <2>1. Pair(sv[s], s, cl[d], d)
    BY PInvOf
  <2>2. CASE sv'[s] = Departed(sv[s], c)
    <3> DEFINE q == Departed(sv[s], c)
               r == sv[s]
    <3>1. /\ q.control = (IF r.control = c THEN Gone ELSE r.control)
          /\ q.command = (IF r.command = c THEN Gone ELSE r.command)
          /\ q.pc = r.pc /\ q.haveui = r.haveui /\ q.pipe = r.pipe /\ q.ready = r.ready
          /\ q.idle = r.idle /\ q.state = r.state
          /\ Waiting(q, d) => Waiting(r, d)
      BY PInvOf, DepartedPair
    <3> HIDE DEF q, r
    <3>2. d # Gone
      BY Names
    <3>3. Pair(r, s, cl[d], d)
      BY <2>1 DEF r
    <3>4. Pair(q, s, cl[d], d)
      BY <3>1, <3>2, <3>3, PairSame DEF Acting, Stopping
    <3> QED BY <2>2, <3>4 DEF q
  <2> QED BY <1>4, <2>1, <2>2
<1>6. ASSUME NEW s \in Servers
      PROVE  Pair(sv'[s], s, y, c)
  <2>1. Unknown(sv'[s], c)
    <3>1. CASE sv'[s] = Departed(sv[s], c)
      <4> DEFINE q == Departed(sv[s], c)
      <4>1. q.control # c /\ q.command # c /\ ~Waiting(q, c)
        BY PInvOf, DepartedPair
      <4> QED BY <3>1, <4>1 DEF Unknown
    <3> QED BY <1>4, <3>1
  <2> QED BY <1>3, <2>1, PairUnknown
<1> QED BY <1>2, <1>3, <1>5, <1>6, ClientMoves

\* The same, where an attempt fails or the UI ends.
LEMMA LeavePair ==
    ASSUME SInv, NEW c \in Clients, Leave(c) \/ Retry(c)
    PROVE  PInv'
BY ClosePair DEF Leave, Retry

\* A client that is not connected.
LEMMA AwayPair ==
    ASSUME SInv, NEW c \in Clients, NEW l, l \notin Connected, Goto(c, l), sv' = sv,
           cl[c].pc \notin Connected
    PROVE  PInv'
<1> DEFINE y == [cl[c] EXCEPT !.pc = l]
<1>1. cl[c] \in Client /\ Calm(cl[c]) /\ cl \in [Clients -> Client]
  BY DEF SInv, PInv, IInv, DataOK
<1>2. y.pc = l /\ y.reply = cl[c].reply /\ y.stops = cl[c].stops
  BY <1>1 DEF Client
<1>3. cl'[c] = y /\ \A d \in Clients \ {c} : cl'[d] = cl[d]
  BY <1>1 DEF Goto
<1> HIDE DEF y
<1>4. Calm(y) /\ ~Talks(y)
  BY <1>1, <1>2 DEF Calm, Talks, Connected
<1>5. ASSUME NEW s \in Servers
      PROVE  Pair(sv'[s], s, y, c)
  <2>1. Unknown(sv'[s], c)
    BY PInvOf, NotPlaced
  <2> QED BY <1>4, <2>1, PairUnknown
<1>6. ASSUME NEW s \in Servers, NEW d \in Clients \ {c}
      PROVE  Pair(sv'[s], s, cl[d], d)
  BY PInvOf
<1> QED BY <1>3, <1>4, <1>5, <1>6, ClientMoves

\* c starts a server.
LEMMA StartPair ==
    ASSUME SInv, NEW c \in Clients, StartServer(c)
    PROVE  PInv'
<1> DEFINE n == NewProcess
           y == [cl[c] EXCEPT !.pc = "ready", !.server = n]
<1>1. n \in Servers /\ sv[n].pc = "off"
  BY DEF StartServer, NewProcess
<1>2. cl[c] \in Client /\ Calm(cl[c]) /\ cl \in [Clients -> Client] /\ cl[c].pc = "start"
      /\ sv \in [Servers -> Server]
  BY DEF SInv, PInv, IInv, DataOK, StartServer
<1> HIDE DEF n
<1>3. y.pc = "ready" /\ y.reply = cl[c].reply /\ y.stops = cl[c].stops
  BY <1>2 DEF Client
<1>4. /\ cl'[c] = y /\ \A d \in Clients \ {c} : cl'[d] = cl[d]
      /\ sv'[n] = Fresh /\ \A s \in Servers \ {n} : sv'[s] = sv[s]
  <2>1. cl' = [cl EXCEPT ![c] = y] /\ sv' = [sv EXCEPT ![n] = Fresh]
    BY DEF StartServer, n
  <2> HIDE DEF y
  <2> QED BY <1>1, <1>2, <2>1
<1> HIDE DEF y
<1>5. Calm(y) /\ ~Talks(y)
  BY <1>2, <1>3 DEF Calm, Talks, Connected
<1>6. ASSUME NEW d \in Clients
      PROVE  Unknown(Fresh, d)
  BY Names DEF Unknown, Fresh, Waiting
<1>7. ASSUME NEW s \in Servers
      PROVE  Pair(sv'[s], s, y, c)
  <2>1. Unknown(sv[s], c)
    BY <1>2, PInvOf, NotPlaced DEF Connected
  <2> QED BY <1>4, <1>5, <1>6, <2>1, PairUnknown
<1>8. ASSUME NEW s \in Servers, NEW d \in Clients \ {c}
      PROVE  Pair(sv'[s], s, cl[d], d)
  <2>1. Pair(sv[s], s, cl[d], d)
    BY PInvOf
  <2>2. CASE s = n
    <3>1. cl[d].server # s \/ cl[d].eof \/ ~Talks(cl[d])
      BY <1>1, <2>1, <2>2 DEF Pair, Served, Queued
    <3> QED BY <1>4, <1>6, <2>2, <3>1, PairUnknown
  <2> QED BY <1>4, <2>1, <2>2
<1> QED BY <1>4, <1>5, <1>7, <1>8, ClientMoves

\* c connects to the socket.
LEMMA ConnectPair ==
    ASSUME SInv, NEW c \in Clients, Connect(c)
    PROVE  PInv'
<1>1. CASE Retry(c)
  BY <1>1, LeavePair
<1>2. CASE ~Retry(c)
  <2> DEFINE s0 == sock
             y == [cl[c] EXCEPT !.pc = "reply", !.server = s0]
             q == [sv[s0] EXCEPT !.backlog = Append(@, c)]
  <2>1. /\ CanConnect /\ cl[c].pc = "connect"
        /\ sv' = [sv EXCEPT ![s0] = q] /\ cl' = [cl EXCEPT ![c] = y]
    BY <1>2 DEF Connect
  <2>2. s0 \in Servers /\ sv[s0].pc # "off"
    BY <2>1 DEF SInv, IInv, DataOK, CanConnect
  <2>3. cl[c] \in Client /\ Calm(cl[c]) /\ cl \in [Clients -> Client]
        /\ sv \in [Servers -> Server] /\ sv[s0] \in Server /\ sv[s0].backlog \in Seq(Peers)
    BY <2>2, ServerFields DEF SInv, PInv, IInv, DataOK
  <2> HIDE DEF s0
  <2>4. y.pc = "reply" /\ y.reply = "none" /\ y.stops = 0 /\ y.server = s0
    BY <2>1, <2>3 DEF Client, Calm, Connected
  <2> DEFINE r == sv[s0]
             b == Append(r.backlog, c)
  <2>5. /\ q.backlog = b /\ q.queue = r.queue /\ q.control = r.control /\ q.command = r.command
        /\ q.pc = r.pc /\ q.haveui = r.haveui /\ q.pipe = r.pipe /\ q.ready = r.ready
        /\ q.idle = r.idle /\ q.state = r.state
    <3> HIDE DEF b
    <3>1. q = [r EXCEPT !.backlog = b]
      BY DEF b
    <3> HIDE DEF q
    <3> QED BY <2>3, <3>1 DEF Server
  <2>6. /\ cl'[c] = y /\ \A d \in Clients \ {c} : cl'[d] = cl[d]
        /\ sv'[s0] = q /\ \A s \in Servers \ {s0} : sv'[s] = sv[s]
    <3> HIDE DEF y, q
    <3> QED BY <2>1, <2>2, <2>3
  <2> HIDE DEF y, q
  <2>7. Calm(y) /\ Unheard(y) /\ ~Talks(y) /\ ~Told(y) /\ y.pc \in Connected
    BY <2>4 DEF Calm, Unheard, Talks, Told, Connected
  <2>8. ASSUME NEW d \in Clients, Waiting(q, d)
        PROVE  d = c \/ Waiting(r, d)
    <3>1. \A i \in DOMAIN b : b[i] = c \/ \E j \in DOMAIN r.backlog : r.backlog[j] = b[i]
      BY <2>3
    <3> HIDE DEF b
    <3> QED BY <2>5, <2>8, <3>1 DEF Waiting
  <2> HIDE DEF b
  <2>9. ASSUME NEW s \in Servers
        PROVE  Unknown(sv[s], c)
    BY <2>1, PInvOf, NotPlaced DEF Connected
  <2>10. ASSUME NEW s \in Servers
         PROVE  Pair(sv'[s], s, y, c)
    <3>1. CASE s = s0
      <4>1. q.control # c /\ q.command # c
        BY <2>2, <2>5, <2>9 DEF Unknown
      <4>2. Pair(q, s, y, c)
        BY <2>4, <2>7, <3>1, <4>1 DEF Pair, Placed, Queued, Spoken, Working, Served, Stopped
      <4> QED BY <2>6, <3>1, <4>2
    <3> QED BY <2>6, <2>7, <2>9, <3>1, PairUnknown
  <2>11. ASSUME NEW s \in Servers, NEW d \in Clients \ {c}
         PROVE  Pair(sv'[s], s, cl[d], d)
    <3>1. Pair(sv[s], s, cl[d], d)
      BY PInvOf
    <3>2. CASE s = s0
      <4>1. Pair(r, s, cl[d], d) /\ (Waiting(q, d) => Waiting(r, d))
        BY <2>8, <3>1, <3>2
      <4> HIDE DEF r
      <4>2. Pair(q, s, cl[d], d)
        BY <2>5, <4>1, PairSame DEF Acting, Stopping
      <4> QED BY <2>6, <3>2, <4>2
    <3> QED BY <2>6, <3>1, <3>2
  <2> QED BY <2>6, <2>7, <2>10, <2>11, ClientMoves
<1> QED BY <1>1, <1>2

\* c goes on after a reply, and its server stays as it is.
LEMMA OnPair ==
    ASSUME SInv, NEW c \in Clients, NEW l, Goto(c, l), sv' = sv,
           \/ cl[c].pc = "sent" /\ cl[c].reply = "ok" /\ l = "wait"
           \/ cl[c].pc = "reply" /\ l = "closing"
           \/ cl[c].pc = "stopping" /\ cl[c].stops = 1 /\ cl[c].reply # "none" /\ l = "wait"
    PROVE  PInv'
<1> DEFINE y == [cl[c] EXCEPT !.pc = l]
           x == cl[c]
<1>1. cl[c] \in Client /\ Calm(cl[c]) /\ cl \in [Clients -> Client]
  BY DEF SInv, PInv, IInv, DataOK
<1>2. y.pc = l /\ y.reply = x.reply /\ y.stops = x.stops /\ y.server = x.server /\ y.eof = x.eof
  BY <1>1 DEF Client
<1>3. cl'[c] = y /\ \A d \in Clients \ {c} : cl'[d] = cl[d]
  BY <1>1 DEF Goto
<1> HIDE DEF y
<1>4. Calm(y)
  BY <1>1, <1>2 DEF Calm, Connected
<1>5. ASSUME NEW s \in Servers
      PROVE  Pair(sv[s], s, y, c)
  <2> DEFINE r == sv[s]
  <2>1. Pair(r, s, x, c)
    BY PInvOf
  <2> HIDE DEF r
  <2>2. y.pc \in Connected /\ x.pc \in Connected /\ y.pc = l
    BY <1>2 DEF Connected
  <2> HIDE DEF x
  <2>3. Placed(r, s, y, c)
    BY <1>2, <2>1, <2>2 DEF Pair, Placed
  <2>4. Queued(r, y, c)
    BY <1>2, <2>1 DEF Pair, Queued, Unheard, x
  <2>5. Spoken(r, y, c)
    BY <1>2, <2>1 DEF Pair, Spoken, x, Asked
  <2>6. Working(r, y, c)
    BY <1>2, <2>1 DEF Pair, Working, x
  <2>7. Served(r, s, y, c)
    BY <1>2, <2>1 DEF Pair, Served, Talks, x
  <2>8. Stopped(r, y, c)
    <3>1. Told(y) => Told(x)
      BY <1>1, <1>2 DEF Told, Calm, x
    <3> QED BY <2>1, <3>1 DEF Pair, Stopped
  <2> QED BY <2>3, <2>4, <2>5, <2>6, <2>7, <2>8 DEF Pair, r
<1>6. ASSUME NEW s \in Servers, NEW d \in Clients \ {c}
      PROVE  Pair(sv'[s], s, cl[d], d)
  BY PInvOf
<1> QED BY <1>3, <1>4, <1>5, <1>6, ClientMoves

\* c, which is served, writes the command m: its pipe holds nothing else.
LEMMA SendPair ==
    ASSUME SInv, NEW c \in Clients, NEW y, NEW m \in Messages,
           Talks(cl[c]), ~cl[c].eof, cl[c].pc = "wait" \/ cl[c].reply # "none",
           y.server = cl[c].server, y.reply = "none", Calm(y),
           y.pc \in {"setup", "sent", "stopping"} => Asked(y) = m,
           y.pc = "leaving" => m = "terminateServer",
           \/ cl[c].pc \in {"reply", "setup"} /\ y.pc \in {"setup", "sent", "leaving"}
           \/ cl[c].pc = "wait" /\ y.pc = "stopping",
           cl' = [cl EXCEPT ![c] = y],
           sv' = [sv EXCEPT ![cl[c].server].pipe = Append(@, m)]
    PROVE  PInv'
<1> DEFINE x == cl[c]
           n == x.server
           r == sv[n]
           q == [r EXCEPT !.pipe = Append(@, m)]
<1>1. x.pc \in Connected /\ n \in Servers
  BY DEF SInv, IInv, DataOK, Talks, Connected, ClientOK
<1>2. /\ r \in Server /\ Pair(r, n, x, c) /\ cl \in [Clients -> Client]
      /\ sv \in [Servers -> Server] /\ r.pipe \in Seq(Messages)
  BY <1>1, PInvOf, ServerFields DEF SInv, IInv, DataOK
<1>3. /\ cl'[c] = y /\ \A d \in Clients \ {c} : cl'[d] = cl[d]
      /\ sv'[n] = q /\ \A s \in Servers \ {n} : sv'[s] = sv[s]
  BY <1>1, <1>2
<1> HIDE DEF n
<1> DEFINE p == Append(r.pipe, m)
<1>4. /\ q.pipe = p /\ q.backlog = r.backlog /\ q.queue = r.queue /\ q.control = r.control
      /\ q.command = r.command /\ q.pc = r.pc /\ q.haveui = r.haveui /\ q.ready = r.ready
      /\ q.idle = r.idle /\ q.state = r.state
  <2>1. q = [r EXCEPT !.pipe = p]
    OBVIOUS
  <2> HIDE DEF p, q, r
  <2> QED BY <1>2, <2>1 DEF Server
<1>5. p # <<>> /\ (r.pipe = <<>> => p = <<m>>)
  <2> DEFINE k == r.pipe
  <2>1. k \in Seq(Messages)
    BY <1>2
  <2> HIDE DEF k
  <2>2. Append(k, m) # <<>>
    <3> DEFINE a == Append(k, m)
    <3>1. Len(a) = Len(k) + 1 /\ Len(k) \in Nat /\ Len(<<>>) = 0
      BY <2>1
    <3> HIDE DEF a
    <3>2. a # <<>>
      BY <3>1
    <3> QED BY <3>2 DEF a
  <2>3. Append(<<>>, m) = <<m>>
    OBVIOUS
  <2> QED BY <2>2, <2>3 DEF k
<1> HIDE DEF p, q
<1>6. /\ ~Unheard(x)
      /\ r.pc # "relock" => r.control = c /\ r.haveui /\ r.pipe = <<>>
      /\ r.pc = "relock" => \A d \in Clients : r.control # d
  <2>1. ~Unheard(x)
    BY DEF Talks, Unheard
  <2>2. ASSUME r.pc # "relock"
        PROVE  r.control = c /\ r.haveui /\ r.pipe = <<>>
    <3>1. r.control = c /\ r.haveui
      BY <1>2, <2>2 DEF Pair, Served, n
    <3> QED BY <1>2, <3>1 DEF Pair, Spoken, Talks
  <2>3. ASSUME r.pc = "relock"
        PROVE  \A d \in Clients : r.control # d
    BY <1>1, <2>3, PInvOf DEF Pair, Queued
  <2> QED BY <2>1, <2>2, <2>3
<1>7. \A d \in Clients : Waiting(q, d) <=> Waiting(r, d)
  BY <1>4 DEF Waiting
<1>8. ASSUME NEW s \in Servers
      PROVE  Pair(sv'[s], s, y, c)
  <2>1. CASE s # n
    <3>1. Unknown(sv[s], c)
      BY <2>1, PInvOf, NotPlaced DEF n
    <3> QED BY <1>3, <2>1, <3>1, PairUnknown DEF n
  <2>2. CASE s = n /\ r.pc = "relock"
    <3>1. Unknown(q, c)
      BY <1>2, <1>4, <1>6, <1>7, <2>2 DEF Unknown, Pair, Working, Queued
    <3> QED BY <1>3, <1>4, <2>2, <3>1, PairUnknown
  <2>3. CASE s = n /\ r.pc # "relock"
    <3> USE <1>6
    <3>1. Placed(q, s, y, c)
      BY <2>3 DEF Placed, Connected, n
    <3>2. Queued(q, y, c)
      BY <1>2, <1>4, <2>3 DEF Queued, Pair
    <3>3. Spoken(q, y, c)
      BY <1>4, <1>5, <2>3 DEF Spoken
    <3>4. Working(q, y, c)
      BY <1>2, <1>4, <2>3 DEF Working, Pair
    <3>5. Served(q, s, y, c)
      BY <1>4, <2>3 DEF Served
    <3>6. Stopped(q, y, c)
      BY DEF Stopped, Told
    <3> QED BY <1>3, <2>3, <3>1, <3>2, <3>3, <3>4, <3>5, <3>6 DEF Pair
  <2> QED BY <2>1, <2>2, <2>3
<1>9. ASSUME NEW s \in Servers, NEW d \in Clients \ {c}
      PROVE  Pair(sv'[s], s, cl[d], d)
  <2>1. Pair(sv[s], s, cl[d], d)
    BY PInvOf
  <2>2. CASE s = n
    <3>1. r.control # d /\ Pair(r, s, cl[d], d)
      BY <1>6, <2>1, <2>2
    <3> HIDE DEF r
    <3>2. Pair(q, s, cl[d], d)
      BY <1>4, <1>7, <3>1, PairSame DEF Acting, Stopping
    <3> QED BY <1>3, <2>2, <3>2
  <2> QED BY <1>3, <2>1, <2>2
<1>10. /\ \A d \in Clients \ {c} : cl'[d] = cl[d]
       /\ Calm(cl'[c]) /\ \A s \in Servers : Pair(sv'[s], s, cl'[c], c)
  BY <1>3, <1>8
<1> QED BY <1>9, <1>10, ClientMoves

\* Every step of a client keeps the account.
LEMMA ClientPair ==
    ASSUME SInv, NEW c \in Clients,
           ClientSteps(c) \/ NotReady(c) \/ NoReply(c) \/ Interrupt(c) \/ ClientDies(c)
    PROVE  PInv'
<1>1. cl[c] \in Client /\ Calm(cl[c]) /\ ClientOK(cl[c])
  BY DEF SInv, PInv, IInv, DataOK
<1>2. CASE Leave(c) \/ Retry(c)
  BY <1>2, LeavePair
<1>3. CASE \E l \in {"start", "look", "out", "connect", "waitlock", "unlock"} :
              Goto(c, l) /\ sv' = sv /\ cl[c].pc \notin Connected
  BY <1>3, AwayPair DEF Connected
<1>4. CASE StartServer(c) \/ Connect(c)
  BY <1>4, StartPair, ConnectPair
<1>5. CASE Goto(c, "closing") /\ cl[c].pc = "reply" /\ sv' = sv
  BY <1>5, OnPair
<1>6. CASE TakeReply(c)
  <2>1. cl[c].reply # "none" /\ ~cl[c].eof
    BY <1>6 DEF TakeReply
  <2>2. CASE \/ cl[c].pc = "sent" /\ cl[c].reply = "ok" /\ Goto(c, "wait") /\ UNCHANGED sv
             \/ cl[c].pc = "reply" /\ Goto(c, "closing") /\ UNCHANGED sv
             \/ cl[c].pc = "stopping" /\ cl[c].stops = 1 /\ Goto(c, "wait") /\ UNCHANGED sv
    BY <2>1, <2>2, OnPair
  <2>3. ASSUME NEW m, NEW l, Send(c, m, l),
               \/ cl[c].pc = "reply" /\ l = "setup" /\ m = "updateConfig"
               \/ cl[c].pc = "setup" /\ l = "sent" /\ m = "buildTargets"
        PROVE  PInv'
    <3> DEFINE y == [cl[c] EXCEPT !.pc = l, !.reply = "none"]
    <3>1. y.pc = l /\ y.reply = "none" /\ y.stops = cl[c].stops /\ y.server = cl[c].server
      BY <1>1 DEF Client
    <3>2. cl' = [cl EXCEPT ![c] = y] /\ sv' = [sv EXCEPT ![cl[c].server].pipe = Append(@, m)]
      BY <2>3 DEF Send
    <3> HIDE DEF y
    <3>3. Calm(y) /\ Talks(cl[c]) /\ Asked(y) = m /\ m \in Messages
      BY <1>1, <2>1, <2>3, <3>1 DEF Calm, Talks, Asked, Connected, Messages
    <3> QED BY <2>1, <2>3, <3>1, <3>2, <3>3, SendPair
  <2> QED BY <1>2, <1>6, <2>2, <2>3 DEF TakeReply
<1>7. CASE SendTerminate(c)
  <2> DEFINE y == [cl[c] EXCEPT !.pc = "leaving", !.reply = "none"]
  <2>1. y.pc = "leaving" /\ y.reply = "none" /\ y.stops = cl[c].stops /\ y.server = cl[c].server
    BY <1>1 DEF Client
  <2>2. /\ cl' = [cl EXCEPT ![c] = y]
        /\ sv' = [sv EXCEPT ![cl[c].server].pipe = Append(@, "terminateServer")]
        /\ cl[c].pc = "reply" /\ cl[c].reply = "ok" /\ ~cl[c].eof
    BY <1>7 DEF SendTerminate, Send
  <2> HIDE DEF y
  <2>3. Calm(y) /\ Talks(cl[c]) /\ "terminateServer" \in Messages
    BY <1>1, <2>1, <2>2 DEF Calm, Talks, Connected, Messages
  <2> QED BY <2>1, <2>2, <2>3, SendPair
<1>8. CASE Interrupt(c) /\ ~Leave(c)
  <2> DEFINE y == [cl[c] EXCEPT !.pc = "stopping", !.reply = "none", !.stops = @ + 1]
             m == <<"stateShutdown", "stateForceShutdown">>[cl[c].stops + 1]
  <2>1. /\ y.pc = "stopping" /\ y.reply = "none" /\ y.stops = cl[c].stops + 1
        /\ y.server = cl[c].server
    BY <1>1 DEF Client
  <2>2. /\ cl' = [cl EXCEPT ![c] = y]
        /\ sv' = [sv EXCEPT ![cl[c].server].pipe = Append(@, m)]
        /\ cl[c].pc = "wait" /\ ~cl[c].eof
    BY <1>8 DEF Interrupt
  <2> HIDE DEF y
  <2>3. cl[c].stops \in {0, 1}
    BY <1>1, <2>2 DEF Client, ClientOK
  <2>4. Calm(y) /\ Talks(cl[c]) /\ Asked(y) = m /\ m \in Messages
    BY <2>1, <2>2, <2>3 DEF Calm, Talks, Asked, Connected, Messages
  <2> HIDE DEF m
  <2> QED BY <2>1, <2>2, <2>4, SendPair
<1>9. CASE LockBitbake(c) \/ ServerReady(c) \/ NotReady(c) \/ Look(c)
  <2>1. \E l \in {"start", "look", "out", "connect", "waitlock"} : Goto(c, l)
    BY <1>9 DEF LockBitbake, ServerReady, NotReady, Look
  <2>2. sv' = sv /\ cl[c].pc \notin Connected
    BY <1>9 DEF LockBitbake, ServerReady, NotReady, Look, Connected
  <2> QED BY <1>3, <2>1, <2>2
<1>10. CASE WaitLock(c)
  BY <1>2, <1>3, <1>10 DEF WaitLock, Connected
<1>11. CASE \/ Unlock(c) \/ EndEvent(c) \/ Terminate(c) \/ CloseConnection(c) \/ NotRunning(c)
            \/ ClientDies(c)
  BY <1>2, <1>11 DEF Unlock, EndEvent, Terminate, CloseConnection, NotRunning, ClientDies
<1>12. CASE NoReply(c)
  BY <1>2, <1>5, <1>12 DEF NoReply
<1>13. CASE Interrupt(c) /\ Leave(c)
  BY <1>2, <1>13
<1> QED BY <1>4, <1>6, <1>7, <1>8, <1>9, <1>10, <1>11, <1>12, <1>13 DEF ClientSteps

-----------------------------------------------------------------------------
(* The steps of a server *)

\* A server goes on with its round, and nothing changes between it and its clients.
LEMMA QuietPair ==
    ASSUME SInv, NEW s \in Servers, NEW q, sv' = [sv EXCEPT ![s] = q],
           \A c \in Clients : Flagged(cl[c], cl'[c]),
           q.control = sv[s].control, q.haveui = sv[s].haveui, q.pipe = sv[s].pipe,
           q.queue = sv[s].queue, q.backlog = sv[s].backlog \/ q.backlog = <<>>,
           q.command # NoOne => q.command = sv[s].command,
           q.command # NoOne /\ "run" \in q.idle =>
               "run" \in sv[s].idle /\ (Stopping(sv[s]) => Stopping(q)),
           q.pc \notin {"off", "relock"}, sv[s].pc \notin {"off", "relock"},
           Acting(q) => \/ Acting(sv[s])
                        \/ \A c \in Clients : q.haveui /\ q.control = c
                                                 => q.pipe # <<>> \/ cl[c].pc = "closing"
    PROVE  PInv'
<1>1. sv'[s] = q /\ \A t \in Servers \ {s} : sv'[t] = sv[t]
  BY DEF SInv, IInv, DataOK
<1>2. ASSUME NEW c \in Clients
      PROVE  Pair(sv'[s], s, cl'[c], c)
  <2> DEFINE r == sv[s]
             x == cl[c]
  <2>1. Pair(r, s, x, c) /\ c # NoOne
    BY PInvOf
  <2>2. Waiting(q, c) => Waiting(r, c)
    BY DEF Waiting
  <2>3. /\ q.control = c <=> r.control = c
        /\ q.control = c => q.haveui = r.haveui /\ q.pipe = r.pipe
        /\ q.command = c => r.command = c
        /\ q.command = c /\ "run" \in q.idle =>
              "run" \in r.idle /\ (Stopping(r) => Stopping(q))
        /\ q.pc \in {"off", "relock"} <=> r.pc \in {"off", "relock"}
        /\ q.pc = "relock" <=> r.pc = "relock"
    BY <2>1
  <2>4. Acting(q) => \/ Acting(r)
                     \/ q.haveui /\ q.control = c => q.pipe # <<>> \/ x.pc = "closing"
    OBVIOUS
  <2> HIDE DEF r, x
  <2>5. Pair(q, s, x, c)
    BY <2>1, <2>2, <2>3, <2>4, PairSame
  <2>6. Pair(q, s, cl'[c], c)
    BY <2>5, PairFlagged DEF x
  <2> QED BY <1>1, <2>6
<1> QED BY <1>1, <1>2, ServerMoves

LEMMA FlaggedSame == ASSUME cl' = cl PROVE \A c \in Clients : Flagged(cl[c], cl'[c])
BY DEF Flagged

\* The server's loop goes on, or ends.
LEMMA TurnPair ==
    ASSUME SInv, NEW s \in Servers,
           ServerStarts(s) \/ TimesOut(s) \/ Quits(s) \/ NoCommand(s)
    PROVE  PInv'
<1>1. sv[s] \in Server /\ ServerOK(sv[s])
  BY DEF SInv, IInv, DataOK
<1>2. \A c \in Clients : Flagged(cl[c], cl'[c])
  BY FlaggedSame DEF ServerStarts, TimesOut, Quits, NoCommand
<1>3. PICK q : /\ sv' = [sv EXCEPT ![s] = q]
               /\ \/ q = [sv[s] EXCEPT !.pc = "accept"] /\ sv[s].pc = "init"
                  \/ q = [sv[s] EXCEPT !.quit = TRUE] /\ sv[s].pc = "control"
                  \/ q = [sv[s] EXCEPT !.pc = "unlink"] /\ sv[s].pc \in Rounds
                  \/ q = [sv[s] EXCEPT !.pc = "idle"] /\ sv[s].pc = "command"
  BY DEF ServerStarts, TimesOut, Quits, NoCommand, At
<1> DEFINE r == sv[s]
<1>4. /\ q.control = r.control /\ q.haveui = r.haveui /\ q.pipe = r.pipe /\ q.queue = r.queue
      /\ q.backlog = r.backlog /\ q.command = r.command /\ q.idle = r.idle /\ q.state = r.state
      /\ q.ready = r.ready
      /\ \/ q.pc = r.pc /\ r.pc = "control"
         \/ q.pc \in {"unlink", "idle"} /\ r.pc \in Rounds
         \/ q.pc = "accept" /\ r.pc = "init"
  BY <1>1, <1>3, Places DEF Server
<1>5. q.pc = "accept" /\ r.pc = "init" => q.ready = {}
  BY <1>1, <1>4 DEF ServerOK
<1>6. /\ q.pc \notin {"off", "relock"} /\ r.pc \notin {"off", "relock"}
      /\ Acting(q) => Acting(r)
  BY <1>4, <1>5, Places DEF Acting
<1> QED BY <1>2, <1>3, <1>4, <1>6, QuietPair DEF Stopping

\* What a round leaves when it is over.
LEMMA RoundPair ==
    ASSUME SInv, NEW s \in Servers, sv[s].pc = "idle", NEW r \in Server,
           \A c \in Clients : Flagged(cl[c], cl'[c]),
           r.control = sv[s].control, r.haveui = sv[s].haveui, r.pipe = sv[s].pipe,
           r.queue = sv[s].queue, r.backlog = sv[s].backlog,
           r.command # NoOne => r.command = sv[s].command,
           r.command # NoOne /\ "run" \in r.idle =>
               "run" \in sv[s].idle /\ (Stopping(sv[s]) => Stopping(r)),
           sv' = [sv EXCEPT ![s] = [r EXCEPT !.ready = Readable(r), !.pc = "accept"]]
    PROVE  PInv'
<1> DEFINE R == Readable(r)
           q == [r EXCEPT !.ready = R, !.pc = "accept"]
<1>1. "command" \in R => r.haveui /\ (PipeClosed(r.control) \/ r.pipe # <<>>)
  BY DEF Readable
<1>2. sv' = [sv EXCEPT ![s] = q]
  OBVIOUS
<1> HIDE DEF R
<1>3. /\ q.control = r.control /\ q.haveui = r.haveui /\ q.pipe = r.pipe /\ q.queue = r.queue
      /\ q.backlog = r.backlog /\ q.command = r.command /\ q.idle = r.idle /\ q.state = r.state
      /\ q.pc = "accept" /\ q.ready = R
  BY DEF Server
<1> HIDE DEF q
<1>4. ASSUME NEW c \in Clients, Acting(q), q.haveui, q.control = c
      PROVE  q.pipe # <<>> \/ cl[c].pc = "closing"
  BY <1>1, <1>3, <1>4, Names DEF Acting, PipeClosed
<1>5. /\ Acting(q) => \A c \in Clients : q.haveui /\ q.control = c
                                            => q.pipe # <<>> \/ cl[c].pc = "closing"
      /\ Stopping(r) => Stopping(q)
      /\ q.pc \notin {"off", "relock"} /\ sv[s].pc \notin {"off", "relock"}
  BY <1>3, <1>4 DEF Stopping
<1>6. /\ q.control = sv[s].control /\ q.haveui = sv[s].haveui /\ q.pipe = sv[s].pipe
      /\ q.queue = sv[s].queue /\ q.backlog = sv[s].backlog
      /\ q.command # NoOne => q.command = sv[s].command
  BY <1>3
<1>7. q.command # NoOne /\ "run" \in q.idle =>
         "run" \in sv[s].idle /\ (Stopping(sv[s]) => Stopping(q))
  BY <1>3, <1>5
<1> QED BY <1>2, <1>5, <1>6, <1>7, QuietPair

LEMMA TellPair ==
    ASSUME SInv, NEW c, Tell(c)
    PROVE  \A d \in Clients : Flagged(cl[d], cl'[d])
<1>1. cl \in [Clients -> Client]
  BY DEF SInv, IInv, DataOK
<1> SUFFICES ASSUME NEW d \in Clients
             PROVE  Flagged(cl[d], cl'[d])
  OBVIOUS
<1> DEFINE y == [cl[d] EXCEPT !.end = TRUE]
<1>2. Flagged(cl[d], cl[d]) /\ Flagged(cl[d], y)
  BY <1>1 DEF Flagged, Client
<1>3. cl'[d] = y \/ cl'[d] = cl[d]
  BY <1>1 DEF Tell
<1> QED BY <1>2, <1>3

LEMMA EndRoundPair ==
    ASSUME SInv, NEW s \in Servers, sv[s].pc = "idle", NEW r \in Server, NEW fired \in BOOLEAN,
           EndRound(s, r, fired),
           r.control = sv[s].control, r.haveui = sv[s].haveui, r.pipe = sv[s].pipe,
           r.queue = sv[s].queue, r.backlog = sv[s].backlog,
           r.command # NoOne => r.command = sv[s].command,
           r.command # NoOne /\ "run" \in r.idle =>
               "run" \in sv[s].idle /\ (Stopping(sv[s]) => Stopping(r))
    PROVE  PInv'
<1> DEFINE h == ~r.haveui /\ (r.held \/ fired)
           q == [r EXCEPT !.held = h]
<1>1. sv' = [sv EXCEPT ![s] = [q EXCEPT !.ready = Readable(q), !.pc = "accept"]]
  BY DEF EndRound
<1>2. h \in BOOLEAN
  OBVIOUS
<1> HIDE DEF h
<1>3. /\ q \in Server /\ q.control = r.control /\ q.haveui = r.haveui /\ q.pipe = r.pipe
      /\ q.queue = r.queue /\ q.backlog = r.backlog /\ q.command = r.command
      /\ q.idle = r.idle /\ q.state = r.state
  BY <1>2 DEF Server
<1> HIDE DEF q
<1>4. \A c \in Clients : Flagged(cl[c], cl'[c])
  <2>1. Tell(r.control) \/ cl' = cl
    BY DEF EndRound
  <2> QED BY <2>1, TellPair, FlaggedSame
<1> QED BY <1>1, <1>3, <1>4, RoundPair DEF Stopping

LEMMA FinishPair ==
    ASSUME SInv, NEW s \in Servers, sv[s].pc = "idle", NEW r \in Server, Finish(s, r),
           r.control = sv[s].control, r.haveui = sv[s].haveui, r.pipe = sv[s].pipe,
           r.queue = sv[s].queue, r.backlog = sv[s].backlog
    PROVE  PInv'
<1> DEFINE q == [r EXCEPT !.command = NoOne, !.state = "initial"]
<1>1. EndRound(s, q, TRUE)
  BY DEF Finish
<1>2. /\ q \in Server /\ q.control = r.control /\ q.haveui = r.haveui /\ q.pipe = r.pipe
      /\ q.queue = r.queue /\ q.backlog = r.backlog /\ q.command = NoOne
  BY DEF Server
<1> HIDE DEF q
<1> QED BY <1>1, <1>2, EndRoundPair

\* What is between a server and its clients stays as it is.
Still(r, q) == /\ q.control = r.control /\ q.haveui = r.haveui /\ q.pipe = r.pipe
               /\ q.queue = r.queue /\ q.backlog = r.backlog /\ q.command = r.command

LEMMA ParserStill ==
    ASSUME NEW r \in Server
    PROVE  LET q == ParserShutdown(r)
           IN  q \in Server /\ Still(r, q) /\ q.idle = r.idle /\ q.state = r.state /\ q.pc = r.pc
<1> DEFINE p == IF r.parser = "live" THEN "done" ELSE r.parser
           q == ParserShutdown(r)
<1>1. q = [r EXCEPT !.parser = p]
  BY DEF ParserShutdown
<1>2. q \in Server
  BY CookerOK
<1> HIDE DEF p, q
<1>3. Still(r, q) /\ q.idle = r.idle /\ q.state = r.state /\ q.pc = r.pc
  BY <1>1 DEF Server, Still
<1> QED BY <1>2, <1>3 DEF q

LEMMA IdleStill ==
    ASSUME NEW r \in Server, NEW f \in r.idle
    PROVE  LET q == [r EXCEPT !.idle = @ \ {f}]
           IN  q \in Server /\ Still(r, q) /\ q.idle = {} /\ q.pc = r.pc
<1>1. r.idle \ {f} = {}
  BY ServerFields
<1> QED BY <1>1 DEF Server, Still

\* An idle function fails, the socket is removed, the cooker exits.
LEMMA DownPair ==
    ASSUME SInv, NEW s \in Servers,
           \/ \E f \in {"run", "build"} : IdleFails(s, f)
           \/ UnlinkSocket(s) \/ CookerShutdown(s)
    PROVE  PInv'
<1> DEFINE r == sv[s]
<1>1. r \in Server /\ cl \in [Clients -> Client]
  BY DEF SInv, IInv, DataOK
<1>2. ASSUME NEW f \in {"run", "build"}, IdleFails(s, f)
      PROVE  PInv'
  <2> DEFINE p == [r EXCEPT !.idle = @ \ {f}]
             q == [p EXCEPT !.quit = TRUE]
  <2>1. r.pc = "idle" /\ f \in r.idle /\ sv' = [sv EXCEPT ![s] = q] /\ cl' = cl
    BY <1>2 DEF IdleFails, At
  <2>2. p \in Server /\ Still(r, p) /\ p.idle = {} /\ p.pc = "idle"
    BY <1>1, <2>1, IdleStill
  <2> HIDE DEF p, r
  <2>3. Still(r, q) /\ q.idle = {} /\ q.pc = "idle"
    BY <2>2 DEF Server, Still
  <2> HIDE DEF q
  <2>4. ~Acting(q) /\ \A c \in Clients : Flagged(cl[c], cl'[c])
    BY <2>1, <2>3, FlaggedSame DEF Acting
  <2> QED BY <2>1, <2>3, <2>4, QuietPair DEF Still, r
<1>3. CASE UnlinkSocket(s)
  <2> DEFINE q == [r EXCEPT !.pc = "shutdown", !.backlog = <<>>]
  <2>1. r.pc = "unlink" /\ sv' = [sv EXCEPT ![s] = q]
    BY <1>3 DEF UnlinkSocket, CloseSocket
  <2>2. ASSUME NEW c \in Clients
        PROVE  Flagged(cl[c], cl'[c])
    <3> DEFINE y == [cl[c] EXCEPT !.eof = TRUE]
    <3>1. cl'[c] = y \/ cl'[c] = cl[c]
      BY <1>3 DEF UnlinkSocket, CloseSocket
    <3>2. Flagged(cl[c], y) /\ Flagged(cl[c], cl[c])
      BY <1>1 DEF Flagged, Client
    <3> QED BY <3>1, <3>2
  <2> HIDE DEF r
  <2>3. /\ q.control = r.control /\ q.haveui = r.haveui /\ q.pipe = r.pipe /\ q.queue = r.queue
        /\ q.backlog = <<>> /\ q.command = r.command /\ q.idle = r.idle /\ q.state = r.state
        /\ q.pc = "shutdown"
    BY <1>1 DEF Server
  <2> HIDE DEF q
  <2>4. ~Acting(q) /\ (Stopping(r) => Stopping(q))
    BY <2>3 DEF Acting, Stopping
  <2> QED BY <2>1, <2>2, <2>3, <2>4, QuietPair DEF r
<1>4. CASE CookerShutdown(s)
  <2> DEFINE p == ParserShutdown(r)
             q == [p EXCEPT !.pc = "close"]
  <2>1. /\ r.pc = "shutdown" /\ sv' = [sv EXCEPT ![s] = q]
        /\ Tell(r.control) \/ cl' = cl
    BY <1>4 DEF CookerShutdown
  <2>2. \A c \in Clients : Flagged(cl[c], cl'[c])
    BY <2>1, TellPair, FlaggedSame
  <2>3. p \in Server /\ Still(r, p) /\ p.idle = r.idle /\ p.state = r.state
    BY <1>1, ParserStill
  <2> HIDE DEF p, r
  <2>4. Still(r, q) /\ q.idle = r.idle /\ q.state = r.state /\ q.pc = "close"
    BY <2>3 DEF Server, Still
  <2> HIDE DEF q
  <2>5. ~Acting(q) /\ (Stopping(r) => Stopping(q))
    BY <2>4 DEF Acting, Stopping
  <2> QED BY <2>1, <2>2, <2>4, <2>5, QuietPair DEF Still, r
<1> QED BY <1>2, <1>3, <1>4

\* A round of the idle functions.
LEMMA IdlePair ==
    ASSUME SInv, NEW s \in Servers,
           \/ IdleRound(s) \/ BuildGoesOn(s) \/ RunStopped(s) \/ BuildEnds(s)
    PROVE  PInv'
<1> DEFINE r == sv[s]
<1>1. r \in Server /\ r.pc = "idle"
  BY DEF SInv, IInv, DataOK, IdleRound, BuildGoesOn, RunStopped, BuildEnds, At
<1>2. CASE EndRound(s, r, FALSE)
  BY <1>1, <1>2, EndRoundPair
<1>3. CASE /\ sv' = [sv EXCEPT ![s].ready = Readable(sv[s]), ![s].pc = "accept"]
           /\ UNCHANGED <<owner, sock, cl>>
  <2>1. sv' = [sv EXCEPT ![s] = [r EXCEPT !.ready = Readable(r), !.pc = "accept"]]
    BY <1>3
  <2>2. \A c \in Clients : Flagged(cl[c], cl'[c])
    BY <1>3, FlaggedSame
  <2> QED BY <1>1, <2>1, <2>2, RoundPair
<1>4. CASE RunStopped(s)
  <2> DEFINE p == ParserShutdown(r)
             q == [p EXCEPT !.idle = @ \ {"run"}]
  <2>1. "run" \in r.idle /\ Finish(s, q)
    BY <1>4 DEF RunStopped
  <2>2. p \in Server /\ Still(r, p) /\ "run" \in p.idle
    BY <1>1, <2>1, ParserStill
  <2> HIDE DEF p
  <2>3. q \in Server /\ Still(p, q)
    BY <2>2, IdleStill
  <2> HIDE DEF q
  <2> QED BY <1>1, <2>1, <2>2, <2>3, FinishPair DEF Still
<1>5. CASE BuildEnds(s)
  <2> DEFINE q == [r EXCEPT !.idle = @ \ {"build"}]
  <2>1. "build" \in r.idle /\ Finish(s, q)
    BY <1>5 DEF BuildEnds
  <2>2. q \in Server /\ Still(r, q)
    BY <1>1, <2>1, IdleStill
  <2> HIDE DEF q
  <2> QED BY <1>1, <2>1, <2>2, FinishPair DEF Still
<1> QED BY <1>2, <1>3, <1>4, <1>5 DEF IdleRound, BuildGoesOn

\* The command goes on, which it does only where the cooker is not stopping.
LEMMA RunPair ==
    ASSUME SInv, NEW s \in Servers, Parse(s) \/ StartBuild(s)
    PROVE  PInv'
<1> DEFINE r == sv[s]
<1>1. r \in Server /\ r.pc = "idle" /\ "run" \in r.idle /\ ~Stopping(r)
  BY DEF SInv, IInv, DataOK, Parse, StartBuild, At, Stopping
<1>2. ASSUME NEW q \in Server, Still(r, q), EndRound(s, q, FALSE)
      PROVE  PInv'
  BY <1>1, <1>2, EndRoundPair DEF Still
<1>3. ASSUME NEW q \in Server, Still(r, q), Finish(s, q)
      PROVE  PInv'
  BY <1>1, <1>3, FinishPair DEF Still
<1>4. CASE Parse(s)
  <2> DEFINE p == [r EXCEPT !.state = "parsing", !.parser = "live", !.baseconfig_valid = TRUE]
             u == [p EXCEPT !.state = "running", !.parser = "done"]
             w == [p EXCEPT !.parser = "done"]
             q == [w EXCEPT !.idle = @ \ {"run"}]
  <2>1. EndRound(s, p, FALSE) \/ EndRound(s, u, FALSE)
        \/ Finish(s, [p EXCEPT !.parser = "done", !.idle = @ \ {"run"}])
    BY <1>4 DEF Parse
  <2>2. p \in Server /\ Still(r, p) /\ p.idle = r.idle
    BY <1>1 DEF Server, Still
  <2>3. [p EXCEPT !.parser = "done", !.idle = @ \ {"run"}] = q
    BY <2>2 DEF Server
  <2> HIDE DEF p, r
  <2>4. u \in Server /\ Still(p, u) /\ w \in Server /\ Still(p, w) /\ w.idle = p.idle
    BY <2>2 DEF Server, Still
  <2> HIDE DEF u, w
  <2>5. q \in Server /\ Still(w, q)
    BY <1>1, <2>2, <2>4, IdleStill
  <2> HIDE DEF q
  <2>6. Still(r, u) /\ Still(r, q)
    BY <2>2, <2>4, <2>5 DEF Still
  <2> QED BY <1>2, <1>3, <2>1, <2>2, <2>3, <2>4, <2>5, <2>6
<1>5. CASE StartBuild(s)
  <2> DEFINE b == (r.idle \ {"run"}) \cup {"build"}
             p == [r EXCEPT !.idle = b]
             q == [r EXCEPT !.idle = @ \ {"run"}]
  <2>1. EndRound(s, p, FALSE) \/ Finish(s, q)
    BY <1>5 DEF StartBuild
  <2>2. b = {"build"}
    BY <1>1, ServerFields
  <2>3. q \in Server /\ Still(r, q)
    BY <1>1, IdleStill
  <2> HIDE DEF b, q
  <2>4. p \in Server /\ Still(r, p)
    BY <1>1, <2>2 DEF Server, Still
  <2> HIDE DEF p
  <2> QED BY <1>2, <1>3, <2>1, <2>3, <2>4
<1> QED BY <1>4, <1>5

\* A server turns to a client that waits, or to none, and c is not the one it leaves unless
\* c has closed its pipe.
LEMMA NextPair ==
    ASSUME NEW r, NEW q, NEW s, NEW x, NEW c, Pair(r, s, x, c),
           r.control = c => x.pc = "closing",
           q.haveui = FALSE, q.command = r.command,
           r.pc \notin {"off", "relock"}, q.pc \notin {"off", "relock"},
           q.control = c => Waiting(r, c), Waiting(q, c) => Waiting(r, c)
    PROVE  Pair(q, s, x, c)
<1>1. Waiting(r, c) => Unheard(x)
  BY DEF Pair, Queued, Unheard
<1>2. r.command # c
  BY DEF Pair, Working
<1>3. ~(x.server = s /\ ~x.eof /\ Talks(x))
  BY DEF Pair, Served, Talks
<1>4. Placed(q, s, x, c)
  BY DEF Pair, Placed
<1>5. Queued(q, x, c) /\ Spoken(q, x, c) /\ Working(q, x, c) /\ Served(q, s, x, c)
      /\ Stopped(q, x, c)
  BY <1>1, <1>2, <1>3 DEF Queued, Spoken, Working, Served, Stopped
<1> QED BY <1>4, <1>5 DEF Pair

LEMMA DisconnectShape ==
    ASSUME NEW r \in Server
    PROVE  LET q == Disconnect(r)
           IN  /\ q \in Server /\ q.haveui = FALSE /\ q.command = r.command /\ q.pc = r.pc
               /\ \A c \in Clients : /\ q.control = c => Waiting(r, c)
                                     /\ Waiting(q, c) => Waiting(r, c)
<1> DEFINE n == Len(r.queue)
           u == IF r.haveui THEN ClientComplete(r) ELSE r
           d == [u EXCEPT !.haveui = FALSE, !.pipe = <<>>, !.control = NoOne]
           q == Disconnect(r)
<1>1. r.queue \in Seq(Peers) /\ r.backlog \in Seq(Peers)
  BY ServerFields
<1>2. u \in Server /\ u.queue = r.queue /\ u.backlog = r.backlog /\ u.command = r.command
      /\ u.pc = r.pc
  BY CompleteOK DEF SameLoop
<1> HIDE DEF u
<1>3. d \in Server /\ d.queue = r.queue /\ d.backlog = r.backlog /\ d.command = r.command
      /\ d.haveui = FALSE /\ d.pc = r.pc
  BY <1>2, CutOffOK DEF SameLoop
<1>4. d.control = NoOne
  BY <1>2 DEF Server
<1> HIDE DEF d
<1>5. CASE n > 0
  <2> DEFINE h == r.queue[n]
             k == SubSeq(r.queue, 1, n - 1)
  <2>1. q = [d EXCEPT !.control = h, !.queue = k]
    BY <1>5 DEF Disconnect, d, u
  <2>2. /\ n \in DOMAIN r.queue /\ h \in Peers /\ k \in Seq(Peers)
        /\ \A i \in DOMAIN k : i \in DOMAIN r.queue /\ k[i] = r.queue[i]
    BY <1>1, <1>5
  <2>3. ASSUME NEW c \in Clients
        PROVE  /\ h = c => Waiting(r, c)
               /\ (\E i \in DOMAIN k : k[i] = c) => Waiting(r, c)
    BY <2>2 DEF Waiting
  <2> HIDE DEF h, k, q
  <2>4. /\ q \in Server /\ q.control = h /\ q.queue = k /\ q.haveui = FALSE
        /\ q.backlog = r.backlog /\ q.command = r.command /\ q.pc = r.pc
    BY <1>3, <2>1, <2>2 DEF Server
  <2>5. ASSUME NEW c \in Clients
        PROVE  /\ q.control = c => Waiting(r, c)
               /\ Waiting(q, c) => Waiting(r, c)
    BY <2>3, <2>4 DEF Waiting
  <2> QED BY <2>4, <2>5 DEF q
<1>6. CASE ~(n > 0)
  <2> DEFINE b == d.quit \/ (~Timeout /\ r.backlog = <<>>)
  <2>1. q = [d EXCEPT !.quit = b] /\ b \in BOOLEAN
    BY <1>6 DEF Disconnect, d, u
  <2> HIDE DEF b, q
  <2>2. /\ q \in Server /\ q.control = NoOne /\ q.queue = r.queue /\ q.haveui = FALSE
        /\ q.backlog = r.backlog /\ q.command = r.command /\ q.pc = r.pc
    BY <1>3, <1>4, <2>1 DEF Server
  <2>3. ASSUME NEW c \in Clients
        PROVE  /\ q.control = c => Waiting(r, c)
               /\ Waiting(q, c) => Waiting(r, c)
    BY <2>2, Names DEF Waiting
  <2> QED BY <2>2, <2>3 DEF q
<1> QED BY <1>5, <1>6

LEMMA AloneMoves ==
    ASSUME SInv, NEW s \in Servers, NEW q, sv' = [sv EXCEPT ![s] = q], cl' = cl,
           \A c \in Clients : Pair(q, s, cl[c], c)
    PROVE  PInv'
<1>1. sv'[s] = q /\ \A t \in Servers \ {s} : sv'[t] = sv[t]
  BY DEF SInv, IInv, DataOK
<1> QED BY <1>1, FlaggedSame, ServerMoves

LEMMA JoinedFrom ==
    ASSUME NEW S, NEW a \in Seq(S), NEW b \in Seq(S)
    PROVE  \A i \in DOMAIN (a \o b) : \/ \E j \in DOMAIN a : (a \o b)[i] = a[j]
                                    \/ \E j \in DOMAIN b : (a \o b)[i] = b[j]
<1> DEFINE u == a \o b
<1> SUFFICES ASSUME NEW i \in DOMAIN u
             PROVE  \/ \E j \in DOMAIN a : u[i] = a[j]
                    \/ \E j \in DOMAIN b : u[i] = b[j]
  OBVIOUS
<1>1. i \in 1 .. (Len(a) + Len(b)) /\ Len(a) \in Nat /\ Len(b) \in Nat
      /\ DOMAIN a = 1 .. Len(a) /\ DOMAIN b = 1 .. Len(b)
  OBVIOUS
<1>2. u[i] = IF i <= Len(a) THEN a[i] ELSE b[i - Len(a)]
  BY <1>1
<1> HIDE DEF u
<1>3. CASE i <= Len(a)
  BY <1>1, <1>2, <1>3
<1>4. CASE ~(i <= Len(a))
  <2>1. i - Len(a) \in DOMAIN b
    BY <1>1, <1>4
  <2> QED BY <1>2, <1>4, <2>1
<1> QED BY <1>3, <1>4

LEMMA TailFrom ==
    ASSUME NEW S, NEW b \in Seq(S), b # <<>>
    PROVE  /\ 1 \in DOMAIN b /\ Head(b) = b[1] /\ Tail(b) \in Seq(S)
           /\ \A i \in DOMAIN Tail(b) : i + 1 \in DOMAIN b /\ Tail(b)[i] = b[i + 1]
<1>1. Len(b) \in Nat \ {0} /\ DOMAIN b = 1 .. Len(b)
  OBVIOUS
<1>2. Len(Tail(b)) = Len(b) - 1 /\ Tail(b) \in Seq(S)
  OBVIOUS
<1>3. ASSUME NEW i \in DOMAIN Tail(b)
      PROVE  i + 1 \in DOMAIN b /\ Tail(b)[i] = b[i + 1]
  BY <1>1, <1>2
<1> QED BY <1>1, <1>2, <1>3

\* Connections are accepted.
LEMMA AcceptPair ==
    ASSUME SInv, NEW s \in Servers, Accept(s)
    PROVE  PInv'
<1> DEFINE r == sv[s]
           p == [r EXCEPT !.pc = "control"]
           b == r.backlog
           h == Head(b)
           t == r.queue \o Tail(b)
           u == r.queue \o b
           y == [p EXCEPT !.backlog = <<>>, !.control = h, !.queue = t]
           z == [p EXCEPT !.backlog = <<>>, !.queue = u]
<1>1. /\ r \in Server /\ r.pc = "accept" /\ cl' = cl
      /\ "sock" \in r.ready => b # <<>>
      /\ r.haveui => r.control # NoOne
  BY DEF SInv, IInv, DataOK, ServerOK, Accept, At
<1>2. b \in Seq(Peers) /\ r.queue \in Seq(Peers)
  BY <1>1, ServerFields
<1>3. /\ p \in Server /\ p.pc = "control" /\ Still(r, p) /\ p.idle = r.idle /\ p.state = r.state
      /\ p.ready = r.ready
  BY <1>1, Places DEF Server, ServerPCs, Still
<1>4. \/ sv' = [sv EXCEPT ![s] = p]
      \/ b # <<>> /\ r.control = NoOne /\ sv' = [sv EXCEPT ![s] = y]
      \/ sv' = [sv EXCEPT ![s] = z]
  <2>1. p.backlog = b /\ p.control = r.control /\ p.queue = r.queue /\ p.ready = r.ready
    BY <1>3 DEF Still
  <2>2. \/ sv' = [sv EXCEPT ![s] = p]
        \/ /\ "sock" \in p.ready /\ p.control = NoOne
           /\ sv' = [sv EXCEPT ![s] = [p EXCEPT !.backlog = <<>>, !.control = Head(p.backlog),
                                                !.queue = p.queue \o Tail(p.backlog)]]
        \/ sv' = [sv EXCEPT ![s] = [p EXCEPT !.backlog = <<>>, !.queue = p.queue \o p.backlog]]
    BY DEF Accept
  <2> HIDE DEF p
  <2> QED BY <1>1, <2>1, <2>2
<1>5. ASSUME NEW c \in Clients
      PROVE  Pair(r, s, cl[c], c)
  BY PInvOf
<1>6. CASE sv' = [sv EXCEPT ![s] = p]
  <2> HIDE DEF p, r
  <2>1. ASSUME NEW c \in Clients
        PROVE  Pair(p, s, cl[c], c)
    BY <1>1, <1>3, <1>5, PairSame DEF Still, Acting, Stopping, Waiting
  <2> QED BY <1>1, <1>6, <2>1, AloneMoves
<1>7. CASE b # <<>> /\ r.control = NoOne /\ sv' = [sv EXCEPT ![s] = y]
  <2>1. /\ 1 \in DOMAIN b /\ h = b[1]
        /\ \A i \in DOMAIN t : \/ \E j \in DOMAIN r.queue : t[i] = r.queue[j]
                               \/ \E j \in DOMAIN b : t[i] = b[j]
    <3> DEFINE a == r.queue
               v == Tail(b)
    <3>1. 1 \in DOMAIN b /\ h = b[1] /\ v \in Seq(Peers)
          /\ \A i \in DOMAIN v : i + 1 \in DOMAIN b /\ v[i] = b[i + 1]
      BY <1>2, <1>7, TailFrom
    <3>2. t = a \o v /\ a \in Seq(Peers)
      BY <1>2
    <3> HIDE DEF a, v, t, b, h
    <3>3. \A i \in DOMAIN t : \/ \E j \in DOMAIN a : t[i] = a[j]
                              \/ \E j \in DOMAIN v : t[i] = v[j]
      <4>0. a \in Seq(Peers) /\ v \in Seq(Peers)
        BY <3>1, <3>2
      <4>1. \A i \in DOMAIN (a \o v) : \/ \E j \in DOMAIN a : (a \o v)[i] = a[j]
                                       \/ \E j \in DOMAIN v : (a \o v)[i] = v[j]
        BY <4>0, JoinedFrom
      <4> QED BY <3>2, <4>1
    <3> QED BY <3>1, <3>3 DEF a
  <2>2. ASSUME NEW c \in Clients
        PROVE  /\ h = c => Waiting(r, c)
               /\ (\E i \in DOMAIN t : t[i] = c) => Waiting(r, c)
    BY <2>1 DEF Waiting
  <2> HIDE DEF h, t
  <2>3. /\ y.backlog = <<>> /\ y.queue = t /\ y.control = h /\ y.haveui = r.haveui
        /\ y.command = r.command /\ y.pc = "control"
    <3> HIDE DEF p, r
    <3> QED BY <1>3 DEF Server, Still
  <2> HIDE DEF y, p, b, r
  <2>4. ASSUME NEW c \in Clients
        PROVE  Pair(y, s, cl[c], c)
    <3>1. (y.control = c => Waiting(r, c)) /\ (Waiting(y, c) => Waiting(r, c))
      BY <2>2, <2>3 DEF Waiting
    <3>2. y.haveui = FALSE /\ r.control # c
      BY <1>1, <1>7, <2>3, Names DEF Server
    <3> QED BY <1>1, <1>5, <2>3, <3>1, <3>2, NextPair
  <2> QED BY <1>1, <1>7, <2>4, AloneMoves
<1>8. CASE sv' = [sv EXCEPT ![s] = z]
  <2>1. \A i \in DOMAIN u : \/ \E j \in DOMAIN r.queue : u[i] = r.queue[j]
                            \/ \E j \in DOMAIN b : u[i] = b[j]
    <3> DEFINE a == r.queue
    <3>1. u = a \o b /\ a \in Seq(Peers)
      BY <1>2
    <3> HIDE DEF a, b, u
    <3>2. \A i \in DOMAIN (a \o b) : \/ \E j \in DOMAIN a : (a \o b)[i] = a[j]
                                     \/ \E j \in DOMAIN b : (a \o b)[i] = b[j]
      BY <1>2, <3>1, JoinedFrom
    <3>3. \A i \in DOMAIN u : \/ \E j \in DOMAIN a : u[i] = a[j]
                              \/ \E j \in DOMAIN b : u[i] = b[j]
      BY <3>1, <3>2
    <3> QED BY <3>3 DEF a
  <2>2. ASSUME NEW c \in Clients
        PROVE  (\E i \in DOMAIN u : u[i] = c) => Waiting(r, c)
    BY <2>1 DEF Waiting
  <2> HIDE DEF u
  <2>3. /\ z.backlog = <<>> /\ z.queue = u /\ z.control = r.control /\ z.haveui = r.haveui
        /\ z.command = r.command /\ z.pc = "control" /\ z.pipe = r.pipe /\ z.ready = r.ready
        /\ z.idle = r.idle /\ z.state = r.state
    <3> HIDE DEF p, r
    <3> QED BY <1>3 DEF Server, Still
  <2> HIDE DEF z, p, b, r
  <2>4. ASSUME NEW c \in Clients
        PROVE  Pair(z, s, cl[c], c)
    <3>1. Waiting(z, c) => Waiting(r, c)
      BY <2>2, <2>3 DEF Waiting
    <3> QED BY <1>1, <1>5, <2>3, <3>1, PairSame DEF Acting, Stopping
  <2> QED BY <1>1, <1>8, <2>4, AloneMoves
<1> QED BY <1>4, <1>6, <1>7, <1>8

\* A client's pipes arrive, or a client has closed its connection or its pipe.
LEMMA ControlPair ==
    ASSUME SInv, NEW s \in Servers, Control(s)
    PROVE  PInv'
<1> DEFINE r == sv[s]
           p == [r EXCEPT !.pc = "command"]
<1>1. r \in Server /\ r.pc = "control" /\ cl' = cl
  BY DEF SInv, IInv, DataOK, Control, At
<1>2. /\ p \in Server /\ p.pc = "command" /\ Still(r, p) /\ p.idle = r.idle /\ p.state = r.state
      /\ p.ready = r.ready
  BY <1>1, Places DEF Server, ServerPCs, Still
<1>3. \/ sv' = [sv EXCEPT ![s] = p]
      \/ ~p.haveui /\ sv' = [sv EXCEPT ![s] = Register(p)]
      \/ p.control = Gone /\ sv' = [sv EXCEPT ![s] = Disconnect(p)]
  BY DEF Control
<1>4. ASSUME NEW c \in Clients
      PROVE  Pair(p, s, cl[c], c)
  <2>1. Pair(r, s, cl[c], c)
    BY PInvOf
  <2> HIDE DEF p, r
  <2> QED BY <1>1, <1>2, <2>1, PairSame DEF Still, Acting, Stopping, Waiting
<1> HIDE DEF p, r
<1>5. CASE sv' = [sv EXCEPT ![s] = p]
  BY <1>1, <1>4, <1>5, AloneMoves
<1>6. CASE ~p.haveui /\ sv' = [sv EXCEPT ![s] = Register(p)]
  <2> DEFINE m == <<"setFeatures">>
             q == Register(p)
  <2>1. q = [p EXCEPT !.haveui = TRUE, !.hadanyui = TRUE, !.pipe = m] /\ m # <<>>
    BY DEF Register
  <2> HIDE DEF m, q
  <2>2. /\ q.haveui = TRUE /\ q.pipe = m /\ q.control = p.control /\ q.queue = p.queue
        /\ q.backlog = p.backlog /\ q.command = p.command /\ q.pc = "command"
        /\ q.ready = p.ready
    BY <1>2, <2>1 DEF Server
  <2>3. ASSUME NEW c \in Clients
        PROVE  Pair(q, s, cl[c], c)
    <3> DEFINE x == cl[c]
    <3>1. Pair(p, s, x, c)
      BY <1>4
    <3> HIDE DEF x
    <3>2. p.command # c /\ ~(x.server = s /\ ~x.eof /\ Talks(x)) /\ (p.control = c => Unheard(x))
      BY <1>2, <1>6, <3>1 DEF Pair, Working, Served, Queued
    <3>3. Waiting(q, c) <=> Waiting(p, c)
      BY <2>2 DEF Waiting
    <3>4. Placed(q, s, x, c) /\ Queued(q, x, c)
      BY <2>2, <3>1, <3>3 DEF Pair, Placed, Queued
    <3>5. Unheard(x) /\ x.pc # "closing" => x.pc = "reply" /\ x.reply = "none" /\ <<Asked(x)>> = m
      BY DEF Unheard, Asked, m
    <3>6. Spoken(q, x, c)
      <4>1. SUFFICES ASSUME q.control = c
                     PROVE  Spoken(q, x, c)
        BY DEF Spoken
      <4>2. CASE x.pc = "closing"
        BY <2>1, <2>2, <4>2 DEF Spoken, m
      <4>3. CASE x.pc # "closing"
        BY <2>1, <2>2, <3>2, <3>5, <4>1, <4>3 DEF Spoken
      <4> QED BY <4>2, <4>3
    <3>7. Working(q, x, c) /\ Served(q, s, x, c) /\ Stopped(q, x, c)
      BY <2>2, <3>2 DEF Working, Served, Stopped
    <3> QED BY <3>4, <3>6, <3>7 DEF Pair, x
  <2> QED BY <1>1, <1>6, <2>3, AloneMoves DEF q
<1>7. CASE p.control = Gone /\ sv' = [sv EXCEPT ![s] = Disconnect(p)]
  <2>1. ASSUME NEW c \in Clients
        PROVE  Pair(Disconnect(p), s, cl[c], c)
    <3> DEFINE q == Disconnect(p)
    <3>1. /\ q.haveui = FALSE /\ q.command = p.command /\ q.pc = "command"
          /\ (q.control = c => Waiting(p, c)) /\ (Waiting(q, c) => Waiting(p, c))
      BY <1>2, DisconnectShape
    <3> HIDE DEF q
    <3>2. p.control # c
      BY <1>7, Names
    <3>3. Pair(q, s, cl[c], c)
      BY <1>2, <1>4, <3>1, <3>2, NextPair
    <3> QED BY <3>3 DEF q
  <2> QED BY <1>1, <1>7, <2>1, AloneMoves
<1> QED BY <1>3, <1>5, <1>6, <1>7

LEMMA EOFPair ==
    ASSUME SInv, NEW s \in Servers, CommandEOF(s)
    PROVE  PInv'
<1> DEFINE r == sv[s]
           d == Disconnect(r)
           q == [d EXCEPT !.ready = {}, !.pc = "accept"]
<1>1. /\ r \in Server /\ r.pc = "command" /\ cl' = cl /\ sv' = [sv EXCEPT ![s] = q]
      /\ "command" \in r.ready /\ r.haveui /\ r.pipe = <<>>
  BY DEF SInv, IInv, DataOK, CommandEOF, At
<1>2. ASSUME NEW c \in Clients
      PROVE  /\ Pair(r, s, cl[c], c)
             /\ d.control = c => Waiting(r, c)
             /\ Waiting(d, c) => Waiting(r, c)
  BY <1>1, PInvOf, DisconnectShape
<1>3. d \in Server /\ d.haveui = FALSE /\ d.command = r.command
  BY <1>1, DisconnectShape
<1> HIDE DEF d, r
<1>4. /\ q.haveui = FALSE /\ q.command = r.command /\ q.control = d.control
      /\ q.queue = d.queue /\ q.backlog = d.backlog /\ q.pc = "accept"
  BY <1>3 DEF Server
<1> HIDE DEF q
<1>5. ASSUME NEW c \in Clients
      PROVE  Pair(q, s, cl[c], c)
  <2>1. r.control = c => cl[c].pc = "closing"
    BY <1>1, <1>2 DEF Pair, Spoken, Acting
  <2>2. (q.control = c => Waiting(r, c)) /\ (Waiting(q, c) => Waiting(r, c))
    BY <1>2, <1>4 DEF Waiting
  <2> QED BY <1>1, <1>2, <1>4, <2>1, <2>2, NextPair
<1> QED BY <1>1, <1>5, AloneMoves

\* What a command leaves between a server and its clients, and its reply.
LEMMA CommandShape ==
    ASSUME NEW r \in Server, NEW m \in Messages, NEW z \in RunCommand(m, r)
    PROVE  LET q == z[1]
           IN  /\ q.control = r.control /\ q.haveui = r.haveui /\ q.pipe = r.pipe
               /\ q.queue = r.queue /\ q.backlog = r.backlog /\ q.pc = r.pc
               /\ q.command = r.command \/ (m = "buildTargets" /\ q.command = r.control
                                              /\ r.command = NoOne /\ z[2] = "ok")
               /\ m = "stateShutdown" => Stopping(q)
               /\ m # "terminateServer" => z[2] \in {"ok", "error"}
<1> DEFINE P(q) == /\ Still(r, q) /\ q.pc = r.pc
<1>1. P(r) /\ P(Reset(r)) /\ P(ClientComplete(r))
  BY DEF Still, Reset, ClientComplete, Server
<1>2. CASE m = "setFeatures"
  <2>1. z \in SetFeatures(r)
    BY <1>2 DEF RunCommand
  <2>2. (z[1] = r \/ z[1] = Reset(r)) /\ z[2] \in {"ok", "error"}
    BY <2>1 DEF SetFeatures
  <2> QED BY <1>1, <1>2, <2>2 DEF Still
<1>3. CASE m = "updateConfig"
  <2>1. z \in UpdateConfig(r)
    BY <1>3 DEF RunCommand
  <2>2. (z[1] = r \/ z[1] = Reset(r) \/ z[1] = ClientComplete(r)) /\ z[2] \in {"ok", "error"}
    BY <2>1 DEF UpdateConfig, ClientComplete
  <2> QED BY <1>1, <1>3, <2>2 DEF Still
<1>4. CASE m = "buildTargets"
  <2>1. z \in BuildTargets(r)
    BY <1>4 DEF RunCommand
  <2>2. CASE Busy(r)
    <3>1. z[1] = r /\ z[2] = "error"
      BY <2>1, <2>2 DEF BuildTargets
    <3> QED BY <1>1, <1>4, <3>1 DEF Still
  <2>3. CASE ~Busy(r)
    <3> DEFINE w == r.idle \cup {"run"}
               q == [r EXCEPT !.command = r.control, !.idle = w]
    <3>1. z[1] = q /\ z[2] = "ok" /\ r.command = NoOne
      BY <2>1, <2>3 DEF BuildTargets, Busy
    <3> HIDE DEF w
    <3>2. /\ q.control = r.control /\ q.haveui = r.haveui /\ q.pipe = r.pipe
          /\ q.queue = r.queue /\ q.backlog = r.backlog /\ q.command = r.control /\ q.pc = r.pc
      BY DEF Server
    <3> HIDE DEF q
    <3> QED BY <1>4, <3>1, <3>2
  <2> QED BY <2>2, <2>3
<1>5. ASSUME NEW st \in {"shutdown", "forceshutdown"}
      PROVE  P(StopCooker(r, st)) /\ Stopping(StopCooker(r, st))
  <2> DEFINE p == ParserShutdown(r)
             q == StopCooker(r, st)
  <2>1. q = [p EXCEPT !.state = st]
    BY DEF StopCooker
  <2>2. p \in Server /\ P(p)
    BY ParserStill
  <2> HIDE DEF p, q
  <2>3. P(q) /\ q.state = st
    BY <2>1, <2>2 DEF Server, Still
  <2> QED BY <2>3 DEF q, Stopping
<1>6. CASE m \in {"stateShutdown", "stateForceShutdown"}
  <2>1. z[2] = "ok" /\ \E st \in {"shutdown", "forceshutdown"} : z[1] = StopCooker(r, st)
    BY <1>6 DEF RunCommand
  <2> QED BY <1>5, <1>6, <2>1 DEF Still
<1>7. CASE m = "terminateServer"
  <2> DEFINE q == [r EXCEPT !.quit = TRUE]
  <2>1. z[1] = q
    BY <1>7 DEF RunCommand
  <2>2. P(q)
    BY DEF Server, Still
  <2> HIDE DEF q
  <2> QED BY <1>7, <2>1, <2>2 DEF Still
<1> QED BY <1>2, <1>3, <1>4, <1>6, <1>7 DEF Messages

\* The client that is served has its reply.
LEMMA ReplyPair ==
    ASSUME NEW r, NEW q, NEW s, NEW x, NEW y, NEW c, NEW m, NEW a, Pair(r, s, x, c), Calm(x),
           r.control = c, r.haveui, r.pipe # <<>>, m = Head(r.pipe), c # NoOne,
           q.control = c, q.haveui, q.pipe = Tail(r.pipe), q.pc = "idle",
           r.pc = "command", "command" \in r.ready,
           Waiting(q, c) => Waiting(r, c),
           q.command = r.command \/ (m = "buildTargets" /\ a = "ok"),
           m = "stateShutdown" => Stopping(q),
           m # "terminateServer" => a \in {"ok", "error"},
           y.pc = x.pc, y.server = x.server, y.stops = x.stops, y.eof = x.eof, y.reply = a
    PROVE  Pair(q, s, y, c) /\ Calm(y)
<1>1. x.pc \in Connected /\ x.server = s
  BY DEF Pair, Placed
<1>2. \A n : Head(<<n>>) = n /\ Tail(<<n>>) = <<>>
  OBVIOUS
<1>3. x.pc \in {"reply", "setup", "sent", "stopping"} =>
         m = Asked(x) /\ q.pipe = <<>> /\ x.reply = "none"
  BY <1>2 DEF Pair, Spoken
<1>4. x.pc # "wait"
  BY DEF Pair, Spoken
<1>5. x.pc = "closing" => q.pipe = <<>> /\ m = "setFeatures"
  BY <1>2 DEF Pair, Spoken
<1>6. x.pc = "leaving" => q.pipe = <<>> /\ m = "terminateServer"
  BY <1>2 DEF Pair, Spoken
<1>7. Calm(y)
  BY <1>1 DEF Calm
<1>8. Placed(q, s, y, c) /\ Queued(q, y, c) /\ Served(q, s, y, c)
  BY <1>1 DEF Placed, Queued, Served
<1>9. x.pc \in {"reply", "setup", "sent", "stopping"} =>
         /\ m \in {"setFeatures", "updateConfig", "buildTargets", "stateShutdown",
                   "stateForceShutdown"}
         /\ m = "buildTargets" <=> x.pc = "sent"
         /\ x.pc = "stopping" /\ x.stops = 1 => m = "stateShutdown"
  BY <1>3 DEF Asked
<1>10. Spoken(q, y, c)
  <2>1. x.pc \in {"reply", "setup", "sent", "stopping"} => a # "none"
    BY <1>9
  <2> QED BY <1>3, <1>4, <1>5, <1>6, <2>1 DEF Spoken, Acting
<1>11. Working(q, y, c)
  <2>1. CASE q.command = r.command
    <3>1. q.command = c => x.pc = "stopping"
      BY <1>3, <1>4, <2>1 DEF Pair, Working
    <3> QED BY <3>1 DEF Working
  <2>2. CASE m = "buildTargets" /\ a = "ok"
    <3>1. x.pc = "sent"
      BY <1>1, <1>4, <1>5, <1>6, <1>9, <2>2 DEF Connected
    <3> QED BY <2>2, <3>1 DEF Working
  <2> QED BY <2>1, <2>2
<1>12. Stopped(q, y, c)
  BY <1>4, <1>9 DEF Stopped, Told
<1> QED BY <1>7, <1>8, <1>10, <1>11, <1>12 DEF Pair

LEMMA CommandPair ==
    ASSUME SInv, NEW s \in Servers, HandleCommand(s)
    PROVE  PInv'
<1> DEFINE r == sv[s]
           p == Tail(r.pipe)
           m == Head(r.pipe)
           g == [r EXCEPT !.pipe = p, !.pc = "idle"]
<1>1. /\ r \in Server /\ r.pc = "command" /\ "command" \in r.ready /\ r.haveui /\ r.pipe # <<>>
      /\ cl \in [Clients -> Client] /\ sv \in [Servers -> Server]
  BY DEF SInv, IInv, DataOK, HandleCommand, At
<1>2. m \in Messages /\ p \in Seq(Messages)
  <2>1. r.pipe \in Seq(Messages)
    BY <1>1, ServerFields
  <2> QED BY <1>1, <2>1
<1>3. PICK z \in RunCommand(m, g) :
          /\ sv' = [sv EXCEPT ![s] = z[1]]
          /\ cl' = IF r.control \in Clients THEN [cl EXCEPT ![r.control].reply = z[2]] ELSE cl
  BY DEF HandleCommand
<1> DEFINE q == z[1]
<1> HIDE DEF p, m
<1>4. /\ g \in Server /\ g.control = r.control /\ g.haveui = r.haveui /\ g.pipe = p
      /\ g.queue = r.queue /\ g.backlog = r.backlog /\ g.command = r.command /\ g.pc = "idle"
  <2> HIDE DEF r
  <2> QED BY <1>1, <1>2, Places DEF Server, ServerPCs
<1> HIDE DEF g
<1>5. /\ q.control = r.control /\ q.haveui = r.haveui /\ q.pipe = p
      /\ q.queue = r.queue /\ q.backlog = r.backlog /\ q.pc = "idle"
      /\ q.command = r.command \/ (m = "buildTargets" /\ q.command = r.control /\ z[2] = "ok")
      /\ m = "stateShutdown" => Stopping(q)
      /\ m # "terminateServer" => z[2] \in {"ok", "error"}
  BY <1>2, <1>4, CommandShape
<1>6. sv'[s] = q /\ \A t \in Servers \ {s} : sv'[t] = sv[t]
  BY <1>1, <1>3
<1> HIDE DEF q
<1>7. \A c \in Clients : Waiting(q, c) <=> Waiting(r, c)
  BY <1>5 DEF Waiting
<1>8. \A c \in Clients \ {r.control} : cl'[c] = cl[c]
  BY <1>1, <1>3
<1>9. ASSUME NEW c \in Clients \ {r.control}
      PROVE  Calm(cl'[c]) /\ \A t \in Servers : Pair(sv'[t], t, cl'[c], c)
  <2>1. Calm(cl[c]) /\ Pair(r, s, cl[c], c)
    BY PInvOf
  <2> HIDE DEF r
  <2>2. r.command # c /\ r.control # c
    BY <2>1 DEF Pair, Working
  <2>3. Pair(q, s, cl[c], c)
    BY <1>1, <1>5, <1>7, <2>1, <2>2, PairSame DEF Acting
  <2> QED BY <1>6, <1>8, <2>1, <2>3, PInvOf
<1>10. ASSUME NEW c \in Clients, c = r.control
       PROVE  Calm(cl'[c]) /\ \A t \in Servers : Pair(sv'[t], t, cl'[c], c)
  <2> DEFINE x == cl[c]
             y == [x EXCEPT !.reply = z[2]]
  <2>1. x \in Client /\ cl' = [cl EXCEPT ![c] = y] /\ Calm(x) /\ Pair(r, s, x, c) /\ c # NoOne
    BY <1>1, <1>3, <1>10, PInvOf
  <2>2. cl'[c] = y
    BY <1>1, <2>1
  <2> HIDE DEF x, r
  <2>3. y.pc = x.pc /\ y.server = x.server /\ y.stops = x.stops /\ y.eof = x.eof
        /\ y.reply = z[2]
    BY <2>1 DEF Client
  <2> HIDE DEF y
  <2>4. Pair(q, s, y, c) /\ Calm(y)
    BY <1>1, <1>5, <1>7, <1>10, <2>1, <2>3, ReplyPair DEF m, p
  <2>5. x.server = s
    BY <1>10, <2>1 DEF Pair, Placed
  <2>6. ASSUME NEW t \in Servers \ {s}
        PROVE  Pair(sv'[t], t, y, c)
    <3>1. Unknown(sv[t], c)
      BY <2>5, PInvOf, NotPlaced DEF x
    <3> QED BY <1>6, <2>3, <2>5, <3>1, PairUnknown
  <2> QED BY <1>6, <2>2, <2>4, <2>6
<1> QED BY <1>9, <1>10 DEF PInv

\* A server ends.
LEMMA EndPair ==
    ASSUME SInv, NEW s \in Servers,
           ServerFails(s) \/ ServerDies(s) \/ Relock(s) \/ CloseLock(s)
    PROVE  PInv'
<1> DEFINE F(l) == [Fresh EXCEPT !.pc = l]
<1>1. ASSUME NEW l, NEW c \in Clients
      PROVE  Unknown(F(l), c) /\ F(l).pc = l
  BY Names DEF Unknown, Fresh, Waiting
<1> HIDE DEF F
<1>2. cl \in [Clients -> Client] /\ sv \in [Servers -> Server]
  BY DEF SInv, IInv, DataOK
<1>3. CASE CloseLock(s)
  <2>1. sv' = [sv EXCEPT ![s] = F("relock")] /\ cl' = cl
    BY <1>3 DEF CloseLock, F
  <2>2. ASSUME NEW c \in Clients
        PROVE  Pair(F("relock"), s, cl[c], c)
    BY <1>1, PairUnknown
  <2> QED BY <2>1, <2>2, AloneMoves
<1>4. CASE Ended(s)
  <2>1. sv'[s] = F("off") /\ \A t \in Servers \ {s} : sv'[t] = sv[t]
    BY <1>2, <1>4 DEF Ended, F
  <2>2. ASSUME NEW c \in Clients
        PROVE  Flagged(cl[c], cl'[c]) /\ (cl'[c].server # s \/ cl'[c].eof \/ ~Talks(cl'[c]))
    <3> DEFINE x == cl[c]
               y == [x EXCEPT !.eof = TRUE]
    <3>1. x \in Client /\ cl'[c] = IF x.server = s /\ x.pc \in Connected THEN y ELSE x
      BY <1>2, <1>4 DEF Ended
    <3> HIDE DEF x
    <3>2. y.eof /\ Flagged(x, y) /\ Flagged(x, x)
      BY <3>1 DEF Flagged, Client
    <3> HIDE DEF y
    <3> QED BY <3>1, <3>2 DEF x, Talks, Connected
  <2>3. ASSUME NEW c \in Clients
        PROVE  Pair(sv'[s], s, cl'[c], c)
    BY <1>1, <2>1, <2>2, PairUnknown
  <2> QED BY <2>1, <2>2, <2>3, ServerMoves
<1> QED BY <1>3, <1>4 DEF ServerFails, ServerDies, Relock

\* Every step of a server keeps the account.
LEMMA ServerPair ==
    ASSUME SInv, NEW s \in Servers,
           \/ ServerSteps(s) \/ ServerFails(s) \/ ServerDies(s) \/ TimesOut(s) \/ LostEnd(s)
           \/ \E f \in {"run", "build"} : IdleFails(s, f)
    PROVE  PInv'
<1>1. CASE LostEnd(s)
  BY <1>1 DEF LostEnd, SInv, PInv
<1>2. CASE ServerStarts(s) \/ TimesOut(s) \/ Quits(s) \/ NoCommand(s)
  BY <1>2, TurnPair
<1>3. CASE Accept(s) \/ Control(s) \/ CommandEOF(s) \/ HandleCommand(s)
  BY <1>3, AcceptPair, ControlPair, EOFPair, CommandPair
<1>4. CASE IdleRound(s) \/ BuildGoesOn(s) \/ RunStopped(s) \/ BuildEnds(s)
  BY <1>4, IdlePair
<1>5. CASE Parse(s) \/ StartBuild(s)
  BY <1>5, RunPair
<1>6. CASE (\E f \in {"run", "build"} : IdleFails(s, f)) \/ UnlinkSocket(s) \/ CookerShutdown(s)
  BY <1>6, DownPair
<1>7. CASE ServerFails(s) \/ ServerDies(s) \/ Relock(s) \/ CloseLock(s)
  BY <1>7, EndPair
<1> QED BY <1>1, <1>2, <1>3, <1>4, <1>5, <1>6, <1>7 DEF ServerSteps

LEMMA InitPInv == Init => PInv
<1> SUFFICES ASSUME Init PROVE PInv
  OBVIOUS
<1>1. PICK killers \in SUBSET Killers :
          cl = [c \in Clients |-> [NewClient EXCEPT !.kills = c \in killers]]
  BY DEF Init
<1>2. ASSUME NEW c \in Clients
      PROVE  cl[c].pc = "try" /\ cl[c].reply = "none" /\ cl[c].stops = 0
  BY <1>1 DEF NewClient
<1>3. ASSUME NEW s \in Servers, NEW c \in Clients
      PROVE  Unknown(sv[s], c)
  BY Names DEF Init, Unknown, Fresh, Waiting
<1>4. ASSUME NEW s \in Servers, NEW c \in Clients
      PROVE  Pair(sv[s], s, cl[c], c)
  BY <1>2, <1>3, PairUnknown DEF Talks
<1> QED BY <1>2, <1>4 DEF PInv, Calm

LEMMA StepSInv == SInv /\ [Next]_vars => SInv'
<1> SUFFICES ASSUME SInv, [Next]_vars PROVE SInv'
  OBVIOUS
<1>1. IInv'
  BY StepIInv DEF SInv
<1>2. CASE UNCHANGED vars
  BY <1>1, <1>2 DEF vars, SInv, PInv
<1>3. ASSUME NEW c \in Clients,
             ClientSteps(c) \/ NotReady(c) \/ NoReply(c) \/ Interrupt(c) \/ ClientDies(c)
      PROVE  SInv'
  BY <1>1, <1>3, ClientPair DEF SInv
<1>4. ASSUME NEW s \in Servers,
             \/ ServerSteps(s) \/ ServerFails(s) \/ ServerDies(s) \/ TimesOut(s) \/ LostEnd(s)
             \/ \E f \in {"run", "build"} : IdleFails(s, f)
      PROVE  SInv'
  BY <1>1, <1>4, ServerPair DEF SInv
<1> QED BY <1>2, <1>3, <1>4 DEF Next, Done

LEMMA SInvariance == Spec => []SInv
<1>1. Init => SInv
  BY InitIInv, InitPInv DEF SInv
<1> QED BY <1>1, StepSInv, PTL DEF Spec

-----------------------------------------------------------------------------
(* A build begins in one step only *)

Begun(s) == "build" \in sv'[s].idle => "build" \in sv[s].idle

LEMMA ClientBegun ==
    ASSUME SInv, NEW s \in Servers, NEW c \in Clients,
           ClientSteps(c) \/ NotReady(c) \/ NoReply(c) \/ Interrupt(c) \/ ClientDies(c)
    PROVE  Begun(s)
<1>1. sv \in [Servers -> Server] /\ sv[s] \in Server
  BY DEF SInv, IInv, DataOK
<1>2. CASE sv' = sv
  BY <1>2 DEF Begun
<1>3. CASE \E l, t : Close(c, l, t)
  <2>1. sv' = sv \/ sv' = [sv EXCEPT ![cl[c].server] = Departed(@, c)]
    BY <1>3 DEF Close
  <2>2. Departed(sv[s], c).idle = sv[s].idle
    BY <1>1, DepartedPair
  <2>3. sv'[s] = sv[s] \/ sv'[s] = Departed(sv[s], c)
    BY <1>1, <2>1
  <2> QED BY <2>2, <2>3 DEF Begun
<1>4. CASE \E n, m : sv' = [sv EXCEPT ![n].pipe = Append(@, m)]
  <2>1. PICK n, m : sv' = [sv EXCEPT ![n].pipe = Append(@, m)]
    BY <1>4
  <2> DEFINE p == Append(sv[n].pipe, m)
  <2>2. sv'[s] = sv[s] \/ sv'[s] = [sv[s] EXCEPT !.pipe = p]
    BY <1>1, <2>1
  <2> HIDE DEF p
  <2> QED BY <1>1, <2>2 DEF Begun, Server
<1>5. CASE \E n : sv' = [sv EXCEPT ![n].backlog = Append(@, c)]
  <2>1. PICK n : sv' = [sv EXCEPT ![n].backlog = Append(@, c)]
    BY <1>5
  <2> DEFINE p == Append(sv[n].backlog, c)
  <2>2. sv'[s] = sv[s] \/ sv'[s] = [sv[s] EXCEPT !.backlog = p]
    BY <1>1, <2>1
  <2> HIDE DEF p
  <2> QED BY <1>1, <2>2 DEF Begun, Server
<1>6. CASE \E n : sv' = [sv EXCEPT ![n] = Fresh]
  <2>1. Fresh.idle = {}
    BY DEF Fresh
  <2>2. sv'[s] = sv[s] \/ sv'[s] = Fresh
    BY <1>1, <1>6
  <2> QED BY <2>1, <2>2 DEF Begun
<1>7. CASE LockBitbake(c) \/ ServerReady(c) \/ NotReady(c) \/ Look(c)
  BY <1>2, <1>7 DEF LockBitbake, ServerReady, NotReady, Look
<1>8. CASE Leave(c) \/ Retry(c)
  BY <1>3, <1>8 DEF Leave, Retry
<1>9. CASE \/ WaitLock(c) \/ Unlock(c) \/ EndEvent(c) \/ Terminate(c) \/ CloseConnection(c)
           \/ NotRunning(c) \/ ClientDies(c) \/ NoReply(c)
  BY <1>2, <1>8, <1>9
     DEF WaitLock, Unlock, EndEvent, Terminate, CloseConnection, NotRunning, ClientDies, NoReply
<1>10. CASE StartServer(c)
  BY <1>6, <1>10 DEF StartServer
<1>11. CASE Connect(c)
  BY <1>5, <1>8, <1>11 DEF Connect
<1>12. CASE TakeReply(c) \/ SendTerminate(c)
  BY <1>2, <1>4, <1>8, <1>12 DEF TakeReply, SendTerminate, Send
<1>13. CASE Interrupt(c)
  BY <1>4, <1>8, <1>13 DEF Interrupt
<1> QED BY <1>7, <1>9, <1>10, <1>11, <1>12, <1>13 DEF ClientSteps

LEMMA RoundBegun ==
    ASSUME SInv, NEW s \in Servers, NEW r \in Server, NEW f \in BOOLEAN, EndRound(s, r, f)
    PROVE  sv'[s].idle = r.idle
<1> DEFINE h == ~r.haveui /\ (r.held \/ f)
           q == [r EXCEPT !.held = h]
           R == Readable(q)
<1>1. sv'[s] = [q EXCEPT !.ready = R, !.pc = "accept"]
  BY DEF EndRound, SInv, IInv, DataOK
<1> HIDE DEF h, R
<1> QED BY <1>1 DEF Server

LEMMA FinishBegun ==
    ASSUME SInv, NEW s \in Servers, NEW r \in Server, Finish(s, r)
    PROVE  sv'[s].idle = r.idle
<1> DEFINE q == [r EXCEPT !.command = NoOne, !.state = "initial"]
<1>1. EndRound(s, q, TRUE) /\ q \in Server /\ q.idle = r.idle
  BY DEF Finish, Server
<1> HIDE DEF q
<1> QED BY <1>1, RoundBegun

LEMMA CommandIdle ==
    ASSUME NEW r \in Server, NEW m \in Messages, NEW z \in RunCommand(m, r)
    PROVE  z[1].idle = r.idle \/ z[1].idle = r.idle \cup {"run"}
<1>1. \A st : StopCooker(r, st).idle = r.idle
  BY DEF StopCooker, ParserShutdown, Server
<1>2. Reset(r).idle = r.idle /\ ClientComplete(r).idle = r.idle
  BY DEF Reset, ClientComplete, Server
<1>3. CASE m = "buildTargets"
  <2> DEFINE w == r.idle \cup {"run"}
             q == [r EXCEPT !.command = r.control, !.idle = w]
  <2>1. z[1] = r \/ z[1] = q
    BY <1>3 DEF RunCommand, BuildTargets
  <2> HIDE DEF w
  <2>2. q.idle = w
    BY DEF Server
  <2> HIDE DEF q
  <2> QED BY <2>1, <2>2 DEF w
<1>4. CASE m = "setFeatures"
  BY <1>2, <1>4 DEF RunCommand, SetFeatures
<1>5. CASE m = "updateConfig"
  <2>1. z \in UpdateConfig(r)
    BY <1>5 DEF RunCommand
  <2>2. z[1] = r \/ z[1] = Reset(r) \/ z[1] = ClientComplete(r)
    BY <2>1 DEF UpdateConfig, ClientComplete
  <2> QED BY <1>2, <2>2
<1>6. CASE m \in {"stateShutdown", "stateForceShutdown"}
  BY <1>1, <1>6 DEF RunCommand
<1>7. CASE m = "terminateServer"
  BY <1>7 DEF RunCommand, Server
<1> QED BY <1>3, <1>4, <1>5, <1>6, <1>7 DEF Messages

\* A server's step is its own.
LEMMA ServerElse ==
    ASSUME SInv, NEW t \in Servers, NEW s \in Servers, s # t,
           \/ ServerSteps(t) \/ ServerFails(t) \/ ServerDies(t) \/ TimesOut(t) \/ LostEnd(t)
           \/ \E f \in {"run", "build"} : IdleFails(t, f)
    PROVE  sv'[s] = sv[s]
<1>1. sv \in [Servers -> Server]
  BY DEF SInv, IInv, DataOK
<1>2. CASE \/ IdleRound(t) \/ BuildGoesOn(t) \/ RunStopped(t) \/ BuildEnds(t)
           \/ Parse(t) \/ StartBuild(t)
  <2>1. sv' = [sv EXCEPT ![t].ready = Readable(sv[t]), ![t].pc = "accept"]
        \/ \E q : sv' = [sv EXCEPT ![t] = q]
    BY <1>2 DEF IdleRound, BuildGoesOn, RunStopped, BuildEnds, Parse, StartBuild, EndRound, Finish
  <2> QED BY <1>1, <2>1
<1>3. CASE \/ ServerStarts(t) \/ TimesOut(t) \/ Quits(t) \/ NoCommand(t) \/ LostEnd(t)
           \/ Accept(t) \/ Control(t) \/ CommandEOF(t) \/ HandleCommand(t)
           \/ UnlinkSocket(t) \/ CookerShutdown(t) \/ CloseLock(t)
           \/ ServerFails(t) \/ ServerDies(t) \/ Relock(t)
           \/ \E f \in {"run", "build"} : IdleFails(t, f)
  BY <1>1, <1>3 DEF ServerStarts, TimesOut, Quits, NoCommand, LostEnd, Accept, Control, CommandEOF,
     HandleCommand, UnlinkSocket, CloseSocket, CookerShutdown, CloseLock, ServerFails, ServerDies,
     Relock, Ended, IdleFails
<1> QED BY <1>2, <1>3 DEF ServerSteps

LEMMA ServerBegun ==
    ASSUME SInv, NEW s \in Servers, ~StartBuild(s),
           \/ ServerSteps(s) \/ ServerFails(s) \/ ServerDies(s) \/ TimesOut(s) \/ LostEnd(s)
           \/ \E f \in {"run", "build"} : IdleFails(s, f)
    PROVE  Begun(s)
<1> DEFINE r == sv[s]
<1>1. sv \in [Servers -> Server] /\ r \in Server
  BY DEF SInv, IInv, DataOK
<1>2. ASSUME NEW q, sv' = [sv EXCEPT ![s] = q], "build" \in q.idle => "build" \in r.idle
      PROVE  Begun(s)
  BY <1>1, <1>2 DEF Begun
<1>3. CASE LostEnd(s)
  BY <1>3 DEF LostEnd, Begun
<1>4. CASE ServerStarts(s) \/ TimesOut(s) \/ Quits(s) \/ NoCommand(s)
  <2>1. PICK q : sv' = [sv EXCEPT ![s] = q] /\ (q = [r EXCEPT !.quit = TRUE]
                    \/ \E l : q = [r EXCEPT !.pc = l])
    BY <1>4 DEF ServerStarts, TimesOut, Quits, NoCommand
  <2> HIDE DEF r
  <2>2. q.idle = r.idle
    BY <1>1, <2>1 DEF Server
  <2> QED BY <1>2, <2>1, <2>2
<1>5. CASE Accept(s)
  <2> DEFINE p == [r EXCEPT !.pc = "control"]
  <2>1. p.idle = r.idle
    BY <1>1 DEF Server
  <2>2. p \in Server
    BY <1>1 DEF Server, ServerPCs, Rounds
  <2>3. ASSUME NEW h, NEW t
        PROVE  /\ [p EXCEPT !.backlog = <<>>, !.control = h, !.queue = t].idle = p.idle
               /\ [p EXCEPT !.backlog = <<>>, !.queue = t].idle = p.idle
    <3> HIDE DEF p
    <3> QED BY <2>2 DEF Server
  <2>4. \/ sv' = [sv EXCEPT ![s] = p]
        \/ sv' = [sv EXCEPT ![s] = [p EXCEPT !.backlog = <<>>, !.control = Head(p.backlog),
                                             !.queue = p.queue \o Tail(p.backlog)]]
        \/ sv' = [sv EXCEPT ![s] = [p EXCEPT !.backlog = <<>>, !.queue = p.queue \o p.backlog]]
    BY <1>5 DEF Accept
  <2> HIDE DEF p, r
  <2> QED BY <1>2, <2>1, <2>3, <2>4
<1>6. ASSUME NEW p \in Server
      PROVE  Disconnect(p).idle = p.idle /\ Disconnect(p) \in Server
  <2> DEFINE n == Len(p.queue)
             u == IF p.haveui THEN ClientComplete(p) ELSE p
             d == [u EXCEPT !.haveui = FALSE, !.pipe = <<>>, !.control = NoOne]
             e == p.queue[n]
             k == SubSeq(p.queue, 1, n - 1)
             b == d.quit \/ (~Timeout /\ p.backlog = <<>>)
  <2>1. u \in Server /\ u.idle = p.idle
    BY CompleteOK DEF SameLoop
  <2>2. Disconnect(p) = IF n > 0 THEN [d EXCEPT !.control = e, !.queue = k]
                        ELSE [d EXCEPT !.quit = b]
    BY DEF Disconnect
  <2> HIDE DEF u
  <2>3. d \in Server /\ d.idle = p.idle
    BY <2>1, CutOffOK DEF SameLoop
  <2> HIDE DEF d, e, k, b, n
  <2>4. Disconnect(p).idle = p.idle
    BY <2>2, <2>3 DEF Server
  <2> QED BY <2>4, DisconnectShape
<1>7. CASE Control(s)
  <2> DEFINE p == [r EXCEPT !.pc = "command"]
  <2>1. p \in Server /\ p.idle = r.idle
    BY <1>1 DEF Server, ServerPCs, Rounds
  <2>2. PICK q : /\ sv' = [sv EXCEPT ![s] = q]
                 /\ q = p \/ q = Register(p) \/ q = Disconnect(p)
    BY <1>7 DEF Control
  <2> HIDE DEF p, r
  <2>3. q.idle = r.idle
    BY <1>6, <2>1, <2>2 DEF Server, Register
  <2> QED BY <1>2, <2>2, <2>3
<1>8. CASE CommandEOF(s)
  <2> DEFINE d == Disconnect(r)
             q == [d EXCEPT !.ready = {}, !.pc = "accept"]
  <2>1. sv' = [sv EXCEPT ![s] = q]
    BY <1>8 DEF CommandEOF
  <2>2. d \in Server /\ d.idle = r.idle
    BY <1>1, <1>6
  <2> HIDE DEF d, r
  <2>3. q.idle = r.idle
    BY <2>2 DEF Server
  <2> HIDE DEF q
  <2> QED BY <1>2, <2>1, <2>3
<1>9. CASE HandleCommand(s)
  <2> DEFINE m == Head(r.pipe)
             p == Tail(r.pipe)
             g == [r EXCEPT !.pipe = p, !.pc = "idle"]
  <2>1. PICK z \in RunCommand(m, g) : sv' = [sv EXCEPT ![s] = z[1]]
    BY <1>9 DEF HandleCommand
  <2>2. r.pipe \in Seq(Messages) /\ r.pipe # <<>>
    BY <1>1, <1>9, ServerFields DEF HandleCommand
  <2>3. m \in Messages /\ p \in Seq(Messages)
    BY <2>2
  <2> HIDE DEF m, p, r
  <2>4. g \in Server /\ g.idle = r.idle
    BY <1>1, <2>3 DEF Server, ServerPCs, Rounds
  <2> HIDE DEF g
  <2>5. z[1].idle = g.idle \/ z[1].idle = g.idle \cup {"run"}
    BY <2>3, <2>4, CommandIdle
  <2>6. "build" \in z[1].idle => "build" \in r.idle
    BY <2>4, <2>5
  <2> QED BY <1>2, <2>1, <2>6
<1>10. CASE IdleRound(s) \/ BuildGoesOn(s)
  <2>1. CASE EndRound(s, r, FALSE)
    <3>1. sv'[s].idle = r.idle
      BY <1>1, <2>1, RoundBegun
    <3> QED BY <3>1 DEF Begun
  <2>2. CASE sv' = [sv EXCEPT ![s].ready = Readable(sv[s]), ![s].pc = "accept"]
    <3> DEFINE R == Readable(r)
               q == [r EXCEPT !.ready = R, !.pc = "accept"]
    <3>1. sv' = [sv EXCEPT ![s] = q]
      BY <2>2
    <3> HIDE DEF R, r
    <3>2. q.idle = r.idle
      BY <1>1 DEF Server
    <3> HIDE DEF q
    <3> QED BY <1>2, <3>1, <3>2
  <2> QED BY <1>10, <2>1, <2>2 DEF IdleRound, BuildGoesOn
<1>11. CASE RunStopped(s)
  <2> DEFINE p == ParserShutdown(r)
             q == [p EXCEPT !.idle = @ \ {"run"}]
  <2>1. "run" \in r.idle /\ Finish(s, q)
    BY <1>11 DEF RunStopped
  <2>2. p \in Server /\ "run" \in p.idle
    BY <1>1, <2>1, ParserStill
  <2> HIDE DEF p
  <2>3. q \in Server /\ q.idle = {}
    BY <2>2, IdleStill
  <2> HIDE DEF q
  <2>4. sv'[s].idle = {}
    BY <2>1, <2>3, FinishBegun
  <2> QED BY <2>4 DEF Begun
<1>12. CASE BuildEnds(s)
  <2> DEFINE q == [r EXCEPT !.idle = @ \ {"build"}]
  <2>1. "build" \in r.idle
    BY <1>12 DEF BuildEnds
  <2> QED BY <2>1 DEF Begun
<1>13. CASE Parse(s)
  <2> DEFINE p == [r EXCEPT !.state = "parsing", !.parser = "live", !.baseconfig_valid = TRUE]
             u == [p EXCEPT !.state = "running", !.parser = "done"]
             w == [p EXCEPT !.parser = "done"]
             q == [w EXCEPT !.idle = @ \ {"run"}]
  <2>1. EndRound(s, p, FALSE) \/ EndRound(s, u, FALSE)
        \/ Finish(s, [p EXCEPT !.parser = "done", !.idle = @ \ {"run"}])
    BY <1>13 DEF Parse
  <2>2. p \in Server /\ p.idle = r.idle
    BY <1>1 DEF Server
  <2>3. [p EXCEPT !.parser = "done", !.idle = @ \ {"run"}] = q
    BY <2>2 DEF Server
  <2>4. "run" \in r.idle
    BY <1>13 DEF Parse
  <2> HIDE DEF p, r
  <2>5. u \in Server /\ u.idle = p.idle /\ w \in Server /\ w.idle = p.idle
    BY <2>2 DEF Server
  <2> HIDE DEF u, w
  <2>6. q \in Server /\ q.idle = {}
    BY <2>2, <2>4, <2>5, IdleStill
  <2> HIDE DEF q
  <2>7. sv'[s].idle = r.idle \/ sv'[s].idle = {}
    BY <2>1, <2>2, <2>3, <2>5, <2>6, RoundBegun, FinishBegun
  <2> QED BY <2>7 DEF Begun, r
<1>14. ASSUME NEW f \in {"run", "build"}, IdleFails(s, f)
       PROVE  Begun(s)
  <2> DEFINE p == [r EXCEPT !.idle = @ \ {f}]
             q == [p EXCEPT !.quit = TRUE]
  <2>1. f \in r.idle /\ sv' = [sv EXCEPT ![s] = q]
    BY <1>14 DEF IdleFails
  <2>2. p \in Server /\ p.idle = {}
    BY <1>1, <2>1, IdleStill
  <2> HIDE DEF p
  <2>3. q.idle = {}
    BY <2>2 DEF Server
  <2> HIDE DEF q
  <2> QED BY <1>2, <2>1, <2>3
<1>15. CASE UnlinkSocket(s)
  <2> DEFINE q == [r EXCEPT !.pc = "shutdown", !.backlog = <<>>]
  <2>1. sv' = [sv EXCEPT ![s] = q]
    BY <1>15 DEF UnlinkSocket, CloseSocket
  <2> HIDE DEF r
  <2>2. q.idle = r.idle
    BY <1>1 DEF Server
  <2> HIDE DEF q
  <2> QED BY <1>2, <2>1, <2>2
<1>16. CASE CookerShutdown(s)
  <2> DEFINE p == ParserShutdown(r)
             q == [p EXCEPT !.pc = "close"]
  <2>1. sv' = [sv EXCEPT ![s] = q]
    BY <1>16 DEF CookerShutdown
  <2>2. p \in Server /\ p.idle = r.idle
    BY <1>1, ParserStill
  <2> HIDE DEF p, r
  <2>3. q.idle = r.idle
    BY <2>2 DEF Server
  <2> HIDE DEF q
  <2> QED BY <1>2, <2>1, <2>3
<1>17. CASE ServerFails(s) \/ ServerDies(s) \/ Relock(s) \/ CloseLock(s)
  <2>1. \E l : sv' = [sv EXCEPT ![s] = [Fresh EXCEPT !.pc = l]]
    BY <1>17 DEF ServerFails, ServerDies, Relock, CloseLock, Ended
  <2>2. \A l : [Fresh EXCEPT !.pc = l].idle = {}
    BY DEF Fresh
  <2> QED BY <1>2, <2>1, <2>2
<1> QED BY <1>3, <1>4, <1>5, <1>7, <1>8, <1>9, <1>10, <1>11, <1>12, <1>13, <1>14, <1>15, <1>16,
           <1>17 DEF ServerSteps

LEMMA StopStep ==
    ASSUME SInv, [Next]_vars, NEW c \in Clients, NEW s \in Servers,
           cl[c].pc = "wait", cl[c].stops = 1, sv[s].command = c, "run" \in sv[s].idle
    PROVE  "build" \notin sv'[s].idle
<1>1. Stopping(sv[s])
  BY PInvOf DEF Pair, Stopped, Told
<1>2. "build" \notin sv[s].idle
  <2>1. sv[s].idle \in {{}, {"run"}, {"build"}}
    BY PInvOf, ServerFields
  <2> QED BY <2>1
<1>3. ~StartBuild(s)
  BY <1>1 DEF StartBuild, Stopping
<1>4. Begun(s)
  <2>1. CASE UNCHANGED vars
    BY <2>1 DEF vars, Begun
  <2>2. ASSUME NEW d \in Clients,
               ClientSteps(d) \/ NotReady(d) \/ NoReply(d) \/ Interrupt(d) \/ ClientDies(d)
        PROVE  Begun(s)
    BY <2>2, ClientBegun
  <2>3. ASSUME NEW t \in Servers,
               \/ ServerSteps(t) \/ ServerFails(t) \/ ServerDies(t) \/ TimesOut(t) \/ LostEnd(t)
               \/ \E f \in {"run", "build"} : IdleFails(t, f)
        PROVE  Begun(s)
    <3>1. CASE t = s
      BY <1>3, <2>3, <3>1, ServerBegun
    <3>2. CASE t # s
      <4>1. sv'[s] = sv[s]
        BY <2>3, <3>2, ServerElse
      <4> QED BY <4>1 DEF Begun
    <3> QED BY <3>1, <3>2
  <2> QED BY <2>1, <2>2, <2>3 DEF Next, Done
<1> QED BY <1>2, <1>4 DEF Begun

\* Once a UI has its reply to stateShutdown, no step of anybody takes its command on to build.
THEOREM StopTheorem == Spec => StopHonoured
<1>1. ASSUME SInv, [Next]_vars
      PROVE  \A c \in Clients, s \in Servers :
                /\ cl[c].pc = "wait" /\ cl[c].stops = 1
                /\ sv[s].command = c /\ "run" \in sv[s].idle
                => "build" \notin sv'[s].idle
  BY <1>1, StopStep
<1> QED BY <1>1, SInvariance, PTL DEF Spec, StopHonoured
=============================================================================
