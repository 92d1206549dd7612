---------------------------- MODULE PRServProofs ----------------------------
(***************************************************************************)
(* The numbers of the PR server, for any checksums, requests and signals.  *)
(*                                                                         *)
(* A number is computed from max(value), which exists because the numbers  *)
(* in the table are bounded, and two rows only share a number that was     *)
(* imported.  The file has the same properties, and is behind the table    *)
(* only between an answer and its commit.                                  *)
(***************************************************************************)
EXTENDS PRServ, TLAPS, WellFoundedInduction

TableOK(t, I) ==
    /\ t \in Table
    /\ \E b \in Nat : \A k \in Checksums : t[k] # NoRow => t[k] <= b
    /\ \A k, l \in Checksums : k # l /\ t[k] # NoRow /\ t[k] = t[l] => t[k] \in I

\* The last number answered is in the table, or one above it.
GivenOK ==
    IF given.checksum = NoRow THEN given.value = 0
    ELSE rows[given.checksum] # NoRow /\ given.value <= rows[given.checksum]

CommitOK ==
    /\ handler = "sync" /\ ~dirty => disk = rows
    /\ main = "off" => disk = rows

IInv ==
    /\ TypeOK /\ TableOK(rows, imported) /\ TableOK(disk, imported)
    /\ AnswersCommitted /\ CommitOK /\ GivenOK /\ NumbersRise

-----------------------------------------------------------------------------
(* The table *)

\* A bounded set of numbers has a largest.
LEMMA Largest ==
    ASSUME NEW S \in SUBSET Nat, S # {}, NEW b \in Nat, \A v \in S : v <= b
    PROVE  \E v \in S : \A w \in S : w <= v
<1> DEFINE D == {b - v : v \in S}
<1>a. \A v \in S : v \in Nat /\ b - v \in Nat
      OBVIOUS
<1>1. D # {} /\ D \subseteq Nat
      BY <1>a
<1>2. PICK d \in D : \A e \in D : ~ (<<e, d>> \in OpToRel(<, Nat))
      BY <1>1, WFMin, NatLessThanWellFounded
<1>3. PICK v \in S : d = b - v
      OBVIOUS
<1>4. \A w \in S : ~ (b - w < b - v)
      BY <1>1, <1>2, <1>3 DEF OpToRel
<1> QED BY <1>3, <1>4, <1>a

LEMMA HighestOK ==
    ASSUME TableOK(rows, imported), Values # {}
    PROVE  Highest \in Values /\ \A w \in Values : w <= Highest
<1>1. Values \subseteq Nat
      BY DEF TableOK, Table, Values
<1>2. \E b \in Nat : \A v \in Values : v <= b
      BY DEF TableOK, Values
<1>3. \E v \in Values : \A w \in Values : w <= v
      BY <1>1, <1>2, Largest
<1> QED BY <1>3 DEF Highest

\* Above is a number above all those in the table.
LEMMA AboveOK ==
    ASSUME TableOK(rows, imported)
    PROVE  Above \in Nat /\ \A k \in Checksums : rows[k] # NoRow => rows[k] < Above
<1>1. Values \subseteq Nat /\ \A k \in Checksums : rows[k] # NoRow => rows[k] \in Values
      BY DEF TableOK, Table, Values
<1>2. CASE Values = {}
      BY <1>1, <1>2 DEF Above
<1>3. CASE Values # {}
  <2>1. Highest \in Values /\ \A w \in Values : w <= Highest
        BY <1>3, HighestOK
  <2>2. Highest \in Nat /\ Above = Highest + 1
        BY <1>1, <1>3, <2>1 DEF Above
  <2>3. \A w \in Values : w \in Nat /\ w < Above
        BY <1>1, <2>1, <2>2
  <2>4. ASSUME NEW k \in Checksums, rows[k] # NoRow PROVE rows[k] < Above
        BY <1>1, <2>3, <2>4
  <2> QED BY <2>2, <2>4
<1> QED BY <1>2, <1>3

\* What is answered is the highest number, and a new row has one above all others.
LEMMA GetOK ==
    ASSUME TableOK(rows, imported), NEW k \in Checksums, NEW after, after = getValue(k)
    PROVE  /\ TableOK(after, imported)
           /\ after[k] \in Nat
           /\ \A l \in Checksums : rows[l] # NoRow => rows[l] <= after[k]
           /\ after # rows => \A l \in Checksums : rows[l] # NoRow => rows[l] < after[k]
<1>0. PRAssumption
      BY PRAssumption DEF PRAssumption
<1>1. rows \in Table
      BY DEF TableOK
<1>2. CASE rows[k] # NoRow /\ rows[k] = Highest
  <2>1. after = rows
        BY <1>2 DEF getValue
  <2>2. rows[k] \in Values /\ \A l \in Checksums : rows[l] # NoRow => rows[l] \in Values
        BY <1>2 DEF Values
  <2> QED BY <1>1, <1>2, <2>1, <2>2, HighestOK DEF Table
<1>3. CASE ~(rows[k] # NoRow /\ rows[k] = Highest)
  <2>1. after = [rows EXCEPT ![k] = Above]
        BY <1>3 DEF getValue
  <2>2. Above \in Nat /\ \A l \in Checksums : rows[l] # NoRow => rows[l] < Above
        BY AboveOK
  <2>3. after \in Table /\ after[k] = Above /\ \A l \in Checksums \ {k} : after[l] = rows[l]
        BY <1>1, <2>1, <2>2 DEF Table
  <2>4. \A l \in Checksums : rows[l] # NoRow => rows[l] \in Nat
        BY <1>1 DEF Table
  <2>5. \A l \in Checksums : after[l] # NoRow => after[l] <= Above
        BY <2>2, <2>3, <2>4
  <2>6. ASSUME NEW m \in Checksums, NEW l \in Checksums,
               m # l, after[m] # NoRow, after[m] = after[l]
        PROVE  after[m] \in imported
    <3>1. m # k /\ l # k
          BY <1>0, <2>2, <2>3, <2>4, <2>6 DEF PRAssumption
    <3> QED BY <2>3, <2>6, <3>1 DEF TableOK
  <2>7. TableOK(after, imported)
        BY <2>2, <2>3, <2>5, <2>6 DEF TableOK
  <2> QED BY <2>2, <2>3, <2>4, <2>7
<1> QED BY <1>2, <1>3

\* An import raises one row, or none.
LEMMA ImportOK ==
    ASSUME TableOK(rows, imported), NEW k \in Checksums, NEW v \in Nat,
           NEW after, after = importone(k, v)
    PROVE  /\ TableOK(after, imported \cup {v})
           /\ \A l \in Checksums : rows[l] # NoRow => after[l] # NoRow /\ rows[l] <= after[l]
<1>0. NoRow \notin Nat
      BY PRAssumption DEF PRAssumption
<1>1. rows \in Table
      BY DEF TableOK
<1>2. CASE rows[k] # NoRow /\ rows[k] >= v
      BY <1>1, <1>2 DEF importone, TableOK, Table
<1>3. CASE ~(rows[k] # NoRow /\ rows[k] >= v)
  <2>1. after = [rows EXCEPT ![k] = v]
        BY <1>3 DEF importone
  <2>2. after \in Table /\ after[k] = v /\ \A l \in Checksums \ {k} : after[l] = rows[l]
        BY <1>1, <2>1 DEF Table
  <2>3. \A l \in Checksums : rows[l] # NoRow => rows[l] \in Nat
        BY <1>1 DEF Table
  <2>4. PICK b \in Nat : \A l \in Checksums : rows[l] # NoRow => rows[l] <= b
        BY DEF TableOK
  <2>5. \E c \in Nat : \A l \in Checksums : after[l] # NoRow => after[l] <= c
    <3>1. b + v \in Nat /\ v <= b + v /\ b <= b + v
          OBVIOUS
    <3>2. \A l \in Checksums : after[l] # NoRow => after[l] <= b + v
          BY <2>2, <2>3, <2>4, <3>1
    <3> QED BY <3>1, <3>2
  <2>6. ASSUME NEW m \in Checksums, NEW l \in Checksums,
               m # l, after[m] # NoRow, after[m] = after[l]
        PROVE  after[m] \in imported \cup {v}
    <3>1. CASE m = k \/ l = k
          BY <2>2, <2>6, <3>1
    <3>2. CASE m # k /\ l # k
          BY <2>2, <2>6, <3>2 DEF TableOK
    <3> QED BY <3>1, <3>2
  <2>7. TableOK(after, imported \cup {v})
        BY <2>2, <2>5, <2>6 DEF TableOK
  <2>8. \A l \in Checksums : rows[l] # NoRow => after[l] # NoRow /\ rows[l] <= after[l]
        BY <1>0, <1>3, <2>2, <2>3
  <2> QED BY <2>7, <2>8
<1> QED BY <1>2, <1>3

\* What a request carries.
LEMMA RequestShape ==
    ASSUME NEW r \in Request
    PROVE  /\ r # None
           /\ r.ask = "getPR" => r.checksum \in Checksums
           /\ r.ask = "importone" => r.checksum \in Checksums /\ r.value \in Nat
<1>1. Imports \subseteq Nat
      BY PRAssumption DEF PRAssumption
<1> QED BY <1>1 DEF Request, None, Get, Import, Quit

-----------------------------------------------------------------------------
(* The steps *)

LEMMA InitIInv == Init => IInv
<1> SUFFICES ASSUME Init PROVE IInv
    OBVIOUS
<1>0. NoRow \notin Nat
      BY PRAssumption DEF PRAssumption
<1>1. TypeOK
  <2>1. rows \in Table /\ disk \in Table
        BY DEF Init, Table
  <2>2. given.value \in Nat /\ given.checksum \in Checksums \cup {NoRow}
        BY DEF Init, NoAnswer
  <2>3. requests \in Seq(Request) /\ queue \in Seq(Request \cup {None})
        BY DEF Init
  <2> QED BY <2>1, <2>2, <2>3 DEF Init, TypeOK
<1>2. TableOK(rows, imported) /\ disk = rows
      BY DEF Init, TableOK, Table
<1> QED BY <1>1, <1>2 DEF Init, IInv, AnswersCommitted, CommitOK, GivenOK, NumbersRise, NoAnswer

\* The steps that neither write nor commit: of clients, the main thread and the loop.
LEMMA QuietSteps ==
    ASSUME IInv,
           UNCHANGED <<rows, disk, given, imported, decremented>>,
           TypeOK',
           \/ UNCHANGED <<handler, dirty>>
           \/ handler = "loop" /\ handler' \in {"loop", "work", "ended"}
           \/ handler = "begin" /\ handler' \in {"loop", "ended"}
           \/ handler = "sync" /\ ~dirty /\ handler' = "loop"
           \/ main = "off",
           main' # "off" \/ main' = main
    PROVE  IInv'
<1>1. TableOK(rows, imported)' /\ TableOK(disk, imported)' /\ GivenOK' /\ NumbersRise'
      BY DEF IInv, TableOK, GivenOK, NumbersRise
<1>2. AnswersCommitted' /\ CommitOK'
      BY DEF IInv, AnswersCommitted, CommitOK
<1> QED BY <1>1, <1>2 DEF IInv

\* A commit brings the file up to the table.
LEMMA CommitSteps ==
    ASSUME IInv, TypeOK', disk' = rows, rows' = rows,
           UNCHANGED <<given, imported, decremented>>
    PROVE  IInv'
<1>1. TableOK(rows, imported)' /\ TableOK(disk, imported)' /\ GivenOK' /\ NumbersRise'
      BY DEF IInv, TableOK, GivenOK, NumbersRise
<1>2. AnswersCommitted' /\ CommitOK'
      BY DEF AnswersCommitted, CommitOK
<1> QED BY <1>1, <1>2 DEF IInv

\* The end of the process takes the table back to the file.
LEMMA EndSteps ==
    ASSUME IInv, TypeOK', rows' = disk, disk' = disk, UNCHANGED <<imported, decremented>>,
           (given' = given /\ rows = disk) \/ given' = NoAnswer
    PROVE  IInv'
<1>1. TableOK(rows, imported)' /\ TableOK(disk, imported)' /\ NumbersRise'
      BY DEF IInv, TableOK, NumbersRise
<1>2. AnswersCommitted' /\ CommitOK'
      BY DEF AnswersCommitted, CommitOK
<1>3. GivenOK'
      BY DEF IInv, GivenOK, NoAnswer
<1> QED BY <1>1, <1>2, <1>3 DEF IInv

LEMMA GetStep ==
    ASSUME IInv, getPR
    PROVE  IInv'
<1> DEFINE k == request.checksum
<1> DEFINE after == getValue(k)
<1> DEFINE v == after[k]
<1>0. TypeOK /\ TableOK(rows, imported) /\ TableOK(disk, imported) /\ GivenOK
      BY DEF IInv
<1>1. handler = "work" /\ main # "off" /\ request \in Request /\ k \in Checksums
      BY <1>0, RequestShape DEF getPR, At, TypeOK
<1>2. /\ TableOK(after, imported) /\ v \in Nat
      /\ \A l \in Checksums : rows[l] # NoRow => rows[l] <= v
      /\ after # rows => \A l \in Checksums : rows[l] # NoRow => rows[l] < v
      BY <1>0, <1>1, GetOK
<1>3. /\ rows' = after /\ handler' = "sync" /\ disk' = disk
      /\ dirty' = (dirty \/ after # rows) /\ tx' = (tx \/ after # rows)
      /\ given' = [checksum |-> k, value |-> v]
      /\ decremented' = \/ decremented
                        \/ v < given.value
                        \/ /\ v = given.value /\ given.checksum \notin {k, NoRow}
                           /\ v \notin imported
      /\ UNCHANGED <<main, signal, request, quitflag, requests, queue, imported>>
      BY DEF getPR, Write
<1> HIDE DEF k, after, v
<1>4. v = after[k]
      BY DEF v
<1>5. decremented' = FALSE
  <2>1. decremented = FALSE
        BY DEF IInv, NumbersRise
  <2>2. given.value \in Nat /\ given.checksum \in Checksums \cup {NoRow} /\ rows \in Table
        BY <1>0 DEF TypeOK
  <2>3. CASE given.checksum = NoRow
    <3>1. given.value = 0
          BY <1>0, <2>3 DEF GivenOK
    <3> QED BY <1>2, <1>3, <2>1, <2>3, <3>1
  <2>4. CASE given.checksum # NoRow
    <3>1. /\ given.checksum \in Checksums /\ rows[given.checksum] \in Nat
          /\ rows[given.checksum] # NoRow /\ given.value <= rows[given.checksum]
          BY <1>0, <2>2, <2>4 DEF GivenOK, Table
    <3>2. rows[given.checksum] <= v
          BY <1>2, <3>1
    <3>3. given.value <= v
          BY <1>2, <2>2, <3>1, <3>2
    <3>4. ASSUME v = given.value, given.checksum # k
          PROVE  v \in imported
      <4>1. after = rows
            BY <1>2, <2>2, <3>1, <3>4
      <4>a. rows[k] = v
            BY <1>4, <4>1
      <4>b. rows[given.checksum] = v
            BY <1>2, <2>2, <3>1, <3>2, <3>4
      <4>2. rows[k] = v /\ rows[given.checksum] = v
            BY <4>a, <4>b
      <4> QED BY <1>0, <1>1, <3>1, <3>4, <4>2 DEF TableOK
    <3> QED BY <1>2, <1>3, <2>1, <2>2, <3>3, <3>4
  <2> QED BY <2>3, <2>4
<1>6. TypeOK'
  <2>1. rows' \in Table
        BY <1>2, <1>3 DEF TableOK
  <2> QED BY <1>0, <1>1, <1>2, <1>3, <1>5, <2>1 DEF TypeOK
<1>7. TableOK(rows, imported)' /\ TableOK(disk, imported)'
      BY <1>0, <1>2, <1>3 DEF TableOK
<1>8. CommitOK' /\ AnswersCommitted'
      BY <1>1, <1>3 DEF IInv, CommitOK, AnswersCommitted
<1>9. GivenOK'
  <2>1. NoRow \notin Nat
        BY PRAssumption DEF PRAssumption
  <2>2. given'.checksum = k /\ given'.value = v /\ rows'[k] = v
        BY <1>3, <1>4
  <2>3. k # NoRow => rows'[k] # NoRow /\ v <= rows'[k]
        BY <1>2, <2>1, <2>2
  <2>4. k # NoRow
        BY <1>1, PRAssumption DEF PRAssumption
  <2> QED BY <2>2, <2>3, <2>4 DEF GivenOK
<1> QED BY <1>5, <1>6, <1>7, <1>8, <1>9 DEF IInv, NumbersRise

LEMMA ImportStep ==
    ASSUME IInv, ImportOne
    PROVE  IInv'
<1> DEFINE k == request.checksum
<1> DEFINE v == request.value
<1> DEFINE after == importone(k, v)
<1>0. TypeOK /\ TableOK(rows, imported) /\ TableOK(disk, imported) /\ GivenOK
      BY DEF IInv
<1>1. /\ handler = "work" /\ main # "off"
      /\ request \in Request /\ k \in Checksums /\ v \in Nat
      BY <1>0, RequestShape DEF ImportOne, At, TypeOK
<1>2. /\ TableOK(after, imported \cup {v})
      /\ \A l \in Checksums : rows[l] # NoRow => after[l] # NoRow /\ rows[l] <= after[l]
      BY <1>0, <1>1, ImportOK
<1>3. /\ rows' = after /\ handler' = "sync" /\ disk' = disk /\ dirty' = TRUE /\ tx' = TRUE
      /\ imported' = imported \cup {v}
      /\ UNCHANGED <<main, signal, request, quitflag, requests, queue, given, decremented>>
      BY DEF ImportOne, Write
<1> HIDE DEF k, v, after
<1>4. TypeOK'
  <2>1. rows' \in Table
        BY <1>2, <1>3 DEF TableOK
  <2> QED BY <1>0, <1>1, <1>3, <2>1 DEF TypeOK
<1>5. TableOK(rows, imported)'
      BY <1>2, <1>3
<1>6. TableOK(disk, imported)'
      BY <1>0, <1>3 DEF TableOK
<1>7. GivenOK'
  <2>1. CASE given.checksum = NoRow
        BY <1>0, <1>3, <2>1 DEF GivenOK
  <2>2. CASE given.checksum # NoRow
    <3>1. /\ given.checksum \in Checksums /\ rows[given.checksum] # NoRow
          /\ given.value \in Nat /\ given.value <= rows[given.checksum]
          BY <1>0, <2>2 DEF GivenOK, TypeOK
    <3>2. after[given.checksum] # NoRow /\ rows[given.checksum] <= after[given.checksum]
          BY <1>2, <3>1
    <3>3. rows[given.checksum] \in Nat /\ after[given.checksum] \in Nat
          BY <1>0, <1>2, <3>1, <3>2 DEF TableOK, Table
    <3> QED BY <1>3, <2>2, <3>1, <3>2, <3>3 DEF GivenOK
  <2> QED BY <2>1, <2>2
<1>8. CommitOK' /\ AnswersCommitted' /\ NumbersRise'
      BY <1>1, <1>3 DEF IInv, CommitOK, AnswersCommitted, NumbersRise
<1> QED BY <1>4, <1>5, <1>6, <1>7, <1>8 DEF IInv

\* Sequences stay sequences of requests.
LEMMA QueueOK ==
    ASSUME NEW S, NEW q \in Seq(S), q # <<>>
    PROVE  Head(q) \in S /\ Tail(q) \in Seq(S)
OBVIOUS

\* Each step but an answer and an import is of one of the kinds above.
LEMMA StepIInv == IInv /\ [Next]_vars => IInv'
<1> SUFFICES ASSUME IInv, [Next]_vars
             PROVE  IInv'
    OBVIOUS
<1>0. TypeOK /\ AnswersCommitted /\ CommitOK
      BY DEF IInv
<1>1. CASE UNCHANGED vars
  <2>1. UNCHANGED <<rows, disk, dirty, tx, main, signal, handler, request, quitflag,
                    requests, queue, given, imported, decremented>>
        BY <1>1 DEF vars, table, threads, history
  <2>2. TypeOK'
        BY <1>0, <2>1 DEF TypeOK
  <2> QED BY <2>1, <2>2, QuietSteps
<1>2. ASSUME NEW r \in Request, Ask(r)
      PROVE  IInv'
  <2>1. /\ requests' = Append(requests, r)
        /\ UNCHANGED <<rows, disk, dirty, tx, main, signal, handler, request, quitflag,
                       queue, given, imported, decremented>>
        BY <1>2 DEF Ask, table, threads, history
  <2>2. requests' \in Seq(Request)
        BY <1>0, <2>1 DEF TypeOK
  <2>3. TypeOK'
        BY <1>0, <2>1, <2>2 DEF TypeOK
  <2> QED BY <2>1, <2>3, QuietSteps
<1>3. CASE ProcessRequest
  <2>1. /\ requests # <<>>
        /\ queue' = Append(queue, Head(requests)) /\ requests' = Tail(requests)
        /\ UNCHANGED <<rows, disk, dirty, tx, main, signal, handler, request, quitflag,
                       given, imported, decremented>>
        BY <1>3 DEF ProcessRequest, table, threads, history
  <2>2. Head(requests) \in Request /\ requests' \in Seq(Request)
        BY <1>0, <2>1, QueueOK DEF TypeOK
  <2>3. queue' \in Seq(Request \cup {None})
        BY <1>0, <2>1, <2>2 DEF TypeOK
  <2>4. TypeOK'
        BY <1>0, <2>1, <2>2, <2>3 DEF TypeOK
  <2> QED BY <2>1, <2>4, QuietSteps
<1>4. CASE LoopEnds
  <2>1. /\ main' = "join"
        /\ UNCHANGED <<rows, disk, dirty, tx, signal, handler, request, quitflag,
                       requests, queue, given, imported, decremented>>
        BY <1>4 DEF LoopEnds, table, history
  <2>2. TypeOK'
        BY <1>0, <2>1 DEF TypeOK
  <2> QED BY <2>1, <2>2, QuietSteps
<1>5. ASSUME ProcessEnds, UNCHANGED <<disk, dirty, quitflag, imported, decremented>>,
             (given' = given /\ rows = disk) \/ given' = NoAnswer
      PROVE  IInv'
  <2>1. given'.value \in Nat /\ given'.checksum \in Checksums \cup {NoRow}
        BY <1>0, <1>5 DEF TypeOK, NoAnswer
  <2>2. requests' \in Seq(Request) /\ queue' \in Seq(Request \cup {None})
        BY <1>5 DEF ProcessEnds
  <2>3. TypeOK'
        BY <1>0, <1>5, <2>1, <2>2 DEF ProcessEnds, TypeOK
  <2> QED BY <1>5, <2>3, EndSteps DEF ProcessEnds
<1>6. CASE Disconnect
  <2>1. rows = disk
        BY <1>0, <1>6 DEF Disconnect, AnswersCommitted
  <2> QED BY <1>5, <1>6, <2>1 DEF Disconnect, history
<1>7. CASE Killed
      BY <1>5, <1>7 DEF Killed
<1>8. CASE SignalRaises
  <2>1. /\ tx' = TRUE /\ main' = "raised" /\ signal' = "none"
        /\ UNCHANGED <<rows, disk, dirty, handler, request, quitflag, requests, queue,
                       given, imported, decremented>>
        BY <1>8 DEF SignalRaises, history
  <2>2. TypeOK'
        BY <1>0, <2>1 DEF TypeOK
  <2> QED BY <2>1, <2>2, QuietSteps
<1>9. CASE SignalReturns
  <2>1. /\ tx' = TRUE /\ signal' = "none" /\ quitflag' = (quitflag \/ signal = "term")
        /\ queue' \in {queue, Append(queue, None)}
        /\ UNCHANGED <<rows, disk, dirty, main, handler, request, requests,
                       given, imported, decremented>>
        BY <1>9 DEF SignalReturns, history
  <2>a. None \in Request \cup {None} /\ queue \in Seq(Request \cup {None})
        BY <1>0 DEF TypeOK
  <2>b. quitflag' \in BOOLEAN
        BY <1>0, <2>1 DEF TypeOK
  <2>c. queue' \in Seq(Request \cup {None})
        BY <2>1, <2>a
  <2>2. queue' \in Seq(Request \cup {None}) /\ quitflag' \in BOOLEAN
        BY <2>b, <2>c
  <2>3. TypeOK'
        BY <1>0, <2>1, <2>2 DEF TypeOK
  <2> QED BY <2>1, <2>3, QuietSteps
<1>10. ASSUME NEW s \in {"int", "term"}, SignalHandler(s)
       PROVE  IInv'
  <2>1. /\ disk' = rows /\ tx' = FALSE /\ signal' = s
        /\ UNCHANGED <<rows, dirty, main, handler, request, quitflag, requests, queue,
                       given, imported, decremented>>
        BY <1>10 DEF SignalHandler, Commit, history
  <2>a. rows' \in Table /\ disk' \in Table /\ signal' \in {"none", "int", "term"}
        BY <1>0, <2>1 DEF TypeOK
  <2>2. TypeOK'
        BY <1>0, <2>1, <2>a DEF TypeOK
  <2> QED BY <2>1, <2>2, CommitSteps
<1>11. CASE Restart
  <2>1. /\ main = "off"
        /\ main' = "select" /\ handler' = "loop" /\ dirty' = FALSE /\ quitflag' = FALSE
        /\ UNCHANGED <<rows, disk, tx, signal, request, requests, queue,
                       given, imported, decremented>>
        BY <1>11 DEF Restart, history
  <2>2. TypeOK'
        BY <1>0, <2>1 DEF TypeOK
  <2> QED BY <2>1, <2>2, QuietSteps
<1>12. CASE LoopHead
  <2>1. /\ handler = "loop" /\ handler' \in {"loop", "work", "ended"}
        /\ UNCHANGED <<rows, disk, dirty, tx, main, signal, quitflag, requests,
                       given, imported, decremented>>
        BY <1>12 DEF LoopHead, At, table, history
  <2>2. \/ UNCHANGED <<queue, request>> /\ handler' = "ended"
        \/ /\ queue # <<>> /\ queue' = Tail(queue) /\ request' = Head(queue)
           /\ handler' = IF Head(queue) = None THEN "loop" ELSE "work"
        BY <1>12 DEF LoopHead
  <2>3. /\ queue' \in Seq(Request \cup {None}) /\ request' \in Request \cup {None}
        /\ handler' = "work" => request' \in Request
    <3>1. queue \in Seq(Request \cup {None}) /\ request \in Request \cup {None}
          BY <1>0 DEF TypeOK
    <3>2. queue # <<>> =>
              Head(queue) \in Request \cup {None} /\ Tail(queue) \in Seq(Request \cup {None})
          BY <3>1, QueueOK
    <3> QED BY <2>2, <3>1, <3>2
  <2>4. TypeOK'
        BY <1>0, <2>1, <2>3 DEF TypeOK
  <2> QED BY <2>1, <2>4, QuietSteps
<1>13. CASE getPR
       BY <1>13, GetStep
<1>14. CASE ImportOne
       BY <1>14, ImportStep
<1>15. CASE quit
  <2>1. /\ handler = "work" /\ main # "off" /\ handler' = "sync" /\ quitflag' = TRUE
        /\ UNCHANGED <<rows, disk, dirty, tx, main, signal, request, requests, queue,
                       given, imported, decremented>>
        BY <1>15 DEF quit, At, Write, history
  <2>2. TypeOK'
        BY <1>0, <2>1 DEF TypeOK
  <2>3. disk = rows
        BY <1>0, <2>1 DEF AnswersCommitted
  <2> QED BY <2>1, <2>2, <2>3, CommitSteps
<1>16. CASE SyncIfDirty
  <2>1. /\ handler = "sync" /\ request' = None
        /\ UNCHANGED <<rows, dirty, main, signal, quitflag, requests, queue,
                       given, imported, decremented>>
        BY <1>16 DEF SyncIfDirty, At, history
  <2>2. CASE dirty
    <3>1. disk' = rows /\ tx' = FALSE /\ handler' = "begin"
          BY <1>16, <2>2 DEF SyncIfDirty, Commit
    <3>2. TypeOK'
          BY <1>0, <2>1, <3>1 DEF TypeOK
    <3> QED BY <2>1, <3>1, <3>2, CommitSteps
  <2>3. CASE ~dirty
    <3>1. disk' = disk /\ tx' = tx /\ handler' = "loop"
          BY <1>16, <2>3 DEF SyncIfDirty
    <3>2. TypeOK'
          BY <1>0, <2>1, <3>1 DEF TypeOK
    <3> QED BY <2>1, <2>3, <3>1, <3>2, QuietSteps
  <2> QED BY <2>2, <2>3
<1>17. CASE SyncBegins
  <2>1. /\ handler = "begin" /\ handler' \in {"loop", "ended"}
        /\ tx' = TRUE /\ dirty' = tx
        /\ UNCHANGED <<rows, disk, main, signal, request, quitflag, requests, queue,
                       given, imported, decremented>>
        BY <1>17 DEF SyncBegins, At, history
  <2>2. TypeOK'
        BY <1>0, <2>1 DEF TypeOK
  <2> QED BY <2>1, <2>2, QuietSteps
<1> QED
  BY <1>1, <1>2, <1>3, <1>4, <1>6, <1>7, <1>8, <1>9, <1>10, <1>11, <1>12, <1>13, <1>14,
     <1>15, <1>16, <1>17 DEF Next, Main, Handler

-----------------------------------------------------------------------------
(* Theorems *)

THEOREM Invariance == Spec => []IInv
BY InitIInv, StepIInv, PTL DEF Spec

\* A number that is answered is never below an earlier one, nor that of another checksum
\* unless it was imported: for any checksums, requests, signals, restarts and kills.
THEOREM PRSafetyTheorem == Spec => []PRSafety
<1>1. IInv => PRSafety
      BY DEF IInv, PRSafety
<1> QED BY <1>1, Invariance, PTL

\* What was answered is in the file before the next request, whichever thread commits.
THEOREM CommittedTheorem == Spec => []AnswersCommitted
<1>1. IInv => AnswersCommitted
      BY DEF IInv
<1> QED BY <1>1, Invariance, PTL
=============================================================================
