--------------------------- MODULE HashServProofs ---------------------------
(***************************************************************************)
(* The table keeps one unihash for an output whatever the clock does, and  *)
(* is the two maps of UnihashMap when the clock is not set back.           *)
(***************************************************************************)
EXTENDS HashServ, TLAPS

First(T)  == [t \in Taskhash |-> query_equivalent(T, t)]
Output(T) == [o \in Outhash |-> UnihashOf(T, ByOutput(T, o))]

\* Some row of I is the oldest.  No proof by induction on the table is needed
\* when this is part of the invariant.
HasOldest(T, I) == I = {} \/ \E i \in I : \A j \in I : Older(T, i, j)

UniqueRows(T) ==
    \A i, j \in DOMAIN T :
        T[i].taskhash = T[j].taskhash /\ T[i].outhash = T[j].outhash => i = j

OneUnihash(T) ==
    \A i, j \in DOMAIN T :
        T[i].outhash = T[j].outhash /\ T[i].outhash # NoOutput
            => T[i].unihash = T[j].unihash

TableOK(T) ==
    /\ T \in Seq(Row)
    /\ UniqueRows(T)
    /\ OneUnihash(T)
    /\ \A t \in Taskhash : HasOldest(T, ByTask(T, t))
    /\ \A o \in Outhash : HasOldest(T, ByOutput(T, o))

-----------------------------------------------------------------------------
(* The oldest row *)

LEMMA Rows ==
    ASSUME NEW T \in Seq(Row), NEW i \in DOMAIN T
    PROVE  /\ i \in Nat
           /\ T[i] \in Row
           /\ T[i].created \in Nat /\ T[i].unihash \in Taskhash
<1>1. i \in 1 .. Len(T) /\ Len(T) \in Nat
      OBVIOUS
<1>2. T[i] \in Row
      BY <1>1
<1>3. MaxClock \in Nat
      BY HashServAssumption
<1> QED BY <1>1, <1>2, <1>3 DEF Row

\* There is only one oldest row.
LEMMA OldestIs ==
    ASSUME NEW T \in Seq(Row), NEW I \in SUBSET DOMAIN T, NEW i \in I,
           \A j \in I : Older(T, i, j)
    PROVE  Oldest(T, I) = i
<1> DEFINE k == Oldest(T, I)
<1>1. k \in I /\ \A j \in I : Older(T, k, j)
      BY DEF Oldest
<1>2. Older(T, i, k) /\ Older(T, k, i)
      BY <1>1
<1>3. i \in Nat /\ k \in Nat /\ T[i].created \in Nat /\ T[k].created \in Nat
      BY <1>1, Rows
<1> QED BY <1>2, <1>3 DEF Older

\* The unihash of a set of rows is that of one of them.
LEMMA UnihashOfRow ==
    ASSUME NEW T \in Seq(Row), NEW I \in SUBSET DOMAIN T, I # {}, HasOldest(T, I)
    PROVE  \E i \in I : UnihashOf(T, I) = T[i].unihash
<1>1. PICK i \in I : \A j \in I : Older(T, i, j)
      BY DEF HasOldest
<1> QED BY <1>1, OldestIs DEF UnihashOf

\* What a row added at the end does to the rows a query looks at.
LEMMA Appended ==
    ASSUME NEW T \in Seq(Row), NEW r \in Row, NEW U, U = Append(T, r)
    PROVE  /\ U \in Seq(Row)
           /\ DOMAIN U = DOMAIN T \cup {Len(T) + 1}
           /\ Len(T) + 1 \notin DOMAIN T
           /\ U[Len(T) + 1] = r
           /\ \A i \in DOMAIN T : U[i] = T[i]
           /\ DOMAIN T \subseteq 1 .. Len(T) /\ Len(T) \in Nat
OBVIOUS

LEMMA OldestKept ==
    ASSUME NEW T \in Seq(Row), NEW r \in Row, NEW U, U = Append(T, r),
           NEW I \in SUBSET DOMAIN T, HasOldest(T, I)
    PROVE  /\ HasOldest(U, I)
           /\ UnihashOf(U, I) = UnihashOf(T, I)
<1> USE Appended
<1>1. CASE I = {}
      BY <1>1 DEF HasOldest, UnihashOf
<1>2. CASE I # {}
  <2>1. PICK i \in I : \A j \in I : Older(T, i, j)
        BY <1>2 DEF HasOldest
  <2>2. \A j \in I : Older(U, i, j)
        BY <2>1 DEF Older
  <2>3. Oldest(T, I) = i
        BY <2>1, OldestIs
  <2>4. U \in Seq(Row) /\ I \in SUBSET DOMAIN U
        OBVIOUS
  <2>5. Oldest(U, I) = i
        BY <2>2, <2>4, OldestIs
  <2> QED BY <1>2, <2>2, <2>3, <2>5 DEF HasOldest, UnihashOf
<1> QED BY <1>1, <1>2

LEMMA OldestGrows ==
    ASSUME NEW T \in Seq(Row), NEW r \in Row, NEW U, U = Append(T, r),
           NEW I \in SUBSET DOMAIN T, HasOldest(T, I)
    PROVE  HasOldest(U, I \cup {Len(T) + 1})
<1> DEFINE n == Len(T) + 1
<1> USE Appended
<1>0. \A i \in DOMAIN U : U[i].created \in Nat /\ i \in Nat
      BY Rows
<1>1. CASE I = {}
      BY <1>0, <1>1 DEF HasOldest, Older
<1>2. CASE I # {}
  <2>1. PICK i \in I : \A j \in I : Older(T, i, j)
        BY <1>2 DEF HasOldest
  <2>2. \A j \in I : Older(U, i, j)
        BY <2>1 DEF Older
  <2>3. CASE U[i].created <= U[n].created
    <3>1. Older(U, i, n)
          BY <1>0, <2>3 DEF Older
    <3> QED BY <2>2, <3>1 DEF HasOldest
  <2>4. CASE U[n].created < U[i].created
    <3>1. \A j \in I : Older(U, n, j)
          BY <1>0, <2>2, <2>4 DEF Older
    <3>2. Older(U, n, n)
          BY <1>0 DEF Older
    <3> QED BY <3>1, <3>2 DEF HasOldest
  <2> QED BY <1>0, <2>3, <2>4
<1> QED BY <1>1, <1>2

-----------------------------------------------------------------------------
(* A row is added *)

\* A new row gives its output a unihash, or has the one the output has.
LEMMA InsertOK ==
    ASSUME TableOK(rows), clock \in 0..MaxClock,
           NEW t \in Taskhash, NEW o \in Outhash \cup {NoOutput}, NEW u \in Taskhash,
           ByTask(rows, t) \cap ByOutput(rows, o) = {},
           o # NoOutput => \A i \in ByOutput(rows, o) : rows[i].unihash = u
    PROVE  /\ TableOK(Insert(t, o, u))
           /\ \A x \in Outhash :
                 Output(Insert(t, o, u))[x] = IF x = o THEN u ELSE Output(rows)[x]
<1> DEFINE r == [taskhash |-> t, outhash |-> o, unihash |-> u, created |-> clock]
           n == Len(rows) + 1
<1>1. /\ r \in Row /\ rows \in Seq(Row)
      /\ r.taskhash = t /\ r.outhash = o /\ r.unihash = u
      BY DEF Row, TableOK
<1> DEFINE U == Append(rows, r)
<1>2. Insert(t, o, u) = U
      BY DEF Insert
<1>3. /\ U \in Seq(Row)
      /\ DOMAIN U = DOMAIN rows \cup {n} /\ n \notin DOMAIN rows
      /\ U[n] = r /\ \A i \in DOMAIN rows : U[i] = rows[i]
      BY <1>1, Appended
<1> HIDE DEF U, n, r
<1>4. /\ \A s \in Taskhash : ByTask(U, s) = IF s = t THEN ByTask(rows, s) \cup {n}
                                            ELSE ByTask(rows, s)
      /\ \A x \in Outhash : ByOutput(U, x) = IF x = o THEN ByOutput(rows, x) \cup {n}
                                             ELSE ByOutput(rows, x)
      BY <1>1, <1>3 DEF ByTask, ByOutput
<1>5. UniqueRows(U)
  <2>1. UniqueRows(rows)
        BY DEF TableOK
  <2>2. \A i \in DOMAIN rows : ~(rows[i].taskhash = t /\ rows[i].outhash = o)
        BY DEF ByTask, ByOutput
  <2> QED BY <1>1, <1>3, <2>1, <2>2 DEF UniqueRows
<1>6. OneUnihash(U)
  <2>1. OneUnihash(rows)
        BY DEF TableOK
  <2>2. \A i \in DOMAIN rows : o # NoOutput /\ rows[i].outhash = o => rows[i].unihash = u
        BY DEF ByOutput
  <2> QED BY <1>1, <1>3, <2>1, <2>2 DEF OneUnihash
<1>7. /\ \A s \in Taskhash : HasOldest(U, ByTask(U, s))
      /\ \A x \in Outhash : HasOldest(U, ByOutput(U, x))
  <2>1. /\ \A s \in Taskhash : /\ ByTask(rows, s) \in SUBSET DOMAIN rows
                               /\ HasOldest(rows, ByTask(rows, s))
        /\ \A x \in Outhash : /\ ByOutput(rows, x) \in SUBSET DOMAIN rows
                              /\ HasOldest(rows, ByOutput(rows, x))
        BY DEF TableOK, ByTask, ByOutput
  <2>2. \A I \in SUBSET DOMAIN rows :
            HasOldest(rows, I) => HasOldest(U, I) /\ HasOldest(U, I \cup {n})
        BY <1>1, OldestKept, OldestGrows DEF U, n
  <2> QED BY <1>4, <2>1, <2>2
<1>8. TableOK(U)
      BY <1>3, <1>5, <1>6, <1>7 DEF TableOK
<1>9. ASSUME NEW x \in Outhash
      PROVE  Output(U)[x] = IF x = o THEN u ELSE Output(rows)[x]
  <2>1. CASE x # o
    <3>1. ByOutput(rows, x) \in SUBSET DOMAIN rows /\ HasOldest(rows, ByOutput(rows, x))
          BY DEF TableOK, ByOutput
    <3>2. UnihashOf(U, ByOutput(rows, x)) = UnihashOf(rows, ByOutput(rows, x))
          BY <1>1, <3>1, OldestKept DEF U
    <3> QED BY <1>4, <2>1, <3>2 DEF Output
  <2>2. CASE x = o
    <3>1. n \in ByOutput(U, o) /\ ByOutput(U, o) \in SUBSET DOMAIN U
          BY <1>1, <1>3, <1>4, <2>2 DEF ByOutput
    <3>2. PICK i \in ByOutput(U, o) : UnihashOf(U, ByOutput(U, o)) = U[i].unihash
          BY <1>3, <1>7, <2>2, <3>1, UnihashOfRow
    <3>3. o # NoOutput
          BY <2>2, HashServAssumption
    <3>4. U[i].unihash = U[n].unihash
          BY <1>6, <3>1, <3>2, <3>3 DEF OneUnihash, ByOutput
    <3> QED BY <1>1, <1>3, <2>2, <3>2, <3>4 DEF Output
  <2> QED BY <2>1, <2>2
<1> QED BY <1>2, <1>8, <1>9

\* With a clock that is not set back a new row matters to a taskhash only when
\* it is the first one.
LEMMA InsertFirst ==
    ASSUME TableOK(rows), clock \in 0..MaxClock,
           \A i \in DOMAIN rows : rows[i].created <= clock,
           NEW t \in Taskhash, NEW o \in Outhash \cup {NoOutput}, NEW u \in Taskhash
    PROVE  First(Insert(t, o, u)) = Map!Once(First(rows), t, u)
<1> DEFINE r == [taskhash |-> t, outhash |-> o, unihash |-> u, created |-> clock]
           n == Len(rows) + 1
<1>1. r \in Row /\ rows \in Seq(Row) /\ r.unihash = u /\ r.created = clock
      BY DEF Row, TableOK
<1> DEFINE U == Append(rows, r)
<1>2. Insert(t, o, u) = U
      BY DEF Insert
<1>3. /\ U \in Seq(Row)
      /\ DOMAIN U = DOMAIN rows \cup {n} /\ n \notin DOMAIN rows
      /\ U[n] = r /\ \A i \in DOMAIN rows : U[i] = rows[i] /\ i <= n
      BY <1>1, Appended
<1> HIDE DEF U, n, r
<1>4. \A s \in Taskhash : ByTask(U, s) = IF s = t THEN ByTask(rows, s) \cup {n}
                                         ELSE ByTask(rows, s)
      BY <1>3 DEF ByTask, r
<1>5. ASSUME NEW s \in Taskhash
      PROVE  /\ ByTask(rows, s) \in SUBSET DOMAIN rows
             /\ HasOldest(rows, ByTask(rows, s))
             /\ UnihashOf(U, ByTask(rows, s)) = UnihashOf(rows, ByTask(rows, s))
  <2>1. ByTask(rows, s) \in SUBSET DOMAIN rows /\ HasOldest(rows, ByTask(rows, s))
        BY DEF TableOK, ByTask
  <2> QED BY <1>1, <2>1, OldestKept DEF U
<1>6. CASE ByTask(rows, t) = {}
  <2>1. First(rows)[t] = None
        BY <1>6 DEF First, query_equivalent, UnihashOf
  <2>2. n \in Nat /\ U[n].created \in Nat /\ {n} \in SUBSET DOMAIN U
        BY <1>3, Rows
  <2>3. Older(U, n, n)
        BY <2>2 DEF Older
  <2>4. Oldest(U, {n}) = n
        BY <1>3, <2>2, <2>3, OldestIs
  <2>5. query_equivalent(U, t) = u
        BY <1>1, <1>3, <1>4, <1>6, <2>4 DEF query_equivalent, UnihashOf
  <2>6. \A s \in Taskhash : s # t => query_equivalent(U, s) = query_equivalent(rows, s)
        BY <1>4, <1>5 DEF query_equivalent
  <2> QED BY <1>2, <2>1, <2>5, <2>6 DEF First, Map!Once
<1>7. CASE ByTask(rows, t) # {}
  <2>1. PICK i \in ByTask(rows, t) : \A j \in ByTask(rows, t) : Older(rows, i, j)
        BY <1>5, <1>7 DEF HasOldest
  <2>2. i \in DOMAIN rows
        BY <2>1 DEF ByTask
  <2>3. \A j \in ByTask(rows, t) : Older(U, i, j)
        BY <1>3, <1>5, <2>1, <2>2 DEF Older
  <2>4. U[i].created <= U[n].created /\ i <= n
        BY <1>1, <1>3, <2>2
  <2>5. U[i].created \in Nat /\ U[n].created \in Nat
        BY <1>3, <2>2, Rows
  <2>6. Older(U, i, n)
        BY <2>4, <2>5 DEF Older
  <2>7. ByTask(rows, t) \cup {n} \in SUBSET DOMAIN U
        BY <1>3, <1>5
  <2>8. Oldest(U, ByTask(rows, t) \cup {n}) = i
        BY <1>3, <2>1, <2>3, <2>6, <2>7, OldestIs
  <2>9. Oldest(rows, ByTask(rows, t)) = i
        BY <1>1, <1>5, <2>1, OldestIs
  <2>10. query_equivalent(U, t) = query_equivalent(rows, t)
        BY <1>3, <1>4, <1>7, <2>2, <2>8, <2>9 DEF query_equivalent, UnihashOf
  <2>11. \A s \in Taskhash : query_equivalent(U, s) = query_equivalent(rows, s)
        BY <1>4, <1>5, <2>10 DEF query_equivalent
  <2>12. rows[i].unihash # None
        BY <1>1, <2>2, Rows, HashServAssumption
  <2>13. First(rows)[t] # None
        BY <1>7, <2>9, <2>12 DEF First, query_equivalent, UnihashOf
  <2>14. First(U) = First(rows)
        BY <2>11 DEF First
  <2> QED BY <1>2, <2>13, <2>14 DEF Map!Once
<1> QED BY <1>6, <1>7

-----------------------------------------------------------------------------
(* A request is handled *)

\* An output has a unihash when it has a row, the unihash of any of its rows.
LEMMA OutputIs ==
    ASSUME TableOK(rows), NEW o \in Outhash
    PROVE  /\ ByOutput(rows, o) = {} => Output(rows)[o] = None
           /\ \A i \in ByOutput(rows, o) : Output(rows)[o] = rows[i].unihash
           /\ ByOutput(rows, o) # {} => Output(rows)[o] \in Taskhash
<1> DEFINE I == ByOutput(rows, o)
<1>1. CASE I = {}
      BY <1>1 DEF Output, UnihashOf
<1>2. CASE I # {}
  <2>1. rows \in Seq(Row) /\ I \in SUBSET DOMAIN rows /\ HasOldest(rows, I)
        BY DEF TableOK, ByOutput
  <2>2. PICK k \in I : UnihashOf(rows, I) = rows[k].unihash
        BY <1>2, <2>1, UnihashOfRow
  <2>3. o # NoOutput
        BY HashServAssumption
  <2>4. \A i \in I : rows[i].unihash = rows[k].unihash
        BY <2>3 DEF TableOK, OneUnihash, ByOutput
  <2>5. rows[k].unihash \in Taskhash
        BY <2>1, Rows
  <2> QED BY <1>2, <2>2, <2>4, <2>5 DEF Output
<1> QED BY <1>1, <1>2

LEMMA FirstIs ==
    ASSUME TableOK(rows), NEW t \in Taskhash
    PROVE  /\ ByTask(rows, t) = {} => First(rows)[t] = None
           /\ ByTask(rows, t) # {} => First(rows)[t] \in Taskhash
<1> DEFINE I == ByTask(rows, t)
<1>1. CASE I = {}
      BY <1>1 DEF First, query_equivalent, UnihashOf
<1>2. CASE I # {}
  <2>1. rows \in Seq(Row) /\ I \in SUBSET DOMAIN rows /\ HasOldest(rows, I)
        BY DEF TableOK, ByTask
  <2>2. PICK k \in I : UnihashOf(rows, I) = rows[k].unihash
        BY <1>2, <2>1, UnihashOfRow
  <2>3. rows[k].unihash \in Taskhash
        BY <2>1, Rows
  <2> QED BY <1>2, <2>2, <2>3 DEF First, query_equivalent
<1> QED BY <1>1, <1>2

\* What handle_report() answers is what the output has, or will have.
LEMMA FoundIs ==
    ASSUME TableOK(rows), NEW r \in Requests, r.ask = "report"
    PROVE  /\ r.taskhash \in Taskhash /\ r.outhash \in Outhash /\ r.unihash \in Taskhash
           /\ Found(r) \in Taskhash
           /\ \A i \in ByOutput(rows, r.outhash) : rows[i].unihash = Found(r)
           /\ Map!Once(Output(rows), r.outhash, r.unihash)[r.outhash] = Found(r)
           /\ Exact(r, r.outhash) # {} => Output(rows)[r.outhash] # None
<1>1. r.taskhash \in Taskhash /\ r.outhash \in Outhash /\ r.unihash \in Taskhash
      BY DEF Requests, Get, Report, Equiv
<1> DEFINE o == r.outhash
           E == Exact(r, o)
           I == ByOutput(rows, o)
<1>2. rows \in Seq(Row) /\ E \in SUBSET DOMAIN rows /\ E \subseteq I
      BY DEF TableOK, Exact, ByTask
<1>3. E # {} => \E i \in I : UnihashOf(rows, E) = rows[i].unihash
  <2> SUFFICES ASSUME NEW i \in E
               PROVE  \E k \in I : UnihashOf(rows, E) = rows[k].unihash
      OBVIOUS
  <2>1. \A j \in E : j = i
        BY DEF TableOK, UniqueRows, Exact, ByTask, ByOutput
  <2>2. i \in Nat /\ rows[i].created \in Nat
        BY <1>2, Rows
  <2>3. \A j \in E : Older(rows, i, j)
        BY <2>1, <2>2 DEF Older
  <2>4. HasOldest(rows, E)
        BY <2>3 DEF HasOldest
  <2> QED BY <1>2, <2>4, UnihashOfRow
<1>4. /\ I = {} => Output(rows)[o] = None
      /\ \A i \in I : Output(rows)[o] = rows[i].unihash
      /\ I # {} => Output(rows)[o] \in Taskhash
      BY <1>1, OutputIs
<1>5. UnihashOf(rows, I) = Output(rows)[o]
      BY <1>1 DEF Output
<1>6. Found(r) = IF I = {} THEN r.unihash ELSE Output(rows)[o]
      BY <1>2, <1>3, <1>4, <1>5 DEF Found
<1>7. Output(rows) = [x \in Outhash |-> Output(rows)[x]]
      BY DEF Output
<1> HIDE DEF I, E
<1>8. Map!Once(Output(rows), o, r.unihash)[o] = Found(r)
      BY <1>1, <1>4, <1>6, <1>7, HashServAssumption DEF Map!Once
<1>9. E # {} => Output(rows)[o] # None
      BY <1>2, <1>4, HashServAssumption
<1> QED BY <1>1, <1>4, <1>6, <1>8, <1>9 DEF I, E

\* A request leaves a table in order, and does to the outputs what UnihashMap says.
LEMMA DispatchOutput ==
    ASSUME TableOK(rows), clock \in 0..MaxClock, NEW r \in Requests, NEW d,
           d = dispatch_message(r)
    PROVE  /\ TableOK(d.rows)
           /\ d.answer \in Taskhash \cup {None}
           /\ Output(d.rows) = IF r.ask = "report"
                               THEN Map!Once(Output(rows), r.outhash, r.unihash)
                               ELSE Output(rows)
           /\ r.ask = "report" => d.answer = Output(d.rows)[r.outhash]
<1>0. \A T : Output(T) = [x \in Outhash |-> Output(T)[x]]
      BY DEF Output
<1>1. CASE r.ask = "get"
  <2>1. d.rows = rows /\ d.answer = First(rows)[r.taskhash] /\ r.taskhash \in Taskhash
        BY <1>1 DEF dispatch_message, handle_get, First, Requests, Get, Report, Equiv
  <2> QED BY <1>1, <2>1, FirstIs
<1>2. CASE r.ask = "report"
  <2>1. /\ d.rows = IF Exact(r, r.outhash) # {} THEN rows
                    ELSE Insert(r.taskhash, r.outhash, Found(r))
        /\ d.answer = Found(r)
        BY <1>2 DEF dispatch_message, handle_report
  <2>2. /\ r.taskhash \in Taskhash /\ r.outhash \in Outhash /\ r.unihash \in Taskhash
        /\ Found(r) \in Taskhash
        /\ \A i \in ByOutput(rows, r.outhash) : rows[i].unihash = Found(r)
        /\ Map!Once(Output(rows), r.outhash, r.unihash)[r.outhash] = Found(r)
        /\ Exact(r, r.outhash) # {} => Output(rows)[r.outhash] # None
        BY <1>2, FoundIs
  <2>3. CASE Exact(r, r.outhash) # {}
        BY <1>2, <2>1, <2>2, <2>3 DEF Map!Once
  <2>4. CASE Exact(r, r.outhash) = {}
    <3> DEFINE U == Insert(r.taskhash, r.outhash, Found(r))
    <3>1. ByTask(rows, r.taskhash) \cap ByOutput(rows, r.outhash) = {}
          BY <2>4 DEF Exact
    <3>2. /\ TableOK(U)
          /\ \A x \in Outhash :
                Output(U)[x] = IF x = r.outhash THEN Found(r) ELSE Output(rows)[x]
          BY <2>2, <3>1, InsertOK
    <3>3. \A x \in Outhash :
              Output(U)[x] = Map!Once(Output(rows), r.outhash, r.unihash)[x]
          BY <1>0, <2>2, <3>2 DEF Map!Once
    <3>4. Output(U) = Map!Once(Output(rows), r.outhash, r.unihash)
          BY <1>0, <3>3 DEF Map!Once
    <3> QED BY <1>2, <2>1, <2>2, <2>4, <3>2, <3>4
  <2> QED BY <2>3, <2>4
<1>3. CASE r.ask = "report-equiv"
  <2> DEFINE U == IF Exact(r, NoOutput) # {} THEN rows
                  ELSE Insert(r.taskhash, NoOutput, r.unihash)
  <2>1. /\ d.rows = U /\ d.answer = query_equivalent(U, r.taskhash)
        /\ r.taskhash \in Taskhash /\ r.unihash \in Taskhash
        BY <1>3 DEF dispatch_message, handle_equivreport, Requests, Get, Report, Equiv
  <2>2. TableOK(U) /\ \A x \in Outhash : Output(U)[x] = Output(rows)[x]
    <3>1. CASE Exact(r, NoOutput) # {}
          BY <3>1
    <3>2. CASE Exact(r, NoOutput) = {}
      <4>1. ByTask(rows, r.taskhash) \cap ByOutput(rows, NoOutput) = {}
            BY <3>2 DEF Exact
      <4> QED BY <2>1, <3>2, <4>1, InsertOK, HashServAssumption
    <3> QED BY <3>1, <3>2
  <2> HIDE DEF U
  <2>3. Output(U) = Output(rows)
        BY <1>0, <2>2
  <2>4. query_equivalent(U, r.taskhash) \in Taskhash \cup {None}
    <3>1. CASE ByTask(U, r.taskhash) = {}
          BY <3>1 DEF query_equivalent, UnihashOf
    <3>2. CASE ByTask(U, r.taskhash) # {}
      <4>1. /\ U \in Seq(Row) /\ ByTask(U, r.taskhash) \in SUBSET DOMAIN U
            /\ HasOldest(U, ByTask(U, r.taskhash))
            BY <2>1, <2>2 DEF TableOK, ByTask
      <4> QED BY <3>2, <4>1, UnihashOfRow, Rows DEF query_equivalent
    <3> QED BY <3>1, <3>2
  <2> QED BY <1>3, <2>1, <2>2, <2>3, <2>4
<1> QED BY <1>1, <1>2, <1>3 DEF Requests, Get, Report, Equiv

\* The same for the taskhashes, when the clock is not behind the rows.
LEMMA DispatchFirst ==
    ASSUME TableOK(rows), clock \in 0..MaxClock, NEW r \in Requests, NEW d,
           d = dispatch_message(r),
           \A i \in DOMAIN rows : rows[i].created <= clock
    PROVE  /\ First(d.rows) =
                  CASE r.ask = "get"          -> First(rows)
                    [] r.ask = "report"       -> Map!Once(First(rows), r.taskhash,
                                                          Output(d.rows)[r.outhash])
                    [] r.ask = "report-equiv" -> Map!Once(First(rows), r.taskhash, r.unihash)
           /\ r.ask # "report" => d.answer = First(d.rows)[r.taskhash]
           /\ \A i \in DOMAIN d.rows : d.rows[i].created <= clock
<1>0. clock \in Nat /\ rows \in Seq(Row)
      BY HashServAssumption DEF TableOK
<1>1. ASSUME NEW t \in Taskhash, NEW o \in Outhash \cup {NoOutput}, NEW u \in Taskhash
      PROVE  \A i \in DOMAIN Insert(t, o, u) : Insert(t, o, u)[i].created <= clock
  <2> DEFINE x == [taskhash |-> t, outhash |-> o, unihash |-> u, created |-> clock]
  <2>1. x \in Row /\ x.created = clock
        BY DEF Row
  <2> HIDE DEF x
  <2>2. /\ DOMAIN Append(rows, x) = DOMAIN rows \cup {Len(rows) + 1}
        /\ Append(rows, x)[Len(rows) + 1] = x
        /\ \A i \in DOMAIN rows : Append(rows, x)[i] = rows[i]
        BY <1>0, <2>1, Appended
  <2>3. Insert(t, o, u) = Append(rows, x)
        BY DEF Insert, x
  <2> QED BY <1>0, <2>1, <2>2, <2>3
<1>2. ASSUME NEW o \in Outhash \cup {NoOutput}, Exact(r, o) # {}, r.taskhash \in Taskhash
      PROVE  First(rows)[r.taskhash] # None
  <2>1. ByTask(rows, r.taskhash) # {}
        BY <1>2 DEF Exact
  <2> QED BY <1>2, <2>1, FirstIs, HashServAssumption
<1>3. CASE r.ask = "get"
      BY <1>3 DEF dispatch_message, handle_get, First, Requests, Get, Report, Equiv
<1>4. CASE r.ask = "report"
  <2>1. /\ d.rows = IF Exact(r, r.outhash) # {} THEN rows
                    ELSE Insert(r.taskhash, r.outhash, Found(r))
        /\ d.answer = Found(r)
        BY <1>4 DEF dispatch_message, handle_report
  <2>2. Output(d.rows)[r.outhash] = Found(r)
        BY <1>4, <2>1, DispatchOutput
  <2>3. r.taskhash \in Taskhash /\ r.outhash \in Outhash /\ Found(r) \in Taskhash
        BY <1>4, FoundIs
  <2>4. CASE Exact(r, r.outhash) # {}
        BY <1>2, <1>4, <2>1, <2>3, <2>4 DEF Map!Once
  <2>5. CASE Exact(r, r.outhash) = {}
        BY <1>1, <1>4, <2>1, <2>2, <2>3, <2>5, InsertFirst
  <2> QED BY <2>4, <2>5
<1>5. CASE r.ask = "report-equiv"
  <2> DEFINE U == IF Exact(r, NoOutput) # {} THEN rows
                  ELSE Insert(r.taskhash, NoOutput, r.unihash)
  <2>1. /\ d.rows = U /\ d.answer = query_equivalent(U, r.taskhash)
        /\ r.taskhash \in Taskhash /\ r.unihash \in Taskhash
        BY <1>5 DEF dispatch_message, handle_equivreport, Requests, Get, Report, Equiv
  <2>2. CASE Exact(r, NoOutput) # {}
        BY <1>2, <1>5, <2>1, <2>2 DEF Map!Once, First
  <2>3. CASE Exact(r, NoOutput) = {}
    <3>1. d.rows = Insert(r.taskhash, NoOutput, r.unihash)
          BY <2>1, <2>3
    <3>2. d.answer = query_equivalent(d.rows, r.taskhash)
          BY <2>1
    <3> HIDE DEF U
    <3>3. First(d.rows) = Map!Once(First(rows), r.taskhash, r.unihash)
          BY <2>1, <3>1, InsertFirst
    <3>4. d.answer = First(d.rows)[r.taskhash]
          BY <2>1, <3>2 DEF First
    <3>5. \A i \in DOMAIN d.rows : d.rows[i].created <= clock
          BY <1>1, <2>1, <3>1
    <3> QED BY <1>5, <3>3, <3>4, <3>5
  <2> QED BY <2>2, <2>3
<1> QED BY <1>3, <1>4, <1>5 DEF Requests, Get, Report, Equiv

-----------------------------------------------------------------------------
(* The inductive invariant *)

StateOK ==
    /\ stray \subseteq Requests
    /\ req \in [Builder -> Requests \cup {Idle}]
    /\ sent \in [Builder -> BOOLEAN]
    /\ tries \in [Builder -> 0..Tries - 1]
    /\ reply \in [Builder -> Taskhash \cup {None, NoAnswer}]
    /\ phase \in [Builder -> Phases]
    /\ builds \in [Builder -> 0..MaxBuilds]
    /\ taskhash \in [Builder -> Taskhash \cup {None}]
    /\ unihash \in [Builder -> Taskhash \cup {None}]
    /\ cache \in [Builder -> (Taskhash \X Taskhash) \cup {<<None, None>>}]
    /\ made \in [Builder -> Outhash \cup {NoOutput}]

\* A builder has a request with the server in the phases in which it waits.
WaitOK(b) ==
    /\ phase[b] \in Waiting => req[b] \in Requests
    /\ phase[b] \notin Waiting => req[b] = Idle /\ ~sent[b] /\ reply[b] = NoAnswer
    /\ phase[b] = "reporting" => /\ req[b].ask = "report" /\ req[b].outhash = made[b]
                                 /\ made[b] \in Outhash

\* It knows its hashes.
KnowsOK(b) ==
    /\ phase[b] # "idle" => taskhash[b] \in Taskhash
    /\ phase[b] \notin {"idle", "asking"} => unihash[b] \in Taskhash

\* What it was told of its output is what the table says.
ToldOK(b) ==
    /\ phase[b] = "reporting" /\ reply[b] \in Taskhash
           => reply[b] = Output(rows)[made[b]]
    /\ phase[b] = "reported" => made[b] \in Outhash /\ unihash[b] = Output(rows)[made[b]]

IInv ==
    /\ TableOK(rows) /\ clock \in 0..MaxClock
    /\ StateOK
    /\ \A b \in Builder : WaitOK(b) /\ KnowsOK(b) /\ ToldOK(b)

LEMMA IInvImplies == IInv => TypeOK /\ SameOutputSameHash
<1> SUFFICES ASSUME IInv PROVE TypeOK /\ SameOutputSameHash
    OBVIOUS
<1>1. rows \in Seq(Row) /\ clock \in 0..MaxClock
      BY DEF IInv, TableOK
<1>2. \A i, j \in DOMAIN rows :
          rows[i].taskhash = rows[j].taskhash /\ rows[i].outhash = rows[j].outhash => i = j
      BY DEF IInv, TableOK, UniqueRows
<1>3. TypeOK
      BY <1>1, <1>2 DEF IInv, StateOK, TypeOK
<1>4. SameOutputSameHash
      BY DEF IInv, ToldOK, SameOutputSameHash
<1> QED BY <1>3, <1>4

LEMMA InitIInv == ASSUME Init PROVE IInv
<1> USE DEF Init
<1>1. TableOK(rows)
      BY DEF TableOK, UniqueRows, OneUnihash, HasOldest, ByTask, ByOutput
<1>2. clock \in 0..MaxClock /\ StateOK
      BY HashServAssumption DEF StateOK, Phases
<1>3. \A b \in Builder : WaitOK(b) /\ KnowsOK(b) /\ ToldOK(b)
      BY DEF WaitOK, KnowsOK, ToldOK, Waiting
<1> QED BY <1>1, <1>2, <1>3 DEF IInv

\* An output keeps its unihash when a request is handled.
LEMMA OutputStays ==
    ASSUME TableOK(rows), clock \in 0..MaxClock, NEW r \in Requests,
           rows' = dispatch_message(r).rows
    PROVE  /\ TableOK(rows)'
           /\ \A o \in Outhash : Output(rows)[o] # None => Output(rows)'[o] = Output(rows)[o]
<1> DEFINE d == dispatch_message(r)
<1>1. /\ TableOK(d.rows)
      /\ Output(d.rows) = IF r.ask = "report"
                          THEN Map!Once(Output(rows), r.outhash, r.unihash)
                          ELSE Output(rows)
      BY DispatchOutput
<1>2. Output(rows) = [o \in Outhash |-> Output(rows)[o]]
      BY DEF Output
<1>3. \A o \in Outhash : Output(rows)[o] # None => Output(d.rows)[o] = Output(rows)[o]
      BY <1>1, <1>2 DEF Map!Once
<1>4. rows' = d.rows
      OBVIOUS
<1> HIDE DEF d
<1>5. TableOK(rows')
      BY <1>1, <1>4
<1>6. TableOK(rows)'
      BY <1>5
<1>7. \A o \in Outhash : Output(rows)[o] # None => Output(rows')[o] = Output(rows)[o]
      BY <1>3, <1>4
<1>8. \A o \in Outhash : Output(rows)[o] # None => Output(rows)'[o] = Output(rows)[o]
      BY <1>7
<1> QED BY <1>6, <1>8

BuilderOK(b) == WaitOK(b) /\ KnowsOK(b) /\ ToldOK(b)

\* A builder of which a step says nothing.
LEMMA Untouched ==
    ASSUME NEW c \in Builder, BuilderOK(c), rows' = rows,
           phase'[c] = phase[c], req'[c] = req[c], sent'[c] = sent[c],
           reply'[c] = reply[c], taskhash'[c] = taskhash[c],
           unihash'[c] = unihash[c], made'[c] = made[c]
    PROVE  BuilderOK(c)'
<1>1. Output(rows') = Output(rows)
      OBVIOUS
<1>2. WaitOK(c)' /\ KnowsOK(c)'
      BY DEF BuilderOK, WaitOK, KnowsOK
<1>3. ToldOK(c)'
      BY <1>1 DEF BuilderOK, ToldOK
<1> QED BY <1>2, <1>3 DEF BuilderOK

LEMMA HandleStep ==
    ASSUME IInv, NEW b \in Builder, Handle(b)
    PROVE  IInv'
<1> DEFINE r == req[b]
           d == dispatch_message(r)
<1>1. /\ sent[b] /\ rows' = d.rows /\ reply' = [reply EXCEPT ![b] = d.answer]
      /\ sent' = [sent EXCEPT ![b] = FALSE] /\ clock' = clock
      /\ UNCHANGED <<stray, req, tries, builderVars>>
      BY DEF Handle
<1>2. TableOK(rows) /\ clock \in 0..MaxClock /\ StateOK /\ \A c \in Builder : BuilderOK(c)
      BY DEF IInv, BuilderOK
<1>3. r \in Requests /\ phase[b] \in Waiting
      BY <1>1, <1>2 DEF BuilderOK, WaitOK, StateOK
<1>4. /\ d.answer \in Taskhash \cup {None}
      /\ r.ask = "report" => d.answer = Output(d.rows)[r.outhash]
      BY <1>2, <1>3, DispatchOutput
<1> HIDE DEF d
<1>5. r.ask = "report" => d.answer = Output(rows')[r.outhash]
      BY <1>1, <1>4
<1>6. /\ TableOK(rows)'
      /\ \A o \in Outhash : Output(rows)[o] # None => Output(rows)'[o] = Output(rows)[o]
      BY <1>1, <1>2, <1>3, OutputStays DEF d
<1>7. clock' \in 0..MaxClock /\ StateOK'
      BY <1>1, <1>2, <1>4 DEF StateOK, builderVars
<1>8. ASSUME NEW c \in Builder
      PROVE  WaitOK(c)' /\ KnowsOK(c)' /\ ToldOK(c)'
  <2>1. BuilderOK(c) /\ reply' \in [Builder -> Taskhash \cup {None, NoAnswer}]
        /\ sent \in [Builder -> BOOLEAN] /\ reply \in [Builder -> Taskhash \cup {None, NoAnswer}]
        BY <1>2, <1>7 DEF StateOK
  <2>2. /\ phase' = phase /\ req' = req /\ made' = made /\ unihash' = unihash
        /\ taskhash' = taskhash
        BY <1>1 DEF builderVars
  <2>3. WaitOK(c)'
    <3>1. CASE c = b
          BY <1>1, <1>3, <2>1, <2>2, <3>1 DEF BuilderOK, WaitOK
    <3>2. CASE c # b
          BY <1>1, <2>1, <2>2, <3>2 DEF BuilderOK, WaitOK
    <3> QED BY <3>1, <3>2
  <2>4. KnowsOK(c)'
        BY <2>1, <2>2 DEF BuilderOK, KnowsOK
  <2>5. phase[c] = "reporting" /\ reply'[c] \in Taskhash => reply'[c] = Output(rows')[made[c]]
    <3>1. CASE c = b
          BY <1>1, <1>5, <2>1, <3>1 DEF BuilderOK, WaitOK
    <3>2. CASE c # b
          BY <1>1, <1>6, <2>1, <3>2, HashServAssumption DEF BuilderOK, WaitOK, ToldOK
    <3> QED BY <3>1, <3>2
  <2>6. phase[c] = "reported" => made[c] \in Outhash /\ unihash[c] = Output(rows')[made[c]]
        BY <1>6, <2>1, HashServAssumption DEF BuilderOK, KnowsOK, ToldOK
  <2> QED BY <2>2, <2>3, <2>4, <2>5, <2>6 DEF ToldOK
<1> QED BY <1>6, <1>7, <1>8 DEF IInv

LEMMA StrayStep ==
    ASSUME IInv, NEW r \in stray, HandleStray(r)
    PROVE  IInv'
<1>1. /\ rows' = dispatch_message(r).rows /\ stray' = stray \ {r} /\ clock' = clock
      /\ UNCHANGED <<req, sent, tries, reply, builderVars>>
      BY DEF HandleStray
<1>2. TableOK(rows) /\ clock \in 0..MaxClock /\ StateOK /\ \A c \in Builder : BuilderOK(c)
      BY DEF IInv, BuilderOK
<1>3. r \in Requests
      BY <1>2 DEF StateOK
<1>4. /\ TableOK(rows)'
      /\ \A o \in Outhash : Output(rows)[o] # None => Output(rows)'[o] = Output(rows)[o]
      BY <1>1, <1>2, <1>3, OutputStays
<1>5. clock' \in 0..MaxClock /\ StateOK'
      BY <1>1, <1>2 DEF StateOK, builderVars
<1>6. ASSUME NEW c \in Builder
      PROVE  WaitOK(c)' /\ KnowsOK(c)' /\ ToldOK(c)'
  <2>1. BuilderOK(c)
        BY <1>2
  <2>2. /\ phase' = phase /\ req' = req /\ made' = made /\ unihash' = unihash
        /\ taskhash' = taskhash /\ sent' = sent /\ reply' = reply
        BY <1>1 DEF builderVars
  <2>3. WaitOK(c)' /\ KnowsOK(c)'
        BY <2>1, <2>2 DEF BuilderOK, WaitOK, KnowsOK
  <2>4. phase[c] = "reporting" /\ reply[c] \in Taskhash => reply[c] = Output(rows')[made[c]]
        BY <1>4, <2>1, HashServAssumption DEF BuilderOK, WaitOK, ToldOK
  <2>5. phase[c] = "reported" => made[c] \in Outhash /\ unihash[c] = Output(rows')[made[c]]
        BY <1>4, <2>1, HashServAssumption DEF BuilderOK, KnowsOK, ToldOK
  <2> QED BY <2>2, <2>3, <2>4, <2>5 DEF ToldOK
<1> QED BY <1>4, <1>5, <1>6 DEF IInv

\* A step of builder b concerns b only.
LEMMA OneBuilder ==
    ASSUME IInv, NEW b \in Builder, UNCHANGED serverVars, StateOK', BuilderOK(b)',
           \A c \in Builder \ {b} :
               /\ phase'[c] = phase[c] /\ req'[c] = req[c] /\ sent'[c] = sent[c]
               /\ reply'[c] = reply[c] /\ taskhash'[c] = taskhash[c]
               /\ unihash'[c] = unihash[c] /\ made'[c] = made[c]
    PROVE  IInv'
<1>1. rows' = rows /\ clock' = clock
      BY DEF serverVars
<1>2. TableOK(rows') /\ clock' \in 0..MaxClock
      BY <1>1 DEF IInv
<1>3. ASSUME NEW c \in Builder PROVE BuilderOK(c)'
  <2>1. CASE c = b
        BY <2>1
  <2>2. CASE c # b
    <3>1. BuilderOK(c)
          BY DEF IInv, BuilderOK
    <3> QED BY <1>1, <2>2, <3>1, Untouched
  <2> QED BY <2>1, <2>2
<1> QED BY <1>2, <1>3 DEF IInv, BuilderOK

LEMMA StartStep ==
    ASSUME IInv, NEW b \in Builder, NEW t \in Taskhash, Start(b, t)
    PROVE  IInv'
<1>1. StateOK /\ BuilderOK(b)
      BY DEF IInv, BuilderOK
<1>2. phase[b] \notin Waiting
      BY DEF Start, Waiting
<1>3. Get(t) \in Requests
      BY DEF Requests
<1>4. CASE cache[b][1] = t
  <2>1. cache[b][2] \in Taskhash
        BY <1>1, <1>4, HashServAssumption DEF StateOK
  <2>2. /\ builds' = [builds EXCEPT ![b] = @ + 1] /\ builds[b] < MaxBuilds
        /\ taskhash' = [taskhash EXCEPT ![b] = t]
        /\ unihash' = [unihash EXCEPT ![b] = cache[b][2]]
        /\ phase' = [phase EXCEPT ![b] = "ready"]
        /\ UNCHANGED <<serverVars, stray, req, sent, tries, reply, cache, made>>
        BY <1>4 DEF Start
  <2>3. StateOK'
        BY <1>1, <2>1, <2>2, HashServAssumption DEF StateOK, Phases
  <2>4. BuilderOK(b)'
        BY <1>1, <1>2, <2>1, <2>2
        DEF StateOK, BuilderOK, WaitOK, KnowsOK, ToldOK, Waiting
  <2> QED BY <1>1, <2>2, <2>3, <2>4, OneBuilder DEF StateOK
<1>5. CASE cache[b][1] # t
  <2>2. /\ builds' = [builds EXCEPT ![b] = @ + 1] /\ builds[b] < MaxBuilds
        /\ taskhash' = [taskhash EXCEPT ![b] = t]
        /\ phase' = [phase EXCEPT ![b] = "asking"]
        /\ req' = [req EXCEPT ![b] = Get(t)]
        /\ sent' = [sent EXCEPT ![b] = TRUE]
        /\ tries' = [tries EXCEPT ![b] = 0]
        /\ reply' = [reply EXCEPT ![b] = NoAnswer]
        /\ UNCHANGED <<serverVars, stray, unihash, cache, made>>
        BY <1>5 DEF Start, Ask
  <2>3. StateOK'
        BY <1>1, <1>3, <2>2, HashServAssumption DEF StateOK, Phases, Waiting
  <2>4. BuilderOK(b)'
        BY <1>1, <1>3, <2>2 DEF StateOK, BuilderOK, WaitOK, KnowsOK, ToldOK, Waiting
  <2> QED BY <1>1, <2>2, <2>3, <2>4, OneBuilder DEF StateOK
<1> QED BY <1>4, <1>5

LEMMA RehashStep ==
    ASSUME IInv, NEW b \in Builder, NEW t \in Taskhash, Rehash(b, t)
    PROVE  IInv'
<1>1. StateOK /\ BuilderOK(b) /\ Get(t) \in Requests
      BY DEF IInv, BuilderOK, Requests
<1>2. /\ phase[b] = "covered"
      /\ builds' = [builds EXCEPT ![b] = @ + 1] /\ builds[b] < MaxBuilds
      /\ taskhash' = [taskhash EXCEPT ![b] = t]
      /\ phase' = [phase EXCEPT ![b] = "remapping"]
      /\ req' = [req EXCEPT ![b] = Get(t)]
      /\ sent' = [sent EXCEPT ![b] = TRUE]
      /\ tries' = [tries EXCEPT ![b] = 0]
      /\ reply' = [reply EXCEPT ![b] = NoAnswer]
      /\ UNCHANGED <<serverVars, stray, cache, unihash, made>>
      BY DEF Rehash, Ask
<1>3. StateOK'
      BY <1>1, <1>2, HashServAssumption DEF StateOK, Phases, Waiting
<1>4. BuilderOK(b)'
      BY <1>1, <1>2 DEF StateOK, BuilderOK, WaitOK, KnowsOK, ToldOK, Waiting
<1> QED BY <1>1, <1>2, <1>3, <1>4, OneBuilder DEF StateOK

LEMMA RunStep ==
    ASSUME IInv, NEW b \in Builder, NEW o \in Outhash, Run(b, o)
    PROVE  IInv'
<1> DEFINE r == Report(taskhash[b], o, unihash[b])
<1>1. StateOK /\ BuilderOK(b) /\ phase[b] = "ready"
      BY DEF IInv, BuilderOK, Run
<1>2. taskhash[b] \in Taskhash /\ unihash[b] \in Taskhash
      BY <1>1 DEF BuilderOK, KnowsOK
<1>3. r \in Requests /\ r.ask = "report" /\ r.outhash = o
      BY <1>2 DEF Requests, Report
<1> HIDE DEF r
<1>4. /\ made' = [made EXCEPT ![b] = o]
      /\ phase' = [phase EXCEPT ![b] = "reporting"]
      /\ req' = [req EXCEPT ![b] = r]
      /\ sent' = [sent EXCEPT ![b] = TRUE]
      /\ tries' = [tries EXCEPT ![b] = 0]
      /\ reply' = [reply EXCEPT ![b] = NoAnswer]
      /\ UNCHANGED <<serverVars, stray, builds, taskhash, cache, unihash>>
      BY DEF Run, Ask, r
<1>5. StateOK'
      BY <1>1, <1>3, <1>4, HashServAssumption DEF StateOK, Phases, Waiting
<1>6. BuilderOK(b)'
      BY <1>1, <1>2, <1>3, <1>4, HashServAssumption
      DEF StateOK, BuilderOK, WaitOK, KnowsOK, ToldOK, Waiting
<1> QED BY <1>1, <1>4, <1>5, <1>6, OneBuilder DEF StateOK

LEMMA CoverStep ==
    ASSUME IInv, NEW b \in Builder, Cover(b)
    PROVE  IInv'
<1>1. StateOK /\ BuilderOK(b)
      BY DEF IInv, BuilderOK
<1>2. /\ phase[b] = "ready" /\ phase' = [phase EXCEPT ![b] = "covered"]
      /\ UNCHANGED <<serverVars, stray, req, sent, tries, reply>>
      /\ UNCHANGED <<builds, taskhash, cache, unihash, made>>
      BY DEF Cover, connVars
<1>3. StateOK'
      BY <1>1, <1>2 DEF StateOK, Phases
<1>4. BuilderOK(b)'
      BY <1>1, <1>2 DEF StateOK, BuilderOK, WaitOK, KnowsOK, ToldOK, Waiting
<1> QED BY <1>1, <1>2, <1>3, <1>4, OneBuilder DEF StateOK

\* What is left on a closed connection is a request.
LEMMA StrayOK ==
    ASSUME StateOK, NEW b \in Builder, BuilderOK(b), Leaves(b)
    PROVE  stray' \subseteq Requests
<1>1. sent[b] => req[b] \in Requests
      BY DEF BuilderOK, WaitOK, StateOK
<1> QED BY <1>1 DEF Leaves, StateOK

LEMMA AgainStep ==
    ASSUME IInv, NEW b \in Builder, Again(b)
    PROVE  IInv'
<1>1. StateOK /\ BuilderOK(b)
      BY DEF IInv, BuilderOK
<1>2. /\ req[b] # Idle /\ tries[b] + 1 < Tries
      /\ tries' = [tries EXCEPT ![b] = @ + 1]
      /\ sent' = [sent EXCEPT ![b] = TRUE]
      /\ reply' = [reply EXCEPT ![b] = NoAnswer]
      /\ UNCHANGED <<serverVars, req, phase, builds, taskhash, cache, unihash, made>>
      BY DEF Again, builderVars
<1>3. stray' \subseteq Requests
      BY <1>1, StrayOK DEF Again
<1>4. StateOK'
      BY <1>1, <1>2, <1>3, HashServAssumption DEF StateOK
<1>5. BuilderOK(b)'
      BY <1>1, <1>2, HashServAssumption
      DEF StateOK, BuilderOK, WaitOK, KnowsOK, ToldOK, Waiting
<1> QED BY <1>1, <1>2, <1>4, <1>5, OneBuilder DEF StateOK

\* A builder goes on with an answer, or without one.
LEMMA ContinueStep ==
    ASSUME IInv, NEW b \in Builder, NEW answer \in {NoAnswer, reply[b]},
           Continue(b, answer), stray' \subseteq Requests
    PROVE  IInv'
<1>1. StateOK /\ BuilderOK(b)
      BY DEF IInv, BuilderOK
<1>2. /\ UNCHANGED <<serverVars, builds, taskhash, made>>
      /\ rows' = rows
      BY DEF Continue, serverVars
<1>3. phase[b] # "idle" => taskhash[b] \in Taskhash /\ Fallback(b, answer) \in Taskhash
      BY <1>1 DEF BuilderOK, KnowsOK, Fallback
<1>4. AskNothing(b) =>
          /\ req' = [req EXCEPT ![b] = Idle]
          /\ sent' = [sent EXCEPT ![b] = FALSE]
          /\ tries' = [tries EXCEPT ![b] = 0]
          /\ reply' = [reply EXCEPT ![b] = NoAnswer]
      BY DEF AskNothing
<1>4a. AskNothing(b) =>
          /\ req' \in [Builder -> Requests \cup {Idle}]
          /\ sent' \in [Builder -> BOOLEAN]
          /\ tries' \in [Builder -> 0..Tries - 1]
          /\ reply' \in [Builder -> Taskhash \cup {None, NoAnswer}]
  <2>1. 0 \in 0..Tries - 1
        BY HashServAssumption
  <2> QED BY <1>1, <1>4, <2>1 DEF StateOK
<1>5. CASE GotUnihash(b, answer)
  <2> DEFINE u == Fallback(b, answer)
  <2>1. /\ phase[b] = "asking" /\ phase' = [phase EXCEPT ![b] = "ready"]
        /\ cache' = [cache EXCEPT ![b] = <<taskhash[b], u>>]
        /\ unihash' = [unihash EXCEPT ![b] = u] /\ AskNothing(b)
        BY <1>5 DEF GotUnihash, set_unihash
  <2>2. taskhash[b] \in Taskhash /\ u \in Taskhash
        BY <1>3, <2>1
  <2> HIDE DEF u
  <2>3. StateOK'
        BY <1>1, <1>2, <1>4a, <2>1, <2>2 DEF StateOK, Phases
  <2>4. BuilderOK(b)'
        BY <1>1, <1>2, <1>4, <2>1, <2>2
        DEF StateOK, BuilderOK, WaitOK, KnowsOK, ToldOK, Waiting
  <2> QED BY <1>1, <1>2, <1>4, <2>1, <2>3, <2>4, OneBuilder DEF StateOK
<1>6. CASE Reported(b, answer) /\ answer \in Taskhash
  <2>1. /\ phase[b] = "reporting" /\ phase' = [phase EXCEPT ![b] = "reported"]
        /\ cache' = [cache EXCEPT ![b] = <<taskhash[b], answer>>]
        /\ unihash' = [unihash EXCEPT ![b] = answer] /\ AskNothing(b)
        BY <1>6 DEF Reported, set_unihash
  <2>2. taskhash[b] \in Taskhash /\ answer = reply[b]
        BY <1>3, <1>6, <2>1, HashServAssumption
  <2>3. made[b] \in Outhash /\ answer = Output(rows)[made[b]]
        BY <1>1, <1>6, <2>1, <2>2 DEF BuilderOK, WaitOK, ToldOK
  <2>4. answer = Output(rows')[made[b]]
        BY <1>2, <2>3
  <2>5. StateOK'
        BY <1>1, <1>2, <1>4a, <1>6, <2>1, <2>2 DEF StateOK, Phases
  <2>6. BuilderOK(b)'
    <3>1. WaitOK(b)'
          BY <1>1, <1>2, <1>4, <2>1 DEF StateOK, WaitOK, Waiting
    <3>2. KnowsOK(b)'
          BY <1>1, <1>2, <1>6, <2>1, <2>2 DEF StateOK, KnowsOK
    <3>3. ToldOK(b)'
          BY <1>1, <1>2, <2>1, <2>3, <2>4 DEF StateOK, ToldOK
    <3> QED BY <3>1, <3>2, <3>3 DEF BuilderOK
  <2> QED BY <1>1, <1>2, <1>4, <2>1, <2>5, <2>6, OneBuilder DEF StateOK
<1>7. CASE Reported(b, answer) /\ answer \notin Taskhash
  <2>1. /\ phase[b] = "reporting" /\ phase' = [phase EXCEPT ![b] = "unreported"]
        /\ UNCHANGED <<cache, unihash>> /\ AskNothing(b)
        BY <1>7 DEF Reported
  <2>2. StateOK'
        BY <1>1, <1>2, <1>4a, <2>1 DEF StateOK, Phases
  <2>3. BuilderOK(b)'
        BY <1>1, <1>2, <1>3, <1>4, <2>1
        DEF StateOK, BuilderOK, WaitOK, KnowsOK, ToldOK, Waiting
  <2> QED BY <1>1, <1>2, <1>4, <2>1, <2>2, <2>3, OneBuilder DEF StateOK
<1>8. CASE Remapped(b, answer) /\ Fallback(b, answer) = unihash[b]
  <2>1. /\ phase[b] = "remapping" /\ phase' = [phase EXCEPT ![b] = "covered"]
        /\ cache' = [cache EXCEPT ![b] = <<taskhash[b], unihash[b]>>]
        /\ unihash' = unihash /\ AskNothing(b)
        BY <1>8 DEF Remapped, set_unihash
  <2>2. taskhash[b] \in Taskhash /\ unihash[b] \in Taskhash
        BY <1>3, <1>8, <2>1
  <2>3. StateOK'
        BY <1>1, <1>2, <1>4a, <2>1, <2>2 DEF StateOK, Phases
  <2>4. BuilderOK(b)'
        BY <1>1, <1>2, <1>4, <2>1, <2>2
        DEF StateOK, BuilderOK, WaitOK, KnowsOK, ToldOK, Waiting
  <2> QED BY <1>1, <1>2, <1>4, <2>1, <2>3, <2>4, OneBuilder DEF StateOK
<1>9. CASE Remapped(b, answer) /\ Fallback(b, answer) # unihash[b]
  <2> DEFINE u == Fallback(b, answer)
             r == Equiv(taskhash[b], unihash[b])
  <2>1. /\ phase[b] = "remapping" /\ phase' = [phase EXCEPT ![b] = "equiv"]
        /\ cache' = [cache EXCEPT ![b] = <<taskhash[b], u>>]
        /\ req' = [req EXCEPT ![b] = r]
        /\ sent' = [sent EXCEPT ![b] = TRUE]
        /\ tries' = [tries EXCEPT ![b] = 0]
        /\ reply' = [reply EXCEPT ![b] = NoAnswer]
        /\ unihash' = unihash
        BY <1>9 DEF Remapped, set_unihash, Ask
  <2>2. taskhash[b] \in Taskhash /\ u \in Taskhash /\ unihash[b] \in Taskhash
        BY <1>1, <1>3, <2>1 DEF BuilderOK, KnowsOK
  <2>3. r \in Requests
        BY <2>2 DEF Requests
  <2> HIDE DEF u, r
  <2>4. StateOK'
        BY <1>1, <1>2, <2>1, <2>2, <2>3, HashServAssumption DEF StateOK, Phases, Waiting
  <2>5. BuilderOK(b)'
        BY <1>1, <1>2, <2>1, <2>2, <2>3
        DEF StateOK, BuilderOK, WaitOK, KnowsOK, ToldOK, Waiting
  <2> QED BY <1>1, <1>2, <2>1, <2>4, <2>5, OneBuilder DEF StateOK
<1>10. CASE ReportedEquiv(b, answer)
  <2>1. /\ phase[b] = "equiv" /\ phase' = [phase EXCEPT ![b] = "covered"]
        /\ unihash' = unihash /\ AskNothing(b)
        /\ \/ cache' = [cache EXCEPT ![b] = <<taskhash[b], unihash[b]>>]
           \/ cache' = cache
        BY <1>10 DEF ReportedEquiv, set_unihash
  <2>2. taskhash[b] \in Taskhash /\ unihash[b] \in Taskhash
        BY <1>1, <1>3, <2>1 DEF BuilderOK, KnowsOK
  <2>3. StateOK'
        BY <1>1, <1>2, <1>4a, <2>1, <2>2 DEF StateOK, Phases
  <2>4. BuilderOK(b)'
        BY <1>1, <1>2, <1>4, <2>1, <2>2
        DEF StateOK, BuilderOK, WaitOK, KnowsOK, ToldOK, Waiting
  <2> QED BY <1>1, <1>2, <1>4, <2>1, <2>3, <2>4, OneBuilder DEF StateOK
<1> QED BY <1>5, <1>6, <1>7, <1>8, <1>9, <1>10 DEF Continue

LEMMA StepIInv == ASSUME IInv, [Next]_vars PROVE IInv'
<1> USE DEF Next
<1>0. StateOK /\ \A b \in Builder : BuilderOK(b)
      BY DEF IInv, BuilderOK
<1>1. ASSUME NEW b \in Builder, Return(b) PROVE IInv'
  <2>1. Continue(b, reply[b]) /\ stray' \subseteq Requests
        BY <1>0, <1>1 DEF Return, StateOK
  <2> QED BY <2>1, ContinueStep
<1>2. ASSUME NEW b \in Builder, GiveUp(b) PROVE IInv'
  <2>1. Continue(b, NoAnswer) /\ stray' \subseteq Requests
        BY <1>0, <1>2, StrayOK DEF GiveUp
  <2> QED BY <2>1, ContinueStep
<1>3. CASE Tick
  <2>1. UNCHANGED <<rows, stray, req, sent, tries, reply>>
        /\ UNCHANGED <<phase, builds, taskhash, cache, unihash, made>>
        BY <1>3 DEF Tick, connVars, builderVars
  <2>2. clock' \in 0..MaxClock
        BY <1>3, HashServAssumption DEF Tick, IInv
  <2>3. TableOK(rows') /\ StateOK'
        BY <2>1 DEF IInv, StateOK
  <2>4. \A b \in Builder : BuilderOK(b)'
        BY <1>0, <2>1, Untouched
  <2> QED BY <2>2, <2>3, <2>4 DEF IInv, BuilderOK
<1>4. CASE UNCHANGED vars
  <2>1. UNCHANGED <<rows, clock, stray, req, sent, tries, reply>>
        /\ UNCHANGED <<phase, builds, taskhash, cache, unihash, made>>
        BY <1>4 DEF vars, serverVars, connVars, builderVars
  <2>2. TableOK(rows') /\ clock' \in 0..MaxClock /\ StateOK'
        BY <2>1 DEF IInv, StateOK
  <2>3. \A b \in Builder : BuilderOK(b)'
        BY <1>0, <2>1, Untouched
  <2> QED BY <2>2, <2>3 DEF IInv, BuilderOK
<1>5. ASSUME NEW b \in Builder, Again(b) PROVE IInv'
      BY <1>5, AgainStep
<1> QED BY <1>1, <1>2, <1>3, <1>4, <1>5, StartStep, RehashStep, RunStep, CoverStep,
           HandleStep, StrayStep

THEOREM InvariantTheorem == Spec => []IInv
BY InitIInv, StepIInv, PTL DEF Spec

\* Types, and one row for an output of a taskhash, for any clock.
THEOREM TypeTheorem == Spec => []TypeOK
BY InvariantTheorem, IInvImplies, PTL

\* What builders were told of one output is one unihash, for any clock: an
\* output is looked up by its rows, which all have one unihash.
THEOREM SameOutputTheorem == Spec => []SameOutputSameHash
BY InvariantTheorem, IInvImplies, PTL

\* Both: the table and what builders were told of it agree.
THEOREM HashSafetyTheorem == Spec => []HashSafety
BY TypeTheorem, SameOutputTheorem, PTL DEF HashSafety

-----------------------------------------------------------------------------
(* The two maps, when the clock is not set back *)

TimeOK == \A i \in DOMAIN rows : rows[i].created <= clock

LEMMA StepTimeOK ==
    ASSUME IInv, TimeOK, ~SetBack, [Next]_vars
    PROVE  TimeOK'
<1>1. TableOK(rows) /\ clock \in 0..MaxClock /\ StateOK /\ \A b \in Builder : WaitOK(b)
      BY DEF IInv
<1>2. ASSUME NEW r \in Requests, rows' = dispatch_message(r).rows, clock' = clock
      PROVE  TimeOK'
  <2> DEFINE d == dispatch_message(r)
  <2>1. \A i \in DOMAIN d.rows : d.rows[i].created <= clock
        BY <1>1, DispatchFirst DEF TimeOK
  <2>2. rows' = d.rows
        BY <1>2
  <2> HIDE DEF d
  <2> QED BY <1>2, <2>1, <2>2 DEF TimeOK
<1>3. ASSUME NEW b \in Builder, Handle(b) PROVE TimeOK'
  <2>1. req[b] \in Requests
        BY <1>1, <1>3 DEF Handle, StateOK, WaitOK
  <2> QED BY <1>2, <1>3, <2>1 DEF Handle
<1>4. ASSUME NEW r \in stray, HandleStray(r) PROVE TimeOK'
      BY <1>1, <1>2, <1>4 DEF HandleStray, StateOK
<1>5. CASE Tick
  <2>1. rows' = rows /\ clock' = clock + 1
        BY <1>5 DEF Tick
  <2>2. \A i \in DOMAIN rows : rows[i].created \in Nat
        BY <1>1, Rows DEF TableOK
  <2>3. clock \in Nat
        BY <1>1, HashServAssumption
  <2> QED BY <2>1, <2>2, <2>3 DEF TimeOK
<1>6. CASE UNCHANGED serverVars
      BY <1>6 DEF serverVars, TimeOK
<1> QED BY <1>3, <1>4, <1>5, <1>6
        DEF Next, vars, Start, Rehash, Run, Cover, Again, Return, GiveUp, Continue

LEMMA MapRequests == Requests \subseteq Map!Requests
BY DEF Requests, Get, Report, Equiv, Map!Requests

LEMMA InitMap == ASSUME Init PROVE Map!Init
<1>1. \A t \in Taskhash : query_equivalent(rows, t) = None
      BY DEF Init, query_equivalent, UnihashOf, ByTask
<1>2. \A o \in Outhash : UnihashOf(rows, ByOutput(rows, o)) = None
      BY DEF Init, UnihashOf, ByOutput
<1> QED BY <1>1, <1>2 DEF Init, Map!Init

\* A request that the server handles has the effect that the maps say.
LEMMA MapEffect ==
    ASSUME IInv, TimeOK, NEW r \in Requests, rows' = dispatch_message(r).rows
    PROVE  Map!Effect(r) /\ dispatch_message(r).answer = Map!Told(r)
<1> DEFINE d == dispatch_message(r)
<1>1. TableOK(rows) /\ clock \in 0..MaxClock
      BY DEF IInv
<1>2. /\ Output(d.rows) = IF r.ask = "report"
                          THEN Map!Once(Output(rows), r.outhash, r.unihash)
                          ELSE Output(rows)
      /\ r.ask = "report" => d.answer = Output(d.rows)[r.outhash]
      BY <1>1, DispatchOutput
<1>3. /\ First(d.rows) =
             CASE r.ask = "get"          -> First(rows)
               [] r.ask = "report"       -> Map!Once(First(rows), r.taskhash,
                                                     Output(d.rows)[r.outhash])
               [] r.ask = "report-equiv" -> Map!Once(First(rows), r.taskhash, r.unihash)
      /\ r.ask # "report" => d.answer = First(d.rows)[r.taskhash]
      BY <1>1, DispatchFirst DEF TimeOK
<1>4. rows' = d.rows
      OBVIOUS
<1>5. r.ask \in {"get", "report", "report-equiv"}
      BY DEF Requests, Get, Report, Equiv
<1> HIDE DEF d
<1>6. /\ First(rows)' = First(d.rows) /\ Output(rows)' = Output(d.rows)
      BY <1>4 DEF First, Output
<1>7. CASE r.ask = "get"
      BY <1>2, <1>3, <1>6, <1>7 DEF Map!Effect, Map!Told, First, Output, d
<1>8. CASE r.ask = "report"
      BY <1>2, <1>3, <1>6, <1>8 DEF Map!Effect, Map!Told, First, Output, d
<1>9. CASE r.ask = "report-equiv"
      BY <1>2, <1>3, <1>6, <1>9 DEF Map!Effect, Map!Told, First, Output, d
<1> QED BY <1>5, <1>7, <1>8, <1>9

\* A builder that waits for nothing asks.
LEMMA MapAsk ==
    ASSUME IInv, NEW b \in Builder, phase[b] \notin Waiting, NEW r \in Requests,
           Ask(b, r), UNCHANGED <<rows, stray>>
    PROVE  Map!Next
<1>1. req[b] = Idle /\ reply[b] = NoAnswer
      BY DEF IInv, WaitOK
<1>2. reply \in [Builder -> Taskhash \cup {None, NoAnswer}]
      BY DEF IInv, StateOK
<1>3. reply' = reply /\ req' = [req EXCEPT ![b] = r]
      BY <1>1, <1>2 DEF Ask
<1>4. Map!Ask(b, r)
      BY <1>1, <1>3 DEF Map!Ask
<1> QED BY <1>4, MapRequests DEF Map!Next

\* A builder that waits goes on.
LEMMA MapReturn ==
    ASSUME IInv, NEW b \in Builder, NEW answer, Continue(b, answer),
           \/ answer = reply[b] /\ answer # NoAnswer /\ stray' = stray
           \/ stray' \in {stray, stray \cup {req[b]}}
    PROVE  Map!Next
<1>1. phase[b] \in Waiting /\ rows' = rows
      BY DEF Continue, GotUnihash, Reported, Remapped, ReportedEquiv, Waiting, serverVars
<1>2. req[b] \in Requests /\ StateOK /\ KnowsOK(b)
      BY <1>1 DEF IInv, WaitOK
<1>3. req[b] # Idle
      BY <1>2, HashServAssumption
<1>4. \E r \in Requests \cup {Idle} : req' = [req EXCEPT ![b] = r]
  <2>1. CASE AskNothing(b)
        BY <2>1 DEF AskNothing
  <2>2. CASE Ask(b, Equiv(taskhash[b], unihash[b])) /\ phase[b] = "remapping"
    <3>1. Equiv(taskhash[b], unihash[b]) \in Requests
          BY <1>2, <2>2 DEF KnowsOK, Requests
    <3> QED BY <2>2, <3>1 DEF Ask
  <2> QED BY <2>1, <2>2 DEF Continue, GotUnihash, Reported, Remapped, ReportedEquiv
<1>5. reply' = [reply EXCEPT ![b] = NoAnswer]
      BY DEF Continue, GotUnihash, Reported, Remapped, ReportedEquiv, Ask, AskNothing
<1>6. Map!Return(b)
      BY <1>1, <1>3, <1>4, <1>5, MapRequests DEF Map!Return
<1> QED BY <1>6 DEF Map!Next

LEMMA StepMap ==
    ASSUME IInv, TimeOK, [Next]_vars
    PROVE  [Map!Next]_(Map!vars)
<1>1. StateOK /\ \A b \in Builder : WaitOK(b) /\ KnowsOK(b)
      BY DEF IInv
<1>2. CASE UNCHANGED <<rows, stray, req, reply>>
      BY <1>2 DEF Map!vars
<1>3. ASSUME NEW b \in Builder, NEW t \in Taskhash, Start(b, t) \/ Rehash(b, t)
      PROVE  Map!Next \/ UNCHANGED <<rows, stray, req, reply>>
  <2>1. Get(t) \in Requests /\ phase[b] \notin Waiting /\ UNCHANGED <<rows, stray>>
        BY <1>3 DEF Requests, Start, Rehash, Waiting, serverVars
  <2>2. Ask(b, Get(t)) \/ UNCHANGED <<req, reply>>
        BY <1>3 DEF Start, Rehash
  <2> QED BY <2>1, <2>2, MapAsk
<1>4. ASSUME NEW b \in Builder, NEW o \in Outhash, Run(b, o)
      PROVE  Map!Next
  <2>1. Report(taskhash[b], o, unihash[b]) \in Requests
        BY <1>1, <1>4 DEF Run, KnowsOK, Requests
  <2> QED BY <1>4, <2>1, MapAsk DEF Run, Waiting, serverVars
<1>5. ASSUME NEW b \in Builder, Cover(b)
      PROVE  UNCHANGED <<rows, stray, req, reply>>
      BY <1>5 DEF Cover, serverVars, connVars
<1>6. ASSUME NEW b \in Builder, Handle(b)
      PROVE  Map!Next
  <2>1. req[b] \in Requests
        BY <1>1, <1>6 DEF Handle, StateOK, WaitOK
  <2>2. Map!Effect(req[b]) /\ dispatch_message(req[b]).answer = Map!Told(req[b])
        BY <1>6, <2>1, MapEffect DEF Handle
  <2>3. Map!Answer(b)
        BY <1>6, <2>1, <2>2, HashServAssumption DEF Handle, Map!Answer
  <2> QED BY <2>3 DEF Map!Next
<1>7. ASSUME NEW b \in Builder, Again(b)
      PROVE  Map!Next
  <2>1. Map!Again(b)
        BY <1>7 DEF Again, Leaves, Map!Again, serverVars
  <2> QED BY <2>1 DEF Map!Next
<1>8. ASSUME NEW b \in Builder, Return(b)
      PROVE  Map!Next
      BY <1>8, MapReturn DEF Return
<1>9. ASSUME NEW b \in Builder, GiveUp(b)
      PROVE  Map!Next
  <2>1. stray' \in {stray, stray \cup {req[b]}}
        BY <1>9 DEF GiveUp, Leaves
  <2> QED BY <1>9, <2>1, MapReturn DEF GiveUp
<1>10. ASSUME NEW r \in stray, HandleStray(r)
       PROVE  Map!Next
  <2>1. Map!Effect(r)
        BY <1>1, <1>10, MapEffect DEF HandleStray, StateOK
  <2>2. Map!Late(r)
        BY <1>10, <2>1 DEF HandleStray, Map!Late
  <2> QED BY <2>2 DEF Map!Next
<1>11. ASSUME Tick \/ UNCHANGED vars
       PROVE  UNCHANGED <<rows, stray, req, reply>>
       BY <1>11 DEF Tick, vars, serverVars, connVars
<1> QED BY <1>2, <1>3, <1>4, <1>5, <1>6, <1>7, <1>8, <1>9, <1>10, <1>11 DEF Next

\* The table is two maps that are written once, for any number of builders, of
\* attempts and of late requests: what the first answer said of a taskhash or of
\* an output stays true.
THEOREM MapTheorem ==
    ASSUME ~SetBack
    PROVE  Spec => ImplementsUnihashMap
<1>1. Init => TimeOK /\ Map!Init
      BY InitMap DEF Init, TimeOK
<1>2. IInv /\ TimeOK /\ [Next]_vars => TimeOK'
      BY StepTimeOK
<1>3. IInv /\ TimeOK /\ [Next]_vars => [Map!Next]_(Map!vars)
      BY StepMap
<1> QED BY <1>1, <1>2, <1>3, InvariantTheorem, PTL DEF Spec, ImplementsUnihashMap, Map!Spec
-----------------------------------------------------------------------------
(* What a covered task is told *)

\* What b waits for concerns its taskhash, and what it was told or has taken over
\* is what the table says first of that taskhash, if not the taskhash itself.
WantOK(b) ==
    /\ phase[b] = "remapping" =>
          /\ req[b] = Get(taskhash[b])
          /\ reply[b] \in Taskhash => First(rows)[taskhash[b]] = reply[b]
    /\ phase[b] = "equiv" =>
          /\ req[b] = Equiv(taskhash[b], unihash[b])
          /\ cache[b][2] \in Taskhash
          /\ cache[b][2] # taskhash[b] => First(rows)[taskhash[b]] = cache[b][2]
          /\ reply[b] # NoAnswer => /\ reply[b] \in Taskhash
                                    /\ First(rows)[taskhash[b]] = reply[b]

WantInv == \A b \in Builder : WantOK(b)

\* The first unihash of a taskhash stays, and every answer but that to a report
\* is that one.
LEMMA FirstStays ==
    ASSUME TableOK(rows), clock \in 0..MaxClock, TimeOK, NEW r \in Requests,
           rows' = dispatch_message(r).rows
    PROVE  /\ \A t \in Taskhash : First(rows)[t] # None => First(rows)'[t] = First(rows)[t]
           /\ r.ask # "report" => dispatch_message(r).answer = First(rows)'[r.taskhash]
           /\ r.ask = "report-equiv" => First(rows)'[r.taskhash] \in Taskhash
<1> DEFINE d == dispatch_message(r)
<1>1. /\ First(d.rows) =
             CASE r.ask = "get"          -> First(rows)
               [] r.ask = "report"       -> Map!Once(First(rows), r.taskhash,
                                                     Output(d.rows)[r.outhash])
               [] r.ask = "report-equiv" -> Map!Once(First(rows), r.taskhash, r.unihash)
      /\ r.ask # "report" => d.answer = First(d.rows)[r.taskhash]
      BY DispatchFirst DEF TimeOK
<1>2. First(rows) = [t \in Taskhash |-> First(rows)[t]]
      BY DEF First
<1>3. /\ r.ask \in {"get", "report", "report-equiv"} /\ r.taskhash \in Taskhash
      /\ r.ask = "report-equiv" => r.unihash \in Taskhash
      BY DEF Requests, Get, Report, Equiv
<1>4. First(rows)[r.taskhash] \in Taskhash \cup {None}
      BY <1>3, FirstIs
<1>5. rows' = d.rows
      OBVIOUS
<1> DEFINE A == d.answer
<1>6. A = dispatch_message(r).answer
      OBVIOUS
<1> HIDE DEF d, A
<1>7. \A t \in Taskhash : First(rows)[t] # None => First(d.rows)[t] = First(rows)[t]
      BY <1>1, <1>2, <1>3 DEF Map!Once
<1>8. r.ask = "report-equiv" => First(d.rows)[r.taskhash] \in Taskhash
      BY <1>1, <1>2, <1>3, <1>4 DEF Map!Once
<1>9. First(rows)' = First(d.rows)
      BY <1>5 DEF First
<1> QED BY <1>1, <1>6, <1>7, <1>8, <1>9 DEF A

\* A builder of which a step says nothing, when the first unihashes stay.
LEMMA WantUntouched ==
    ASSUME NEW c \in Builder, WantOK(c), StateOK, KnowsOK(c),
           \A t \in Taskhash : First(rows)[t] # None => First(rows)'[t] = First(rows)[t],
           phase'[c] = phase[c], req'[c] = req[c], reply'[c] = reply[c],
           taskhash'[c] = taskhash[c], unihash'[c] = unihash[c], cache'[c] = cache[c]
    PROVE  WantOK(c)'
<1>1. phase[c] \in {"remapping", "equiv"} => taskhash[c] \in Taskhash
      BY DEF KnowsOK
<1> QED BY <1>1, HashServAssumption DEF WantOK

LEMMA WantHandle ==
    ASSUME IInv, TimeOK, WantInv, NEW b \in Builder, Handle(b)
    PROVE  WantInv'
<1> DEFINE r == req[b]
<1>1. /\ sent[b] /\ rows' = dispatch_message(r).rows
      /\ reply' = [reply EXCEPT ![b] = dispatch_message(r).answer]
      /\ UNCHANGED <<req, phase, taskhash, unihash, cache>>
      BY DEF Handle, builderVars
<1>2. TableOK(rows) /\ clock \in 0..MaxClock /\ StateOK
      /\ \A c \in Builder : WaitOK(c) /\ KnowsOK(c)
      BY DEF IInv
<1>3. r \in Requests
      BY <1>1, <1>2 DEF WaitOK, StateOK
<1>4. /\ \A t \in Taskhash : First(rows)[t] # None => First(rows)'[t] = First(rows)[t]
      /\ r.ask # "report" => dispatch_message(r).answer = First(rows)'[r.taskhash]
      /\ r.ask = "report-equiv" => First(rows)'[r.taskhash] \in Taskhash
      BY <1>1, <1>2, <1>3, FirstStays
<1>5. ASSUME NEW c \in Builder PROVE WantOK(c)'
  <2>1. CASE c # b
        BY <1>1, <1>2, <1>4, <2>1, WantUntouched DEF WantInv, StateOK
  <2>2. CASE c = b
    <3> DEFINE F == First(rows)'
               a == dispatch_message(r).answer
    <3>1. reply'[b] = a
          BY <1>1, <1>2 DEF StateOK
    <3>2. phase[b] = "remapping" => r = Get(taskhash[b]) /\ a = F[taskhash[b]]
          BY <1>4 DEF WantInv, WantOK, Get
    <3>3. phase[b] = "equiv" =>
              /\ r = Equiv(taskhash[b], unihash[b])
              /\ a = F[taskhash[b]] /\ a \in Taskhash
              /\ cache[b][2] \in Taskhash
              /\ cache[b][2] # taskhash[b] => F[taskhash[b]] = cache[b][2]
      <4>1. phase[b] = "equiv" => taskhash[b] \in Taskhash
            BY <1>2 DEF KnowsOK
      <4> QED BY <1>4, <4>1, HashServAssumption DEF WantInv, WantOK, Equiv
    <3> HIDE DEF a
    <3> QED BY <1>1, <2>2, <3>1, <3>2, <3>3 DEF WantOK
  <2> QED BY <2>1, <2>2
<1> QED BY <1>5 DEF WantInv

LEMMA WantStray ==
    ASSUME IInv, TimeOK, WantInv, NEW r \in stray, HandleStray(r)
    PROVE  WantInv'
<1>1. /\ rows' = dispatch_message(r).rows
      /\ UNCHANGED <<req, reply, phase, taskhash, unihash, cache>>
      BY DEF HandleStray, builderVars
<1>2. TableOK(rows) /\ clock \in 0..MaxClock /\ StateOK /\ \A c \in Builder : KnowsOK(c)
      BY DEF IInv
<1>3. r \in Requests
      BY <1>2 DEF StateOK
<1>4. \A t \in Taskhash : First(rows)[t] # None => First(rows)'[t] = First(rows)[t]
      BY <1>1, <1>2, <1>3, FirstStays
<1> QED BY <1>1, <1>2, <1>4, WantUntouched DEF WantInv

\* A step of builder b that leaves the table concerns b only.
LEMMA WantOther ==
    ASSUME IInv, WantInv, NEW b \in Builder, rows' = rows, WantOK(b)',
           \A c \in Builder \ {b} :
               /\ phase'[c] = phase[c] /\ req'[c] = req[c] /\ reply'[c] = reply[c]
               /\ taskhash'[c] = taskhash[c] /\ unihash'[c] = unihash[c]
               /\ cache'[c] = cache[c]
    PROVE  WantInv'
<1>1. First(rows)' = First(rows)
      OBVIOUS
<1>2. \A c \in Builder \ {b} : WantOK(c)'
      BY <1>1, WantUntouched DEF IInv, WantInv
<1> QED BY <1>2 DEF WantInv

\* A builder that goes on takes over what the table says of its taskhash, or the
\* taskhash when it was told nothing.
LEMMA WantContinue ==
    ASSUME IInv, WantInv, NEW b \in Builder, NEW answer \in {NoAnswer, reply[b]},
           Continue(b, answer)
    PROVE  WantInv'
<1>1. StateOK /\ KnowsOK(b) /\ WantOK(b)
      BY DEF IInv, WantInv
<1>2. rows' = rows /\ taskhash' = taskhash /\ First(rows)' = First(rows)
      BY DEF Continue, serverVars
<1>3. CASE phase'[b] = "equiv"
  <2> DEFINE u == Fallback(b, answer)
  <2>1. /\ phase[b] = "remapping" /\ phase' = [phase EXCEPT ![b] = "equiv"]
        /\ cache' = [cache EXCEPT ![b] = <<taskhash[b], u>>]
        /\ req' = [req EXCEPT ![b] = Equiv(taskhash[b], unihash[b])]
        /\ reply' = [reply EXCEPT ![b] = NoAnswer]
        /\ unihash' = unihash
        BY <1>1, <1>3
        DEF Continue, StateOK, GotUnihash, Reported, Remapped, ReportedEquiv, set_unihash, Ask
  <2>2. /\ u \in Taskhash
        /\ u # taskhash[b] => First(rows)[taskhash[b]] = u
        BY <1>1, <2>1, HashServAssumption DEF Fallback, KnowsOK, WantOK
  <2> HIDE DEF u
  <2>3. WantOK(b)'
        BY <1>1, <1>2, <1>3, <2>1, <2>2 DEF WantOK, StateOK
  <2> QED BY <1>1, <1>2, <2>1, <2>3, WantOther DEF StateOK
<1>4. CASE phase'[b] # "equiv"
  <2>1. /\ \E p \in Phases : phase' = [phase EXCEPT ![b] = p]
        /\ \E r : req' = [req EXCEPT ![b] = r]
        /\ reply' = [reply EXCEPT ![b] = NoAnswer]
        /\ unihash' = unihash \/ \E u : unihash' = [unihash EXCEPT ![b] = u]
        /\ cache' = cache \/ \E u : cache' = [cache EXCEPT ![b] = u]
        /\ phase'[b] # "remapping"
        BY <1>1, <1>4 DEF Continue, StateOK, GotUnihash, Reported, Remapped, ReportedEquiv,
           set_unihash, Ask, AskNothing, Phases
  <2>2. WantOK(b)'
        BY <1>4, <2>1 DEF WantOK
  <2>3. \A c \in Builder \ {b} :
            /\ phase'[c] = phase[c] /\ req'[c] = req[c] /\ reply'[c] = reply[c]
            /\ taskhash'[c] = taskhash[c] /\ unihash'[c] = unihash[c]
            /\ cache'[c] = cache[c]
        BY <1>1, <1>2, <2>1 DEF StateOK
  <2> QED BY <1>2, <2>2, <2>3, WantOther
<1> QED BY <1>3, <1>4

LEMMA StepWant ==
    ASSUME IInv, TimeOK, WantInv, [Next]_vars
    PROVE  WantInv'
<1>1. StateOK /\ \A b \in Builder : WaitOK(b)
      BY DEF IInv
<1>2. CASE UNCHANGED <<rows, req, reply, phase, taskhash, unihash, cache>>
  <2>1. First(rows)' = First(rows)
        BY <1>2
  <2> QED BY <1>2, <2>1 DEF WantInv, WantOK
<1>3. ASSUME NEW b \in Builder, NEW t \in Taskhash, Start(b, t) PROVE WantInv'
  <2>1. /\ rows' = rows /\ cache' = cache
        /\ taskhash' = [taskhash EXCEPT ![b] = t]
        /\ \E p \in {"ready", "asking"} : phase' = [phase EXCEPT ![b] = p]
        /\ unihash' = unihash \/ \E u : unihash' = [unihash EXCEPT ![b] = u]
        /\ req' = req \/ \E r : req' = [req EXCEPT ![b] = r]
        /\ reply' = reply \/ reply' = [reply EXCEPT ![b] = NoAnswer]
        BY <1>3 DEF Start, Ask, serverVars
  <2>2. WantOK(b)'
        BY <1>1, <2>1 DEF WantOK, StateOK
  <2> QED BY <1>1, <2>1, <2>2, WantOther DEF StateOK
<1>4. ASSUME NEW b \in Builder, NEW t \in Taskhash, Rehash(b, t) PROVE WantInv'
  <2>1. /\ rows' = rows /\ cache' = cache /\ unihash' = unihash
        /\ taskhash' = [taskhash EXCEPT ![b] = t]
        /\ phase' = [phase EXCEPT ![b] = "remapping"]
        /\ req' = [req EXCEPT ![b] = Get(t)]
        /\ reply' = [reply EXCEPT ![b] = NoAnswer]
        BY <1>4 DEF Rehash, Ask, serverVars
  <2>2. WantOK(b)'
        BY <1>1, <2>1, HashServAssumption DEF WantOK, StateOK
  <2> QED BY <1>1, <2>1, <2>2, WantOther DEF StateOK
<1>5. ASSUME NEW b \in Builder, NEW o \in Outhash, Run(b, o) PROVE WantInv'
  <2>1. /\ rows' = rows /\ UNCHANGED <<taskhash, cache, unihash>>
        /\ phase' = [phase EXCEPT ![b] = "reporting"]
        /\ \E r : req' = [req EXCEPT ![b] = r]
        /\ reply' = [reply EXCEPT ![b] = NoAnswer]
        BY <1>5 DEF Run, Ask, serverVars
  <2>2. WantOK(b)'
        BY <1>1, <2>1 DEF WantOK, StateOK
  <2> QED BY <1>1, <2>1, <2>2, WantOther DEF StateOK
<1>6. ASSUME NEW b \in Builder, Cover(b) PROVE WantInv'
  <2>1. /\ rows' = rows /\ UNCHANGED <<req, reply, taskhash, cache, unihash>>
        /\ phase' = [phase EXCEPT ![b] = "covered"]
        BY <1>6 DEF Cover, serverVars, connVars
  <2>2. WantOK(b)'
        BY <1>1, <2>1 DEF WantOK, StateOK
  <2> QED BY <1>1, <2>1, <2>2, WantOther DEF StateOK
<1>7. ASSUME NEW b \in Builder, Again(b) PROVE WantInv'
  <2>1. /\ rows' = rows /\ UNCHANGED <<req, phase, taskhash, cache, unihash>>
        /\ reply' = [reply EXCEPT ![b] = NoAnswer]
        BY <1>7 DEF Again, serverVars, builderVars
  <2>2. WantOK(b)'
    <3>1. WantOK(b) /\ reply'[b] = NoAnswer /\ First(rows)' = First(rows)
          BY <1>1, <2>1 DEF WantInv, StateOK
    <3> QED BY <2>1, <3>1, HashServAssumption DEF WantOK
  <2> QED BY <1>1, <2>1, <2>2, WantOther DEF StateOK
<1>8. ASSUME NEW b \in Builder, Return(b) \/ GiveUp(b) PROVE WantInv'
      BY <1>8, WantContinue DEF Return, GiveUp
<1>9. Tick \/ UNCHANGED vars => UNCHANGED <<rows, req, reply, phase, taskhash, unihash, cache>>
      BY DEF Tick, vars, serverVars, connVars, builderVars
<1> QED BY <1>2, <1>3, <1>4, <1>5, <1>6, <1>7, <1>8, <1>9, WantHandle, WantStray DEF Next

\* With a clock that is not set back, a builder of a covered task is told a
\* unihash it neither has nor wanted only when it had to make do with the taskhash
\* itself, for any number of builders that report and ask in between.
THEOREM UnwantedTheorem ==
    ASSUME ~SetBack
    PROVE  Spec => []UnwantedOnlyAfterFallback
<1>1. Init => TimeOK /\ WantInv
      BY DEF Init, TimeOK, WantInv, WantOK
<1>2. IInv /\ TimeOK /\ [Next]_vars => TimeOK'
      BY StepTimeOK
<1>3. IInv /\ TimeOK /\ WantInv /\ [Next]_vars => WantInv'
      BY StepWant
<1>4. WantInv => UnwantedOnlyAfterFallback
      BY DEF WantInv, WantOK, UnwantedOnlyAfterFallback
<1> QED BY <1>1, <1>2, <1>3, <1>4, InvariantTheorem, PTL DEF Spec
=============================================================================
