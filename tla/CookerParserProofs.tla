------------------------- MODULE CookerParserProofs -------------------------
(***************************************************************************)
(* What the server counts, for any number of parsers and recipes.          *)
(*                                                                         *)
(* A recipe is in one place at a time: still a job of its parser, in the   *)
(* parser's buffer, in the pipe, or taken by the server.  So the count of  *)
(* results is the number of recipes taken, and parsing ends when all are.  *)
(***************************************************************************)
EXTENDS CookerParser, TLAPS, FiniteSetTheorems

Result == [recipe : Recipes, ok : BOOLEAN]

Parser == [pc : {"loop", "parse", "flush", "save", "gone", "dead"}, jobs : SUBSET Recipes,
           job : SUBSET Recipes, buffer : Seq(Result), found : SUBSET Recipes]

Recipe(q) == {q[i].recipe : i \in DOMAIN q}

Distinct(q) == \A i, j \in DOMAIN q : q[i].recipe = q[j].recipe => i = j

\* A result that is begun at one end, or not yet read to its end at the other, is in the pipe.
QueueOK ==
    /\ pipe \in Seq(Result) /\ InPipe \in 0 .. Capacity
    /\ writing \subseteq Parsers /\ sent \in 0 .. 2 /\ reading \in BOOLEAN
    /\ reading \/ sent = 1 => Len(pipe) > 0

StateOK ==
    /\ parser \in [Parsers -> Parser]
    /\ QueueOK
    /\ tokens \in 0 .. N
    /\ main \in {"parse", "drain", "join", "done", "failed"}
    /\ force \in BOOLEAN
    /\ saved \in [Parsers -> {"none", "torn", "whole"}]
    /\ parsed \subseteq Recipes /\ cache \subseteq Recipes

\* A parser has its own recipes, each once.
JobsOK ==
    \A p \in Parsers :
        /\ parser[p].jobs \cup parser[p].job \cup parser[p].found \subseteq Jobs(p)
        /\ parser[p].jobs \cap parser[p].job = {}
        /\ parser[p].jobs \cap parser[p].found = {}
        /\ parser[p].job \cap parser[p].found = {}

\* A result is in one place.
BuffersOK ==
    \A p \in Parsers :
        /\ Distinct(parser[p].buffer)
        /\ Recipe(parser[p].buffer) \subseteq parser[p].found \ (parsed \cup Recipe(pipe))

PipeOK ==
    /\ Distinct(pipe)
    /\ Recipe(pipe) \subseteq Found(Parsers) \ parsed
    /\ parsed \subseteq Found(Parsers)

CountOK == IsFiniteSet(parsed) /\ count = Cardinality(parsed)

IInv == StateOK /\ JobsOK /\ BuffersOK /\ PipeOK /\ CountOK

-----------------------------------------------------------------------------
(* Lemmas *)

LEMMA TailOK ==
    ASSUME NEW q \in Seq(Result), q # <<>>, Distinct(q)
    PROVE  /\ Head(q) \in Result /\ Tail(q) \in Seq(Result)
           /\ Distinct(Tail(q))
           /\ Head(q).recipe \in Recipe(q)
           /\ Recipe(Tail(q)) \subseteq Recipe(q) \ {Head(q).recipe}
<1>1. Head(q) = q[1] /\ 1 \in DOMAIN q /\ Tail(q) \in Seq(Result) /\ q[1] \in Result
      OBVIOUS
<1>2. \A i \in DOMAIN Tail(q) : i \in Nat /\ i + 1 \in DOMAIN q /\ Tail(q)[i] = q[i + 1] /\ i + 1 # 1
      OBVIOUS
<1>3. Distinct(Tail(q))
      BY <1>2 DEF Distinct
<1>4. \A i \in DOMAIN Tail(q) : Tail(q)[i].recipe # q[1].recipe
      BY <1>1, <1>2 DEF Distinct
<1>5. Recipe(Tail(q)) \subseteq Recipe(q) \ {Head(q).recipe}
      BY <1>1, <1>2, <1>4 DEF Recipe
<1>6. Head(q).recipe \in Recipe(q)
      BY <1>1 DEF Recipe
<1> QED BY <1>1, <1>3, <1>5, <1>6

LEMMA AppendOK ==
    ASSUME NEW q \in Seq(Result), NEW e \in Result, Distinct(q), e.recipe \notin Recipe(q)
    PROVE  /\ Append(q, e) \in Seq(Result) /\ Len(Append(q, e)) = Len(q) + 1
           /\ Distinct(Append(q, e))
           /\ Recipe(Append(q, e)) = Recipe(q) \cup {e.recipe}
<1> DEFINE a == Append(q, e)
<1>1. a \in Seq(Result) /\ Len(a) = Len(q) + 1 /\ Len(q) \in Nat
      OBVIOUS
<1>2. DOMAIN a = DOMAIN q \cup {Len(q) + 1} /\ a[Len(q) + 1] = e
      OBVIOUS
<1>3. \A i \in DOMAIN q : a[i] = q[i] /\ i # Len(q) + 1
      OBVIOUS
<1> HIDE DEF a
<1>4. \A i \in DOMAIN q : a[i].recipe # e.recipe
      BY <1>3 DEF Recipe
<1>5. Distinct(a)
      BY <1>2, <1>3, <1>4 DEF Distinct
<1>6. Recipe(a) = Recipe(q) \cup {e.recipe}
      BY <1>2, <1>3 DEF Recipe
<1> QED BY <1>1, <1>5, <1>6 DEF a

\* Two parsers have no recipe in common.
LEMMA JobsDisjoint ==
    \A p, q \in Parsers : p # q => Jobs(p) \cap Jobs(q) = {}
BY DEF Jobs

\* What is implied by the invariant.
LEMMA IInvImplies == IInv => ParsingSafety
<1> SUFFICES ASSUME IInv PROVE ParsingSafety
    OBVIOUS
<1>1. TypeOK
      BY DEF IInv, StateOK, QueueOK, Parser, TypeOK
<1>2. count = Cardinality(parsed) /\ parsed \subseteq Recipes
      BY DEF IInv, CountOK, StateOK
<1>3. Files \in Nat
      BY ParserAssumption DEF ParserAssumption
<1>4. IsFiniteSet(Recipes) /\ Cardinality(Recipes) = Files
      BY <1>3, FS_Interval DEF Recipes
<1>5. Cardinality(parsed) \in Nat /\ Cardinality(parsed) <= Files
      BY <1>2, <1>4, FS_Subset, FS_CardinalityType
<1>6. count >= Files => parsed = Recipes
      BY <1>2, <1>3, <1>4, <1>5, FS_Subset
<1> QED BY <1>1, <1>2, <1>6 DEF ParsingSafety, EachRecipeOnce

-----------------------------------------------------------------------------
(* The steps *)

LEMMA InitIInv == Init => IInv
<1> SUFFICES ASSUME Init PROVE IInv
    OBVIOUS
<1>0. N \in Nat \ {0} /\ Files \in Nat /\ Capacity \in Nat \ {0}
      BY ParserAssumption DEF ParserAssumption
<1>1. \A p \in Parsers : Jobs(p) \subseteq Recipes
      BY DEF Jobs
<1>2. \A p \in Parsers : parser[p] \in Parser
      BY <1>1 DEF Init, Parser
<1>3. parser \in [Parsers -> Parser]
      BY <1>2 DEF Init
<1>4. StateOK
  <2>1. pipe \in Seq(Result) /\ Len(pipe) = 0 /\ writing = {} /\ sent = 0 /\ reading = FALSE
        BY DEF Init
  <2>2. InPipe = 0
    <3>1. InPipe = 2 * 0 - 0 - 0
          BY <2>1 DEF InPipe
    <3> QED BY <3>1
  <2>3. saved \in [Parsers -> {"none", "torn", "whole"}]
        BY DEF Init
  <2>4. QueueOK
    <3>1. 0 \in 0 .. Capacity /\ 0 \in 0 .. 2 /\ 0 # 1
          BY <1>0
    <3>2. InPipe \in 0 .. Capacity /\ sent \in 0 .. 2 /\ sent # 1
          BY <2>1, <2>2, <3>1
    <3> QED BY <2>1, <3>2 DEF QueueOK
  <2>5. tokens \in 0 .. N
        BY <1>0 DEF Init
  <2> QED BY <1>3, <2>3, <2>4, <2>5 DEF Init, StateOK
<1>5. JobsOK /\ BuffersOK /\ PipeOK
      BY DEF Init, JobsOK, BuffersOK, PipeOK, Distinct, Recipe
<1>6. CountOK
      BY FS_EmptySet DEF Init, CountOK
<1> QED BY <1>4, <1>5, <1>6 DEF IInv

\* Only parser p changes.
LEMMA OneParser ==
    ASSUME StateOK, NEW p \in Parsers, NEW x \in Parser, parser' = [parser EXCEPT ![p] = x]
    PROVE  /\ parser' \in [Parsers -> Parser]
           /\ parser'[p] = x
           /\ \A q \in Parsers \ {p} : parser'[q] = parser[q]
BY DEF StateOK

LEMMA GotoOK ==
    ASSUME StateOK, NEW p \in Parsers,
           NEW l \in {"loop", "parse", "flush", "save", "gone", "dead"}, Goto(p, l)
    PROVE  /\ parser' \in [Parsers -> Parser]
           /\ parser'[p].pc = l
           /\ \A q \in Parsers : /\ parser'[q].jobs = parser[q].jobs
                                 /\ parser'[q].job = parser[q].job
                                 /\ parser'[q].buffer = parser[q].buffer
                                 /\ parser'[q].found = parser[q].found
                                 /\ q # p => parser'[q] = parser[q]
<1> DEFINE x == [parser[p] EXCEPT !.pc = l]
<1>1. parser[p] \in Parser
      BY DEF StateOK
<1>2. /\ x \in Parser /\ x.pc = l
      /\ x.jobs = parser[p].jobs /\ x.job = parser[p].job
      /\ x.buffer = parser[p].buffer /\ x.found = parser[p].found
      BY <1>1 DEF Parser
<1>3. parser' = [parser EXCEPT ![p] = x]
      BY DEF Goto
<1> HIDE DEF x
<1>4. /\ parser' \in [Parsers -> Parser] /\ parser'[p] = x
      /\ \A q \in Parsers \ {p} : parser'[q] = parser[q]
      BY <1>2, <1>3, OneParser
<1> QED BY <1>2, <1>4

\* The queue is left alone.
LEMMA SameQueue ==
    ASSUME QueueOK, UNCHANGED queue
    PROVE  QueueOK' /\ pipe' = pipe
<1>1. pipe' = pipe /\ writing' = writing /\ sent' = sent /\ reading' = reading
      BY DEF queue
<1> QED BY <1>1 DEF QueueOK, InPipe

\* The server has read a result to its end, whose place is free then.
LEMMA GetEndsOK ==
    ASSUME QueueOK, GetEnds
    PROVE  QueueOK' /\ pipe # <<>> /\ pipe' = Tail(pipe)
<1>1. /\ reading = TRUE /\ reading' = FALSE /\ sent' = sent /\ writing' = writing
      /\ pipe' = Tail(pipe) /\ (Len(pipe) > 1 \/ sent # 1)
      BY DEF GetEnds, QueueOK
<1>2. pipe \in Seq(Result) /\ pipe # <<>> /\ Len(pipe) \in Nat /\ Capacity \in Nat
      BY <1>1, ParserAssumption DEF QueueOK, ParserAssumption
<1>3. Tail(pipe) \in Seq(Result) /\ Len(Tail(pipe)) = Len(pipe) - 1 /\ Len(pipe) >= 1
      BY <1>2
<1>4. Len(pipe) > 1 => Len(Tail(pipe)) > 0
      BY <1>2, <1>3
<1>5. InPipe' \in 0 .. Capacity
  <2>1. InPipe = 2 * Len(pipe) - 1 - (IF sent = 1 THEN 1 ELSE 0)
        BY <1>1 DEF InPipe
  <2>2. InPipe' = 2 * (Len(pipe) - 1) - (IF sent = 1 THEN 1 ELSE 0)
        BY <1>1, <1>2, <1>3 DEF InPipe
  <2>3. InPipe <= Capacity
        BY <1>2 DEF QueueOK
  <2> QED BY <1>1, <1>2, <1>3, <2>1, <2>2, <2>3
<1> QED BY <1>1, <1>2, <1>3, <1>4, <1>5 DEF QueueOK

\* Nothing is moved but what the server drops from the pipe.
LEMMA QuietSteps ==
    ASSUME IInv, StateOK',
           pipe' = pipe \/ (pipe # <<>> /\ pipe' = Tail(pipe)),
           parsed' = parsed, count' = count,
           \A p \in Parsers :
               /\ parser'[p].buffer = parser[p].buffer /\ parser'[p].found = parser[p].found
               /\ parser'[p].jobs \cup parser'[p].job \subseteq parser[p].jobs \cup parser[p].job
               /\ parser'[p].jobs \cap parser'[p].job = {}
    PROVE  IInv'
<1>1. StateOK /\ JobsOK /\ BuffersOK /\ PipeOK /\ CountOK
      BY DEF IInv
<1>2. JobsOK'
      BY <1>1 DEF JobsOK
<1>3. Recipe(pipe') \subseteq Recipe(pipe) /\ Distinct(pipe')
  <2>1. pipe \in Seq(Result) /\ Distinct(pipe)
        BY <1>1 DEF StateOK, QueueOK, PipeOK
  <2>2. CASE pipe' = pipe
        BY <2>1, <2>2
  <2>3. CASE pipe # <<>> /\ pipe' = Tail(pipe)
        BY <2>1, <2>3, TailOK
  <2> QED BY <2>2, <2>3
<1>4. BuffersOK'
      BY <1>1, <1>3 DEF BuffersOK
<1>5. Found(Parsers)' = Found(Parsers)
      BY DEF Found
<1>6. PipeOK'
      BY <1>1, <1>3, <1>5 DEF PipeOK
<1>7. CountOK'
      BY <1>1 DEF CountOK
<1> QED BY <1>2, <1>4, <1>6, <1>7 DEF IInv

\* A result is new: its recipe is found by no parser before.
LEMMA EndJobStep ==
    ASSUME IInv, NEW p \in Parsers, EndJob(p)
    PROVE  IInv'
<1>1. StateOK /\ JobsOK /\ BuffersOK /\ PipeOK /\ CountOK
      BY DEF IInv
<1>2. PICK r \in parser[p].job, ok \in BOOLEAN :
          parser' = [parser EXCEPT ![p].pc = "loop", ![p].job = {}, ![p].found = @ \cup {r},
                                   ![p].buffer = Append(@, [recipe |-> r, ok |-> ok])]
      BY DEF EndJob
<1> DEFINE e == [recipe |-> r, ok |-> ok]
<1> DEFINE x == [parser[p] EXCEPT !.pc = "loop", !.job = {}, !.found = @ \cup {r},
                                  !.buffer = Append(@, e)]
<1>3. parser[p] \in Parser /\ r \in Recipes /\ e \in Result /\ e.recipe = r
      BY <1>1 DEF StateOK, Parser, Result
<1>4. /\ parser[p].buffer \in Seq(Result) /\ parser[p].found \subseteq Recipes
      /\ parser[p].jobs \subseteq Recipes
      BY <1>3 DEF Parser
<1>5. r \notin Found(Parsers)
  <2>1. r \in Jobs(p) /\ r \notin parser[p].found
        BY <1>1 DEF JobsOK
  <2>2. \A q \in Parsers : q # p => r \notin parser[q].found
        BY <1>1, <2>1, JobsDisjoint DEF JobsOK
  <2> QED BY <2>1, <2>2 DEF Found
<1>6. \A q \in Parsers : parser[q].found \subseteq Found(Parsers)
      BY DEF Found
<1>7. r \notin Recipe(parser[p].buffer) /\ r \notin Recipe(pipe) /\ r \notin parsed
      BY <1>1, <1>5, <1>6 DEF BuffersOK, PipeOK
<1>8. /\ Append(parser[p].buffer, e) \in Seq(Result) /\ Distinct(Append(parser[p].buffer, e))
      /\ Recipe(Append(parser[p].buffer, e)) = Recipe(parser[p].buffer) \cup {r}
      BY <1>1, <1>3, <1>4, <1>7, AppendOK DEF BuffersOK
<1> HIDE DEF e
<1>9. /\ x.pc = "loop" /\ x.jobs = parser[p].jobs /\ x.job = {}
      /\ x.found = parser[p].found \cup {r} /\ x.buffer = Append(parser[p].buffer, e)
      /\ x \in Parser
      BY <1>3, <1>4, <1>8 DEF Parser
<1>10. parser' = [parser EXCEPT ![p] = x]
       BY <1>2 DEF e
<1> HIDE DEF x
<1>11. /\ parser' \in [Parsers -> Parser] /\ parser'[p] = x
       /\ \A q \in Parsers \ {p} : parser'[q] = parser[q]
       BY <1>1, <1>9, <1>10, OneParser
<1>12. QueueOK' /\ UNCHANGED <<pipe, tokens, main, force, parsed, count, saved, cache>>
       BY <1>1, SameQueue DEF EndJob, StateOK
<1>13. StateOK'
       BY <1>1, <1>11, <1>12 DEF StateOK
<1>14. JobsOK'
       BY <1>1, <1>9, <1>11 DEF JobsOK
<1>15. BuffersOK'
       BY <1>1, <1>7, <1>8, <1>9, <1>11, <1>12 DEF BuffersOK
<1>16. Found(Parsers) \subseteq Found(Parsers)'
       BY <1>9, <1>11 DEF Found
<1>17. PipeOK'
       BY <1>1, <1>12, <1>16 DEF PipeOK
<1>18. CountOK'
       BY <1>1, <1>12 DEF CountOK
<1> QED BY <1>13, <1>14, <1>15, <1>17, <1>18 DEF IInv

\* The first result of a buffer goes to the pipe.
LEMMA FirstStep ==
    ASSUME IInv, NEW p \in Parsers, WriteFirst(p)
    PROVE  IInv'
<1>1. StateOK /\ JobsOK /\ BuffersOK /\ PipeOK /\ CountOK
      BY DEF IInv
<1> DEFINE b == parser[p].buffer
<1> DEFINE x == [parser[p] EXCEPT !.buffer = Tail(@)]
<1>2. /\ b # <<>> /\ InPipe < Capacity /\ sent = 0 /\ sent' = 1
      /\ pipe' = Append(pipe, Head(b)) /\ parser' = [parser EXCEPT ![p] = x]
      /\ UNCHANGED <<writing, reading, tokens, main, force, parsed, count, saved, cache>>
      BY DEF WriteFirst
<1>3. parser[p] \in Parser /\ b \in Seq(Result) /\ Distinct(b)
      BY <1>1 DEF StateOK, Parser, BuffersOK
<1>4. /\ Head(b) \in Result /\ Tail(b) \in Seq(Result) /\ Distinct(Tail(b))
      /\ Head(b).recipe \in Recipe(b)
      /\ Recipe(Tail(b)) \subseteq Recipe(b) \ {Head(b).recipe}
      BY <1>2, <1>3, TailOK
<1>5. /\ x \in Parser /\ x.jobs = parser[p].jobs /\ x.job = parser[p].job
      /\ x.found = parser[p].found /\ x.buffer = Tail(b)
      BY <1>3, <1>4 DEF Parser
<1> DEFINE r == Head(b).recipe
<1>6. r \in parser[p].found /\ r \notin parsed /\ r \notin Recipe(pipe)
      BY <1>1, <1>4 DEF BuffersOK
<1>7. pipe \in Seq(Result) /\ Distinct(pipe)
      BY <1>1 DEF StateOK, QueueOK, PipeOK
<1>8. /\ pipe' \in Seq(Result) /\ Len(pipe') = Len(pipe) + 1 /\ Distinct(pipe')
      /\ Recipe(pipe') = Recipe(pipe) \cup {r}
      BY <1>2, <1>4, <1>6, <1>7, AppendOK
<1>9. QueueOK'
  <2>1. Len(pipe) \in Nat /\ Capacity \in Nat /\ InPipe \in 0 .. Capacity /\ reading \in BOOLEAN
        BY <1>1, <1>7, ParserAssumption DEF ParserAssumption, StateOK, QueueOK
  <2>2. InPipe = 2 * Len(pipe) - (IF reading THEN 1 ELSE 0)
        BY <1>2, <2>1 DEF InPipe
  <2>3. InPipe' = 2 * (Len(pipe) + 1) - (IF reading THEN 1 ELSE 0) - 1
        BY <1>2, <1>8 DEF InPipe
  <2>4. InPipe' \in 0 .. Capacity
        BY <1>2, <2>1, <2>2, <2>3
  <2>5. Len(pipe') > 0
        BY <1>8, <2>1
  <2> QED BY <1>1, <1>2, <1>8, <2>4, <2>5 DEF StateOK, QueueOK
<1> HIDE DEF b, x
<1>10. /\ parser' \in [Parsers -> Parser] /\ parser'[p] = x
       /\ \A q \in Parsers \ {p} : parser'[q] = parser[q]
       BY <1>1, <1>2, <1>5, OneParser
<1>11. StateOK'
       BY <1>1, <1>2, <1>9, <1>10 DEF StateOK
<1>12. JobsOK'
       BY <1>1, <1>5, <1>10 DEF JobsOK
<1>13. \A q \in Parsers \ {p} : r \notin Recipe(parser[q].buffer)
       BY <1>1, <1>6, JobsDisjoint DEF BuffersOK, JobsOK
<1>14. BuffersOK'
  <2>1. ASSUME NEW q \in Parsers, q # p
        PROVE  /\ Distinct(parser'[q].buffer)
               /\ Recipe(parser'[q].buffer) \subseteq parser'[q].found \ (parsed' \cup Recipe(pipe'))
        BY <1>1, <1>2, <1>8, <1>10, <1>13, <2>1 DEF BuffersOK
  <2>2. /\ Distinct(parser'[p].buffer)
        /\ Recipe(parser'[p].buffer) \subseteq parser'[p].found \ (parsed' \cup Recipe(pipe'))
        BY <1>1, <1>2, <1>4, <1>5, <1>8, <1>10 DEF BuffersOK, b
  <2> QED BY <2>1, <2>2 DEF BuffersOK
<1>15. Found(Parsers)' = Found(Parsers)
       BY <1>5, <1>10 DEF Found
<1>16. r \in Found(Parsers)
       BY <1>6 DEF Found
<1>17. PipeOK'
       BY <1>1, <1>2, <1>6, <1>8, <1>15, <1>16 DEF PipeOK
<1>18. CountOK'
       BY <1>1, <1>2 DEF CountOK
<1> QED BY <1>11, <1>12, <1>14, <1>17, <1>18 DEF IInv

\* A result that the server takes is in no other place.
LEMMA TakeStep ==
    ASSUME IInv, TakeResult, Head(pipe).ok
    PROVE  IInv'
<1>1. StateOK /\ JobsOK /\ BuffersOK /\ PipeOK /\ CountOK
      BY DEF IInv
<1> DEFINE r == Head(pipe).recipe
<1>2. /\ QueueOK' /\ pipe # <<>> /\ pipe' = Tail(pipe)
      /\ parsed' = parsed \cup {r} /\ count' = count + 1
      /\ UNCHANGED <<parser, tokens, main, force, saved, cache>>
      BY <1>1, GetEndsOK DEF TakeResult, StateOK
<1>3. pipe \in Seq(Result) /\ Distinct(pipe)
      BY <1>1 DEF StateOK, QueueOK, PipeOK
<1>4. /\ Head(pipe) \in Result /\ Tail(pipe) \in Seq(Result)
      /\ Distinct(Tail(pipe)) /\ r \in Recipe(pipe)
      /\ Recipe(Tail(pipe)) \subseteq Recipe(pipe) \ {r}
      BY <1>2, <1>3, TailOK
<1>5. r \in Recipes
      BY <1>4 DEF Result
<1> HIDE DEF r
<1>7. StateOK'
      BY <1>1, <1>2, <1>5 DEF StateOK
<1>8. JobsOK'
      BY <1>1, <1>2 DEF JobsOK
<1>9. BuffersOK'
      BY <1>1, <1>2, <1>4 DEF BuffersOK
<1>10. Found(Parsers)' = Found(Parsers)
       BY <1>2 DEF Found
<1>11. PipeOK'
       BY <1>1, <1>2, <1>4, <1>10 DEF PipeOK
<1>12. r \notin parsed
       BY <1>1, <1>4 DEF PipeOK
<1>13. CountOK'
       BY <1>1, <1>2, <1>12, FS_AddElement DEF CountOK
<1> QED BY <1>7, <1>8, <1>9, <1>11, <1>13 DEF IInv

\* A step of a parser.
LEMMA ParserStep ==
    ASSUME IInv, NEW p \in Parsers, ParserSteps(p) \/ Die(p)
    PROVE  IInv'
<1>1. StateOK /\ JobsOK /\ N \in Nat
      BY ParserAssumption DEF IInv, ParserAssumption
<1>2. ASSUME NEW l \in {"loop", "parse", "flush", "save", "gone", "dead"}, Goto(p, l),
             tokens' \in 0 .. N, saved' \in [Parsers -> {"none", "torn", "whole"}],
             UNCHANGED <<queue, main, force, parsed, count, cache>>
      PROVE  IInv'
  <2>0. QueueOK' /\ pipe' = pipe
        BY <1>1, <1>2, SameQueue DEF StateOK
  <2>1. /\ parser' \in [Parsers -> Parser]
        /\ \A q \in Parsers : /\ parser'[q].jobs = parser[q].jobs
                              /\ parser'[q].job = parser[q].job
                              /\ parser'[q].buffer = parser[q].buffer
                              /\ parser'[q].found = parser[q].found
        BY <1>1, <1>2, GotoOK
  <2>2. StateOK'
        BY <1>1, <1>2, <2>0, <2>1 DEF StateOK
  <2>3. \A q \in Parsers :
            /\ parser'[q].buffer = parser[q].buffer /\ parser'[q].found = parser[q].found
            /\ parser'[q].jobs \cup parser'[q].job \subseteq parser[q].jobs \cup parser[q].job
            /\ parser'[q].jobs \cap parser'[q].job = {}
        BY <1>1, <2>1 DEF JobsOK
  <2> QED BY <1>2, <2>0, <2>2, <2>3, QuietSteps
<1>3. tokens \in 0 .. N /\ saved \in [Parsers -> {"none", "torn", "whole"}]
      BY <1>1 DEF StateOK
<1>4. CASE TakesToken(p)
  <2>1. tokens' \in 0 .. N
        BY <1>1, <1>3, <1>4 DEF TakesToken
  <2> QED BY <1>2, <1>3, <1>4, <2>1 DEF TakesToken
<1>5. CASE StartJob(p)
  <2>1. PICK r \in parser[p].jobs :
            parser' = [parser EXCEPT ![p].pc = "parse", ![p].jobs = @ \ {r}, ![p].job = {r}]
        BY <1>5 DEF StartJob
  <2> DEFINE x == [parser[p] EXCEPT !.pc = "parse", !.jobs = @ \ {r}, !.job = {r}]
  <2>2. parser[p] \in Parser /\ r \in Recipes /\ parser[p].jobs \subseteq Recipes
        BY <1>1 DEF StateOK, Parser
  <2>3. /\ x \in Parser /\ x.jobs = parser[p].jobs \ {r} /\ x.job = {r}
        /\ x.buffer = parser[p].buffer /\ x.found = parser[p].found
        BY <2>2 DEF Parser
  <2>4. parser' = [parser EXCEPT ![p] = x]
        BY <2>1
  <2> HIDE DEF x
  <2>5. /\ parser' \in [Parsers -> Parser] /\ parser'[p] = x
        /\ \A q \in Parsers \ {p} : parser'[q] = parser[q]
        BY <1>1, <2>3, <2>4, OneParser
  <2>6. QueueOK' /\ UNCHANGED <<pipe, tokens, main, force, parsed, count, saved, cache>>
        BY <1>1, <1>5, SameQueue DEF StartJob, StateOK
  <2>7. StateOK'
        BY <1>1, <2>5, <2>6 DEF StateOK
  <2>8. ASSUME NEW q \in Parsers
        PROVE  /\ parser'[q].buffer = parser[q].buffer /\ parser'[q].found = parser[q].found
               /\ parser'[q].jobs \cup parser'[q].job \subseteq parser[q].jobs \cup parser[q].job
               /\ parser'[q].jobs \cap parser'[q].job = {}
    <3>1. CASE q = p
          BY <2>3, <2>5, <3>1
    <3>2. CASE q # p
          BY <1>1, <2>5, <3>2 DEF JobsOK
    <3> QED BY <3>1, <3>2
  <2> QED BY <2>6, <2>7, <2>8, QuietSteps
<1>6. CASE NoMoreJobs(p)
      BY <1>2, <1>3, <1>6 DEF NoMoreJobs
<1>7. CASE EndJob(p)
      BY <1>7, EndJobStep
<1>8. CASE JoinThread(p)
  <2>1. saved' \in [Parsers -> {"none", "torn", "whole"}]
        BY <1>3, <1>8 DEF JoinThread
  <2> QED BY <1>2, <1>3, <1>8, <2>1 DEF JoinThread
<1>9. CASE SaveExtras(p)
  <2>1. saved' \in [Parsers -> {"none", "torn", "whole"}]
        BY <1>3, <1>9 DEF SaveExtras
  <2> QED BY <1>2, <1>3, <1>9, <2>1 DEF SaveExtras
<1>10. CASE Die(p)
       BY <1>2, <1>3, <1>10 DEF Die
<1> QED BY <1>4, <1>5, <1>6, <1>7, <1>8, <1>9, <1>10 DEF ParserSteps

\* A step of the thread of a parser's queue.
LEMMA ThreadStep ==
    ASSUME IInv, NEW p \in Parsers, ThreadSteps(p)
    PROVE  IInv'
<1>1. StateOK /\ QueueOK /\ JobsOK
      BY DEF IInv, StateOK
<1>2. ASSUME QueueOK',
             UNCHANGED <<parser, pipe, tokens, main, force, parsed, count, saved, cache>>
      PROVE  IInv'
  <2>1. StateOK'
        BY <1>1, <1>2 DEF StateOK
  <2> QED BY <1>1, <1>2, <2>1, QuietSteps DEF JobsOK
<1>3. CASE Acquire(p)
  <2>1. QueueOK'
        BY <1>1, <1>3 DEF Acquire, QueueOK, InPipe
  <2> QED BY <1>2, <1>3, <2>1 DEF Acquire
<1>4. CASE WriteFirst(p)
      BY <1>4, FirstStep
<1>5. CASE WriteRest(p)
  <2>1. Len(pipe) \in Nat /\ Capacity \in Nat /\ Len(pipe) > 0
        BY <1>1, <1>5, ParserAssumption DEF WriteRest, QueueOK, ParserAssumption
  <2>2. InPipe = 2 * Len(pipe) - (IF reading THEN 1 ELSE 0) - 1
        BY <1>5 DEF WriteRest, InPipe
  <2>3. InPipe' = 2 * Len(pipe) - (IF reading THEN 1 ELSE 0)
        BY <1>5, <2>1 DEF WriteRest, InPipe
  <2>4. InPipe' \in 0 .. Capacity
        BY <1>1, <1>5, <2>1, <2>2, <2>3 DEF WriteRest, QueueOK
  <2>5. QueueOK'
        BY <1>1, <1>5, <2>1, <2>4 DEF WriteRest, QueueOK
  <2> QED BY <1>2, <1>5, <2>5 DEF WriteRest
<1>6. CASE Release(p)
  <2>1. QueueOK'
        BY <1>1, <1>6 DEF Release, QueueOK, InPipe
  <2> QED BY <1>2, <1>6, <2>1 DEF Release
<1> QED BY <1>3, <1>4, <1>5, <1>6 DEF ThreadSteps

\* A step of the server that leaves the parsers alone.
LEMMA ServerStep ==
    ASSUME IInv, GetBegins \/ TakeResult \/ AllParsed \/ Stop \/ Drain \/ Drained \/ SaveMerge
    PROVE  IInv'
<1>1. StateOK /\ QueueOK /\ JobsOK /\ N \in Nat /\ Capacity \in Nat
      BY ParserAssumption DEF IInv, StateOK, ParserAssumption
<1>2. ASSUME QueueOK', pipe' = pipe \/ (pipe # <<>> /\ pipe' = Tail(pipe)),
             tokens' \in 0 .. N, main' \in {"parse", "drain", "join", "done", "failed"},
             force' \in BOOLEAN, saved' \in [Parsers -> {"none", "torn", "whole"}],
             cache' \subseteq Recipes, UNCHANGED <<parser, parsed, count>>
      PROVE  IInv'
  <2>1. StateOK'
        BY <1>1, <1>2 DEF StateOK
  <2>2. \A q \in Parsers :
            /\ parser'[q].buffer = parser[q].buffer /\ parser'[q].found = parser[q].found
            /\ parser'[q].jobs \cup parser'[q].job \subseteq parser[q].jobs \cup parser[q].job
            /\ parser'[q].jobs \cap parser'[q].job = {}
        BY <1>1, <1>2 DEF JobsOK
  <2> QED BY <1>2, <2>1, <2>2, QuietSteps
<1>3. /\ tokens \in 0 .. N /\ force \in BOOLEAN /\ cache \subseteq Recipes
      /\ saved \in [Parsers -> {"none", "torn", "whole"}]
      /\ main \in {"parse", "drain", "join", "done", "failed"}
      BY <1>1 DEF StateOK
<1>4. N \in 0 .. N
      BY <1>1
<1>5. CASE GetBegins
  <2>1. Len(pipe) \in Nat /\ Len(pipe) >= 1 /\ reading = FALSE /\ reading' = TRUE
        BY <1>1, <1>5 DEF GetBegins, QueueOK
  <2>2. InPipe = 2 * Len(pipe) - (IF sent = 1 THEN 1 ELSE 0)
        BY <2>1 DEF InPipe
  <2>3. InPipe' = 2 * Len(pipe) - 1 - (IF sent = 1 THEN 1 ELSE 0)
        BY <1>5, <2>1 DEF GetBegins, InPipe
  <2>4. InPipe' \in 0 .. Capacity
        BY <1>1, <2>1, <2>2, <2>3 DEF QueueOK
  <2>5. QueueOK'
        BY <1>1, <1>5, <2>4 DEF GetBegins, QueueOK
  <2> QED BY <1>2, <1>3, <1>5, <2>5 DEF GetBegins
<1>6. CASE TakeResult
  <2>1. CASE Head(pipe).ok
        BY <1>6, <2>1, TakeStep
  <2>2. CASE ~Head(pipe).ok
        BY <1>1, <1>2, <1>3, <1>4, <1>6, <2>2, GetEndsOK DEF TakeResult, Shutdown
  <2> QED BY <2>1, <2>2
<1>7. CASE AllParsed \/ Stop
      BY <1>1, <1>2, <1>3, <1>4, <1>7, SameQueue DEF AllParsed, Stop, Shutdown
<1>8. CASE Drain
      BY <1>1, <1>2, <1>3, <1>8, GetEndsOK DEF Drain
<1>9. CASE Drained
      BY <1>1, <1>2, <1>3, <1>9, SameQueue DEF Drained
<1>10. CASE SaveMerge
  <2>1. \A S \in SUBSET Parsers : Found(S) \subseteq Recipes
        BY <1>1 DEF Found, StateOK, Parser
  <2> DEFINE W == {p \in Parsers : saved[p] = "whole"}
  <2>2. W \subseteq Parsers
        OBVIOUS
  <2>3. cache' = cache \cup Found(W) \/ cache' = cache
        BY <1>10 DEF SaveMerge
  <2>4. cache' \subseteq Recipes
        BY <1>3, <2>1, <2>2, <2>3
  <2>5. saved' \in [Parsers -> {"none", "torn", "whole"}]
        BY <1>3, <1>10 DEF SaveMerge
  <2>6. /\ main' \in {"done", "failed"} /\ QueueOK'
        /\ UNCHANGED <<parser, pipe, tokens, force, parsed, count>>
        BY <1>1, <1>10, SameQueue DEF SaveMerge
  <2> QED BY <1>2, <1>3, <2>4, <2>5, <2>6
<1> QED BY <1>5, <1>6, <1>7, <1>8, <1>9, <1>10

LEMMA StepIInv == IInv /\ [Next]_vars => IInv'
<1> SUFFICES ASSUME IInv, [Next]_vars PROVE IInv'
    OBVIOUS
<1>1. CASE UNCHANGED vars
  <2>1. IInv' <=> IInv
        BY <1>1 DEF vars, queue, IInv, StateOK, QueueOK, InPipe, JobsOK, BuffersOK, PipeOK,
                    CountOK, Found
  <2> QED BY <2>1
<1>2. ASSUME NEW p \in Parsers, ParserSteps(p) \/ Die(p) \/ ThreadSteps(p)
      PROVE  IInv'
      BY <1>2, ParserStep, ThreadStep
<1>3. CASE GetBegins \/ TakeResult \/ AllParsed \/ Stop \/ Drain \/ Drained \/ SaveMerge
      BY <1>3, ServerStep
<1> QED BY <1>1, <1>2, <1>3 DEF Next, ServerSteps, Stopped

LEMMA Invariance == Spec => []IInv
<1> QED BY InitIInv, StepIInv, PTL DEF Spec

\* Parsing is over without error or stop only when every recipe has been taken, and none is
\* counted twice, whichever parsers die and whenever the server stops.
THEOREM ParsingSafetyTheorem == Spec => []ParsingSafety
<1> QED BY Invariance, IInvImplies, PTL

-----------------------------------------------------------------------------
(* The end *)

\* A parser that ended before the merge has a whole file, and one that saves holds the merge up.
EndInv ==
    /\ \A p \in Parsers : At(p, "save") => saved[p] = "torn"
    /\ main \notin {"done", "failed"} => \A p \in Parsers : At(p, "gone") => saved[p] = "whole"
    /\ CleanEnd

LEMMA InitEnd == Init => EndInv
BY DEF Init, EndInv, CleanEnd, NoneLeft, ExtrasKept, At

\* A parser that goes on keeps what it has found, and its file is whole when it ends.
LEMMA ParserEnd ==
    ASSUME EndInv, StateOK, NEW p \in Parsers, ParserSteps(p) \/ ThreadSteps(p) \/ Die(p)
    PROVE  EndInv'
<1>1. ~Ended(p) /\ UNCHANGED <<main, force, cache>>
  <2>1. ~Ended(p)
        BY DEF ParserSteps, TakesToken, StartJob, NoMoreJobs, EndJob, JoinThread, SaveExtras,
               ThreadSteps, Acquire, WriteFirst, WriteRest, Release, Die, At, Ended
  <2> QED BY <2>1 DEF ParserSteps, TakesToken, StartJob, NoMoreJobs, EndJob, JoinThread,
               SaveExtras, ThreadSteps, Acquire, WriteFirst, WriteRest, Release, Die
<1>2. /\ parser \in [Parsers -> Parser] /\ saved \in [Parsers -> {"none", "torn", "whole"}]
      /\ parser[p] \in Parser /\ parser[p].pc # "gone"
      BY <1>1 DEF StateOK, Ended
<1>3. /\ \A q \in Parsers : q # p => parser'[q] = parser[q] /\ saved'[q] = saved[q]
      /\ parser'[p].pc = "gone" => saved'[p] = "whole"
      /\ parser'[p].pc = "save" => saved'[p] = "torn"
  <2>1. CASE TakesToken(p) \/ NoMoreJobs(p) \/ Die(p)
        BY <1>2, <2>1 DEF TakesToken, NoMoreJobs, Die, Goto, Parser
  <2>2. CASE JoinThread(p)
        BY <1>2, <2>2 DEF JoinThread, Goto, Parser
  <2>3. CASE SaveExtras(p)
        BY <1>2, <2>3 DEF SaveExtras, Goto, Parser, EndInv, At
  <2>4. CASE StartJob(p)
    <3>1. PICK j, h : parser' = [parser EXCEPT ![p].pc = "parse", ![p].jobs = j, ![p].job = h]
          BY <2>4 DEF StartJob
    <3>2. saved' = saved
          BY <2>4 DEF StartJob
    <3> QED BY <1>2, <3>1, <3>2 DEF Parser
  <2>5. CASE EndJob(p)
    <3>1. PICK b, f : parser' = [parser EXCEPT ![p].pc = "loop", ![p].job = {}, ![p].found = f,
                                               ![p].buffer = b]
          BY <2>5 DEF EndJob
    <3>2. saved' = saved
          BY <2>5 DEF EndJob
    <3> QED BY <1>2, <3>1, <3>2 DEF Parser
  <2>6. CASE WriteFirst(p)
    <3>1. parser' = [parser EXCEPT ![p].buffer = Tail(@)] /\ saved' = saved
          BY <2>6 DEF WriteFirst
    <3>2. parser'[p].pc = parser[p].pc /\ \A q \in Parsers : q # p => parser'[q] = parser[q]
          BY <1>2, <3>1 DEF Parser
    <3> QED BY <1>2, <3>1, <3>2 DEF EndInv, At
  <2>7. CASE Acquire(p) \/ WriteRest(p) \/ Release(p)
    <3>1. parser' = parser /\ saved' = saved
          BY <2>7 DEF Acquire, WriteRest, Release
    <3> QED BY <1>2, <3>1 DEF EndInv, At
  <2> QED BY <2>1, <2>2, <2>3, <2>4, <2>5, <2>6, <2>7 DEF ParserSteps, ThreadSteps
<1>4. (\A q \in Parsers : At(q, "save") => saved[q] = "torn")'
      BY <1>3 DEF EndInv, At
<1>5. (main \notin {"done", "failed"} => \A q \in Parsers : At(q, "gone") => saved[q] = "whole")'
      BY <1>1, <1>3 DEF EndInv, At
<1>6. NoneLeft'
      BY <1>1, <1>3 DEF EndInv, CleanEnd, NoneLeft, Ended
<1>7. ExtrasKept'
      BY <1>1, <1>3 DEF EndInv, CleanEnd, ExtrasKept, At
<1> QED BY <1>4, <1>5, <1>6, <1>7 DEF EndInv, CleanEnd

\* The merge finds the whole file of each parser that has ended by itself, and none half written.
LEMMA ServerEnd ==
    ASSUME EndInv, StateOK,
           GetBegins \/ TakeResult \/ AllParsed \/ Stop \/ Drain \/ Drained \/ SaveMerge
    PROVE  EndInv'
<1>1. CASE GetBegins \/ TakeResult \/ AllParsed \/ Stop \/ Drain \/ Drained
  <2>1. /\ main \notin {"done", "failed"} /\ main' \notin {"done", "failed"}
        /\ UNCHANGED <<parser, saved>>
        BY <1>1 DEF GetBegins, TakeResult, AllParsed, Stop, Shutdown, Drain, Drained
  <2> QED BY <2>1 DEF EndInv, CleanEnd, NoneLeft, ExtrasKept, At
<1>2. CASE SaveMerge
  <2>1. /\ UNCHANGED <<parser, force>> /\ main = "join" /\ main' \in {"done", "failed"}
        /\ force \/ \A p \in Parsers : Ended(p)
        /\ \A p \in Parsers : ~At(p, "save")
        BY <1>2 DEF SaveMerge, Joined, Unlocked
  <2>2. NoneLeft'
        BY <2>1 DEF NoneLeft, Ended
  <2>3. \A p \in Parsers : At(p, "gone") => saved[p] = "whole"
        BY <2>1 DEF EndInv
  <2>4. main' = "done" => cache' = cache \cup Found({p \in Parsers : saved[p] = "whole"})
        BY <1>2 DEF SaveMerge
  <2>5. \A p \in Parsers : saved[p] = "whole" =>
            parser[p].found \subseteq Found({q \in Parsers : saved[q] = "whole"})
        BY DEF Found
  <2>6. ExtrasKept'
        BY <2>1, <2>3, <2>4, <2>5 DEF ExtrasKept, At
  <2> QED BY <2>1, <2>2, <2>6 DEF EndInv, CleanEnd, At
<1> QED BY <1>1, <1>2

LEMMA StepEnd == EndInv /\ IInv /\ [Next]_vars => EndInv'
<1> SUFFICES ASSUME EndInv, IInv, [Next]_vars PROVE EndInv'
    OBVIOUS
<1>1. CASE UNCHANGED vars
      BY <1>1 DEF vars, EndInv, CleanEnd, NoneLeft, ExtrasKept, At, Ended
<1>2. ASSUME NEW p \in Parsers, ParserSteps(p) \/ ThreadSteps(p) \/ Die(p)
      PROVE  EndInv'
      BY <1>2, ParserEnd DEF IInv
<1>3. CASE GetBegins \/ TakeResult \/ AllParsed \/ Stop \/ Drain \/ Drained \/ SaveMerge
      BY <1>3, ServerEnd DEF IInv
<1> QED BY <1>1, <1>2, <1>3 DEF Next, ServerSteps, Stopped

\* No parser is left after a shutdown that was not forced, and what a parser that ended by
\* itself has found is in the cache after the merge, or waits in a whole file for the next one.
THEOREM CleanEndTheorem == Spec => []CleanEnd
<1>1. EndInv => CleanEnd
      BY DEF EndInv
<1> QED BY <1>1, InitEnd, StepEnd, Invariance, PTL DEF Spec
=============================================================================
