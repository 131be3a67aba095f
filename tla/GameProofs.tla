----------------------------- MODULE GameProofs ------------------------------
(* Theorems about Game: about the questions of a match and its finalists,  *)
(* for any players in any order, any number of questions and rounds of any *)
(* size.                                                                   *)
EXTENDS Game, FiniteSetTheorems, SequenceTheorems, TLAPS

-----------------------------------------------------------------------------
(* The table of scores                                                     *)

(* For finitely many users, a number of points each.                       *)
IsScore(sc) ==
  /\ DOMAIN sc \subseteq Nat
  /\ DOMAIN sc # {}
  /\ IsFiniteSet(DOMAIN sc)
  /\ \A a \in DOMAIN sc : sc[a] \in Nat

(* A sorted table lists everybody, and nobody behind whom they should be   *)
(* ahead of.                                                               *)
LEMMA TableListed ==
  ASSUME NEW sc, IsScore(sc), NEW table \in Tables(sc)
  PROVE  /\ table \in Seq(DOMAIN sc)
         /\ Len(table) \in Nat /\ Len(table) >= 1
         /\ DOMAIN table = 1 .. Len(table)
         /\ \A a \in DOMAIN sc : \E i \in 1 .. Len(table) : a = table[i]
         /\ \A i \in 1 .. Len(table) : table[i] \in DOMAIN sc
         /\ \A i, j \in 1 .. Len(table) :
              i < j => ~ Ahead(sc, table[j], table[i])
<1> DEFINE n == Cardinality(DOMAIN sc)
<1>1. n \in Nat /\ n # 0
  BY FS_CardinalityType, FS_EmptySet DEF IsScore
<1>2. /\ table \in [1 .. n -> DOMAIN sc]
      /\ Elements(table) = DOMAIN sc
      /\ \A i, j \in DOMAIN table : i < j => ~ Ahead(sc, table[j], table[i])
  BY DEF Tables
<1> HIDE DEF n
<1>3. table \in Seq(DOMAIN sc) /\ Len(table) = n /\ DOMAIN table = 1 .. n
  BY <1>1, <1>2
<1>4. \A a \in DOMAIN sc : \E i \in 1 .. n : a = table[i]
  BY <1>2, <1>3 DEF Elements
<1>5. \A i \in 1 .. n : table[i] \in DOMAIN sc
  BY <1>2
<1>6. n >= 1
  BY <1>1
<1> QED
  BY <1>1, <1>2, <1>3, <1>4, <1>5, <1>6

(* The first two of a sorted table are users, and nobody else is ahead of  *)
(* them.                                                                   *)
LEMMA Finalists ==
  ASSUME NEW sc, IsScore(sc), NEW table \in Tables(sc)
  PROVE  /\ TopPlayers(table, 2) \in Seq(DOMAIN sc)
         /\ Elements(TopPlayers(table, 2)) # {}
         /\ \A f \in Elements(TopPlayers(table, 2)),
               e \in DOMAIN sc \ Elements(TopPlayers(table, 2)) :
              ~ Ahead(sc, e, f)
<1> DEFINE m == IF Len(table) < 2 THEN Len(table) ELSE 2
           top == SubSeq(table, 1, m)
<1>1. /\ table \in Seq(DOMAIN sc)
      /\ Len(table) \in Nat /\ Len(table) >= 1
      /\ DOMAIN table = 1 .. Len(table)
      /\ \A a \in DOMAIN sc : \E i \in 1 .. Len(table) : a = table[i]
      /\ \A i \in 1 .. Len(table) : table[i] \in DOMAIN sc
      /\ \A i, j \in 1 .. Len(table) :
           i < j => ~ Ahead(sc, table[j], table[i])
  BY TableListed
<1>2. m \in 1 .. Len(table)
  BY <1>1
<1> HIDE DEF m
<1>3. /\ top \in Seq(DOMAIN sc)
      /\ Len(top) = m
      /\ DOMAIN top = 1 .. m
      /\ \A i \in 1 .. m : top[i] = table[i]
  <2>1. \A i \in 1 .. m : table[i] \in DOMAIN sc
    BY <1>1, <1>2
  <2>2. top = [i \in 1 .. m |-> table[i]]
    BY <1>1, <1>2
  <2>3. m \in Nat
    BY <1>1, <1>2
  <2> HIDE DEF top
  <2> QED
    BY <2>1, <2>2, <2>3
<1> HIDE DEF top
<1>4. Elements(top) = {table[i] : i \in 1 .. m}
  BY <1>3 DEF Elements
<1>5. Elements(top) # {}
  BY <1>2, <1>4
<1>6. ASSUME NEW f \in Elements(top), NEW e \in DOMAIN sc \ Elements(top)
      PROVE  ~ Ahead(sc, e, f)
  <2>1. PICK i \in 1 .. m : f = table[i]
    BY <1>4
  <2>2. PICK j \in 1 .. Len(table) : e = table[j]
    BY <1>1
  <2>3. j \notin 1 .. m
    BY <1>4, <2>2
  <2>4. i \in 1 .. Len(table) /\ i < j
    BY <1>1, <1>2, <2>3
  <2> QED
    BY <1>1, <2>1, <2>2, <2>4
<1>7. TopPlayers(table, 2) = top
  BY DEF TopPlayers, top, m
<1> QED
  BY <1>3, <1>5, <1>6, <1>7

(* Nobody is ahead of the first of a sorted table.                         *)
LEMMA First ==
  ASSUME NEW sc, IsScore(sc), NEW table \in Tables(sc)
  PROVE  /\ table[1] \in DOMAIN sc
         /\ \A b \in DOMAIN sc : b = table[1] \/ ~ Ahead(sc, b, table[1])
<1>1. /\ Len(table) \in Nat /\ Len(table) >= 1
      /\ \A a \in DOMAIN sc : \E i \in 1 .. Len(table) : a = table[i]
      /\ \A i \in 1 .. Len(table) : table[i] \in DOMAIN sc
      /\ \A i, j \in 1 .. Len(table) :
           i < j => ~ Ahead(sc, table[j], table[i])
  BY TableListed
<1>2. \A i \in 1 .. Len(table) : i = 1 \/ 1 < i
  BY <1>1
<1> QED
  BY <1>1, <1>2

-----------------------------------------------------------------------------
(* Players and questions                                                   *)

LEMMA UsersFinite ==
  /\ Users \subseteq Nat \ {0}
  /\ Users # {}
  /\ IsFiniteSet(Users)
  /\ Cardinality(Users) <= Len(Joined)
<1>1. /\ Len(Joined) \in Nat
      /\ DOMAIN Joined = 1 .. Len(Joined)
      /\ Joined \in [1 .. Len(Joined) -> Nat \ {0}]
  BY JoinedAssumption, LenProperties
<1>2. Users \subseteq Nat \ {0}
  BY <1>1 DEF Users, Elements
<1>3. Users # {}
  <2>1. Len(Joined) # 0
    BY JoinedAssumption, EmptySeq, LenProperties
  <2>2. 1 \in DOMAIN Joined
    BY <1>1, <2>1
  <2> QED
    BY <2>2 DEF Users, Elements
<1>4. Joined \in Surjection(1 .. Len(Joined), Users)
  BY <1>1 DEF Surjection, Users, Elements
<1>5. IsFiniteSet(1 .. Len(Joined)) /\ Cardinality(1 .. Len(Joined)) = Len(Joined)
  BY <1>1, FS_Interval
<1>6. IsFiniteSet(Users) /\ Cardinality(Users) <= Cardinality(1 .. Len(Joined))
  BY <1>4, <1>5, FS_Surjection
<1> QED
  BY <1>2, <1>3, <1>5, <1>6

(* A round has PerRound questions at most.                                 *)
LEMMA RoundSizeBounded ==
  ASSUME NEW r \in {1, 2}
  PROVE  RoundSize(r) \in Nat /\ RoundSize(r) <= PerRound
<1> DEFINE Q == {i \in 0..(3 * PerRound - 1) :
                   i < QuestionCount /\ i \div PerRound + 1 = r}
           I == (r - 1) * PerRound .. r * PerRound - 1
<1>1. Q \subseteq I
  <2> SUFFICES ASSUME NEW i \in Nat, i \div PerRound + 1 = r
               PROVE  i \in I
    BY QuestionAssumption
  <2>1. PerRound \in Nat \ {0}
    BY QuestionAssumption
  <2>2. /\ i \div PerRound = r - 1
        /\ i = PerRound * (i \div PerRound) + (i % PerRound)
        /\ i % PerRound \in 0 .. PerRound - 1
    BY <2>1
  <2> QED
    BY <2>1, <2>2
<1>2. IsFiniteSet(I) /\ Cardinality(I) = PerRound
  <2>1. /\ (r - 1) * PerRound \in Int /\ r * PerRound - 1 \in Int
        /\ r * PerRound - 1 - (r - 1) * PerRound + 1 = PerRound
        /\ ~ ((r - 1) * PerRound > r * PerRound - 1)
    BY QuestionAssumption
  <2> QED
    BY <2>1, FS_Interval
<1>3. IsFiniteSet(Q) /\ Cardinality(Q) <= PerRound
  <2> HIDE DEF Q, I
  <2> QED
    BY <1>1, <1>2, FS_Subset
<1>4. RoundSize(r) = Cardinality(Q)
  BY DEF RoundSize
<1> HIDE DEF Q
<1>5. Cardinality(Q) \in Nat
  BY <1>3, FS_CardinalityType
<1> QED
  BY <1>3, <1>4, <1>5

-----------------------------------------------------------------------------
(* The inductive invariant                                                 *)

Begun == start = "told"

(* Before GAME_START nothing has happened.                                 *)
NothingYet ==
  ~ Begun =>
    /\ inMap <=> start = "emplaced"
    /\ round = 1 /\ qIndex = 0 /\ winner = 0
    /\ \A u \in Users : pc[u] = "idle"

AllInTable == Begun => DOMAIN scores = Users

AllInFirstRound == Begun /\ round = 1 => players = Joined /\ inMap

(* What is counted in round 1 are answers to the question that is open.    *)
CountIsCurrent ==
  round = 1 => /\ answers[qIndex] \subseteq fresh
               /\ \A q \in 0 .. PerRound : q > qIndex => answers[q] = {}

(* A game in gamesMap points to a question of its round, if it has any.    *)
QuestionInBounds == inMap => qIndex = 0 \/ qIndex < RoundSize(round)

GameInv ==
  /\ VariablesTyped
  /\ NothingYet
  /\ AllInTable
  /\ AllInFirstRound
  /\ CountIsCurrent
  /\ QuestionInBounds
  /\ winner # 0 => round = 2 /\ ~ inMap

LEMMA GameInit == Init => GameInv
<1> SUFFICES ASSUME Init PROVE GameInv
  OBVIOUS
<1> USE DEF Init
<1>1. PerRound \in Nat
  BY QuestionAssumption
<1>2. players \in Seq(Users)
  BY EmptySeq
<1>3. DOMAIN scores = {}
  OBVIOUS
<1>4. VariablesTyped
  <2>1. /\ start \in {"stored", "emplaced", "told"} /\ inMap \in BOOLEAN
        /\ round \in {1, 2} /\ fresh \subseteq Users /\ late \subseteq Users
        /\ winner \in Users \cup {0}
    OBVIOUS
  <2>2. /\ answers \in [0..PerRound -> SUBSET Users]
        /\ pc \in [Users -> {"idle", "found"}]
        /\ right \in [Users -> BOOLEAN]
        /\ qIndex \in 0..PerRound
    BY <1>1
  <2> QED
    BY ONLY <1>2, <1>3, <2>1, <2>2 DEF VariablesTyped
<1>5. CountIsCurrent
  BY <1>1 DEF CountIsCurrent
<1> QED
  BY <1>4, <1>5 DEF GameInv, NothingYet, Begun, AllInTable, AllInFirstRound,
                    QuestionInBounds

LEMMA EmplaceGameInv ==
  ASSUME GameInv, EmplaceGame
  PROVE  GameInv'
BY DEF EmplaceGame, GameInv, VariablesTyped, NothingYet, Begun, AllInTable,
       AllInFirstRound, CountIsCurrent, QuestionInBounds, threadVars

LEMMA FillGameInv ==
  ASSUME GameInv, FillGame
  PROVE  GameInv'
<1> USE DEF GameInv
<1>1. /\ start = "emplaced" /\ start' = "told" /\ players' = Joined
      /\ scores' = [u \in Users |-> 0]
      /\ UNCHANGED <<inMap, round, qIndex, answers, pc, right, fresh, late,
                     winner>>
  BY DEF FillGame, threadVars
<1>2. players' \in Seq(Users)
  <2>1. Joined \in [1 .. Len(Joined) -> Users]
    BY JoinedAssumption, LenProperties DEF Users, Elements
  <2>2. Joined \in Seq(Users)
    BY <2>1, JoinedAssumption, LenProperties
  <2> QED
    BY <1>1, <2>2
<1>3. VariablesTyped'
  BY <1>1, <1>2 DEF VariablesTyped
<1> QED
  BY <1>1, <1>2, <1>3 DEF NothingYet, Begun, AllInTable, AllInFirstRound,
       CountIsCurrent, QuestionInBounds

LEMMA FindGameInv ==
  ASSUME GameInv, NEW u \in Users, NEW ok \in BOOLEAN, FindGame(u, ok)
  PROVE  GameInv'
<1> USE DEF GameInv
<1>1. /\ Begun
      /\ pc' = [pc EXCEPT ![u] = "found"]
      /\ right' = [right EXCEPT ![u] = ok]
      /\ UNCHANGED <<gameVars, fresh, late, winner>>
  BY DEF FindGame, Begun
<1>2. VariablesTyped'
  BY <1>1 DEF VariablesTyped, gameVars
<1> QED
  BY <1>1, <1>2 DEF NothingYet, Begun, AllInTable, AllInFirstRound,
       CountIsCurrent, QuestionInBounds, gameVars

-----------------------------------------------------------------------------
(* What submitAnswer does to the scores and the answers.                   *)

LEMMA ScoresAreTables ==
  ASSUME NEW sc, DOMAIN sc = Users, \A v \in Users : sc[v] \in Nat
  PROVE  IsScore(sc)
BY UsersFinite DEF IsScore

LEMMA Recorded ==
  ASSUME GameInv, NEW u \in Users, Record(u)
  PROVE  /\ Begun /\ inMap /\ pc[u] = "found" /\ start' = start
         /\ DOMAIN scores = Users /\ DOMAIN scores' = Users
         /\ \A v \in Users : scores[v] \in Nat /\ scores'[v] \in Nat
         /\ late' \subseteq Users /\ late \subseteq late'
         /\ scores' = scores \/ round = 1 \/ u \in Elements(players) \cup late'
         /\ \A v \in Users \ {u} : scores'[v] = scores[v]
         /\ scores'[u] >= scores[u]
         /\ answers' \in [0 .. PerRound -> SUBSET Users]
         /\ answers'[qIndex] = answers[qIndex] \cup {u}
         /\ \A q \in 0 .. PerRound : q # qIndex => answers'[q] = answers[q]
         /\ pc' = [pc EXCEPT ![u] = "idle"]
         /\ right' = [right EXCEPT ![u] = FALSE]
<1> USE DEF GameInv
<1>1. /\ pc[u] = "found" /\ inMap
      /\ answers' = [answers EXCEPT ![qIndex] = @ \cup {u}]
      /\ scores' = Credit(u)
      /\ pc' = [pc EXCEPT ![u] = "idle"]
      /\ right' = [right EXCEPT ![u] = FALSE]
      /\ late' = IF round = 2 /\ right[u] /\ u \notin Elements(players)
                 THEN late \cup {u} ELSE late
      /\ start' = start
  BY DEF Record
<1>2. Begun
  BY <1>1 DEF NothingYet
<1>3. DOMAIN scores = Users /\ \A v \in Users : scores[v] \in Nat
  BY <1>2 DEF AllInTable, VariablesTyped
<1>4. /\ DOMAIN scores' = Users
      /\ \A v \in Users \ {u} : scores'[v] = scores[v]
      /\ scores'[u] = scores[u] \/ scores'[u] = scores[u] + 10
      /\ \A v \in Users : scores'[v] \in Nat
  <2>1. CASE ~ right[u]
    BY <2>1, <1>1, <1>3 DEF Credit
  <2>2. CASE right[u]
    <3>1. scores' = [v \in Users |-> scores[v] + (IF v = u THEN 10 ELSE 0)]
      BY <2>2, <1>1, <1>3 DEF Credit
    <3> QED
      BY <3>1, <1>3
  <2> QED
    BY <2>1, <2>2
<1>5. scores'[u] >= scores[u]
  BY <1>3, <1>4
<1>6. /\ answers' \in [0 .. PerRound -> SUBSET Users]
      /\ answers'[qIndex] = answers[qIndex] \cup {u}
      /\ \A q \in 0 .. PerRound : q # qIndex => answers'[q] = answers[q]
  BY <1>1 DEF VariablesTyped
<1>7. /\ late' \subseteq Users /\ late \subseteq late'
      /\ scores' = scores \/ round = 1 \/ u \in Elements(players) \cup late'
  BY <1>1 DEF VariablesTyped, Credit
<1> QED
  BY <1>1, <1>2, <1>3, <1>4, <1>5, <1>6, <1>7

(* In round 1 a question is over only when every player has answered it.   *)
LEMMA FirstRoundCounts ==
  ASSUME GameInv, NEW u \in Users, Record(u), AllAnswered(u), round = 1
  PROVE  Users \subseteq fresh \cup {u}
<1> DEFINE counted == answers[qIndex] \cup {u}
<1>1. Begun /\ players = Joined
  BY Recorded DEF GameInv, AllInFirstRound
<1>2. counted \in SUBSET Users
  BY DEF GameInv, VariablesTyped
<1>3. IsFiniteSet(counted) /\ Cardinality(counted) <= Cardinality(Users)
      /\ (Cardinality(Users) = Cardinality(counted) => Users = counted)
  BY <1>2, UsersFinite, FS_Subset
<1>4. Cardinality(counted) >= Len(Joined)
  BY <1>1 DEF AllAnswered
<1>5. answers[qIndex] \subseteq fresh
  BY DEF GameInv, CountIsCurrent
<1> HIDE DEF counted
<1>6. Cardinality(counted) \in Nat /\ Cardinality(Users) \in Nat /\ Len(Joined) \in Nat
  BY <1>3, UsersFinite, FS_CardinalityType, JoinedAssumption, LenProperties
<1>7. Users = counted
  BY <1>3, <1>4, <1>6, UsersFinite
<1> QED
  BY <1>5, <1>7 DEF counted

-----------------------------------------------------------------------------
LEMMA CountAnswerInv ==
  ASSUME GameInv, NEW u \in Users, CountAnswer(u)
  PROVE  GameInv'
<1> USE DEF GameInv
<1>1. /\ Record(u) /\ fresh' = fresh \cup {u}
      /\ UNCHANGED <<inMap, players, round, qIndex, winner>>
  BY DEF CountAnswer
<1>2. VariablesTyped'
  BY <1>1, Recorded DEF VariablesTyped
<1>3. CountIsCurrent'
  BY <1>1, Recorded DEF CountIsCurrent, VariablesTyped
<1>5. (NothingYet /\ AllInTable /\ AllInFirstRound)'
  BY <1>1, Recorded DEF NothingYet, AllInTable, AllInFirstRound, Begun
<1> QED
  BY <1>1, <1>2, <1>3, <1>5 DEF QuestionInBounds

LEMMA NextQuestionInv ==
  ASSUME GameInv, NEW u \in Users, NextQuestion(u)
  PROVE  GameInv'
<1> USE DEF GameInv
<1>1. /\ Record(u) /\ qIndex' = qIndex + 1 /\ fresh' = {}
      /\ ~ (qIndex + 1 >= RoundSize(round))
      /\ UNCHANGED <<inMap, players, round, winner>>
  BY DEF NextQuestion, IsLastQuestion
<1>2. qIndex \in Nat /\ round \in {1, 2} /\ PerRound \in Nat
  BY QuestionAssumption DEF VariablesTyped
<1>3. RoundSize(round) \in Nat /\ RoundSize(round) <= PerRound
  BY <1>2, RoundSizeBounded
<1>4. qIndex' \in 0 .. PerRound /\ qIndex' < RoundSize(round) /\ qIndex' > qIndex
  BY <1>1, <1>2, <1>3
<1>5. VariablesTyped'
  BY <1>1, <1>4, Recorded DEF VariablesTyped
<1>6. CountIsCurrent'
  <2> SUFFICES ASSUME round = 1
               PROVE  /\ answers'[qIndex'] = {}
                      /\ \A q \in 0 .. PerRound : q > qIndex' => answers'[q] = {}
    BY <1>1 DEF CountIsCurrent
  <2>1. \A q \in 0 .. PerRound : q > qIndex => answers'[q] = {}
    BY <1>1, <1>2, Recorded DEF CountIsCurrent
  <2> QED
    BY <2>1, <1>1, <1>2, <1>4
<1>8. (NothingYet /\ AllInTable /\ AllInFirstRound)'
  BY <1>1, Recorded DEF NothingYet, AllInTable, AllInFirstRound, Begun
<1>9. QuestionInBounds'
  BY <1>1, <1>4 DEF QuestionInBounds
<1> QED
  BY <1>1, <1>5, <1>6, <1>8, <1>9

LEMMA EndRoundInv ==
  ASSUME GameInv, NEW u \in Users, EndRound(u)
  PROVE  GameInv'
<1> USE DEF GameInv
<1>1. /\ Record(u) /\ AllAnswered(u) /\ round = 1
      /\ \E table \in Tables(scores') : players' = TopPlayers(table, 2)
      /\ round' = 2 /\ qIndex' = 0 /\ fresh' = {}
      /\ UNCHANGED <<inMap, winner>>
  BY DEF EndRound
<1>2. DOMAIN scores' = Users /\ IsScore(scores')
  BY <1>1, Recorded, ScoresAreTables
<1>3. players' \in Seq(Users)
  BY <1>1, <1>2, Finalists
<1>5. VariablesTyped'
  <2>1. /\ answers' \in [0 .. PerRound -> SUBSET Users]
        /\ late' \subseteq Users /\ start' \in {"stored", "emplaced", "told"}
        /\ pc' \in [Users -> {"idle", "found"}]
        /\ right' \in [Users -> BOOLEAN]
        /\ inMap' \in BOOLEAN /\ winner' \in Users \cup {0}
    BY <1>1, Recorded DEF VariablesTyped
  <2>2. \A v \in DOMAIN scores' : v \in Users /\ scores'[v] \in Nat
    BY <1>1, Recorded
  <2>3. qIndex' \in 0 .. PerRound
    BY <1>1, QuestionAssumption
  <2> QED
    BY <1>1, <1>3, <2>1, <2>2, <2>3 DEF VariablesTyped
<1>6. (NothingYet /\ AllInTable /\ AllInFirstRound /\ CountIsCurrent
        /\ QuestionInBounds)'
  BY <1>1, <1>2, Recorded DEF NothingYet, AllInTable, AllInFirstRound, Begun,
       CountIsCurrent, QuestionInBounds
<1> QED
  BY <1>1, <1>5, <1>6

(* Nobody is ahead of who is announced as the winner.                      *)
LEMMA WinnerLeads ==
  ASSUME GameInv, NEW u \in Users, EndMatch(u)
  PROVE  /\ winner' \in Users
         /\ \A b \in Users : b = winner' \/ ~ Ahead(scores', b, winner')
<1>1. PICK table \in Tables(scores') : Record(u) /\ winner' = table[1]
  BY DEF EndMatch
<1>2. DOMAIN scores' = Users /\ IsScore(scores')
  BY <1>1, Recorded, ScoresAreTables
<1> QED
  BY <1>1, <1>2, First

LEMMA EndMatchInv ==
  ASSUME GameInv, NEW u \in Users, EndMatch(u)
  PROVE  GameInv'
<1> USE DEF GameInv
<1>1. /\ Record(u) /\ round = 2 /\ inMap' = FALSE /\ fresh' = {}
      /\ UNCHANGED <<players, round, qIndex>>
  BY DEF EndMatch
<1>2. VariablesTyped'
  BY <1>1, Recorded, WinnerLeads DEF VariablesTyped
<1> QED
  BY <1>1, <1>2, Recorded DEF NothingYet, AllInTable, AllInFirstRound, Begun,
       CountIsCurrent, QuestionInBounds

LEMMA UseErasedGameInv ==
  ASSUME GameInv, NEW u \in Users, UseErasedGame(u)
  PROVE  GameInv'
<1> USE DEF GameInv
<1>1. /\ ~ inMap
      /\ pc' = [pc EXCEPT ![u] = "idle"]
      /\ right' = [right EXCEPT ![u] = FALSE]
      /\ UNCHANGED <<gameVars, fresh, late, winner>>
  BY DEF UseErasedGame
<1>2. VariablesTyped'
  BY <1>1 DEF VariablesTyped, gameVars
<1>3. NothingYet'
  BY <1>1 DEF NothingYet, Begun, VariablesTyped, gameVars
<1> QED
  BY <1>1, <1>2, <1>3 DEF Begun, AllInTable, AllInFirstRound, CountIsCurrent,
       QuestionInBounds, gameVars

LEMMA GameStep == GameInv /\ [Next]_vars => GameInv'
<1> SUFFICES ASSUME GameInv, [Next]_vars PROVE GameInv'
  OBVIOUS
<1>1. CASE UNCHANGED vars
  BY <1>1 DEF vars, gameVars, threadVars, GameInv, VariablesTyped, NothingYet,
       Begun, AllInTable, AllInFirstRound, CountIsCurrent, QuestionInBounds
<1>2. CASE Next
  BY <1>2, EmplaceGameInv, FillGameInv, FindGameInv, CountAnswerInv, NextQuestionInv,
     EndRoundInv, EndMatchInv, UseErasedGameInv DEF Next, SubmitAnswer
<1> QED
  BY <1>1, <1>2

LEMMA GameAlways == Spec => []GameInv
BY GameInit, GameStep, PTL DEF Spec

(* The type invariant of a match: among others, a game in gamesMap never   *)
(* points past the questions of its round.                                 *)
THEOREM GameTyped == Spec => []TypeOK
<1>1. GameInv => TypeOK
  BY DEF GameInv, QuestionInBounds, TypeOK
<1> QED
  BY <1>1, GameAlways, PTL

(* A question of round 1 is over only when an answer of every player has   *)
(* been taken since it was opened, in whatever order their threads get the *)
(* mutex of the game, and however often they answer.                       *)
THEOREM FirstRoundComplete == Spec => FirstRoundWaits
<1>1. GameInv /\ [Next]_vars =>
        [round = 1 /\ <<round, qIndex>> # <<round, qIndex>>'
           => \E u \in Users : Users \subseteq fresh \cup {u}]_vars
  <2> SUFFICES ASSUME GameInv, Next, round = 1,
                      <<round, qIndex>> # <<round, qIndex>>'
               PROVE  \E u \in Users : Users \subseteq fresh \cup {u}
    OBVIOUS
  <2>1. PICK u \in Users : Record(u) /\ AllAnswered(u)
    BY DEF Next, EmplaceGame, FillGame, FindGame, SubmitAnswer, CountAnswer,
           NextQuestion, EndRound, EndMatch, UseErasedGame, gameVars
  <2> QED
    BY <2>1, FirstRoundCounts
<1> QED
  BY <1>1, GameAlways, PTL DEF Spec, FirstRoundWaits

-----------------------------------------------------------------------------
(* The finalists                                                           *)

FinalInv ==
  /\ Begun => Elements(players) # {}
  /\ FinalistsLead
  /\ WinnerIsEntitled

(* Whoever scores, nobody else who was out and has not scored since gets   *)
(* ahead of a finalist.                                                    *)
LEMMA LeadKept ==
  ASSUME GameInv, NEW u \in Users, Record(u), round = 2, FinalistsLead
  PROVE  \A f \in Elements(players), e \in Users \ (Elements(players) \cup late') :
           ~ Ahead(scores', e, f)
<1> SUFFICES ASSUME NEW f \in Elements(players),
                    NEW e \in Users \ (Elements(players) \cup late')
             PROVE  ~ Ahead(scores', e, f)
  OBVIOUS
<1>1. DOMAIN scores = Users /\ DOMAIN scores' = Users
  BY Recorded
<1>2. f \in Users
  BY LenProperties DEF GameInv, VariablesTyped, Elements
<1>3. ~ Ahead(scores, e, f)
  BY <1>1, Recorded DEF FinalistsLead
<1>4. scores'[e] = scores[e] /\ scores'[f] >= scores[f]
  <2>1. scores'[f] = scores[f] \/ f = u
    BY <1>2, Recorded
  <2>2. scores[f] \in Nat
    BY <1>2, Recorded
  <2>3. e # u \/ scores' = scores
    BY Recorded
  <2> QED
    BY <2>1, <2>2, <2>3, Recorded
<1>5. /\ scores[e] \in Nat /\ scores[f] \in Nat /\ scores'[f] \in Nat
      /\ e \in Nat /\ f \in Nat
  BY <1>2, Recorded, UsersFinite
<1> QED
  BY <1>1, <1>3, <1>4, <1>5 DEF Ahead

LEMMA FinalInit == Init => FinalInv
BY DEF Init, FinalInv, Begun, FinalistsLead, WinnerIsEntitled

(* The winner at the end of the match, from what is known of the table.    *)
LEMMA EntitledWinner ==
  ASSUME NEW sc, IsScore(sc), NEW w \in DOMAIN sc, NEW f \in DOMAIN sc,
         NEW finalists, f \in finalists, NEW others,
         \A b \in DOMAIN sc : b = w \/ ~ Ahead(sc, b, w),
         w \notin finalists \cup others => ~ Ahead(sc, w, f)
  PROVE  /\ \A v \in DOMAIN sc : sc[v] <= sc[w]
         /\ \/ w \in finalists \cup others
            \/ Cardinality(DOMAIN sc) > StableSize /\ sc[f] = sc[w]
<1>1. Cardinality(DOMAIN sc) \in Nat /\ StableSize \in Nat
  BY FS_CardinalityType, ScoreAssumption DEF IsScore
<1>2. \A a \in DOMAIN sc : a \in Nat /\ sc[a] \in Nat
  BY DEF IsScore
<1> DEFINE n == Cardinality(DOMAIN sc)
<1> HIDE DEF n
<1>3. \A v \in DOMAIN sc : sc[v] <= sc[w]
  <2> SUFFICES ASSUME NEW v \in DOMAIN sc, v # w PROVE sc[v] <= sc[w]
    BY <1>2
  <2>1. ~ (sc[v] > sc[w])
    BY DEF Ahead
  <2> QED BY <2>1, <1>2
<1>4. ASSUME w \notin finalists \cup others
      PROVE  n > StableSize /\ sc[f] = sc[w]
  <2>1. w # f
    BY <1>4
  <2>2. ~ (sc[w] > sc[f]) /\ (sc[w] = sc[f] => ~ (n <= StableSize /\ w < f))
    BY <1>4 DEF Ahead, n
  <2>3. sc[f] <= sc[w] /\ (sc[f] = sc[w] => ~ (n <= StableSize /\ f < w))
    BY <1>3, <2>1 DEF Ahead, n
  <2>4. sc[f] = sc[w]
    BY <1>2, <2>2, <2>3
  <2>5. w < f \/ f < w
    BY <1>2, <2>1
  <2>6. n \in Nat
    BY <1>1 DEF n
  <2> QED
    BY <1>1, <2>2, <2>3, <2>4, <2>5, <2>6
<1> QED
  BY <1>3, <1>4 DEF n

LEMMA FinalStep == GameInv /\ FinalInv /\ [Next]_vars => FinalInv'
<1> SUFFICES ASSUME GameInv, FinalInv, [Next]_vars PROVE FinalInv'
  OBVIOUS
<1> USE DEF FinalInv
<1>1. CASE UNCHANGED <<start, players, scores, round, late, winner>>
  BY <1>1 DEF Begun, FinalistsLead, WinnerIsEntitled
<1>2. CASE EmplaceGame
  BY <1>2 DEF EmplaceGame, Begun, FinalistsLead, WinnerIsEntitled
<1>3. CASE FillGame
  <2>1. players' = Joined /\ round = 1 /\ round' = 1 /\ winner' = winner
        /\ winner = 0
    BY <1>3 DEF FillGame, GameInv, NothingYet, Begun
  <2>2. Elements(players') # {}
    BY <2>1, UsersFinite DEF Users
  <2> QED
    BY <2>1, <2>2 DEF FinalistsLead, WinnerIsEntitled, Begun
<1>4. ASSUME NEW u \in Users, Record(u), inMap' = inMap,
             UNCHANGED <<players, round, winner>>
      PROVE  FinalInv'
  <2>1. FinalistsLead'
    BY <1>4, LeadKept, Recorded DEF FinalistsLead
  <2>2. winner = 0
    BY <1>4 DEF GameInv, Record
  <2> QED
    BY <2>1, <2>2, <1>4, Recorded DEF Begun, WinnerIsEntitled
<1>5. ASSUME NEW u \in Users, EndRound(u)
      PROVE  FinalInv'
  <2>1. PICK table \in Tables(scores') :
          /\ Record(u) /\ round = 1 /\ round' = 2 /\ winner' = winner
          /\ players' = TopPlayers(table, 2)
    BY <1>5 DEF EndRound
  <2>2. IsScore(scores')
    BY <2>1, Recorded, ScoresAreTables
  <2>3. /\ Elements(players') # {}
        /\ \A f \in Elements(players'), e \in DOMAIN scores' \ Elements(players') :
             ~ Ahead(scores', e, f)
    BY <2>1, <2>2, Finalists
  <2>4. winner = 0
    BY <2>1 DEF GameInv
  <2> QED
    BY <2>1, <2>3, <2>4 DEF FinalistsLead, WinnerIsEntitled
<1>6. ASSUME NEW u \in Users, EndMatch(u)
      PROVE  FinalInv'
  <2>1. Record(u) /\ round = 2 /\ UNCHANGED <<players, round>>
    BY <1>6 DEF EndMatch
  <2>2. Begun /\ start' = start /\ DOMAIN scores' = Users /\ IsScore(scores')
    BY <2>1, Recorded, ScoresAreTables
  <2>3. \A f \in Elements(players), e \in Users \ (Elements(players) \cup late') :
          ~ Ahead(scores', e, f)
    BY <2>1, LeadKept
  <2>4. PICK f \in Elements(players) : f \in Users
    BY <2>2, LenProperties DEF GameInv, VariablesTyped, Elements
  <2>5. /\ winner' \in Users
        /\ \A b \in Users : b = winner' \/ ~ Ahead(scores', b, winner')
    BY <1>6, WinnerLeads
  <2>6. winner' \notin Elements(players) \cup late' => ~ Ahead(scores', winner', f)
    BY <2>3, <2>4, <2>5
  <2>7. /\ \A v \in DOMAIN scores' : scores'[v] <= scores'[winner']
        /\ \/ winner' \in Elements(players) \cup late'
           \/ /\ Cardinality(DOMAIN scores') > StableSize
              /\ scores'[f] = scores'[winner']
    BY <2>2, <2>4, <2>5, <2>6, EntitledWinner
  <2>8. WinnerIsEntitled'
    BY <2>1, <2>4, <2>7 DEF WinnerIsEntitled
  <2> QED
    BY <2>1, <2>2, <2>3, <2>8 DEF FinalistsLead, Begun
<1> QED
  BY <1>1, <1>2, <1>3, <1>4, <1>5, <1>6 DEF Next, SubmitAnswer, FindGame,
     CountAnswer, NextQuestion, UseErasedGame, gameVars, vars

(* The sort that ends round 1 lets nobody get ahead of a finalist who does *)
(* not score in round 2, for any number of players and however ties fall.  *)
THEOREM FinalistsStayAhead == Spec => []FinalistsLead
<1>1. FinalInv => FinalistsLead
  BY DEF FinalInv
<1> QED
  BY <1>1, GameAlways, FinalInit, FinalStep, PTL DEF Spec

(* match_winner has the most points, and is a finalist, or one who was out *)
(* and scored all the same, or ties with a finalist where std::sort leaves *)
(* the order of ties open.                                                 *)
THEOREM WinnersAreEntitled == Spec => []WinnerIsEntitled
<1>1. FinalInv => WinnerIsEntitled
  BY DEF FinalInv
<1> QED
  BY <1>1, GameAlways, FinalInit, FinalStep, PTL DEF Spec
=============================================================================
