-------------------------------- MODULE Game --------------------------------
(***************************************************************************)
(* One match: the GameState that GameService::startMatch puts into         *)
(* gamesMap, and the threads that run GameService::submitAnswer on it.     *)
(*                                                                         *)
(* submitAnswer looks the game up in gamesMap without a lock, then waits   *)
(* for the game's mutex and does the rest under it.  Hence two actions per *)
(* answer, and other threads run in between.                               *)
(*                                                                         *)
(* Whether an answer is right depends on the question_id that the client   *)
(* sends, not on the question the game is at, so it is any Boolean here.   *)
(* The players learn the match from GAME_START (who is not in it does not) *)
(* and answer under their own user_id; they may answer at any time and as  *)
(* often as they like, those who are out after round 1 as well, because    *)
(* submitAnswer does not ask whose turn it is.                             *)
(***************************************************************************)
EXTENDS Integers, Sequences, FiniteSets

CONSTANTS
  Joined,         \* the players MatchDAO::createMatch stored, in that order
  QuestionCount,  \* rows of table Questions
  PerRound,       \* questions per round: 10
  StableSize,     \* up to how many entries std::sort keeps ties in order: 16
  MaxScore        \* bound: who has as many points gives no more right answers

ASSUME JoinedAssumption == Joined \in Seq(Nat \ {0}) /\ Joined # <<>>
ASSUME QuestionAssumption == QuestionCount \in Nat /\ PerRound \in Nat \ {0}
ASSUME ScoreAssumption == StableSize \in Nat /\ MaxScore \in Nat

VARIABLES
  start,    \* where startMatch is: match "stored", game "emplaced" or "told"
  inMap,    \* is the game in gamesMap?
  players,  \* gs.players
  scores,   \* gs.scores, a function on the users that have an entry
  round,    \* gs.round
  qIndex,   \* gs.qIndex
  answers,  \* gs.answersForQ
  pc,       \* of each user's thread: "idle", or "found" the game in gamesMap
  right,    \* is the answer being submitted right?
  fresh,    \* history: who has answered since the question was opened
  late,     \* history: who got points in round 2 without being in it
  winner    \* match_winner once it was announced, 0 before

gameVars   == <<start, inMap, players, scores, round, qIndex, answers>>
threadVars == <<pc, right>>
vars == <<gameVars, threadVars, fresh, late, winner>>

Elements(s) == {s[i] : i \in DOMAIN s}
Users == Elements(Joined)

(* createMatch draws up to 3 * PerRound questions, numbered from 0; this   *)
(* is how many of them fall into round r.                                  *)
RoundSize(r) ==
  Cardinality({i \in 0..(3 * PerRound - 1) :
                 i < QuestionCount /\ i \div PerRound + 1 = r})

-----------------------------------------------------------------------------
(* The table of a round                                                    *)

(* A slip for the checks: the lowest score comes first.                    *)
AheadAscending(sc, a, b) ==
  \/ sc[a] < sc[b]
  \/ sc[a] = sc[b] /\ a < b

(* Does the sort put a before b?  The map lists its pairs by user, and     *)
(* std::sort keeps the order of equal scores as long as there are so few   *)
(* that libstdc++ sorts them by insertion; otherwise ties are in any order.*)
Ahead(sc, a, b) ==
  \/ sc[a] > sc[b]
  \/ sc[a] = sc[b] /\ Cardinality(DOMAIN sc) <= StableSize /\ a < b

(* What the vector v of the users and their scores may be once it is       *)
(* sorted.                                                                 *)
Tables(sc) ==
  {v \in [1 .. Cardinality(DOMAIN sc) -> DOMAIN sc] :
     /\ Elements(v) = DOMAIN sc
     /\ \A i, j \in DOMAIN v : i < j => ~ Ahead(sc, v[j], v[i])}

(* Its first n users, or all if there are fewer.                           *)
TopPlayers(v, n) == SubSeq(v, 1, IF Len(v) < n THEN Len(v) ELSE n)

-----------------------------------------------------------------------------
Init ==
  /\ start = "stored"
  /\ inMap = FALSE
  /\ players = <<>>
  /\ scores = <<>>
  /\ round = 1
  /\ qIndex = 0
  /\ answers = [q \in 0..PerRound |-> {}]
  /\ pc = [u \in Users |-> "idle"]
  /\ right = [u \in Users |-> FALSE]
  /\ fresh = {}
  /\ late = {}
  /\ winner = 0

(* startMatch, after the match is stored, puts a game without players and  *)
(* questions into gamesMap ...                                             *)
EmplaceGame ==
  /\ start = "stored"
  /\ start' = "emplaced"
  /\ inMap' = TRUE
  /\ UNCHANGED <<players, scores, round, qIndex, answers, threadVars, fresh,
                 late, winner>>

(* ... fills it, without its mutex, and lets everybody hear GAME_START.    *)
FillGame ==
  /\ start = "emplaced"
  /\ start' = "told"
  /\ players' = Joined
  /\ scores' = [u \in Users |-> 0]
  /\ UNCHANGED <<inMap, round, qIndex, answers, threadVars, fresh, late,
                 winner>>

(* submitAnswer finds the game; it has not got its mutex yet.              *)
FindGame(u, ok) ==
  /\ pc[u] = "idle"
  /\ start = "told"
  /\ inMap
  /\ ok => scores[u] < MaxScore
  /\ pc' = [pc EXCEPT ![u] = "found"]
  /\ right' = [right EXCEPT ![u] = ok]
  /\ UNCHANGED <<gameVars, fresh, late, winner>>

(* What submitAnswer does with each answer once it has the mutex.          *)
Credit(u) ==
  IF ~right[u] THEN scores
  ELSE [v \in DOMAIN scores \cup {u} |->
          (IF v \in DOMAIN scores THEN scores[v] ELSE 0)
            + (IF v = u THEN 10 ELSE 0)]

Record(u) ==
  /\ pc[u] = "found"
  /\ inMap
  /\ answers' = [answers EXCEPT ![qIndex] = @ \cup {u}]
  /\ scores' = Credit(u)
  /\ late' = IF round = 2 /\ right[u] /\ u \notin Elements(players)
             THEN late \cup {u} ELSE late
  /\ pc' = [pc EXCEPT ![u] = "idle"]
  /\ right' = [right EXCEPT ![u] = FALSE]
  /\ UNCHANGED start

(* Two slips for the checks: one player is not waited for; the count has   *)
(* to exceed the number of players.                                        *)
AllAnsweredButOne(u) ==
  Cardinality(answers[qIndex] \cup {u}) >= Len(players) - 1

AllAnsweredAndMore(u) ==
  Cardinality(answers[qIndex] \cup {u}) > Len(players)

(* "all active players answered", as the code counts them.                 *)
AllAnswered(u) ==
  Cardinality(answers[qIndex] \cup {u}) >= Len(players)

IsLastQuestion == qIndex + 1 >= RoundSize(round)

CountAnswer(u) ==
  /\ Record(u)
  /\ ~AllAnswered(u)
  /\ fresh' = fresh \cup {u}
  /\ UNCHANGED <<inMap, players, round, qIndex, winner>>

(* The answers of the next question stay as they are.                      *)
NextQuestion(u) ==
  /\ Record(u)
  /\ AllAnswered(u)
  /\ ~IsLastQuestion
  /\ qIndex' = qIndex + 1
  /\ fresh' = {}
  /\ UNCHANGED <<inMap, players, round, winner>>

(* A slip for the checks: round 2 goes on at the index round 1 ended with. *)
EndRoundKeepsIndex(u) ==
  /\ Record(u)
  /\ AllAnswered(u)
  /\ IsLastQuestion
  /\ round = 1
  /\ \E table \in Tables(scores') : players' = TopPlayers(table, 2)
  /\ round' = 2
  /\ qIndex' = qIndex + 1
  /\ fresh' = {}
  /\ UNCHANGED <<inMap, winner>>

EndRound(u) ==
  /\ Record(u)
  /\ AllAnswered(u)
  /\ IsLastQuestion
  /\ round = 1
  /\ \E table \in Tables(scores') : players' = TopPlayers(table, 2)
  /\ round' = 2
  /\ qIndex' = 0
  /\ fresh' = {}
  /\ UNCHANGED <<inMap, winner>>

(* A slip for the checks: the winner is from the wrong end of the table.   *)
EndMatchLastWins(u) ==
  /\ Record(u)
  /\ AllAnswered(u)
  /\ IsLastQuestion
  /\ round = 2
  /\ \E table \in Tables(scores') : winner' = table[Len(table)]
  /\ inMap' = FALSE
  /\ fresh' = {}
  /\ UNCHANGED <<players, round, qIndex>>

(* The game is erased from gamesMap; its index, advanced once more, is     *)
(* gone with it.                                                           *)
EndMatch(u) ==
  /\ Record(u)
  /\ AllAnswered(u)
  /\ IsLastQuestion
  /\ round = 2
  /\ \E table \in Tables(scores') : winner' = table[1]
  /\ inMap' = FALSE
  /\ fresh' = {}
  /\ UNCHANGED <<players, round, qIndex>>

(* The mutex, and the game, are gone when the thread gets to them.  What   *)
(* it does to the freed memory is outside this model.                      *)
UseErasedGame(u) ==
  /\ pc[u] = "found"
  /\ ~inMap
  /\ pc' = [pc EXCEPT ![u] = "idle"]
  /\ right' = [right EXCEPT ![u] = FALSE]
  /\ UNCHANGED <<gameVars, fresh, late, winner>>

SubmitAnswer(u) ==
  \/ CountAnswer(u) \/ NextQuestion(u) \/ EndRound(u) \/ EndMatch(u)
  \/ UseErasedGame(u)

Next ==
  \/ EmplaceGame \/ FillGame
  \/ \E u \in Users : SubmitAnswer(u) \/ \E ok \in BOOLEAN : FindGame(u, ok)

Spec == Init /\ [][Next]_vars

(* Threads are scheduled, and the players do not give up.                  *)
FairSpec ==
  /\ Spec
  /\ WF_vars(FillGame)
  /\ \A u \in Users : /\ WF_vars(SubmitAnswer(u))
                      /\ WF_vars(\E ok \in BOOLEAN : FindGame(u, ok))

-----------------------------------------------------------------------------
(* Properties                                                              *)

VariablesTyped ==
  /\ start \in {"stored", "emplaced", "told"}
  /\ inMap \in BOOLEAN
  /\ players \in Seq(Users)
  /\ DOMAIN scores \subseteq Users
  /\ \A u \in DOMAIN scores : scores[u] \in Nat
  /\ round \in {1, 2}
  /\ qIndex \in 0..PerRound
  /\ answers \in [0..PerRound -> SUBSET Users]
  /\ pc \in [Users -> {"idle", "found"}]
  /\ right \in [Users -> BOOLEAN]
  /\ fresh \subseteq Users
  /\ late \subseteq Users
  /\ winner \in Users \cup {0}

(* In particular the game never points past its questions: gs.questions of *)
(* the round has an element qIndex, unless the round has no question.      *)
TypeOK ==
  /\ VariablesTyped
  /\ inMap => qIndex = 0 \/ qIndex < RoundSize(round)

(* The finalists keep their lead: after the sort that ends round 1 nobody  *)
(* else can get ahead of a finalist, except with points of their own for   *)
(* answers that were taken from them in round 2 all the same; so the sort  *)
(* at the end of the match cannot either, although it sorts all players.   *)
FinalistsLead ==
  round = 2 =>
    \A f \in Elements(players),
       e \in DOMAIN scores \ (Elements(players) \cup late) :
      ~ Ahead(scores, e, f)

(* Who may win: nobody has more points than the winner, who is one of the  *)
(* two who played round 2, or who scored in it without being in it, or, if *)
(* ties are in any order, who ties with a finalist.                        *)
WinnerIsEntitled ==
  winner # 0 =>
    /\ \A v \in DOMAIN scores : scores[v] <= scores[winner]
    /\ \/ winner \in Elements(players) \cup late
       \/ /\ Cardinality(DOMAIN scores) > StableSize
          /\ \E f \in Elements(players) : scores[f] = scores[winner]

(* A question of round 1 is over only when an answer of each player has    *)
(* been taken since it was opened, in whatever order their threads get the *)
(* mutex, and however often some of them answer.                           *)
FirstRoundWaits ==
  [][round = 1 /\ <<round, qIndex>> # <<round, qIndex>>'
       => \E u \in Users : Users \subseteq fresh \cup {u}]_vars

(* If all players keep answering, the match ends with a winner.  So it is  *)
(* when nobody joined the room twice: players would then be longer than    *)
(* there are users to answer, and the first question never over.           *)
MatchEnds == inMap ~> winner # 0

(* "check if all active players answered": no question, of round 2 either, *)
(* is over before each active player has answered it.                      *)
QuestionWaits ==
  [][inMap /\ <<inMap, round, qIndex>> # <<inMap, round, qIndex>>'
       => \E u \in Users : Elements(players) \subseteq fresh \cup {u}]_vars

(* "Update in-memory game state if match exists": a thread that is about   *)
(* to update a game still finds it in gamesMap.                            *)
UpdatesExistingGame == \A u \in Users : pc[u] = "found" => inMap
=============================================================================
