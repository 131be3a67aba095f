------------------------- MODULE UserSessionsProofs -------------------------
(***************************************************************************)
(* Theorems about UserSessions, for any number of accounts, connections    *)
(* and tokens, any limit of failures and any term of the lock.             *)
(***************************************************************************)
EXTENDS UserSessions, FiniteSetTheorems, TLAPS

(* What a request says is used only while it says it: a LOGIN that is      *)
(* being served is about an account.  TypeOK needs it to be inductive,     *)
(* since login's statements read and write the row of req[h].              *)
LoginHasUser == \A h \in Handlers : pc[h] \in LoginStages => req[h] \in Users

TypeInv == TypeOK /\ LoginHasUser

-----------------------------------------------------------------------------
(* The initial states are well typed.                                      *)
LEMMA InitTyped == Init => TypeInv
BY NullAssumption, LimitAssumption
   DEF Init, TypeInv, TypeOK, LoginHasUser, Stages, LoginStages

(* Answering a request keeps the variables of the threads well typed.      *)
LEMMA AnswerTyped ==
  ASSUME TypeInv, NEW h \in Handlers, Answer(h)
  PROVE  /\ pc' \in [Handlers -> Stages]
         /\ req' \in [Handlers -> Users \cup {NoUser}]
         /\ pwOk' \in [Handlers -> BOOLEAN]
         /\ seenLeft' \in [Handlers -> 0..LockDuration]
         /\ LoginHasUser'
BY LimitAssumption
   DEF Answer, Goto, TypeInv, TypeOK, LoginHasUser, Stages, LoginStages

(* Every step keeps the variables well typed.                              *)
LEMMA NextTyped == TypeInv /\ [Next]_vars => TypeInv'
<1> SUFFICES ASSUME TypeInv, [Next]_vars PROVE TypeInv'
  OBVIOUS
<1> USE NullAssumption, LimitAssumption
<1> USE DEF TypeInv, TypeOK, LoginHasUser, Stages, LoginStages, LogoutStages,
    CleanupStages, dbVars, lockVars, threadVars, clientVars
<1>1. ASSUME NEW h \in Handlers, Accept(h) PROVE TypeInv'
  BY <1>1 DEF Accept, Goto
<1>2. ASSUME NEW h \in Handlers, PeerGone(h) PROVE TypeInv'
  BY <1>2 DEF PeerGone
<1>3. ASSUME NEW h \in Handlers, ReadEof(h) PROVE TypeInv'
  BY <1>3 DEF ReadEof, Continue, Goto
<1>4. ASSUME NEW h \in Handlers, RemoveSession(h) PROVE TypeInv'
  BY <1>4 DEF RemoveSession, Continue, Goto, SessionRows
<1>5. ASSUME NEW h \in Handlers, CleanupMap(h) PROVE TypeInv'
  BY <1>5 DEF CleanupMap, Continue, Goto
<1>6. ASSUME NEW h \in Handlers, RemoveClient(h) PROVE TypeInv'
  BY <1>6 DEF RemoveClient, Goto
<1>7. ASSUME NEW h \in Handlers, NEW u \in Users, NEW ok \in BOOLEAN,
              RecvLogin(h, u, ok)
       PROVE  TypeInv'
  BY <1>7 DEF RecvLogin, Goto
<1>8. ASSUME NEW h \in Handlers, IsUserLocked(h) PROVE TypeInv'
  BY <1>8 DEF IsUserLocked, Continue, Goto, VerifyStage
<1>9. ASSUME NEW h \in Handlers, CheckExpiry(h) PROVE TypeInv'
  <2>1. CASE seenLeft[h] > 0
    BY <1>9, <2>1, AnswerTyped DEF CheckExpiry
  <2>2. CASE ~(seenLeft[h] > 0)
    BY <1>9, <2>2 DEF CheckExpiry, Continue, Goto
  <2> QED
    BY <2>1, <2>2
<1>10. ASSUME NEW h \in Handlers, UnlockUser(h) PROVE TypeInv'
  BY <1>10 DEF UnlockUser, Continue, Goto, VerifyStage
<1>11. ASSUME NEW h \in Handlers, IncrementFailed(h) PROVE TypeInv'
  BY <1>11 DEF IncrementFailed, Continue, Goto
<1>12. ASSUME NEW h \in Handlers, GetFailed(h) PROVE TypeInv'
  <2>1. CASE attempts[req[h]] >= MaxFailedAttempts
    BY <1>12, <2>1 DEF GetFailed, Continue, Goto
  <2>2. CASE ~(attempts[req[h]] >= MaxFailedAttempts)
    BY <1>12, <2>2, AnswerTyped DEF GetFailed
  <2> QED
    BY <2>1, <2>2
<1>13. ASSUME NEW h \in Handlers, LockUser(h) PROVE TypeInv'
  BY <1>13 DEF LockUser, Answer, Goto
<1>14. ASSUME NEW h \in Handlers, HasActiveSession(h) PROVE TypeInv'
  <2>1. CASE HasSession(req[h])
    BY <1>14, <2>1, AnswerTyped DEF HasActiveSession
  <2>2. CASE ~(HasSession(req[h]))
    BY <1>14, <2>2 DEF HasActiveSession, Continue, Goto
  <2> QED
    BY <2>1, <2>2
<1>15. ASSUME NEW h \in Handlers, CreateSession(h) PROVE TypeInv'
  BY <1>15 DEF CreateSession, Continue, Goto, UnusedTokens, SessionRows
<1>16. ASSUME NEW h \in Handlers, ResetFailed(h) PROVE TypeInv'
  BY <1>16 DEF ResetFailed, Continue, Goto
<1>17. ASSUME NEW h \in Handlers, RegisterUser(h) PROVE TypeInv'
  BY <1>17 DEF RegisterUser, Answer, Goto
<1>18. ASSUME NEW h \in Handlers, RecvLogout(h) PROVE TypeInv'
  BY <1>18 DEF RecvLogout, Continue, Goto
<1>19. ASSUME NEW h \in Handlers, GetUserIdByToken(h) PROVE TypeInv'
  BY <1>19 DEF GetUserIdByToken, Goto, SessionRows
<1>20. ASSUME NEW h \in Handlers, RemoveSessionByToken(h) PROVE TypeInv'
  <2>1. CASE req[h] = NoUser
    BY <1>20, <2>1, AnswerTyped DEF RemoveSessionByToken, SessionRows
  <2>2. CASE ~(req[h] = NoUser)
    BY <1>20, <2>2 DEF RemoveSessionByToken, SessionRows, Continue, Goto
  <2> QED
    BY <2>1, <2>2
<1>21. ASSUME NEW h \in Handlers, UnregisterUser(h) PROVE TypeInv'
  BY <1>21, AnswerTyped DEF UnregisterUser
<1>22. CASE Tick
  BY <1>22 DEF Tick, Less
<1>23. CASE Crash
  BY <1>23 DEF Crash
<1>24. CASE UNCHANGED vars
  BY <1>24 DEF vars
<1> QED
  BY <1>1, <1>2, <1>3, <1>4, <1>5, <1>6, <1>7, <1>8, <1>9, <1>10, <1>11,
     <1>12, <1>13, <1>14, <1>15, <1>16, <1>17, <1>18, <1>19, <1>20, <1>21,
     <1>22, <1>23, <1>24
     DEF Next, ThreadStep, ClientStep

(* The variables keep their types: in particular a lock never lasts        *)
(* longer than LOCK_DURATION_SECONDS, whatever failures overlap.           *)
THEOREM TypeCorrect == Spec => []TypeOK
<1>1. TypeInv => TypeOK
  BY DEF TypeInv
<1> QED
  BY <1>1, InitTyped, NextTyped, PTL DEF Spec

-----------------------------------------------------------------------------
(* Without crashes a row of Sessions gets its owner when it is created,    *)
(* and loses it only in the statement that removes the row.                *)
LEMMA NextOwned ==
  ASSUME MayCrash = FALSE, TypeInv, SessionHasOwner, [Next]_vars
  PROVE  SessionHasOwner'
<1> USE NullAssumption
<1> USE DEF TypeInv, TypeOK, LoginHasUser, SessionRows, LoginStages, dbVars, lockVars,
    threadVars, clientVars, SessionHasOwner, Owns
<1>1. ASSUME NEW h \in Handlers, Accept(h) PROVE SessionHasOwner'
  BY <1>1 DEF Accept, Goto
<1>2. ASSUME NEW h \in Handlers, PeerGone(h) PROVE SessionHasOwner'
  BY <1>2 DEF PeerGone
<1>3. ASSUME NEW h \in Handlers, ReadEof(h) PROVE SessionHasOwner'
  BY <1>3 DEF ReadEof, Continue, Goto
<1>4. ASSUME NEW h \in Handlers, RemoveSession(h) PROVE SessionHasOwner'
  BY <1>4 DEF RemoveSession, Continue, Goto, SessionRows
<1>5. ASSUME NEW h \in Handlers, CleanupMap(h) PROVE SessionHasOwner'
  BY <1>5 DEF CleanupMap, Continue, Goto
<1>6. ASSUME NEW h \in Handlers, RemoveClient(h) PROVE SessionHasOwner'
  BY <1>6 DEF RemoveClient, Goto
<1>7. ASSUME NEW h \in Handlers, NEW u \in Users, NEW ok \in BOOLEAN,
              RecvLogin(h, u, ok)
       PROVE  SessionHasOwner'
  BY <1>7 DEF RecvLogin, Goto
<1>8. ASSUME NEW h \in Handlers, IsUserLocked(h) PROVE SessionHasOwner'
  BY <1>8 DEF IsUserLocked, Continue, Goto, VerifyStage
<1>9. ASSUME NEW h \in Handlers, CheckExpiry(h) PROVE SessionHasOwner'
  BY <1>9 DEF CheckExpiry, Answer, Continue, Goto
<1>10. ASSUME NEW h \in Handlers, UnlockUser(h) PROVE SessionHasOwner'
  BY <1>10 DEF UnlockUser, Continue, Goto, VerifyStage
<1>11. ASSUME NEW h \in Handlers, IncrementFailed(h) PROVE SessionHasOwner'
  BY <1>11 DEF IncrementFailed, Continue, Goto
<1>12. ASSUME NEW h \in Handlers, GetFailed(h) PROVE SessionHasOwner'
  BY <1>12 DEF GetFailed, Answer, Continue, Goto
<1>13. ASSUME NEW h \in Handlers, LockUser(h) PROVE SessionHasOwner'
  BY <1>13 DEF LockUser, Answer, Goto
<1>14. ASSUME NEW h \in Handlers, HasActiveSession(h) PROVE SessionHasOwner'
  BY <1>14 DEF HasActiveSession, Answer, Continue, Goto
<1>15. ASSUME NEW h \in Handlers, CreateSession(h) PROVE SessionHasOwner'
  BY <1>15 DEF CreateSession, Continue, Goto, UnusedTokens, SessionRows
<1>16. ASSUME NEW h \in Handlers, ResetFailed(h) PROVE SessionHasOwner'
  BY <1>16 DEF ResetFailed, Continue, Goto
<1>17. ASSUME NEW h \in Handlers, RegisterUser(h) PROVE SessionHasOwner'
  BY <1>17 DEF RegisterUser, Answer, Goto
<1>18. ASSUME NEW h \in Handlers, RecvLogout(h) PROVE SessionHasOwner'
  BY <1>18 DEF RecvLogout, Continue, Goto
<1>19. ASSUME NEW h \in Handlers, GetUserIdByToken(h) PROVE SessionHasOwner'
  BY <1>19 DEF GetUserIdByToken, Goto, SessionRows
<1>20. ASSUME NEW h \in Handlers, RemoveSessionByToken(h) PROVE SessionHasOwner'
  BY <1>20 DEF RemoveSessionByToken, Answer, Continue, Goto, SessionRows
<1>21. ASSUME NEW h \in Handlers, UnregisterUser(h) PROVE SessionHasOwner'
  BY <1>21 DEF UnregisterUser, Answer, Goto
<1>22. CASE Tick
  BY <1>22 DEF Tick, Less
<1>23. CASE Crash
  BY <1>23, MayCrash = FALSE DEF Crash
<1>24. CASE UNCHANGED vars
  BY <1>24 DEF vars
<1> QED
  BY <1>1, <1>2, <1>3, <1>4, <1>5, <1>6, <1>7, <1>8, <1>9, <1>10, <1>11,
     <1>12, <1>13, <1>14, <1>15, <1>16, <1>17, <1>18, <1>19, <1>20, <1>21,
     <1>22, <1>23, <1>24
     DEF Next, ThreadStep, ClientStep

(* While the server runs no session is left behind: each belongs to a      *)
(* connection that will remove it, with any number of devices logging in   *)
(* and out of one account.                                                 *)
THEOREM SessionsOwned ==
  ASSUME MayCrash = FALSE
  PROVE  Spec => []SessionHasOwner
<1>1. Init => SessionHasOwner
  BY DEF Init, SessionHasOwner
<1>2. TypeInv /\ SessionHasOwner /\ [Next]_vars => SessionHasOwner'
  BY NextOwned, MayCrash = FALSE
<1> QED
  BY <1>1, <1>2, InitTyped, NextTyped, PTL DEF Spec

-----------------------------------------------------------------------------
(* A failure that reaches the limit is seen by the thread that counted it  *)
(* or by one that counted a later one.                                     *)
LEMMA NextEnforced ==
  ASSUME MayCrash = FALSE, TypeInv, ThresholdIsEnforced, [Next]_vars
  PROVE  ThresholdIsEnforced'
<1> USE LimitAssumption
<1> USE DEF TypeInv, TypeOK, LoginHasUser, SessionRows, LoginStages, dbVars, lockVars,
    threadVars, clientVars, ThresholdIsEnforced
<1>1. ASSUME NEW h \in Handlers, Accept(h) PROVE ThresholdIsEnforced'
  BY <1>1 DEF Accept, Goto
<1>2. ASSUME NEW h \in Handlers, PeerGone(h) PROVE ThresholdIsEnforced'
  BY <1>2 DEF PeerGone
<1>3. ASSUME NEW h \in Handlers, ReadEof(h) PROVE ThresholdIsEnforced'
  BY <1>3 DEF ReadEof, Continue, Goto
<1>4. ASSUME NEW h \in Handlers, RemoveSession(h) PROVE ThresholdIsEnforced'
  BY <1>4 DEF RemoveSession, Continue, Goto, SessionRows
<1>5. ASSUME NEW h \in Handlers, CleanupMap(h) PROVE ThresholdIsEnforced'
  BY <1>5 DEF CleanupMap, Continue, Goto
<1>6. ASSUME NEW h \in Handlers, RemoveClient(h) PROVE ThresholdIsEnforced'
  BY <1>6 DEF RemoveClient, Goto
<1>7. ASSUME NEW h \in Handlers, NEW u \in Users, NEW ok \in BOOLEAN,
              RecvLogin(h, u, ok)
       PROVE  ThresholdIsEnforced'
  BY <1>7 DEF RecvLogin, Goto
<1>8. ASSUME NEW h \in Handlers, IsUserLocked(h) PROVE ThresholdIsEnforced'
  BY <1>8 DEF IsUserLocked, Continue, Goto, VerifyStage
<1>9. ASSUME NEW h \in Handlers, CheckExpiry(h) PROVE ThresholdIsEnforced'
  BY <1>9 DEF CheckExpiry, Answer, Continue, Goto
<1>10. ASSUME NEW h \in Handlers, UnlockUser(h) PROVE ThresholdIsEnforced'
  BY <1>10 DEF UnlockUser, Continue, Goto, VerifyStage
<1>11. ASSUME NEW h \in Handlers, IncrementFailed(h) PROVE ThresholdIsEnforced'
  BY <1>11 DEF IncrementFailed, Continue, Goto
<1>12. ASSUME NEW h \in Handlers, GetFailed(h) PROVE ThresholdIsEnforced'
  BY <1>12 DEF GetFailed, Answer, Continue, Goto
<1>13. ASSUME NEW h \in Handlers, LockUser(h) PROVE ThresholdIsEnforced'
  BY <1>13 DEF LockUser, Answer, Goto
<1>14. ASSUME NEW h \in Handlers, HasActiveSession(h) PROVE ThresholdIsEnforced'
  BY <1>14 DEF HasActiveSession, Answer, Continue, Goto
<1>15. ASSUME NEW h \in Handlers, CreateSession(h) PROVE ThresholdIsEnforced'
  BY <1>15 DEF CreateSession, Continue, Goto, UnusedTokens, SessionRows
<1>16. ASSUME NEW h \in Handlers, ResetFailed(h) PROVE ThresholdIsEnforced'
  BY <1>16 DEF ResetFailed, Continue, Goto
<1>17. ASSUME NEW h \in Handlers, RegisterUser(h) PROVE ThresholdIsEnforced'
  BY <1>17 DEF RegisterUser, Answer, Goto
<1>18. ASSUME NEW h \in Handlers, RecvLogout(h) PROVE ThresholdIsEnforced'
  BY <1>18 DEF RecvLogout, Continue, Goto
<1>19. ASSUME NEW h \in Handlers, GetUserIdByToken(h) PROVE ThresholdIsEnforced'
  BY <1>19 DEF GetUserIdByToken, Goto, SessionRows
<1>20. ASSUME NEW h \in Handlers, RemoveSessionByToken(h) PROVE ThresholdIsEnforced'
  BY <1>20 DEF RemoveSessionByToken, Answer, Continue, Goto, SessionRows
<1>21. ASSUME NEW h \in Handlers, UnregisterUser(h) PROVE ThresholdIsEnforced'
  BY <1>21 DEF UnregisterUser, Answer, Goto
<1>22. CASE Tick
  BY <1>22 DEF Tick, Less
<1>23. CASE Crash
  BY <1>23, MayCrash = FALSE DEF Crash
<1>24. CASE UNCHANGED vars
  BY <1>24 DEF vars
<1> QED
  BY <1>1, <1>2, <1>3, <1>4, <1>5, <1>6, <1>7, <1>8, <1>9, <1>10, <1>11,
     <1>12, <1>13, <1>14, <1>15, <1>16, <1>17, <1>18, <1>19, <1>20, <1>21,
     <1>22, <1>23, <1>24
     DEF Next, ThreadStep, ClientStep

(* No interleaving of failures, resets and unlocks lets an account reach   *)
(* MAX_FAILED_ATTEMPTS unlocked with nobody about to lock it.              *)
THEOREM LimitEnforced ==
  ASSUME MayCrash = FALSE
  PROVE  Spec => []ThresholdIsEnforced
<1>1. Init => ThresholdIsEnforced
  BY LimitAssumption DEF Init, ThresholdIsEnforced
<1>2. TypeInv /\ ThresholdIsEnforced /\ [Next]_vars => ThresholdIsEnforced'
  BY NextEnforced, MayCrash = FALSE
<1> QED
  BY <1>1, <1>2, InitTyped, NextTyped, PTL DEF Spec

-----------------------------------------------------------------------------
(* How many sessions an account can have.  Both sets are finite as long as *)
(* the rows are, and every step but the check of hasActiveSession and the  *)
(* INSERT takes away from them, if anything.                               *)
PileInv ==
  /\ SessionsDoNotPileUp
  /\ \A u \in Users : IsFiniteSet(SessionsOf(u))

LEMMA CreatingFinite ==
  ASSUME NEW u \in Users
  PROVE  /\ IsFiniteSet(Creating(u)) /\ Cardinality(Creating(u)) \in Nat
         /\ Cardinality(Creating(u)) <= Cardinality(Handlers)
         /\ Cardinality(Handlers) \in Nat
<1>1. Creating(u) \in SUBSET Handlers
  BY DEF Creating
<1> QED
  BY <1>1, HandlersAssumption, FS_Subset, FS_CardinalityType

LEMMA CreatingFinitePrime ==
  ASSUME NEW u \in Users
  PROVE  /\ IsFiniteSet(Creating(u)') /\ Cardinality(Creating(u)') \in Nat
         /\ Cardinality(Creating(u)') <= Cardinality(Handlers)
<1>1. Creating(u)' \in SUBSET Handlers
  BY DEF Creating
<1> QED
  BY <1>1, HandlersAssumption, FS_Subset, FS_CardinalityType

LEMMA PileShrinks ==
  ASSUME PileInv,
         \A u \in Users : /\ SessionsOf(u)' \subseteq SessionsOf(u)
                          /\ Creating(u)' \subseteq Creating(u)
  PROVE  PileInv'
<1> SUFFICES ASSUME NEW u \in Users
             PROVE  /\ IsFiniteSet(SessionsOf(u)')
                    /\ Cardinality(SessionsOf(u)') + Cardinality(Creating(u)')
                         <= Cardinality(Handlers)
  BY DEF PileInv, SessionsDoNotPileUp
<1>1. /\ IsFiniteSet(SessionsOf(u))
      /\ Cardinality(SessionsOf(u)) + Cardinality(Creating(u))
           <= Cardinality(Handlers)
  BY DEF PileInv, SessionsDoNotPileUp
<1>2. /\ IsFiniteSet(SessionsOf(u)')
      /\ Cardinality(SessionsOf(u)') <= Cardinality(SessionsOf(u))
      /\ Cardinality(SessionsOf(u)') \in Nat
      /\ Cardinality(SessionsOf(u)) \in Nat
  BY <1>1, FS_Subset, FS_CardinalityType
<1>3. /\ Cardinality(Creating(u)') <= Cardinality(Creating(u))
      /\ Cardinality(Creating(u)') \in Nat
      /\ Cardinality(Creating(u)) \in Nat
      /\ Cardinality(Handlers) \in Nat
  BY CreatingFinite, CreatingFinitePrime, FS_Subset
<1> QED
  BY <1>1, <1>2, <1>3

LEMMA NextPile ==
  ASSUME TypeInv, PileInv, [Next]_vars
  PROVE  PileInv'
<1> USE DEF TypeInv, TypeOK, LoginStages
<1>1. ASSUME NEW h \in Handlers, HasActiveSession(h) PROVE PileInv'
  <2>1. CASE HasSession(req[h])
    BY <1>1, <2>1, PileShrinks
       DEF HasActiveSession, SessionsOf, Creating, Answer, Goto, dbVars
  <2>2. CASE ~HasSession(req[h])
    <3> SUFFICES ASSUME NEW u \in Users
                 PROVE  /\ IsFiniteSet(SessionsOf(u)')
                        /\ Cardinality(SessionsOf(u)')
                             + Cardinality(Creating(u)')
                             <= Cardinality(Handlers)
      BY DEF PileInv, SessionsDoNotPileUp
    <3>1. SessionsOf(u)' = SessionsOf(u) /\ IsFiniteSet(SessionsOf(u))
      BY <1>1 DEF HasActiveSession, SessionsOf, PileInv, dbVars
    <3>2. CASE u = req[h]
      <4>1. SessionsOf(u) = {}
        BY <2>2, <3>2 DEF SessionsOf, HasSession
      <4>2. Cardinality(SessionsOf(u)') = 0
        BY <3>1, <4>1, FS_EmptySet
      <4> QED
        BY <3>1, <4>2, CreatingFinitePrime, CreatingFinite
    <3>3. CASE u # req[h]
      <4>1. Creating(u)' = Creating(u)
        BY <1>1, <2>2, <3>3 DEF HasActiveSession, Creating, Continue, Goto
      <4> QED
        BY <3>1, <4>1 DEF PileInv, SessionsDoNotPileUp
    <3> QED
      BY <3>2, <3>3
  <2> QED
    BY <2>1, <2>2
<1>2. ASSUME NEW h \in Handlers, CreateSession(h) PROVE PileInv'
  <2> SUFFICES ASSUME NEW u \in Users
               PROVE  /\ IsFiniteSet(SessionsOf(u)')
                      /\ Cardinality(SessionsOf(u)') + Cardinality(Creating(u)')
                           <= Cardinality(Handlers)
    BY DEF PileInv, SessionsDoNotPileUp
  <2>1. PICK t \in Tokens :
          sessions' = sessions \cup {[user |-> req[h], token |-> t]}
    BY <1>2 DEF CreateSession, UnusedTokens
  <2>2. /\ pc[h] = "createSession" /\ pc' = [pc EXCEPT ![h] = "resetFailed"]
        /\ req' = req
    BY <1>2 DEF CreateSession, Continue, Goto
  <2>3. /\ IsFiniteSet(SessionsOf(u)) /\ Cardinality(SessionsOf(u)) \in Nat
        /\ Cardinality(SessionsOf(u)) + Cardinality(Creating(u))
             <= Cardinality(Handlers)
    BY FS_CardinalityType DEF PileInv, SessionsDoNotPileUp
  <2>4. CASE u = req[h]
    <3>1. SessionsOf(u)' = SessionsOf(u) \cup {[user |-> u, token |-> t]}
      BY <2>1, <2>4 DEF SessionsOf
    <3>2. /\ IsFiniteSet(SessionsOf(u)')
          /\ Cardinality(SessionsOf(u)') <= Cardinality(SessionsOf(u)) + 1
          /\ Cardinality(SessionsOf(u)') \in Nat
      <4> DEFINE S == SessionsOf(u)
                 row == [user |-> u, token |-> t]
      <4>1. /\ IsFiniteSet(S \cup {row})
            /\ \/ Cardinality(S \cup {row}) = Cardinality(S)
               \/ Cardinality(S \cup {row}) = Cardinality(S) + 1
        <5> HIDE DEF S, row
        <5> QED
          BY <2>3, FS_AddElement DEF S
      <4> QED
        BY <2>3, <3>1, <4>1
    <3>3. h \in Creating(u) /\ Creating(u)' = Creating(u) \ {h}
      BY <2>2, <2>4 DEF Creating
    <3>4. Cardinality(Creating(u)') = Cardinality(Creating(u)) - 1
      BY <3>3, CreatingFinite, FS_RemoveElement
    <3> QED
      BY <2>3, <3>2, <3>4, CreatingFinite
  <2>5. CASE u # req[h]
    <3>1. SessionsOf(u)' = SessionsOf(u) /\ Creating(u)' = Creating(u)
      BY <2>1, <2>2, <2>5 DEF SessionsOf, Creating
    <3> QED
      BY <2>3, <3>1
  <2> QED
    BY <2>4, <2>5
<1>3. ASSUME NEW h \in Handlers,
             \/ Accept(h) \/ PeerGone(h) \/ RecvLogout(h)
             \/ \E u \in Users, ok \in BOOLEAN : RecvLogin(h, u, ok)
             \/ ReadEof(h) \/ RemoveSession(h) \/ CleanupMap(h)
             \/ RemoveClient(h)
      PROVE  PileInv'
  BY <1>3, PileShrinks
     DEF Accept, PeerGone, RecvLogout, RecvLogin, ReadEof, RemoveSession,
         CleanupMap, RemoveClient, SessionsOf, Creating, Continue, Goto,
         dbVars, threadVars
<1>4. ASSUME NEW h \in Handlers,
             \/ IsUserLocked(h) \/ CheckExpiry(h) \/ UnlockUser(h)
             \/ IncrementFailed(h) \/ GetFailed(h) \/ LockUser(h)
             \/ ResetFailed(h)
      PROVE  PileInv'
  BY <1>4, PileShrinks
     DEF IsUserLocked, CheckExpiry, UnlockUser, IncrementFailed, GetFailed,
         LockUser, ResetFailed, VerifyStage, SessionsOf, Creating, Answer,
         Continue, Goto, dbVars
<1>5. ASSUME NEW h \in Handlers,
             \/ RegisterUser(h) \/ GetUserIdByToken(h)
             \/ RemoveSessionByToken(h) \/ UnregisterUser(h)
      PROVE  PileInv'
  BY <1>5, PileShrinks
     DEF RegisterUser, GetUserIdByToken, RemoveSessionByToken, UnregisterUser,
         SessionsOf, Creating, Answer, Continue, Goto, dbVars
<1>6. CASE Tick \/ Crash \/ UNCHANGED vars
  BY <1>6, PileShrinks
     DEF Tick, Crash, vars, SessionsOf, Creating, dbVars
<1> QED
  BY <1>1, <1>2, <1>3, <1>4, <1>5, <1>6 DEF Next, ThreadStep, ClientStep

(* The check of login lets no more sessions of an account in beside each   *)
(* other than there are connections, with any number of devices using it   *)
(* and rows left behind by any number of restarts.                         *)
THEOREM SessionsBounded == Spec => []SessionsDoNotPileUp
<1>1. Init => PileInv
  <2> SUFFICES ASSUME Init, NEW u \in Users
               PROVE  /\ IsFiniteSet(SessionsOf(u))
                      /\ Cardinality(SessionsOf(u)) + Cardinality(Creating(u))
                           <= Cardinality(Handlers)
    BY DEF PileInv, SessionsDoNotPileUp
  <2>1. SessionsOf(u) = {}
    BY DEF Init, SessionsOf
  <2>2. IsFiniteSet(SessionsOf(u)) /\ Cardinality(SessionsOf(u)) = 0
    BY <2>1, FS_EmptySet
  <2> QED
    BY <2>2, CreatingFinite
<1>2. TypeInv /\ PileInv /\ [Next]_vars => PileInv'
  BY NextPile
<1>3. PileInv => SessionsDoNotPileUp
  BY DEF PileInv
<1> QED
  BY <1>1, <1>2, <1>3, InitTyped, NextTyped, PTL DEF Spec

-----------------------------------------------------------------------------
(* How far the count of failures overshoots: the threads that have counted *)
(* a failure of u and not yet acted on it, and those about to count one.   *)
Counting(u) ==
  {h \in Handlers : req[h] = u /\ pc[h] \in {"getFailed", "lockUser"}}
Failing(u) == {h \in Handlers : req[h] = u /\ pc[h] = "incrementFailed"}

(* Unlocked, every failure beyond the limit has its thread still busy with *)
(* it; locked, only the threads that got past isUserLocked can add to it.  *)
Overshoot(u) ==
  /\ ~locked[u] =>
       attempts[u] <= MaxFailedAttempts - 1 + Cardinality(Counting(u))
  /\ locked[u] =>
       attempts[u] + Cardinality(Failing(u))
         <= MaxFailedAttempts - 1 + Cardinality(Handlers)

OvershootInv == \A u \in Users : Overshoot(u)

(* The sets are finite, and no thread is in both.                          *)
LEMMA CountsFinite ==
  ASSUME NEW u \in Users
  PROVE  /\ IsFiniteSet(Counting(u)) /\ IsFiniteSet(Failing(u))
         /\ Cardinality(Counting(u)) \in Nat
         /\ Cardinality(Failing(u)) \in Nat
         /\ Cardinality(Handlers) \in Nat
         /\ Cardinality(Counting(u)) + Cardinality(Failing(u))
              <= Cardinality(Handlers)
<1>1. Counting(u) \in SUBSET Handlers /\ Failing(u) \in SUBSET Handlers
  BY DEF Counting, Failing
<1>2. IsFiniteSet(Counting(u)) /\ IsFiniteSet(Failing(u))
  BY <1>1, HandlersAssumption, FS_Subset
<1>3. Counting(u) \cap Failing(u) = {}
  BY DEF Counting, Failing
<1>4. Cardinality(Counting(u) \cup Failing(u))
        = Cardinality(Counting(u)) + Cardinality(Failing(u))
  <2>1. Cardinality(Counting(u) \cap Failing(u)) = 0
    BY <1>3, FS_EmptySet
  <2>2. Cardinality(Counting(u) \cup Failing(u))
          = Cardinality(Counting(u)) + Cardinality(Failing(u))
              - Cardinality(Counting(u) \cap Failing(u))
    BY <1>2, FS_Union
  <2> QED
    BY <1>2, <2>1, <2>2, FS_CardinalityType
<1>5. Cardinality(Counting(u) \cup Failing(u)) <= Cardinality(Handlers)
  <2>1. Counting(u) \cup Failing(u) \in SUBSET Handlers
    BY <1>1
  <2> QED
    BY <2>1, HandlersAssumption, FS_Subset
<1> QED
  BY <1>2, <1>4, <1>5, HandlersAssumption, FS_CardinalityType

(* The same facts of the next state.                                       *)
LEMMA CountsFinitePrime ==
  ASSUME NEW u \in Users
  PROVE  /\ IsFiniteSet(Counting(u)') /\ IsFiniteSet(Failing(u)')
         /\ Cardinality(Counting(u)') \in Nat
         /\ Cardinality(Failing(u)') \in Nat
<1>1. Counting(u)' \in SUBSET Handlers /\ Failing(u)' \in SUBSET Handlers
  BY DEF Counting, Failing
<1> QED
  BY <1>1, HandlersAssumption, FS_Subset, FS_CardinalityType

(* A step that neither counts nor resets failures of u, nor lets a thread  *)
(* past a lock, keeps the bound.                                           *)
LEMMA OvershootKept ==
  ASSUME TypeInv, NEW u \in Users, Overshoot(u),
         attempts'[u] = attempts[u], locked'[u] = locked[u],
         ~locked[u] => Counting(u)' = Counting(u),
         locked[u] => Failing(u)' = Failing(u)
  PROVE  Overshoot(u)'
BY DEF Overshoot

(* A reset of the count does so too.                                       *)
LEMMA OvershootReset ==
  ASSUME NEW u \in Users, attempts'[u] = 0, locked'[u] = FALSE
  PROVE  Overshoot(u)'
BY CountsFinitePrime, LimitAssumption DEF Overshoot

LEMMA NextOvershoot ==
  ASSUME MayCrash = FALSE, TypeInv, OvershootInv, [Next]_vars
  PROVE  OvershootInv'
<1> USE LimitAssumption
<1> USE DEF TypeInv, TypeOK, LoginHasUser, LoginStages, dbVars, lockVars,
            threadVars, clientVars
<1>1. ASSUME NEW h \in Handlers, Accept(h) PROVE OvershootInv'
  <2> SUFFICES ASSUME NEW u \in Users PROVE Overshoot(u)'
    BY DEF OvershootInv
  <2>1. Counting(u)' = Counting(u) /\ Failing(u)' = Failing(u)
    BY <1>1 DEF Accept, Counting, Failing, Answer, Continue, Goto
  <2> QED
    BY <1>1, <2>1, OvershootKept DEF Accept, OvershootInv
<1>2. ASSUME NEW h \in Handlers, PeerGone(h) PROVE OvershootInv'
  <2> SUFFICES ASSUME NEW u \in Users PROVE Overshoot(u)'
    BY DEF OvershootInv
  <2>1. Counting(u)' = Counting(u) /\ Failing(u)' = Failing(u)
    BY <1>2 DEF PeerGone, Counting, Failing, Answer, Continue, Goto
  <2> QED
    BY <1>2, <2>1, OvershootKept DEF PeerGone, OvershootInv
<1>3. ASSUME NEW h \in Handlers, ReadEof(h) PROVE OvershootInv'
  <2> SUFFICES ASSUME NEW u \in Users PROVE Overshoot(u)'
    BY DEF OvershootInv
  <2>1. Counting(u)' = Counting(u) /\ Failing(u)' = Failing(u)
    BY <1>3 DEF ReadEof, Counting, Failing, Answer, Continue, Goto
  <2> QED
    BY <1>3, <2>1, OvershootKept DEF ReadEof, OvershootInv
<1>4. ASSUME NEW h \in Handlers, RemoveSession(h) PROVE OvershootInv'
  <2> SUFFICES ASSUME NEW u \in Users PROVE Overshoot(u)'
    BY DEF OvershootInv
  <2>1. Counting(u)' = Counting(u) /\ Failing(u)' = Failing(u)
    BY <1>4 DEF RemoveSession, Counting, Failing, Answer, Continue, Goto
  <2> QED
    BY <1>4, <2>1, OvershootKept DEF RemoveSession, OvershootInv
<1>5. ASSUME NEW h \in Handlers, CleanupMap(h) PROVE OvershootInv'
  <2> SUFFICES ASSUME NEW u \in Users PROVE Overshoot(u)'
    BY DEF OvershootInv
  <2>1. Counting(u)' = Counting(u) /\ Failing(u)' = Failing(u)
    BY <1>5 DEF CleanupMap, Counting, Failing, Answer, Continue, Goto
  <2> QED
    BY <1>5, <2>1, OvershootKept DEF CleanupMap, OvershootInv
<1>6. ASSUME NEW h \in Handlers, RemoveClient(h) PROVE OvershootInv'
  <2> SUFFICES ASSUME NEW u \in Users PROVE Overshoot(u)'
    BY DEF OvershootInv
  <2>1. Counting(u)' = Counting(u) /\ Failing(u)' = Failing(u)
    BY <1>6 DEF RemoveClient, Counting, Failing, Answer, Continue, Goto
  <2> QED
    BY <1>6, <2>1, OvershootKept DEF RemoveClient, OvershootInv
<1>7. ASSUME NEW h \in Handlers, CheckExpiry(h) PROVE OvershootInv'
  <2> SUFFICES ASSUME NEW u \in Users PROVE Overshoot(u)'
    BY DEF OvershootInv
  <2>1. Counting(u)' = Counting(u) /\ Failing(u)' = Failing(u)
    BY <1>7 DEF CheckExpiry, Counting, Failing, Answer, Continue, Goto
  <2> QED
    BY <1>7, <2>1, OvershootKept DEF CheckExpiry, OvershootInv
<1>8. ASSUME NEW h \in Handlers, HasActiveSession(h) PROVE OvershootInv'
  <2> SUFFICES ASSUME NEW u \in Users PROVE Overshoot(u)'
    BY DEF OvershootInv
  <2>1. Counting(u)' = Counting(u) /\ Failing(u)' = Failing(u)
    BY <1>8 DEF HasActiveSession, Counting, Failing, Answer, Continue, Goto
  <2> QED
    BY <1>8, <2>1, OvershootKept DEF HasActiveSession, OvershootInv
<1>9. ASSUME NEW h \in Handlers, CreateSession(h) PROVE OvershootInv'
  <2> SUFFICES ASSUME NEW u \in Users PROVE Overshoot(u)'
    BY DEF OvershootInv
  <2>1. Counting(u)' = Counting(u) /\ Failing(u)' = Failing(u)
    BY <1>9 DEF CreateSession, Counting, Failing, Answer, Continue, Goto
  <2> QED
    BY <1>9, <2>1, OvershootKept DEF CreateSession, OvershootInv
<1>10. ASSUME NEW h \in Handlers, RegisterUser(h) PROVE OvershootInv'
  <2> SUFFICES ASSUME NEW u \in Users PROVE Overshoot(u)'
    BY DEF OvershootInv
  <2>1. Counting(u)' = Counting(u) /\ Failing(u)' = Failing(u)
    BY <1>10 DEF RegisterUser, Counting, Failing, Answer, Continue, Goto
  <2> QED
    BY <1>10, <2>1, OvershootKept DEF RegisterUser, OvershootInv
<1>11. ASSUME NEW h \in Handlers, RecvLogout(h) PROVE OvershootInv'
  <2> SUFFICES ASSUME NEW u \in Users PROVE Overshoot(u)'
    BY DEF OvershootInv
  <2>1. Counting(u)' = Counting(u) /\ Failing(u)' = Failing(u)
    BY <1>11 DEF RecvLogout, Counting, Failing, Answer, Continue, Goto
  <2> QED
    BY <1>11, <2>1, OvershootKept DEF RecvLogout, OvershootInv
<1>12. ASSUME NEW h \in Handlers, GetUserIdByToken(h) PROVE OvershootInv'
  <2> SUFFICES ASSUME NEW u \in Users PROVE Overshoot(u)'
    BY DEF OvershootInv
  <2>1. Counting(u)' = Counting(u) /\ Failing(u)' = Failing(u)
    BY <1>12 DEF GetUserIdByToken, Counting, Failing, Answer, Continue, Goto
  <2> QED
    BY <1>12, <2>1, OvershootKept DEF GetUserIdByToken, OvershootInv
<1>13. ASSUME NEW h \in Handlers, RemoveSessionByToken(h) PROVE OvershootInv'
  <2> SUFFICES ASSUME NEW u \in Users PROVE Overshoot(u)'
    BY DEF OvershootInv
  <2>1. Counting(u)' = Counting(u) /\ Failing(u)' = Failing(u)
    BY <1>13 DEF RemoveSessionByToken, Counting, Failing, Answer, Continue, Goto
  <2> QED
    BY <1>13, <2>1, OvershootKept DEF RemoveSessionByToken, OvershootInv
<1>14. ASSUME NEW h \in Handlers, UnregisterUser(h) PROVE OvershootInv'
  <2> SUFFICES ASSUME NEW u \in Users PROVE Overshoot(u)'
    BY DEF OvershootInv
  <2>1. Counting(u)' = Counting(u) /\ Failing(u)' = Failing(u)
    BY <1>14 DEF UnregisterUser, Counting, Failing, Answer, Continue, Goto
  <2> QED
    BY <1>14, <2>1, OvershootKept DEF UnregisterUser, OvershootInv
<1>15. ASSUME NEW h \in Handlers, NEW v \in Users, NEW ok \in BOOLEAN,
              RecvLogin(h, v, ok)
      PROVE  OvershootInv'
  <2> SUFFICES ASSUME NEW u \in Users PROVE Overshoot(u)'
    BY DEF OvershootInv
  <2>1. Counting(u)' = Counting(u) /\ Failing(u)' = Failing(u)
    BY <1>15 DEF RecvLogin, Counting, Failing, Goto
  <2> QED
    BY <1>15, <2>1, OvershootKept DEF RecvLogin, OvershootInv
<1>16. ASSUME NEW h \in Handlers, IsUserLocked(h) PROVE OvershootInv'
  <2> SUFFICES ASSUME NEW u \in Users PROVE Overshoot(u)'
    BY DEF OvershootInv
  <2>1. Counting(u)' = Counting(u)
    BY <1>16 DEF IsUserLocked, VerifyStage, Counting, Continue, Goto
  <2>2. ASSUME locked[u] PROVE Failing(u)' = Failing(u)
    BY <1>16, <2>2 DEF IsUserLocked, VerifyStage, Failing, Continue, Goto
  <2> QED
    BY <1>16, <2>1, <2>2, OvershootKept DEF IsUserLocked, OvershootInv
<1>17. ASSUME NEW h \in Handlers, UnlockUser(h) PROVE OvershootInv'
  <2> SUFFICES ASSUME NEW u \in Users PROVE Overshoot(u)'
    BY DEF OvershootInv
  <2>1. CASE u = req[h]
    BY <1>17, <2>1, OvershootReset DEF UnlockUser
  <2>2. CASE u # req[h]
    <3>1. Counting(u)' = Counting(u) /\ Failing(u)' = Failing(u)
      BY <1>17, <2>2 DEF UnlockUser, VerifyStage, Counting, Failing, Continue, Goto
    <3> QED
      BY <1>17, <2>2, <3>1, OvershootKept DEF UnlockUser, OvershootInv
  <2> QED
    BY <2>1, <2>2
<1>18. ASSUME NEW h \in Handlers, ResetFailed(h) PROVE OvershootInv'
  <2> SUFFICES ASSUME NEW u \in Users PROVE Overshoot(u)'
    BY DEF OvershootInv
  <2>1. CASE u = req[h]
    BY <1>18, <2>1, OvershootReset DEF ResetFailed
  <2>2. CASE u # req[h]
    <3>1. Counting(u)' = Counting(u) /\ Failing(u)' = Failing(u)
      BY <1>18, <2>2 DEF ResetFailed, VerifyStage, Counting, Failing, Continue, Goto
    <3> QED
      BY <1>18, <2>2, <3>1, OvershootKept DEF ResetFailed, OvershootInv
  <2> QED
    BY <2>1, <2>2
<1>19. ASSUME NEW h \in Handlers, IncrementFailed(h) PROVE OvershootInv'
  <2> SUFFICES ASSUME NEW u \in Users PROVE Overshoot(u)'
    BY DEF OvershootInv
  <2> USE <1>19 DEF IncrementFailed, Continue, Goto
  <2>1. CASE u = req[h]
    <3>1. h \in Failing(u) /\ h \notin Counting(u)
      BY <2>1 DEF Counting, Failing
    <3>2. Counting(u)' = Counting(u) \cup {h} /\ Failing(u)' = Failing(u) \ {h}
      BY <2>1 DEF Counting, Failing
    <3>3. /\ Cardinality(Counting(u)') = Cardinality(Counting(u)) + 1
          /\ Cardinality(Failing(u)') = Cardinality(Failing(u)) - 1
      <4>1. Cardinality(Counting(u) \cup {h}) = Cardinality(Counting(u)) + 1
        BY <3>1, CountsFinite, FS_AddElement
      <4>2. Cardinality(Failing(u) \ {h}) = Cardinality(Failing(u)) - 1
        BY <3>1, CountsFinite, FS_RemoveElement
      <4> HIDE <1>19 DEF IncrementFailed, Continue, Goto
      <4> QED
        BY <3>2, <4>1, <4>2, Zenon
    <3>4. attempts'[u] = attempts[u] + 1 /\ locked'[u] = locked[u]
      BY <2>1
    <3> QED
      BY <3>3, <3>4, CountsFinite DEF OvershootInv, Overshoot
  <2>2. CASE u # req[h]
    <3>1. Counting(u)' = Counting(u) /\ Failing(u)' = Failing(u)
      BY <2>2 DEF Counting, Failing
    <3> QED
      BY <2>2, <3>1, OvershootKept DEF OvershootInv
  <2> QED
    BY <2>1, <2>2
<1>20. ASSUME NEW h \in Handlers, GetFailed(h) PROVE OvershootInv'
  <2> SUFFICES ASSUME NEW u \in Users PROVE Overshoot(u)'
    BY DEF OvershootInv
  <2>1. Failing(u)' = Failing(u) /\ attempts' = attempts /\ locked' = locked
    BY <1>20 DEF GetFailed, Failing, Answer, Continue, Goto
  <2>2. CASE u = req[h] /\ attempts[u] < MaxFailedAttempts
    BY <2>1, <2>2, CountsFinitePrime DEF OvershootInv, Overshoot
  <2>3. CASE ~(u = req[h] /\ attempts[u] < MaxFailedAttempts)
    <3>1. Counting(u)' = Counting(u)
      BY <1>20, <2>3 DEF GetFailed, Counting, Answer, Continue, Goto
    <3> QED
      BY <2>1, <3>1, OvershootKept DEF OvershootInv
  <2> QED
    BY <2>2, <2>3
<1>21. ASSUME NEW h \in Handlers, LockUser(h) PROVE OvershootInv'
  <2> SUFFICES ASSUME NEW u \in Users PROVE Overshoot(u)'
    BY DEF OvershootInv
  <2>1. Failing(u)' = Failing(u) /\ attempts' = attempts
    BY <1>21 DEF LockUser, Failing, Answer, Goto
  <2>2. CASE u = req[h]
    <3>1. locked'[u] = TRUE
      BY <1>21, <2>2 DEF LockUser
    <3> QED
      BY <2>1, <3>1, CountsFinite DEF OvershootInv, Overshoot
  <2>3. CASE u # req[h]
    <3>1. Counting(u)' = Counting(u) /\ locked'[u] = locked[u]
      BY <1>21, <2>3 DEF LockUser, Counting, Answer, Goto
    <3> QED
      BY <2>1, <3>1, OvershootKept DEF OvershootInv
  <2> QED
    BY <2>2, <2>3
<1>22. CASE Tick
  <2>1. \A u \in Users : Counting(u)' = Counting(u) /\ Failing(u)' = Failing(u)
    BY <1>22 DEF Tick, Counting, Failing
  <2> QED
    BY <1>22, <2>1, OvershootKept DEF Tick, OvershootInv
<1>23. CASE UNCHANGED vars
  <2>1. \A u \in Users : Counting(u)' = Counting(u) /\ Failing(u)' = Failing(u)
    BY <1>23 DEF vars, Counting, Failing
  <2> QED
    BY <1>23, <2>1, OvershootKept DEF vars, OvershootInv
<1> QED
  BY <1>1, <1>2, <1>3, <1>4, <1>5, <1>6, <1>7, <1>8, <1>9, <1>10, <1>11, <1>12, <1>13, <1>14, <1>15, <1>16, <1>17, <1>18, <1>19, <1>20, <1>21, <1>22, <1>23,
     MayCrash = FALSE
     DEF Next, ThreadStep, ClientStep, Crash

(* The limit is overshot by no more than one failure per connection: those *)
(* whose login had passed isUserLocked when the lock was set.              *)
THEOREM OvershootIsBounded ==
  ASSUME MayCrash = FALSE PROVE Spec => []OvershootBounded
<1>1. Init => OvershootInv
  <2> SUFFICES ASSUME Init, NEW u \in Users PROVE Overshoot(u)
    BY DEF OvershootInv
  <2> QED
    BY CountsFinite, LimitAssumption DEF Init, Overshoot
<1>2. TypeInv /\ OvershootInv /\ [Next]_vars => OvershootInv'
  BY NextOvershoot, MayCrash = FALSE
<1>3. TypeInv /\ OvershootInv => OvershootBounded
  <2> SUFFICES ASSUME TypeInv, OvershootInv, NEW u \in Users
               PROVE  attempts[u] <= MaxFailedAttempts - 1 + Cardinality(Handlers)
    BY DEF OvershootBounded
  <2> QED
    BY CountsFinite, LimitAssumption
       DEF TypeInv, TypeOK, OvershootInv, Overshoot
<1> QED
  BY <1>1, <1>2, <1>3, InitTyped, NextTyped, PTL DEF Spec

-----------------------------------------------------------------------------
(***************************************************************************)
(* Each account used on one client at a time.                              *)
(*                                                                         *)
(* All that the proofs need of that premise is that no two logins of one   *)
(* user are served at a time (LoginsDiffer): then what hasActiveSession    *)
(* has read is still true at createSession, with the server crashing at    *)
(* any step.                                                               *)
(***************************************************************************)

(* The row that the client of h got for user u.                            *)
RowOf(u, h) == [user |-> u, token |-> tok[h]]

EarlyStages == LoginStages \ {"resetFailed", "registerUser"}
HolderStages == {"readMessage", "getUserIdByToken", "removeSessionByToken",
                 "removeSession"}

(* A token stands for one row and is held by one client.                   *)
TokensDiffer ==
  /\ \A s1, s2 \in sessions : s1.token = s2.token => s1 = s2
  /\ \A g, h \in Handlers : tok[g] = tok[h] /\ tok[g] # NoToken => g = h

(* No two threads serve logins of one user at a time.                      *)
LoginsDiffer ==
  \A g, h \in Handlers :
    pc[g] \in LoginStages /\ pc[h] \in LoginStages /\ req[g] = req[h] => g = h

(* A thread that has not logged anybody in knows no user and no token.     *)
Anonymous ==
  \A h \in Handlers :
    /\ pc[h] \in LoginStages \cup {"none"} => uid[h] = NoUser
    /\ pc[h] \in EarlyStages \cup {"none"} => tok[h] = NoToken
    /\ pc[h] = "readMessage" /\ uid[h] = NoUser => tok[h] = NoToken
    /\ pc[h] \in LogoutStages \cup {"removeSession", "cleanupMap"}
         => uid[h] # NoUser

(* hasActiveSession stays right until createSession; from then on the row  *)
(* stays until the thread removes it.                                      *)
RowsStay ==
  \A h \in Handlers :
    /\ pc[h] = "createSession" => ~HasSession(req[h])
    /\ pc[h] \in {"resetFailed", "registerUser"}
         => RowOf(req[h], h) \in sessions
    /\ pc[h] \in HolderStages /\ uid[h] # NoUser
         => RowOf(uid[h], h) \in sessions

(* A logout finds the user its thread has logged in.                       *)
LogoutKnowsUser ==
  \A h \in Handlers :
    pc[h] \in {"removeSessionByToken", "unregisterUser"} => req[h] = uid[h]

(* user_map points to a handler of that user, which will unregister it.    *)
MapMatches ==
  \A u \in Users, h \in Handlers :
    userMap[u] = h => uid[h] = u /\ pc[h] # "removeClient"

(* The inductive invariant.                                                *)
SingleInv ==
  /\ TypeInv
  /\ AtMostOneSession
  /\ TokensDiffer
  /\ LoginsDiffer
  /\ Anonymous
  /\ RowsStay
  /\ LogoutKnowsUser
  /\ MapMatches

-----------------------------------------------------------------------------
(* It holds initially.                                                     *)
LEMMA InitSingle == Init => SingleInv
<1>1. Init => TypeInv
  BY InitTyped
<1> QED
  BY <1>1, NullAssumption
     DEF Init, SingleInv, AtMostOneSession, TokensDiffer, LoginsDiffer,
         Anonymous, RowsStay, LogoutKnowsUser, MapMatches, LoginStages,
         LogoutStages, EarlyStages, HolderStages

(* A client without a token is logged in as nobody.                        *)
LEMMA NoTokenNoUser ==
  ASSUME TypeInv, RowsStay, NEW h \in Handlers,
         pc[h] = "readMessage", tok[h] = NoToken
  PROVE  uid[h] = NoUser
<1> SUFFICES ASSUME uid[h] # NoUser PROVE FALSE
  OBVIOUS
<1>1. RowOf(uid[h], h) \in SessionRows
  BY DEF RowsStay, HolderStages, TypeInv, TypeOK
<1>2. RowOf(uid[h], h).token \in Tokens
  BY <1>1 DEF SessionRows
<1> QED
  BY <1>2, NullAssumption DEF RowOf

(* Every step keeps it.  The steps that take some arguing are the          *)
(* disconnect, which removes all rows of its user, and those that create a *)
(* row or hand it from one stage to another.                               *)
LEMMA NextSingle ==
  ASSUME SharedAccounts = FALSE, SingleInv, [Next]_vars
  PROVE  SingleInv'
<1> USE NullAssumption, SharedAccounts = FALSE
<1> USE DEF SingleInv, TypeInv, TypeOK, SessionRows, LoginHasUser,
            AtMostOneSession, TokensDiffer, LoginsDiffer, Anonymous,
            RowsStay, LogoutKnowsUser, MapMatches,
            LoginStages, LogoutStages, EarlyStages, HolderStages,
            RowOf, HasSession, dbVars, lockVars, threadVars, clientVars
<1>0. TypeInv'
  BY NextTyped
<1>1. ASSUME NEW h \in Handlers, Accept(h) PROVE SingleInv'
  BY <1>0, <1>1 DEF Accept, Goto
<1>2. ASSUME NEW h \in Handlers, PeerGone(h) PROVE SingleInv'
  BY <1>0, <1>2 DEF PeerGone
<1>3. ASSUME NEW h \in Handlers, ReadEof(h) PROVE SingleInv'
  BY <1>0, <1>3 DEF ReadEof, Continue, Goto
<1>4. ASSUME NEW h \in Handlers, RemoveSession(h) PROVE SingleInv'
  <2> USE <1>4 DEF RemoveSession, Continue, Goto
  <2>1. RowOf(uid[h], h) \in sessions
    OBVIOUS
  <2>2. ASSUME NEW g \in Handlers, g # h, RowOf(uid[h], g) \in sessions
        PROVE  FALSE
    BY <2>1, <2>2
  <2>3. RowsStay'
    <3> SUFFICES ASSUME NEW g \in Handlers
                 PROVE  /\ pc'[g] = "createSession" => ~HasSession(req[g])'
                        /\ pc'[g] \in {"resetFailed", "registerUser"}
                             => RowOf(req[g], g) \in sessions'
                        /\ pc'[g] \in HolderStages /\ uid[g] # NoUser
                             => RowOf(uid[g], g) \in sessions'
      OBVIOUS
    <3>1. CASE g = h
      BY <3>1
    <3>2. CASE g # h
      BY <2>2, <3>2
    <3> QED
      BY <3>1, <3>2
  <2> QED
    BY <1>0, <2>3
<1>5. ASSUME NEW h \in Handlers, CleanupMap(h) PROVE SingleInv'
  BY <1>0, <1>5 DEF CleanupMap, Continue, Goto
<1>6. ASSUME NEW h \in Handlers, RemoveClient(h) PROVE SingleInv'
  BY <1>0, <1>6 DEF RemoveClient, Goto
<1>7. ASSUME NEW h \in Handlers, NEW u \in Users, NEW ok \in BOOLEAN,
              UserTries(h, u, ok), RecvLogin(h, u, ok)
       PROVE  SingleInv'
  <2>1. uid[h] = NoUser
    BY <1>7, NoTokenNoUser DEF RecvLogin
  <2> QED
    BY <1>0, <1>7, <2>1 DEF UserTries, RecvLogin, Goto, Busy
<1>8. ASSUME NEW h \in Handlers, IsUserLocked(h) PROVE SingleInv'
  BY <1>0, <1>8 DEF IsUserLocked, Continue, Goto, VerifyStage
<1>9. ASSUME NEW h \in Handlers, CheckExpiry(h) PROVE SingleInv'
  <2> USE <1>9 DEF CheckExpiry, Answer, Continue, Goto
  <2>1. AtMostOneSession' /\ TokensDiffer' /\ LoginsDiffer' /\ Anonymous'
    OBVIOUS
  <2>2. RowsStay'
    OBVIOUS
  <2>3. LogoutKnowsUser' /\ MapMatches'
    OBVIOUS
  <2> QED
    BY <1>0, <2>1, <2>2, <2>3
<1>10. ASSUME NEW h \in Handlers, UnlockUser(h) PROVE SingleInv'
  BY <1>0, <1>10 DEF UnlockUser, Continue, Goto, VerifyStage
<1>11. ASSUME NEW h \in Handlers, IncrementFailed(h) PROVE SingleInv'
  BY <1>0, <1>11 DEF IncrementFailed, Continue, Goto
<1>12. ASSUME NEW h \in Handlers, GetFailed(h) PROVE SingleInv'
  <2> USE <1>12 DEF GetFailed, Answer, Continue, Goto
  <2>1. AtMostOneSession' /\ TokensDiffer' /\ LoginsDiffer' /\ Anonymous'
    OBVIOUS
  <2>2. RowsStay'
    OBVIOUS
  <2>3. LogoutKnowsUser' /\ MapMatches'
    OBVIOUS
  <2> QED
    BY <1>0, <2>1, <2>2, <2>3
<1>13. ASSUME NEW h \in Handlers, LockUser(h) PROVE SingleInv'
  BY <1>0, <1>13 DEF LockUser, Answer, Goto
<1>14. ASSUME NEW h \in Handlers, HasActiveSession(h) PROVE SingleInv'
  BY <1>0, <1>14 DEF HasActiveSession, Answer, Continue, Goto
<1>15. ASSUME NEW h \in Handlers, CreateSession(h) PROVE SingleInv'
  <2> USE <1>15 DEF CreateSession, Continue, Goto
  <2>1. PICK t \in UnusedTokens :
          /\ sessions' = sessions \cup {[user |-> req[h], token |-> t]}
          /\ tok' = [tok EXCEPT ![h] = t]
    OBVIOUS
  <2>2. /\ t \in Tokens /\ req[h] \in Users
        /\ \A s \in sessions : s.user # req[h] /\ s.token # t
        /\ \A g \in Handlers : tok[g] # t
    BY DEF UnusedTokens
  <2>3. AtMostOneSession' /\ TokensDiffer'
    BY <2>1, <2>2
  <2>4. RowsStay'
    BY <2>1, <2>2
  <2> QED
    BY <1>0, <2>1, <2>2, <2>3, <2>4
<1>16. ASSUME NEW h \in Handlers, ResetFailed(h) PROVE SingleInv'
  BY <1>0, <1>16 DEF ResetFailed, Continue, Goto
<1>17. ASSUME NEW h \in Handlers, RegisterUser(h) PROVE SingleInv'
  <2> USE <1>17 DEF RegisterUser, Answer, Goto
  <2>1. RowsStay'
    <3> SUFFICES ASSUME NEW g \in Handlers
                 PROVE  /\ pc'[g] = "createSession" => ~HasSession(req[g])'
                        /\ pc'[g] \in {"resetFailed", "registerUser"}
                             => RowOf(req[g], g)' \in sessions
                        /\ pc'[g] \in HolderStages /\ uid'[g] # NoUser
                             => RowOf(uid[g], g)' \in sessions
      OBVIOUS
    <3>1. CASE g = h
      BY <3>1
    <3>2. CASE g # h
      BY <3>2
    <3> QED
      BY <3>1, <3>2
  <2> QED
    BY <1>0, <2>1
<1>18. ASSUME NEW h \in Handlers, RecvLogout(h) PROVE SingleInv'
  BY <1>0, <1>18 DEF RecvLogout, Continue, Goto
<1>19. ASSUME NEW h \in Handlers, GetUserIdByToken(h) PROVE SingleInv'
  <2> USE <1>19 DEF GetUserIdByToken, Goto
  <2>1. RowOf(uid[h], h) \in sessions /\ RowOf(uid[h], h).token = tok[h]
    OBVIOUS
  <2>2. req' = [req EXCEPT ![h] = uid[h]]
    BY <2>1
  <2> QED
    BY <1>0, <2>1, <2>2
<1>20. ASSUME NEW h \in Handlers, RemoveSessionByToken(h) PROVE SingleInv'
  BY <1>0, <1>20 DEF RemoveSessionByToken, Answer, Continue, Goto
<1>21. ASSUME NEW h \in Handlers, UnregisterUser(h) PROVE SingleInv'
  BY <1>0, <1>21 DEF UnregisterUser, Answer, Goto
<1>22. CASE Tick
  BY <1>0, <1>22 DEF Tick
<1>23. CASE Crash
  BY <1>0, <1>23 DEF Crash
<1>24. CASE UNCHANGED vars
  BY <1>0, <1>24 DEF vars
<1> HIDE DEF SingleInv
<1> QED
  BY <1>1, <1>2, <1>3, <1>4, <1>5, <1>6, <1>7, <1>8, <1>9, <1>10, <1>11,
     <1>12, <1>13, <1>14, <1>15, <1>16, <1>17, <1>18, <1>19, <1>20, <1>21,
     <1>22, <1>23, <1>24
     DEF Next, ThreadStep, ClientStep

(* It holds in every state.                                                *)
LEMMA SingleInvariant ==
  ASSUME SharedAccounts = FALSE PROVE Spec => []SingleInv
<1>1. SingleInv /\ [Next]_vars => SingleInv'
  BY NextSingle, SharedAccounts = FALSE
<1> QED
  BY <1>1, InitSingle, PTL DEF Spec

-----------------------------------------------------------------------------
(* The cleanup in run removes every session of its user; it never removes  *)
(* that of a client which has logged in again since.                       *)
THEOREM TokensStay ==
  ASSUME SharedAccounts = FALSE PROVE Spec => []TokenStaysValid
<1>1. SingleInv => TokenStaysValid
  BY DEF SingleInv, TokenStaysValid, Anonymous, RowsStay, HolderStages, RowOf
<1> QED
  BY <1>1, SingleInvariant, PTL

(* run unregisters its user before Server::removeClient deletes the        *)
(* handler, and nobody else has user_map point to it.                      *)
THEOREM NobodyDangles ==
  ASSUME SharedAccounts = FALSE PROVE Spec => []NoDanglingRegistration
<1>1. SingleInv => NoDanglingRegistration
  BY NullAssumption
     DEF SingleInv, TypeInv, TypeOK, NoDanglingRegistration, Anonymous,
         MapMatches
<1> QED
  BY <1>1, SingleInvariant, PTL

-----------------------------------------------------------------------------
(* UserSessions implements LoginService                                    *)

(* Once its session is removed a client's token stands for no row.         *)
TokenReturned ==
  \A h \in Handlers : pc[h] \in {"unregisterUser", "cleanupMap", "removeClient"}
                      => \A s \in sessions : s.token # tok[h]

LEMMA NextReturned ==
  ASSUME SharedAccounts = FALSE, SingleInv, TokenReturned, [Next]_vars
  PROVE  TokenReturned'
<1> USE NullAssumption
<1> USE DEF TokenReturned, SessionRows, LoginStages, LogoutStages, EarlyStages,
            HolderStages, RowOf, dbVars, lockVars, threadVars, clientVars
<1>0. /\ TypeOK
      /\ LoginHasUser
      /\ TokensDiffer
      /\ Anonymous
      /\ RowsStay
  BY DEF SingleInv, TypeInv
<1>1. ASSUME NEW h \in Handlers, Accept(h) PROVE TokenReturned'
  BY <1>0, <1>1 DEF TypeOK, Accept, Goto
<1>2. ASSUME NEW h \in Handlers, PeerGone(h) PROVE TokenReturned'
  BY <1>2 DEF PeerGone
<1>3. ASSUME NEW h \in Handlers, ReadEof(h) PROVE TokenReturned'
  BY <1>0, <1>3 DEF TypeOK, Anonymous, ReadEof, Continue, Goto
<1>4. ASSUME NEW h \in Handlers, RemoveSession(h) PROVE TokenReturned'
  <2>1. uid[h] \in Users /\ RowOf(uid[h], h) \in sessions
    BY <1>0, <1>4 DEF TypeOK, Anonymous, RowsStay, RemoveSession
  <2>2. ASSUME NEW s \in sessions, s.user # uid[h] PROVE s.token # tok[h]
    <3>1. RowOf(uid[h], h).token = tok[h] /\ RowOf(uid[h], h).user = uid[h]
      OBVIOUS
    <3> QED
      BY <1>0, <2>1, <2>2, <3>1 DEF TokensDiffer
  <2> QED
    BY <1>0, <1>4, <2>2 DEF TypeOK, RemoveSession, Continue, Goto
<1>5. ASSUME NEW h \in Handlers, CleanupMap(h) PROVE TokenReturned'
  BY <1>0, <1>5 DEF TypeOK, CleanupMap, Continue, Goto
<1>6. ASSUME NEW h \in Handlers, RemoveClient(h) PROVE TokenReturned'
  BY <1>0, <1>6 DEF TypeOK, RemoveClient, Goto
<1>7. ASSUME NEW h \in Handlers, NEW u \in Users, NEW ok \in BOOLEAN,
              RecvLogin(h, u, ok)
       PROVE  TokenReturned'
  BY <1>0, <1>7 DEF TypeOK, RecvLogin, Goto
<1>8. ASSUME NEW h \in Handlers, IsUserLocked(h) PROVE TokenReturned'
  BY <1>0, <1>8 DEF TypeOK, IsUserLocked, Continue, Goto, VerifyStage
<1>9. ASSUME NEW h \in Handlers, CheckExpiry(h) PROVE TokenReturned'
  BY <1>0, <1>9 DEF TypeOK, CheckExpiry, Answer, Continue, Goto
<1>10. ASSUME NEW h \in Handlers, UnlockUser(h) PROVE TokenReturned'
  BY <1>0, <1>10 DEF TypeOK, UnlockUser, Continue, Goto, VerifyStage
<1>11. ASSUME NEW h \in Handlers, IncrementFailed(h) PROVE TokenReturned'
  BY <1>0, <1>11 DEF TypeOK, IncrementFailed, Continue, Goto
<1>12. ASSUME NEW h \in Handlers, GetFailed(h) PROVE TokenReturned'
  BY <1>0, <1>12 DEF TypeOK, GetFailed, Answer, Continue, Goto
<1>13. ASSUME NEW h \in Handlers, LockUser(h) PROVE TokenReturned'
  BY <1>0, <1>13 DEF TypeOK, LockUser, Answer, Goto
<1>14. ASSUME NEW h \in Handlers, HasActiveSession(h) PROVE TokenReturned'
  BY <1>0, <1>14 DEF TypeOK, HasActiveSession, Answer, Continue, Goto
<1>15. ASSUME NEW h \in Handlers, CreateSession(h) PROVE TokenReturned'
  BY <1>0, <1>15 DEF TypeOK, CreateSession, UnusedTokens, Continue, Goto
<1>16. ASSUME NEW h \in Handlers, ResetFailed(h) PROVE TokenReturned'
  BY <1>0, <1>16 DEF TypeOK, ResetFailed, Continue, Goto
<1>17. ASSUME NEW h \in Handlers, RegisterUser(h) PROVE TokenReturned'
  BY <1>0, <1>17 DEF TypeOK, RegisterUser, Answer, Goto
<1>18. ASSUME NEW h \in Handlers, RecvLogout(h) PROVE TokenReturned'
  BY <1>0, <1>18 DEF TypeOK, RecvLogout, Continue, Goto
<1>19. ASSUME NEW h \in Handlers, GetUserIdByToken(h) PROVE TokenReturned'
  BY <1>0, <1>19 DEF TypeOK, GetUserIdByToken, Goto
<1>20. ASSUME NEW h \in Handlers, RemoveSessionByToken(h) PROVE TokenReturned'
  BY <1>0, <1>20 DEF TypeOK, RemoveSessionByToken, Answer, Continue, Goto
<1>21. ASSUME NEW h \in Handlers, UnregisterUser(h) PROVE TokenReturned'
  BY <1>0, <1>21 DEF TypeOK, UnregisterUser, Answer, Goto
<1>22. CASE Tick
  BY <1>22 DEF Tick
<1>23. CASE Crash
  BY <1>23 DEF Crash
<1>24. CASE UNCHANGED vars
  BY <1>24 DEF vars
<1> QED
  BY <1>1, <1>2, <1>3, <1>4, <1>5, <1>6, <1>7, <1>8, <1>9, <1>10, <1>11,
     <1>12, <1>13, <1>14, <1>15, <1>16, <1>17, <1>18, <1>19, <1>20, <1>21,
     <1>22, <1>23, <1>24
     DEF Next, ThreadStep, ClientStep

(* A step that leaves rows, tokens and user_map alone is invisible.        *)
LEMMA Invisible ==
  ASSUME UNCHANGED <<sessions, userMap, tok>> PROVE UNCHANGED Login!vars
BY DEF Login!vars, Taken, Holds, Online, HasSession

(* A removed row was its client's, and takes the account from nobody else. *)
LEMMA RemovalLeaves ==
  ASSUME TypeInv, AtMostOneSession, TokensDiffer, NEW h \in Handlers,
         NEW u \in Users, RowOf(u, h) \in sessions,
         sessions' = sessions \ {RowOf(u, h)}, UNCHANGED <<userMap, tok>>
  PROVE  Login!Leave(u, h)
<1> USE DEF TypeInv, TypeOK, SessionRows, RowOf
<1>1. <<u, h>> \in Holds
  BY DEF Holds
<1>2. Taken' = Taken \ {u}
  BY DEF Taken, HasSession, AtMostOneSession
<1>3. tok[h] # NoToken
  BY NullAssumption
<1>4. Holds' = Holds \ {<<u, h>>}
  <2>1. ASSUME NEW v \in Users, NEW g \in Handlers
        PROVE  <<v, g>> \in Holds' <=> <<v, g>> \in Holds \ {<<u, h>>}
    BY <1>3, <2>1 DEF Holds, TokensDiffer
  <2> QED
    BY <2>1 DEF Holds
<1>5. Online' = Online
  BY DEF Online
<1> QED
  BY <1>1, <1>2, <1>4, <1>5 DEF Login!Leave

(* A token that stands for no row gives nothing to hold.                   *)
LEMMA NothingHeld ==
  ASSUME TypeInv, NEW h \in Handlers, \A s \in sessions : s.token # tok[h],
         tok' = [tok EXCEPT ![h] = NoToken], UNCHANGED sessions
  PROVE  Taken' = Taken /\ Holds' = Holds
<1> USE NullAssumption DEF TypeInv, TypeOK, SessionRows
<1>1. ASSUME NEW v \in Users, NEW g \in Handlers
      PROVE  [user |-> v, token |-> tok[g]] \in sessions
               <=> [user |-> v, token |-> tok'[g]] \in sessions'
  <2>1. CASE g = h
    <3>1. [user |-> v, token |-> tok[h]].token = tok[h]
      OBVIOUS
    <3>2. [user |-> v, token |-> NoToken] \notin SessionRows
      OBVIOUS
    <3> QED
      BY <2>1, <3>1, <3>2
  <2>2. CASE g # h
    BY <2>2
  <2> QED
    BY <2>1, <2>2
<1> QED
  BY <1>1 DEF Taken, Holds, HasSession

LEMMA NextImplements ==
  ASSUME SharedAccounts = FALSE, SingleInv, TokenReturned, [Next]_vars
  PROVE  [Login!Next]_Login!vars
<1> USE NullAssumption
<1> USE DEF LoginStages, LogoutStages, EarlyStages, HolderStages,
            dbVars, lockVars, threadVars, clientVars
<1>0. /\ TypeInv
      /\ TypeOK
      /\ LoginHasUser
      /\ AtMostOneSession
      /\ TokensDiffer
      /\ Anonymous
      /\ RowsStay
      /\ LogoutKnowsUser
  BY DEF SingleInv, TypeInv
<1>1. ASSUME UNCHANGED <<sessions, userMap, tok>>
      PROVE  [Login!Next]_Login!vars
  BY <1>1, Invisible
<1>2. ASSUME NEW h \in Handlers, Accept(h) PROVE UNCHANGED <<sessions, userMap, tok>>
  <2>1. tok[h] = NoToken
    BY <1>0, <1>2 DEF Anonymous, Accept
  <2> QED
    BY <1>0, <1>2, <2>1 DEF TypeOK, Accept
<1>3. ASSUME NEW h \in Handlers, RemoveSession(h)
      PROVE  Login!Leave(uid[h], h) /\ uid[h] \in Users
  <2>1. uid[h] \in Users /\ RowOf(uid[h], h) \in sessions
    BY <1>0, <1>3 DEF TypeOK, Anonymous, RowsStay, RemoveSession
  <2>2. sessions' = sessions \ {RowOf(uid[h], h)}
    BY <1>0, <1>3, <2>1 DEF RemoveSession, AtMostOneSession, RowOf
  <2> QED
    BY <1>0, <1>3, <2>1, <2>2, RemovalLeaves DEF RemoveSession
<1>4. ASSUME NEW h \in Handlers, CleanupMap(h)
      PROVE  Login!Vanish(uid[h]) /\ uid[h] \in Users
  <2>1. uid[h] \in Users
    BY <1>0, <1>4 DEF TypeOK, Anonymous, CleanupMap
  <2>2. Online' = Online \ {uid[h]}
    BY <1>0, <1>4, <2>1 DEF TypeOK, CleanupMap, Online
  <2> QED
    BY <1>4, <2>1, <2>2
       DEF CleanupMap, Login!Vanish, Taken, Holds, HasSession
<1>5. ASSUME NEW h \in Handlers, RemoveClient(h) PROVE UNCHANGED Login!vars
  <2>1. Taken' = Taken /\ Holds' = Holds
    BY <1>0, <1>5, NothingHeld DEF TokenReturned, RemoveClient
  <2> QED
    BY <1>5, <2>1 DEF RemoveClient, Login!vars, Online
<1>6. ASSUME NEW h \in Handlers, CreateSession(h)
      PROVE  Login!LogIn(req[h], h) /\ req[h] \in Users
  <2>1. PICK t \in UnusedTokens :
          /\ sessions' = sessions \cup {[user |-> req[h], token |-> t]}
          /\ tok' = [tok EXCEPT ![h] = t]
    BY <1>6 DEF CreateSession
  <2>2. /\ t \in Tokens /\ req[h] \in Users /\ tok[h] = NoToken
        /\ req[h] \notin Taken
        /\ \A s \in sessions : s.token # t
        /\ \A g \in Handlers : tok[g] # t
    BY <1>0, <1>6
       DEF CreateSession, UnusedTokens, LoginHasUser, Anonymous, RowsStay, Taken
  <2>3. \A v \in Users : [user |-> v, token |-> NoToken] \notin sessions
    <3>1. ASSUME NEW v \in Users PROVE [user |-> v, token |-> NoToken] \notin SessionRows
      BY DEF SessionRows
    <3> QED
      BY <1>0, <3>1 DEF TypeOK
  <2>4. \A v \in Users : <<v, h>> \notin Holds
    BY <2>2, <2>3 DEF Holds
  <2>5. Taken' = Taken \cup {req[h]}
    <3>1. [user |-> req[h], token |-> t].user = req[h]
      OBVIOUS
    <3>2. ASSUME NEW v \in Users
          PROVE  v \in Taken' <=> v \in Taken \/ v = req[h]
      BY <2>1, <2>2, <3>1, <3>2 DEF Taken, HasSession
    <3> QED
      BY <2>2, <3>2 DEF Taken
  <2>6. Holds' = Holds \cup {<<req[h], h>>}
    <3>1. ASSUME NEW v \in Users, NEW g \in Handlers
          PROVE  <<v, g>> \in Holds' <=> <<v, g>> \in Holds \cup {<<req[h], h>>}
      <4>1. CASE g = h
        <5>1. [user |-> v, token |-> t] \notin sessions
          <6>1. [user |-> v, token |-> t].token = t
            OBVIOUS
          <6> QED
            BY <2>2, <6>1
        <5> QED
          BY <1>0, <2>1, <2>4, <4>1, <5>1 DEF Holds, TypeOK
      <4>2. CASE g # h
        <5>1. [user |-> v, token |-> tok[g]] # [user |-> req[h], token |-> t]
          BY <2>2
        <5> QED
          BY <1>0, <2>1, <4>2, <5>1 DEF Holds, TypeOK
      <4> QED
        BY <4>1, <4>2
    <3> QED
      BY <2>2, <3>1 DEF Holds
  <2>7. Online' = Online
    BY <1>6 DEF CreateSession, Online
  <2> QED
    BY <2>2, <2>4, <2>5, <2>6, <2>7 DEF Login!LogIn
<1>7. ASSUME NEW h \in Handlers, RegisterUser(h)
      PROVE  Login!Appear(req[h], h) /\ req[h] \in Users
  <2>1. req[h] \in Users /\ RowOf(req[h], h) \in sessions
    BY <1>0, <1>7 DEF LoginHasUser, RowsStay, RegisterUser
  <2>2. <<req[h], h>> \in Holds
    BY <2>1 DEF Holds, RowOf
  <2>3. Online' = Online \cup {req[h]}
    BY <1>0, <1>7, <2>1 DEF TypeOK, RegisterUser, Online
  <2> QED
    BY <1>7, <2>1, <2>2, <2>3
       DEF RegisterUser, Login!Appear, Taken, Holds, HasSession
<1>8. ASSUME NEW h \in Handlers, RemoveSessionByToken(h)
      PROVE  Login!Leave(uid[h], h) /\ uid[h] \in Users
  <2>1. /\ uid[h] \in Users /\ RowOf(uid[h], h) \in sessions
        /\ req[h] = uid[h]
    BY <1>0, <1>8
       DEF TypeOK, Anonymous, RowsStay, LogoutKnowsUser, RemoveSessionByToken
  <2>2. sessions' = sessions \ {RowOf(uid[h], h)}
    BY <1>0, <1>8, <2>1 DEF RemoveSessionByToken, TokensDiffer, RowOf
  <2>3. UNCHANGED <<userMap, tok>>
    BY <1>8, <2>1 DEF RemoveSessionByToken
  <2> QED
    BY <1>0, <2>1, <2>2, <2>3, RemovalLeaves
<1>9. ASSUME NEW h \in Handlers, UnregisterUser(h)
      PROVE  Login!Vanish(req[h]) /\ req[h] \in Users
  <2>1. req[h] \in Users
    BY <1>0, <1>9 DEF TypeOK, Anonymous, LogoutKnowsUser, UnregisterUser
  <2>2. Online' = Online \ {req[h]}
    BY <1>0, <1>9, <2>1 DEF TypeOK, UnregisterUser, Online
  <2>3. Taken' = Taken /\ Holds' = Holds
    BY <1>0, <1>9, NothingHeld DEF TokenReturned, UnregisterUser
  <2> QED
    BY <2>1, <2>2, <2>3 DEF Login!Vanish
<1>10. CASE Crash
  <2>1. \A v \in Users : [user |-> v, token |-> NoToken] \notin sessions
    <3>1. ASSUME NEW v \in Users PROVE [user |-> v, token |-> NoToken] \notin SessionRows
      BY DEF SessionRows
    <3> QED
      BY <1>0, <3>1 DEF TypeOK
  <2>2. Holds' = {} /\ Online' = {} /\ Taken' = Taken
    BY <1>10, <2>1 DEF Crash, Holds, Online, Taken, HasSession
  <2> QED
    BY <2>2 DEF Login!Next, Login!Restart
<1>11. ASSUME NEW h \in Handlers, ThreadStep(h) PROVE [Login!Next]_Login!vars
  <2>1. \/ UNCHANGED <<sessions, userMap, tok>>
        \/ RemoveSession(h) \/ CleanupMap(h) \/ RemoveClient(h)
        \/ CreateSession(h) \/ RegisterUser(h)
        \/ RemoveSessionByToken(h) \/ UnregisterUser(h)
    BY <1>11
       DEF ThreadStep, ReadEof, IsUserLocked, CheckExpiry, UnlockUser,
           IncrementFailed, GetFailed, LockUser, HasActiveSession, ResetFailed,
           GetUserIdByToken
  <2> QED
    BY <1>1, <1>3, <1>4, <1>5, <1>6, <1>7, <1>8, <1>9, <2>1 DEF Login!Next
<1>12. ASSUME NEW h \in Handlers, ClientStep(h) PROVE [Login!Next]_Login!vars
  BY <1>1, <1>2, <1>12 DEF ClientStep, PeerGone, RecvLogin, RecvLogout
<1>13. CASE Tick
  BY <1>1, <1>13 DEF Tick
<1>14. CASE UNCHANGED vars
  BY <1>1, <1>14 DEF vars
<1> QED
  BY <1>10, <1>11, <1>12, <1>13, <1>14 DEF Next

(* With each account on one device at a time, the statements of login,     *)
(* logout, disconnect and restart implement LoginService: an account is    *)
(* taken by one client, given back by that client, and shown online only   *)
(* from a client that holds it.                                            *)
THEOREM LoginImplemented ==
  ASSUME SharedAccounts = FALSE PROVE Spec => ImplementsLogin
<1>1. Init => TokenReturned
  BY DEF Init, TokenReturned
<1>2. SingleInv /\ TokenReturned /\ [Next]_vars => TokenReturned'
  BY NextReturned, SharedAccounts = FALSE
<1>3. Init => Login!Init
  BY DEF Init, Login!Init, Taken, Holds, Online, HasSession
<1>4. SingleInv /\ TokenReturned /\ [Next]_vars => [Login!Next]_Login!vars
  BY NextImplements, SharedAccounts = FALSE
<1> QED
  BY <1>1, <1>2, <1>3, <1>4, SingleInvariant, PTL
     DEF Spec, Login!Spec, ImplementsLogin
=============================================================================
