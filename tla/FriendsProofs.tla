---------------------------- MODULE FriendsProofs ---------------------------
(***************************************************************************)
(* Theorems about Friends, for any number of users.                        *)
(*                                                                         *)
(* The table is spoken of by Pend and Acc, "a request of a to b waits" and *)
(* "there is an accepted row of a and b"; one lemma per statement of       *)
(* FriendDAO says what it does to the two, and no later step looks at rows *)
(* again.  Answers to names that were not shown change rows that the       *)
(* answers to shown names rely on: the invariant says of every pair what   *)
(* holds until one of the two has given such an answer to the other.       *)
(***************************************************************************)
EXTENDS Friends, TLAPS

Pend(a, b) == Row(a, b, "pending") \in rows
Acc(a, b) == Row(a, b, "accepted") \in rows

Wanted(a, b) == <<a, b>> \in asked /\ <<b, a>> \in agreed
Unseen(a, b) == <<a, b>> \in agreed /\ <<a, b>> \in strays
Strayed(a, b) == <<a, b>> \in strays \/ <<b, a>> \in strays

(* Nobody asks themselves, and no thread serves such a request.            *)
NobodyAlone ==
  /\ \A a \in Users : ~Pend(a, a)
  /\ \A u \in Users : pc[u] # "idle" => other[u] \in Users
  /\ \A u \in Users : pc[u] \in {"sendRequest", "insert"} => other[u] # u

(* Requests were asked; accepted rows come from a request and its accept,  *)
(* or from an unseen accept; and so does the reverse row still to be       *)
(* inserted.                                                               *)
RowsAreWanted ==
  /\ \A a, b \in Users : Pend(a, b) => <<a, b>> \in asked
  /\ \A a, b \in Users :
       Acc(a, b) => \/ Wanted(a, b) \/ Wanted(b, a)
                    \/ Unseen(a, b) \/ Unseen(b, a)
  /\ \A u, v \in Users :
       pc[u] = "insertReverse" /\ other[u] = v
         => Unseen(u, v) \/ (Wanted(v, u) /\ Acc(v, u))

(* While a thread is about to insert a request, its user has no row with   *)
(* the other one, who may have asked in turn but is not a friend, unless   *)
(* by an unseen accept.                                                    *)
InsertIsClear ==
  \A u, v \in Users :
    pc[u] = "insert" /\ other[u] = v
      => ~Pend(u, v) /\ ~Acc(u, v) /\ (Acc(v, u) => Unseen(v, u))

(* Two requests that crossed exclude friendship; a request left over by    *)
(* one that did is about friends in both directions.                       *)
CrossedRequests ==
  \A a, b \in Users :
    \/ Strayed(a, b)
    \/ /\ Pend(a, b) /\ Pend(b, a) => ~Acc(a, b)
       /\ Pend(a, b) /\ Acc(a, b) => Acc(b, a)

IInv ==
  /\ TypeOK
  /\ ShownIsCurrent
  /\ NobodyAlone
  /\ RowsAreWanted
  /\ InsertIsClear
  /\ CrossedRequests

-----------------------------------------------------------------------------
(* What the statements do to the table                                     *)

(* The INSERT of sendRequest adds one waiting request.                     *)
LEMMA InsertRequestEffect ==
  ASSUME TypeOK, NobodyAlone, NEW u \in Users, InsertRequest(u)
  PROVE  /\ other[u] \in Users \ {u}
         /\ \A a, b \in Users :
              /\ Pend(a, b)' <=> Pend(a, b) \/ (a = u /\ b = other[u])
              /\ Acc(a, b)' <=> Acc(a, b)
BY DEF InsertRequest, NobodyAlone, Pend, Acc, Row

(* The second statement of acceptRequest adds one accepted row.            *)
LEMMA InsertReverseEffect ==
  ASSUME TypeOK, NobodyAlone, NEW u \in Users, InsertReverse(u)
  PROVE  /\ other[u] \in Users
         /\ \A a, b \in Users :
              /\ Pend(a, b)' <=> Pend(a, b)
              /\ Acc(a, b)' <=> Acc(a, b) \/ (a = u /\ b = other[u])
BY DEF InsertReverse, NobodyAlone, Pend, Acc, Row

(* The first statement of acceptRequest turns a waiting request into an    *)
(* accepted row, if there is one.                                          *)
LEMMA AcceptRequestEffect ==
  ASSUME TypeOK, NEW u \in Users, NEW v \in Users, AcceptRequest(u, v)
  PROVE  \A a, b \in Users :
           /\ Pend(a, b)' <=> Pend(a, b) /\ ~(a = v /\ b = u)
           /\ Acc(a, b)' <=> Acc(a, b) \/ (a = v /\ b = u /\ Pend(v, u))
<1> SUFFICES ASSUME NEW a \in Users, NEW b \in Users
             PROVE  /\ Pend(a, b)' <=> Pend(a, b) /\ ~(a = v /\ b = u)
                    /\ Acc(a, b)'
                         <=> Acc(a, b) \/ (a = v /\ b = u /\ Pend(v, u))
  OBVIOUS
<1>1. rows' = {r \in rows : ~(r.from = v /\ r.to = u)}
                \cup {Row(v, u, "accepted") : r \in
                        {x \in rows : x.from = v /\ x.to = u}}
  BY DEF AcceptRequest
<1>2. \A r \in rows : r.from = v /\ r.to = u
                        => r = Row(v, u, "pending") \/ r = Row(v, u, "accepted")
  BY DEF TypeOK, Rows, Row
<1> QED
  BY <1>1, <1>2 DEF Pend, Acc, Row

(* The DELETE of rejectRequest takes away the rows of one direction.       *)
LEMMA RejectRequestEffect ==
  ASSUME TypeOK, NEW u \in Users, NEW v \in Users, RejectRequest(u, v)
  PROVE  \A a, b \in Users :
           /\ Pend(a, b)' <=> Pend(a, b) /\ ~(a = v /\ b = u)
           /\ Acc(a, b)' <=> Acc(a, b) /\ ~(a = v /\ b = u)
BY DEF RejectRequest, Pend, Acc, Row

(* A name that is typed is of a request that waits, or the answer is       *)
(* recorded as unseen.                                                     *)
LEMMA TypedNames ==
  ASSUME TypeOK, ShownIsCurrent, NEW u \in Users, NEW v \in Users,
         TypeName(u, v)
  PROVE  /\ pc[u] = "idle" /\ shown[u] # {}
         /\ shown' = [shown EXCEPT ![u] = {}]
         /\ \A x \in strays : x \in strays'
         /\ \A x \in strays' : x \in strays \/ x = <<u, v>>
         /\ (Pend(v, u) /\ v \in shown[u]) \/ <<u, v>> \in strays'
BY DEF TypeOK, TypeName, ShownIsCurrent, PendingRequests, Pend

-----------------------------------------------------------------------------
(* The inductive invariant                                                 *)

(* Initially the table is empty and all threads are idle.                  *)
LEMMA InitInductive == Init => IInv
BY DEF Init, IInv, TypeOK, ShownIsCurrent, PendingRequests, NobodyAlone,
       RowsAreWanted, InsertIsClear, CrossedRequests, Pend, Acc, Row, Rows

(* Nothing is taken out of the histories.                                  *)
LEMMA HistoriesGrow ==
  ASSUME [Next]_vars
  PROVE  /\ asked \subseteq asked' /\ agreed \subseteq agreed'
         /\ strays \subseteq strays'
<1>1. CASE UNCHANGED vars \/ Restart
  BY <1>1 DEF vars, Restart
<1>2. ASSUME NEW u \in Users, ThreadStep(u) \/ Command(u)
      PROVE  /\ asked \subseteq asked' /\ agreed \subseteq agreed'
             /\ strays \subseteq strays'
  BY <1>2 DEF ThreadStep, Command, SendRequest, InsertRequest, InsertReverse,
              ListPendingRequests, SendFriendRequest, AcceptRequest,
              RejectRequest, TypeName
<1> QED
  BY <1>1, <1>2 DEF Next

(* Every step keeps the types of the variables.                            *)
LEMMA NextTyped == TypeOK /\ NobodyAlone /\ [Next]_vars => TypeOK'
<1> SUFFICES ASSUME TypeOK, NobodyAlone, [Next]_vars PROVE TypeOK'
  OBVIOUS
<1> USE DEF TypeOK, NobodyAlone, Goto, TypeName
<1>1. CASE UNCHANGED vars
  BY <1>1 DEF vars
<1>2. ASSUME NEW u \in Users, SendRequest(u) PROVE TypeOK'
  BY <1>2 DEF SendRequest
<1>3. ASSUME NEW u \in Users, InsertRequest(u) PROVE TypeOK'
  <2>1. Row(u, other[u], "pending") \in Rows
    BY <1>3 DEF InsertRequest, Row, Rows
  <2> QED
    BY <1>3, <2>1 DEF InsertRequest
<1>4. ASSUME NEW u \in Users, InsertReverse(u) PROVE TypeOK'
  <2>1. Row(u, other[u], "accepted") \in Rows
    BY <1>4 DEF InsertReverse, Row, Rows
  <2> QED
    BY <1>4, <2>1 DEF InsertReverse
<1>5. ASSUME NEW u \in Users, ListPendingRequests(u) PROVE TypeOK'
  BY <1>5 DEF ListPendingRequests, PendingRequests
<1>6. ASSUME NEW u \in Users, NEW v \in Users, SendFriendRequest(u, v)
      PROVE  TypeOK'
  BY <1>6 DEF SendFriendRequest
<1>7. ASSUME NEW u \in Users, NEW v \in Users, AcceptRequest(u, v)
      PROVE  TypeOK'
  <2>1. Row(v, u, "accepted") \in Rows
    BY DEF Row, Rows
  <2> QED
    BY <1>7, <2>1 DEF AcceptRequest
<1>8. ASSUME NEW u \in Users, NEW v \in Users, RejectRequest(u, v)
      PROVE  TypeOK'
  BY <1>8 DEF RejectRequest
<1>9. CASE Restart
  BY <1>9 DEF Restart
<1> QED
  BY <1>1, <1>2, <1>3, <1>4, <1>5, <1>6, <1>7, <1>8, <1>9
     DEF Next, ThreadStep, Command

(* Every step keeps the relations between the table, the threads and the   *)
(* screens, one step of the proof per statement of FriendDAO.              *)
LEMMA NextInductive == IInv /\ [Next]_vars => IInv'
<1> SUFFICES ASSUME IInv, [Next]_vars
             PROVE  /\ ShownIsCurrent' /\ NobodyAlone' /\ RowsAreWanted'
                    /\ InsertIsClear' /\ CrossedRequests'
  BY NextTyped DEF IInv
<1> DEFINE Goal == /\ ShownIsCurrent' /\ NobodyAlone' /\ RowsAreWanted'
                   /\ InsertIsClear' /\ CrossedRequests'
<1>0. /\ TypeOK /\ ShownIsCurrent /\ NobodyAlone /\ RowsAreWanted
      /\ InsertIsClear /\ CrossedRequests
  BY DEF IInv
<1>s. /\ \A u \in Users : \A v \in shown[u] : v \in Users /\ Pend(v, u)
      /\ (\A u \in Users : \A v \in shown'[u] : v \in Users /\ Pend(v, u)')
           => ShownIsCurrent'
  BY <1>0 DEF ShownIsCurrent, PendingRequests, Pend
<1>h. \A a, b \in Users : /\ Wanted(a, b) => Wanted(a, b)'
                          /\ Unseen(a, b) => Unseen(a, b)'
                          /\ Strayed(a, b) => Strayed(a, b)'
                          /\ <<a, b>> \in asked => <<a, b>> \in asked'
  BY HistoriesGrow DEF Wanted, Unseen, Strayed
<1>k. ASSUME rows' = rows
      PROVE  \A a, b \in Users : /\ Pend(a, b)' <=> Pend(a, b)
                                 /\ Acc(a, b)' <=> Acc(a, b)
  BY <1>k DEF Pend, Acc, Row
<1>1. CASE UNCHANGED vars
  BY <1>0, <1>1, <1>s, <1>h, <1>k
     DEF vars, NobodyAlone, RowsAreWanted, InsertIsClear, CrossedRequests
<1>2. ASSUME NEW u \in Users, SendRequest(u) PROVE Goal
  <2>1. \A v \in Users : v = other[u] /\ ~RequestExists(u, v) =>
          ~Pend(u, v) /\ ~Acc(u, v) /\ ~Acc(v, u)
    BY DEF RequestExists, Pend, Acc, Row
  <2>2. /\ rows' = rows /\ shown' = shown /\ pc[u] = "sendRequest"
        /\ \/ /\ pc' = [pc EXCEPT ![u] = "idle"]
              /\ other' = [other EXCEPT ![u] = NoUser]
           \/ /\ pc' = [pc EXCEPT ![u] = "insert"]
              /\ other' = [other EXCEPT ![u] = other[u]]
              /\ ~RequestExists(u, other[u])
    BY <1>2 DEF SendRequest, Goto
  <2>3. ShownIsCurrent' /\ CrossedRequests'
    BY <1>0, <1>s, <1>h, <1>k, <2>2 DEF CrossedRequests
  <2>4. NobodyAlone'
    BY <1>0, <1>k, <2>2 DEF TypeOK, NobodyAlone
  <2>5. RowsAreWanted'
    BY <1>0, <1>h, <1>k, <2>2 DEF TypeOK, RowsAreWanted
  <2>6. InsertIsClear'
    <3> SUFFICES ASSUME NEW x \in Users, NEW y \in Users,
                        pc'[x] = "insert", other'[x] = y
                 PROVE  /\ ~Pend(x, y)' /\ ~Acc(x, y)'
                        /\ Acc(y, x)' => Unseen(y, x)'
      BY DEF InsertIsClear
    <3>1. CASE x = u
      <4>1. y = other[u] /\ ~RequestExists(u, other[u])
        BY <1>0, <2>2, <3>1 DEF TypeOK
      <4> QED
        BY <1>k, <2>1, <2>2, <3>1, <4>1
    <3>2. CASE x # u
      <4>1. pc[x] = "insert" /\ other[x] = y
        BY <1>0, <2>2, <3>2 DEF TypeOK
      <4> QED
        BY <1>0, <1>h, <1>k, <2>2, <4>1 DEF InsertIsClear
    <3> QED
      BY <3>1, <3>2
  <2> QED
    BY <2>3, <2>4, <2>5, <2>6
<1>3. ASSUME NEW u \in Users, InsertRequest(u) PROVE Goal
  <2>1. /\ other[u] \in Users \ {u}
        /\ \A a, b \in Users :
             /\ Pend(a, b)' <=> Pend(a, b) \/ (a = u /\ b = other[u])
             /\ Acc(a, b)' <=> Acc(a, b)
    BY <1>0, <1>3, InsertRequestEffect
  <2>2. /\ pc[u] = "insert" /\ shown' = shown
        /\ pc' = [pc EXCEPT ![u] = "idle"]
        /\ other' = [other EXCEPT ![u] = NoUser]
        /\ <<u, other[u]>> \in asked'
    BY <1>3 DEF InsertRequest, Goto
  <2>3. \A a, b \in Users : Unseen(a, b) => Strayed(a, b) /\ Strayed(b, a)
    BY DEF Unseen, Strayed
  <2>4. ShownIsCurrent'
    BY <1>s, <2>1, <2>2
  <2>5. NobodyAlone'
    BY <1>0, <2>1, <2>2 DEF NobodyAlone, TypeOK
  <2>6. RowsAreWanted'
    BY <1>0, <1>h, <2>1, <2>2 DEF RowsAreWanted, TypeOK
  <2>7. InsertIsClear'
    BY <1>0, <1>h, <2>1, <2>2 DEF InsertIsClear, TypeOK
  <2>8. CrossedRequests'
    BY <1>0, <1>h, <2>1, <2>2, <2>3 DEF CrossedRequests, InsertIsClear
  <2> QED
    BY <2>4, <2>5, <2>6, <2>7, <2>8
<1>4. ASSUME NEW u \in Users, InsertReverse(u) PROVE Goal
  <2>1. /\ other[u] \in Users
        /\ \A a, b \in Users :
             /\ Pend(a, b)' <=> Pend(a, b)
             /\ Acc(a, b)' <=> Acc(a, b) \/ (a = u /\ b = other[u])
    BY <1>0, <1>4, InsertReverseEffect
  <2>2. /\ pc[u] = "insertReverse" /\ shown' = shown
        /\ pc' = [pc EXCEPT ![u] = "idle"]
        /\ other' = [other EXCEPT ![u] = NoUser]
    BY <1>4 DEF InsertReverse, Goto
  <2>3. /\ \/ Unseen(u, other[u])
           \/ Wanted(other[u], u) /\ Acc(other[u], u)
        /\ Unseen(u, other[u])
             => Strayed(u, other[u]) /\ Strayed(other[u], u)
        /\ Strayed(u, other[u]) <=> Strayed(other[u], u)
    BY <1>0, <2>1, <2>2 DEF Unseen, Strayed, RowsAreWanted
  <2>4. ShownIsCurrent'
    BY <1>s, <2>1, <2>2
  <2>5. NobodyAlone'
    BY <1>0, <2>1, <2>2 DEF NobodyAlone, TypeOK
  <2>6. RowsAreWanted'
    BY <1>0, <1>h, <2>1, <2>2, <2>3 DEF RowsAreWanted, TypeOK
  <2>7. InsertIsClear'
    <3> SUFFICES ASSUME NEW x \in Users, NEW y \in Users,
                        pc'[x] = "insert", other'[x] = y
                 PROVE  /\ ~Pend(x, y)' /\ ~Acc(x, y)'
                        /\ Acc(y, x)' => Unseen(y, x)'
      BY DEF InsertIsClear
    <3>1. x # u /\ pc[x] = "insert" /\ other[x] = y
      BY <1>0, <2>2 DEF TypeOK
    <3>2. /\ ~Pend(x, y) /\ ~Acc(x, y) /\ (Acc(y, x) => Unseen(y, x))
      BY <1>0, <3>1 DEF InsertIsClear
    <3>3. y = u /\ x = other[u] => Unseen(y, x)
      BY <2>3, <3>2
    <3> QED
      BY <1>h, <2>1, <3>1, <3>2, <3>3
  <2>8. CrossedRequests'
    <3> SUFFICES ASSUME NEW a \in Users, NEW b \in Users, ~ Strayed(a, b)'
                 PROVE  /\ Pend(a, b)' /\ Pend(b, a)' => ~Acc(a, b)'
                        /\ Pend(a, b)' /\ Acc(a, b)' => Acc(b, a)'
      BY DEF CrossedRequests
    <3>1. ~ Strayed(a, b)
      BY <1>h
    <3>2. /\ Pend(a, b) /\ Pend(b, a) => ~Acc(a, b)
          /\ Pend(a, b) /\ Acc(a, b) => Acc(b, a)
          /\ Pend(b, a) /\ Pend(a, b) => ~Acc(b, a)
      BY <1>0, <3>1 DEF CrossedRequests, Strayed
    <3>3. a = u /\ b = other[u] => Acc(b, a)
      BY <2>3, <3>1
    <3> QED
      BY <2>1, <3>2, <3>3
  <2> QED
    BY <2>4, <2>5, <2>6, <2>7, <2>8
<1>5. ASSUME NEW u \in Users, ListPendingRequests(u) PROVE Goal
  <2>1. /\ rows' = rows /\ pc' = pc /\ other' = other
        /\ shown' = [shown EXCEPT ![u] = PendingRequests(u)]
    BY <1>5 DEF ListPendingRequests
  <2>2. \A v \in PendingRequests(u) : v \in Users /\ Pend(v, u)
    BY DEF PendingRequests, Pend
  <2>3. ShownIsCurrent'
    BY <1>0, <1>s, <1>k, <2>1, <2>2 DEF TypeOK
  <2> QED
    BY <1>0, <1>h, <1>k, <2>1, <2>3
       DEF NobodyAlone, RowsAreWanted, InsertIsClear, CrossedRequests
<1>6. ASSUME NEW u \in Users, NEW v \in Users, SendFriendRequest(u, v)
      PROVE  Goal
  <2>1. /\ rows' = rows /\ shown' = shown /\ u # v
        /\ pc' = [pc EXCEPT ![u] = "sendRequest"]
        /\ other' = [other EXCEPT ![u] = v]
    BY <1>6 DEF SendFriendRequest, Goto
  <2> QED
    BY <1>0, <1>s, <1>h, <1>k, <2>1
       DEF TypeOK, NobodyAlone, RowsAreWanted, InsertIsClear, CrossedRequests
<1>7. ASSUME NEW u \in Users, NEW v \in Users, AcceptRequest(u, v)
      PROVE  Goal
  <2>1. /\ pc[u] = "idle" /\ shown' = [shown EXCEPT ![u] = {}]
        /\ Pend(v, u) \/ <<u, v>> \in strays'
    BY <1>0, <1>7, TypedNames DEF AcceptRequest
  <2>2. \A a, b \in Users :
           /\ Pend(a, b)' <=> Pend(a, b) /\ ~(a = v /\ b = u)
           /\ Acc(a, b)' <=> Acc(a, b) \/ (a = v /\ b = u /\ Pend(v, u))
    BY <1>0, <1>7, AcceptRequestEffect
  <2>3. /\ pc' = [pc EXCEPT ![u] = "insertReverse"]
        /\ other' = [other EXCEPT ![u] = v]
        /\ <<u, v>> \in agreed'
    BY <1>7 DEF AcceptRequest, Goto
  <2>4. \/ Pend(v, u) /\ Wanted(v, u)'
        \/ Unseen(u, v)' /\ Strayed(u, v)' /\ Strayed(v, u)'
    BY <1>0, <1>h, <2>1, <2>3 DEF Unseen, Wanted, Strayed, RowsAreWanted
  <2>5. Pend(v, u) => Wanted(v, u)'
    BY <1>0, <1>h, <2>3 DEF Wanted, RowsAreWanted
  <2>6. ShownIsCurrent'
    BY <1>0, <1>s, <2>1, <2>2 DEF TypeOK
  <2>7. NobodyAlone'
    BY <1>0, <2>1, <2>2, <2>3 DEF NobodyAlone, TypeOK
  <2>8. RowsAreWanted'
    BY <1>0, <1>h, <2>1, <2>2, <2>3, <2>4, <2>5 DEF RowsAreWanted, TypeOK
  <2>9. InsertIsClear'
    BY <1>0, <1>h, <2>1, <2>2, <2>3 DEF InsertIsClear, TypeOK
  <2>10. CrossedRequests'
    BY <1>0, <1>h, <2>2, <2>4 DEF CrossedRequests
  <2> QED
    BY <2>6, <2>7, <2>8, <2>9, <2>10
<1>8. ASSUME NEW u \in Users, NEW v \in Users, RejectRequest(u, v)
      PROVE  Goal
  <2>1. /\ pc[u] = "idle" /\ shown' = [shown EXCEPT ![u] = {}]
        /\ Pend(v, u) \/ <<u, v>> \in strays'
    BY <1>0, <1>8, TypedNames DEF RejectRequest
  <2>2. \A a, b \in Users :
           /\ Pend(a, b)' <=> Pend(a, b) /\ ~(a = v /\ b = u)
           /\ Acc(a, b)' <=> Acc(a, b) /\ ~(a = v /\ b = u)
    BY <1>0, <1>8, RejectRequestEffect
  <2>3. pc' = pc /\ other' = other
    BY <1>8 DEF RejectRequest
  <2>4. Pend(v, u) \/ (Strayed(u, v)' /\ Strayed(v, u)')
    BY <2>1 DEF Strayed
  <2>5. ShownIsCurrent'
    BY <1>0, <1>s, <2>1, <2>2 DEF TypeOK
  <2>6. NobodyAlone'
    BY <1>0, <2>2, <2>3 DEF NobodyAlone
  <2>7. RowsAreWanted'
    BY <1>0, <1>h, <2>1, <2>2, <2>3 DEF RowsAreWanted
  <2>8. InsertIsClear'
    BY <1>0, <1>h, <2>2, <2>3 DEF InsertIsClear
  <2>9. CrossedRequests'
    <3> SUFFICES ASSUME NEW x \in Users, NEW y \in Users, ~Strayed(x, y)'
                 PROVE  /\ Pend(x, y)' /\ Pend(y, x)' => ~Acc(x, y)'
                        /\ Pend(x, y)' /\ Acc(x, y)' => Acc(y, x)'
      BY DEF CrossedRequests
    <3>1. /\ Pend(x, y) /\ Pend(y, x) => ~Acc(x, y)
          /\ Pend(x, y) /\ Acc(x, y) => Acc(y, x)
      BY <1>0, <1>h DEF CrossedRequests
    <3>2. y = v /\ x = u => Pend(y, x)
      BY <2>4
    <3> QED
      BY <2>2, <3>1, <3>2
  <2> QED
    BY <2>5, <2>6, <2>7, <2>8, <2>9
<1>9. CASE Restart
  BY <1>0, <1>9, <1>s, <1>h, <1>k
     DEF Restart, NobodyAlone, RowsAreWanted, InsertIsClear, CrossedRequests
<1> QED
  BY <1>1, <1>2, <1>3, <1>4, <1>5, <1>6, <1>7, <1>8, <1>9
     DEF Next, ThreadStep, Command

(* The invariant holds in every state.                                     *)
LEMMA Inductive == Spec => []IInv
BY InitInductive, NextInductive, PTL DEF Spec

-----------------------------------------------------------------------------
(* What the invariant says of the actions that change the table            *)

(* Next, as far as the table is concerned: one of the four statements, or  *)
(* nothing.                                                                *)
LEMMA TableSteps ==
  ASSUME IInv, [Next]_vars
  PROVE
    \/ rows' = rows
    \/ \E u \in Users : \E v \in Users \ {u} :
         /\ pc[u] = "insert" /\ other[u] = v
         /\ \A a, b \in Users :
              /\ Pend(a, b)' <=> Pend(a, b) \/ (a = u /\ b = v)
              /\ Acc(a, b)' <=> Acc(a, b)
    \/ \A a, b \in Users : /\ Pend(a, b)' <=> Pend(a, b)
                           /\ Acc(a, b) => Acc(a, b)'
    \/ \E u, v \in Users :
         /\ shown[u] # {}
         /\ (Pend(v, u) /\ v \in shown[u]) \/ <<u, v>> \in strays'
         /\ \A a, b \in Users :
              /\ Pend(a, b)' <=> Pend(a, b) /\ ~(a = v /\ b = u)
              /\ ~(a = v /\ b = u) => (Acc(a, b)' <=> Acc(a, b))
<1>0. TypeOK /\ NobodyAlone /\ ShownIsCurrent
  BY DEF IInv
<1>1. CASE UNCHANGED vars \/ Restart
  BY <1>1 DEF vars, Restart
<1>2. ASSUME NEW u \in Users,
             \/ SendRequest(u) \/ ListPendingRequests(u)
             \/ \E v \in Users : SendFriendRequest(u, v)
      PROVE  rows' = rows
  BY <1>2 DEF SendRequest, ListPendingRequests, SendFriendRequest
<1>3. ASSUME NEW u \in Users, InsertRequest(u)
      PROVE  \E v \in Users \ {u} :
               /\ pc[u] = "insert" /\ other[u] = v
               /\ \A a, b \in Users :
                    /\ Pend(a, b)' <=> Pend(a, b) \/ (a = u /\ b = v)
                    /\ Acc(a, b)' <=> Acc(a, b)
  BY <1>0, <1>3, InsertRequestEffect DEF InsertRequest
<1>4. ASSUME NEW u \in Users, InsertReverse(u)
      PROVE  \A a, b \in Users : /\ Pend(a, b)' <=> Pend(a, b)
                                 /\ Acc(a, b) => Acc(a, b)'
  BY <1>0, <1>4, InsertReverseEffect
<1>5. ASSUME NEW u \in Users, NEW v \in Users,
             AcceptRequest(u, v) \/ RejectRequest(u, v)
      PROVE  /\ shown[u] # {}
             /\ (Pend(v, u) /\ v \in shown[u]) \/ <<u, v>> \in strays'
             /\ \A a, b \in Users :
                  /\ Pend(a, b)' <=> Pend(a, b) /\ ~(a = v /\ b = u)
                  /\ ~(a = v /\ b = u) => (Acc(a, b)' <=> Acc(a, b))
  <2>1. /\ shown[u] # {}
        /\ (Pend(v, u) /\ v \in shown[u]) \/ <<u, v>> \in strays'
    BY <1>0, <1>5, TypedNames DEF AcceptRequest, RejectRequest
  <2>2. CASE AcceptRequest(u, v)
    BY <1>0, <2>1, <2>2, AcceptRequestEffect
  <2>3. CASE RejectRequest(u, v)
    BY <1>0, <2>1, <2>3, RejectRequestEffect
  <2> QED
    BY <1>5, <2>2, <2>3
<1>6. CASE \E u \in Users : ThreadStep(u)
  BY <1>2, <1>3, <1>4, <1>6 DEF ThreadStep
<1>7. CASE \E u \in Users : Command(u)
  <2> PICK u \in Users : Command(u)
    BY <1>7
  <2>1. CASE \E v \in Users : AcceptRequest(u, v) \/ RejectRequest(u, v)
    <3> PICK v \in Users : AcceptRequest(u, v) \/ RejectRequest(u, v)
      BY <2>1
    <3> QED
      BY <1>5
  <2> QED
    BY <1>2, <2>1 DEF Command
<1> QED
  BY <1>1, <1>6, <1>7 DEF Next

-----------------------------------------------------------------------------
(* The theorems                                                            *)

(* Variables keep their types.                                             *)
THEOREM FriendsTyped == Spec => []TypeOK
BY Inductive, PTL DEF IInv

(* listPendingRequests: a list that a user is shown stays true until the   *)
(* user answers it.                                                        *)
THEOREM ListsStayCurrent == Spec => []ShownIsCurrent
BY Inductive, PTL DEF IInv

(* acceptRequest makes friends only of users of whom one has asked and the *)
(* other has accepted, or of whom one has accepted the other's name without*)
(* having been shown it.                                                   *)
THEOREM FriendsConsented == Spec => []FriendshipIsConsented
<1>1. IInv => FriendshipIsConsented
  BY DEF IInv, RowsAreWanted, FriendshipIsConsented, AcceptedFriends, Wanted,
         Unseen, AcceptedUnshown, Acc
<1> QED
  BY <1>1, Inductive, PTL

(* rejectRequest and acceptRequest take away a waiting request only when   *)
(* its receiver answers a list, which shows the request or is older.       *)
THEOREM RequestsAwaitReceiver == Spec => RequestAwaitsReceiver
<1> DEFINE A == \A u, v \in Users :
                  v \in PendingRequests(u) /\ v \notin PendingRequests(u)'
                    => /\ shown[u] # {}
                       /\ v \in shown[u] \/ <<u, v>> \in strays'
<1>1. IInv /\ [Next]_vars => [A]_vars
  <2> SUFFICES ASSUME IInv, [Next]_vars,
                      NEW u \in Users, NEW v \in Users,
                      Pend(v, u), ~Pend(v, u)'
               PROVE  /\ shown[u] # {}
                      /\ v \in shown[u] \/ <<u, v>> \in strays'
    BY DEF PendingRequests, Pend, Row
  <2>1. rows' # rows
    BY DEF Pend, Row
  <2> QED
    BY <2>1, TableSteps
<1>2. Spec => [][A]_vars
  BY Inductive, <1>1, PTL DEF Spec
<1> QED
  BY <1>2 DEF RequestAwaitsReceiver

(* sendRequest stores no request between two users who are friends by the  *)
(* time of the INSERT, whatever happened since the check, but for one who  *)
(* was accepted, unseen, before asking.                                    *)
THEOREM FriendsNotAsked == Spec => FriendsAreNotAsked
<1> DEFINE A == \A u, v \in Users :
                  u \notin PendingRequests(v) /\ u \in PendingRequests(v)'
                    => v \notin AcceptedFriends(u) \/ AcceptedUnshown(v, u)
<1>1. IInv /\ [Next]_vars => [A]_vars
  <2> SUFFICES ASSUME IInv, [Next]_vars,
                      NEW u \in Users, NEW v \in Users,
                      ~Pend(u, v), Pend(u, v)'
               PROVE  ~Acc(u, v) /\ (Acc(v, u) => Unseen(v, u))
    BY DEF PendingRequests, AcceptedFriends, AcceptedUnshown, Unseen, Pend,
           Acc, Row
  <2>1. rows' # rows
    BY DEF Pend, Row
  <2>2. pc[u] = "insert" /\ other[u] = v
    BY <2>1, TableSteps
  <2> QED
    BY <2>2 DEF IInv, InsertIsClear
<1>2. Spec => [][A]_vars
  BY Inductive, <1>1, PTL DEF Spec
<1> QED
  BY <1>2 DEF FriendsAreNotAsked

(* No statement undoes a friendship, a rejection of a request that crossed *)
(* another included, before one of the two answered the other unseen.      *)
THEOREM FriendshipsLast == Spec => FriendshipLasts
<1> DEFINE A == \A u, v \in Users :
                  v \in AcceptedFriends(u) /\ v \notin AcceptedFriends(u)'
                    => {<<u, v>>, <<v, u>>} \cap strays' # {}
<1>1. IInv /\ [Next]_vars => [A]_vars
  <2> SUFFICES ASSUME IInv, [Next]_vars,
                      NEW u \in Users, NEW v \in Users,
                      Acc(u, v) \/ Acc(v, u)
               PROVE  Acc(u, v)' \/ Acc(v, u)' \/ Strayed(u, v)'
    BY DEF AcceptedFriends, Acc, Row, Strayed
  <2>1. CASE rows' = rows
    BY <2>1 DEF Acc, Row
  <2>2. CASE rows' # rows
    <3>1. CASE \A a, b \in Users : Acc(a, b) => Acc(a, b)'
      BY <3>1
    <3>2. ASSUME NEW x \in Users, NEW y \in Users,
                 Pend(y, x) \/ <<x, y>> \in strays',
                 \A a, b \in Users :
                   ~(a = y /\ b = x) => (Acc(a, b)' <=> Acc(a, b))
          PROVE  Acc(u, v)' \/ Acc(v, u)' \/ Strayed(u, v)'
      <4>1. CASE <<x, y>> \in strays'
        <5>1. Strayed(x, y)' /\ Strayed(y, x)'
          BY <4>1 DEF Strayed
        <5> QED
          BY <3>2, <5>1
      <4>2. CASE Pend(y, x)
        <5>1. y # x
          BY <4>2 DEF IInv, NobodyAlone
        <5>2. Strayed(y, x) => Strayed(x, y)' /\ Strayed(y, x)'
          BY HistoriesGrow DEF Strayed
        <5>3. Acc(y, x) => Strayed(y, x) \/ Acc(x, y)'
          BY <3>2, <4>2, <5>1 DEF IInv, CrossedRequests
        <5> QED
          BY <3>2, <5>2, <5>3
      <4> QED
        BY <3>2, <4>1, <4>2
    <3> QED
      BY <2>2, <3>1, <3>2, TableSteps
  <2> QED
    BY <2>1, <2>2
<1>2. Spec => [][A]_vars
  BY Inductive, <1>1, PTL DEF Spec
<1> QED
  BY <1>2 DEF FriendshipLasts
=============================================================================
