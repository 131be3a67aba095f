-------------------------- MODULE ConnectionProofs --------------------------
(***************************************************************************)
(* Theorems about Connection, for any texts typed, any names, buffers of   *)
(* any size, and any number of requests and of recvs that return less      *)
(* than they could.                                                        *)
(*                                                                         *)
(* Most of the lemmas say that a text that is cut out of another, or put   *)
(* together from others, consists of their tokens.  Induction over the     *)
(* length of a text is by the least length at which a claim would fail     *)
(* (LeastNat).                                                             *)
(***************************************************************************)
EXTENDS Connection, FiniteSetTheorems, SequenceTheorems, WellFoundedInduction,
        TLAPS
-----------------------------------------------------------------------------
(* Orders.                                                                 *)

LEMMA LeastNat ==
  ASSUME NEW T \in SUBSET Nat, T # {}
  PROVE  \E least \in T : \A n \in T : least <= n
<1>1. IsWellFoundedOn(OpToRel(<, Nat), Nat)
  BY NatLessThanWellFounded
<1>2. PICK least \in T : \A n \in T : ~ (<<n, least>> \in OpToRel(<, Nat))
  BY <1>1, WFMin
<1>3. \A n \in T : ~ (n < least)
  BY <1>2 DEF OpToRel
<1> QED
  BY <1>3

(* A finite set of numbers in its order.                                   *)
LEMMA Ordering ==
  ASSUME NEW S \in SUBSET Int, IsFiniteSet(S)
  PROVE  /\ Cardinality(S) \in Nat
         /\ InOrder(S) \in [1 .. Cardinality(S) -> S]
         /\ \A m, n \in 1 .. Cardinality(S) :
              m < n => InOrder(S)[m] < InOrder(S)[n]
         /\ \A e \in S : \E n \in 1 .. Cardinality(S) : InOrder(S)[n] = e
<1> DEFINE UpTo(e) == {f \in S : f <= e}
           Place(e) == Cardinality(UpTo(e))
<1>1. PICK k \in Nat : k = Cardinality(S)
  BY FS_CardinalityType
<1>2. ASSUME NEW e \in S
      PROVE  IsFiniteSet(UpTo(e)) /\ Place(e) \in 1 .. k
  <2>1. UpTo(e) \in SUBSET S /\ e \in UpTo(e)
    OBVIOUS
  <2>2. IsFiniteSet(UpTo(e)) /\ Cardinality(UpTo(e)) <= k
    BY <2>1, <1>1, FS_Subset
  <2>3. Cardinality(UpTo(e)) \in Nat /\ Cardinality(UpTo(e)) # 0
    BY <2>1, <2>2, FS_CardinalityType, FS_EmptySet
  <2> QED
    BY <2>2, <2>3
<1>3. ASSUME NEW e \in S, NEW g \in S, e < g
      PROVE  Place(e) < Place(g)
  <2>1. UpTo(e) \in SUBSET UpTo(g) /\ g \in UpTo(g) /\ g \notin UpTo(e)
    <3>1. e \in Int /\ g \in Int /\ e < g /\ \A f \in S : f \in Int
      BY <1>3
    <3>2. \A f \in S : f <= e => f <= g
      BY <3>1
    <3>3. g <= g /\ ~ (g <= e)
      BY <3>1
    <3> QED
      BY <3>2, <3>3
  <2>2. IsFiniteSet(UpTo(g))
    BY <1>2
  <2>3. /\ Cardinality(UpTo(e)) <= Cardinality(UpTo(g))
        /\ Cardinality(UpTo(g)) # Cardinality(UpTo(e))
    BY <2>1, <2>2, FS_Subset
  <2>4. Place(e) \in Nat /\ Place(g) \in Nat
    BY <1>2
  <2> QED
    BY <2>3, <2>4
<1> HIDE DEF UpTo, Place
<1>4. \A e, g \in S : Place(e) = Place(g) => e = g
  <2> SUFFICES ASSUME NEW e \in S, NEW g \in S, Place(e) = Place(g), e # g
               PROVE  FALSE
    OBVIOUS
  <2>1. e < g \/ g < e
    OBVIOUS
  <2>2. Place(e) \in Nat
    BY <1>2
  <2> QED
    BY <2>1, <2>2, <1>3
<1>5. \A n \in 1 .. k : \E e \in S : Place(e) = n
  <2> DEFINE P == {Place(e) : e \in S}
             f == [e \in S |-> Place(e)]
  <2>1. P \in SUBSET (1 .. k)
    BY <1>2
  <2>2. f \in Bijection(S, P)
    BY <1>4 DEF Bijection, Injection, Surjection, IsInjective
  <2>3. Cardinality(P) = k
    <3>1. ExistsBijection(S, P)
      BY <2>2 DEF ExistsBijection
    <3> QED
      BY <3>1, <1>1, FS_Bijection
  <2>4. IsFiniteSet(1 .. k) /\ Cardinality(1 .. k) = k
    BY FS_Interval
  <2>5. P = 1 .. k
    BY <2>1, <2>3, <2>4, FS_Subset
  <2> QED
    BY <2>5
<1> DEFINE At(n) == CHOOSE e \in S : Place(e) = n
<1>6. InOrder(S) = [n \in 1 .. k |-> At(n)]
  BY <1>1 DEF InOrder, Place, UpTo
<1>7. \A n \in 1 .. k : At(n) \in S /\ Place(At(n)) = n
  BY <1>5
<1> HIDE DEF At
<1>8. InOrder(S) \in [1 .. k -> S]
  BY <1>6, <1>7
<1>9. ASSUME NEW m \in 1 .. k, NEW n \in 1 .. k, m < n
      PROVE  At(m) < At(n)
  <2>1. At(m) \in S /\ At(n) \in S /\ Place(At(m)) = m /\ Place(At(n)) = n
    BY <1>7
  <2>2. At(m) \in Int /\ At(n) \in Int
    BY <2>1
  <2>3. ASSUME At(n) < At(m) PROVE FALSE
    <3>1. Place(At(n)) < Place(At(m))
      BY <2>1, <2>3, <1>3
    <3> QED
      BY <3>1, <2>1, <1>9
  <2>4. CASE At(n) = At(m)
    BY <2>1, <2>4, <1>9
  <2> QED
    BY <2>2, <2>3, <2>4
<1>10. \A e \in S : Place(e) \in 1 .. k /\ At(Place(e)) = e
  BY <1>2, <1>4, <1>7
<1> QED
  BY <1>1, <1>6, <1>8, <1>9, <1>10

LEMMA Places ==
  ASSUME NEW n \in Nat, NEW S \in SUBSET (0 .. n)
  PROVE  IsFiniteSet(S) /\ S \in SUBSET Nat /\ S \in SUBSET Int
<1>1. IsFiniteSet(0 .. n)
  BY FS_Interval
<1>2. IsFiniteSet(S)
  BY <1>1, FS_Subset
<1> QED
  BY <1>2

LEMMA MinMax ==
  ASSUME NEW S \in SUBSET Nat, IsFiniteSet(S), S # {}
  PROVE  /\ Min(S) \in S /\ \A n \in S : Min(S) <= n
         /\ Max(S) \in S /\ \A n \in S : n <= Max(S)
<1>1. Min(S) \in S /\ \A n \in S : Min(S) <= n
  BY LeastNat DEF Min
<1>2. PICK most \in S : \A n \in S : n <= most
  <2>1. PICK k \in Nat : k = Cardinality(S) /\ k # 0
    BY FS_CardinalityType, FS_EmptySet
  <2>2. PICK f \in [1 .. k -> S] :
          /\ \A m, n \in 1 .. k : m < n => f[m] < f[n]
          /\ \A e \in S : \E n \in 1 .. k : f[n] = e
    BY <2>1, Ordering
  <2>3. ASSUME NEW e \in S PROVE e <= f[k]
    <3>1. PICK n \in 1 .. k : f[n] = e
      BY <2>2
    <3>2. n = k \/ n < k
      OBVIOUS
    <3>3. k \in 1 .. k
      BY <2>1
    <3>4. f[k] \in Nat /\ f[n] \in Nat
      BY <3>3
    <3>5. n < k => f[n] < f[k]
      BY <3>3, <2>2
    <3> QED
      BY <3>1, <3>2, <3>4, <3>5
  <2> QED
    <3>1. f[k] \in S
      BY <2>1
    <3> QED
      BY <3>1, <2>3
<1>3. Max(S) \in S /\ \A n \in S : n <= Max(S)
  BY <1>2 DEF Max
<1> QED
  BY <1>1, <1>3

-----------------------------------------------------------------------------
(* Texts: what is cut out of a text over some tokens is a text over them.  *)

LEMMA SliceTyped ==
  ASSUME NEW S, NEW s \in Seq(S), NEW a \in Nat \ {0},
         NEW b \in Int, b <= Len(s)
  PROVE  SubSeq(s, a, b) \in Seq(S)
<1>1. \A i \in a .. b : s[i] \in S
  OBVIOUS
<1> QED
  BY <1>1, SubSeqProperties

LEMMA Found ==
  ASSUME NEW S, NEW s \in Seq(S), NEW t
  PROVE  /\ Find(s, t) \in 0 .. Len(s)
         /\ Find(s, t) = 0 => \A i \in 1 .. Len(s) : s[i] # t
         /\ Find(s, t) # 0
              => /\ s[Find(s, t)] = t
                 /\ \A i \in 1 .. Find(s, t) - 1 : s[i] # t
<1> DEFINE at == {i \in 1 .. Len(s) : s[i] = t}
<1>1. /\ at \in SUBSET Nat
      /\ at # {} => Min(at) \in at /\ \A i \in at : Min(at) <= i
  <2>1. PICK n \in Nat : n = Len(s)
    OBVIOUS
  <2>2. at \in SUBSET (0 .. n)
    BY <2>1
  <2> HIDE DEF at
  <2>3. IsFiniteSet(at) /\ at \in SUBSET Nat
    BY <2>1, <2>2, Places
  <2> QED
    BY <2>3, MinMax
<1>2. Find(s, t) = IF at # {} THEN Min(at) ELSE 0
  BY DEF Find, SelectInSeq
<1>3. CASE at = {}
  BY <1>2, <1>3
<1>4. CASE at # {}
  <2>1. PICK first \in 1 .. Len(s) : /\ first = Find(s, t)
                                     /\ s[first] = t
                                     /\ \A i \in at : first <= i
    BY <1>1, <1>2, <1>4
  <2>2. \A i \in 1 .. first - 1 : i \in 1 .. Len(s) /\ ~ (first <= i)
    BY <2>1
  <2> QED
    BY <2>1, <2>2
<1> QED
  BY <1>3, <1>4

LEMMA TrimTyped ==
  ASSUME NEW S, NEW s \in Seq(S), NEW space
  PROVE  trim(s, space) \in Seq(S)
<1> DEFINE kept == {i \in DOMAIN s : s[i] \notin space}
<1>1. DOMAIN s = 1 .. Len(s) /\ Len(s) \in Nat
  OBVIOUS
<1>2. kept \in SUBSET (1 .. Len(s)) /\ kept \in SUBSET (0 .. Len(s))
  BY <1>1
<1>3. IsFiniteSet(kept) /\ kept \in SUBSET Nat
  <2> HIDE DEF kept
  <2> QED
    BY <1>1, <1>2, Places
<1>4. CASE kept = {}
  BY <1>4 DEF trim
<1>5. CASE kept # {}
  <2>1. Min(kept) \in kept /\ Max(kept) \in kept
    BY <1>3, <1>5, MinMax
  <2> HIDE DEF kept
  <2>2. Min(kept) \in Nat \ {0} /\ Max(kept) \in Int /\ Max(kept) <= Len(s)
    <3>1. Min(kept) \in 1 .. Len(s) /\ Max(kept) \in 1 .. Len(s)
      BY <2>1, <1>2
    <3> QED
      BY <3>1, <1>1
  <2>3. SubSeq(s, Min(kept), Max(kept)) \in Seq(S)
    BY <2>2, SliceTyped
  <2> QED
    BY <2>3, <1>5 DEF trim, kept
<1> QED
  BY <1>4, <1>5

LEMMA KeptTyped ==
  ASSUME NEW S, NEW s \in Seq(S), NEW places \in SUBSET DOMAIN s
  PROVE  Kept(s, places) \in Seq(S)
<1>1. DOMAIN s = 1 .. Len(s) /\ Len(s) \in Nat
  OBVIOUS
<1>2. IsFiniteSet(places) /\ places \in SUBSET Int
  <2>1. places \in SUBSET (0 .. Len(s))
    BY <1>1
  <2> QED
    BY <2>1, <1>1, Places
<1>3. PICK k \in Nat : InOrder(places) \in [1 .. k -> places]
  BY <1>2, Ordering
<1>4. PICK order : order = InOrder(places)
  OBVIOUS
<1>5. Kept(s, places) = [n \in 1 .. k |-> s[order[n]]]
  BY <1>3, <1>4 DEF Kept
<1>6. \A n \in 1 .. k : s[order[n]] \in S
  BY <1>1, <1>3, <1>4
<1> QED
  BY <1>5, <1>6

LEMMA SplitTyped ==
  ASSUME NEW S, NEW s \in Seq(S), NEW separators
  PROVE  Split(s, separators) \in Seq(Seq(S))
<1>1. PICK length \in Nat : length = Len(s) /\ DOMAIN s = 1 .. length
  OBVIOUS
<1>2. PICK places : places = {i \in DOMAIN s : s[i] \in separators}
                               \cup {0, length + 1}
  OBVIOUS
<1>3. places \in SUBSET Int /\ places \in SUBSET (0 .. length + 1)
  BY <1>1, <1>2
<1>4. IsFiniteSet(places)
  <2>1. PICK n \in Nat : n = length + 1
    OBVIOUS
  <2> QED
    BY <2>1, <1>3, Places
<1>g. PICK ends : ends = InOrder(places)
  OBVIOUS
<1>5. PICK k \in Nat : /\ ends \in [1 .. k -> places]
                       /\ \A e \in places : \E n \in 1 .. k : ends[n] = e
  BY <1>g, <1>3, <1>4, Ordering
<1>6. Len(ends) = k
  BY <1>5
<1>7. Split(s, separators)
        = [n \in 1 .. k - 1 |-> SubSeq(s, ends[n] + 1, ends[n + 1] - 1)]
  BY <1>1, <1>2, <1>g, <1>6 DEF Split
<1>8. ASSUME NEW n \in 1 .. k - 1
      PROVE  SubSeq(s, ends[n] + 1, ends[n + 1] - 1) \in Seq(S)
  <2>1. n \in 1 .. k /\ n + 1 \in 1 .. k
    OBVIOUS
  <2>2. ends[n] \in 0 .. length + 1 /\ ends[n + 1] \in 0 .. length + 1
    BY <2>1, <1>3, <1>5
  <2>3. /\ ends[n] + 1 \in Nat \ {0}
        /\ ends[n + 1] - 1 \in Int /\ ends[n + 1] - 1 <= Len(s)
    BY <2>2, <1>1
  <2> QED
    BY <2>3, SliceTyped
<1>9. k - 1 \in Nat
  <2>1. 0 \in places
    BY <1>2
  <2>2. \E n \in 1 .. k : TRUE
    BY <2>1, <1>5
  <2> QED
    BY <2>2
<1>10. Split(s, separators) \in [1 .. k - 1 -> Seq(S)]
  BY <1>7, <1>8
<1> QED
  BY <1>9, <1>10

(* Join puts one piece after the other.                                    *)
JoinedAs(text, pieces, separator) ==
  text = [i \in DOMAIN pieces |->
            IF i = 1 THEN pieces[1] ELSE text[i - 1] \o separator \o pieces[i]]

LEMMA JoinDefined ==
  ASSUME NEW S, NEW pieces \in Seq(S), NEW separator
  PROVE  \E text : JoinedAs(text, pieces, separator)
<1> DEFINE IsText(f, n) ==
             f = [i \in 1 .. n |-> IF i = 1 THEN pieces[1]
                                   ELSE f[i - 1] \o separator \o pieces[i]]
           missing == {n \in Nat : ~ \E f : IsText(f, n)}
<1>1. ASSUME missing # {} PROVE FALSE
  <2>1. PICK n \in missing : \A k \in missing : n <= k
    <3>1. missing \in SUBSET Nat
      OBVIOUS
    <3> HIDE DEF missing
    <3> QED
      BY <3>1, <1>1, LeastNat
  <2>2. n \in Nat /\ ~ \E f : IsText(f, n)
    OBVIOUS
  <2>3. ASSUME n = 0 PROVE FALSE
    <3>1. IsText(<<>>, 0)
      OBVIOUS
    <3> QED
      BY <2>2, <2>3, <3>1
  <2>4. PICK k \in Nat : n = k + 1
    BY <2>2, <2>3
  <2>5. PICK f : IsText(f, k)
    <3>1. k \notin missing
      <4> HIDE DEF missing
      <4> QED
        BY <2>1, <2>4
    <3> HIDE DEF IsText
    <3> QED
      BY <3>1
  <2>6. PICK last : last = IF n = 1 THEN pieces[1]
                           ELSE f[n - 1] \o separator \o pieces[n]
    OBVIOUS
  <2> DEFINE g == [i \in 1 .. n |-> IF i = n THEN last ELSE f[i]]
  <2>7. \A i \in 1 .. n : i - 1 # n /\ (i # 1 => i - 1 \in 1 .. n)
    BY <2>2
  <2>8. ASSUME NEW i \in 1 .. n
        PROVE  g[i] = IF i = 1 THEN pieces[1]
                      ELSE g[i - 1] \o separator \o pieces[i]
    <3>1. i # 1 => g[i - 1] = f[i - 1]
      BY <2>7
    <3>2. CASE i = n
      BY <3>1, <3>2, <2>6
    <3>3. CASE i # n
      <4>1. i \in 1 .. k
        BY <3>3, <2>4
      <4>2. f[i] = IF i = 1 THEN pieces[1]
                   ELSE f[i - 1] \o separator \o pieces[i]
        BY <4>1, <2>5
      <4> QED
        BY <3>1, <3>3, <4>2
    <3> QED
      BY <3>2, <3>3
  <2>9. IsText(g, n)
    <3>1. g = [i \in 1 .. n |-> g[i]]
      OBVIOUS
    <3> HIDE DEF g
    <3> QED
      BY <3>1, <2>8
  <2> HIDE DEF g, IsText
  <2> QED
    BY <2>2, <2>9
<1>2. PICK n \in Nat : n = Len(pieces) /\ DOMAIN pieces = 1 .. n
  OBVIOUS
<1>3. \E f : IsText(f, n)
  <2>1. n \notin missing
    BY <1>1
  <2> HIDE DEF IsText
  <2> QED
    BY <2>1
<1> QED
  BY <1>2, <1>3 DEF JoinedAs

LEMMA JoinSteps ==
  ASSUME NEW S, NEW pieces \in Seq(Seq(S)), NEW separator \in Seq(S)
  PROVE  \E text \in [1 .. Len(pieces) -> Seq(S)] :
           /\ Join(pieces, separator)
                = IF pieces = <<>> THEN <<>> ELSE text[Len(pieces)]
           /\ \A i \in 1 .. Len(pieces) :
                text[i] = IF i = 1 THEN pieces[1]
                          ELSE text[i - 1] \o separator \o pieces[i]
<1>1. PICK text :
        /\ JoinedAs(text, pieces, separator)
        /\ Join(pieces, separator)
             = IF pieces = <<>> THEN <<>> ELSE text[Len(pieces)]
  <2> DEFINE joined == CHOOSE text : JoinedAs(text, pieces, separator)
  <2>1. JoinedAs(joined, pieces, separator)
    BY JoinDefined
  <2>2. Join(pieces, separator)
          = IF pieces = <<>> THEN <<>> ELSE joined[Len(pieces)]
    BY DEF Join, JoinedAs
  <2> QED
    BY <2>1, <2>2
<1>2. PICK n \in Nat : n = Len(pieces) /\ DOMAIN pieces = 1 .. n
  OBVIOUS
<1>3. \A i \in 1 .. n : text[i] = IF i = 1 THEN pieces[1]
                                  ELSE text[i - 1] \o separator \o pieces[i]
  BY <1>1, <1>2 DEF JoinedAs
<1> DEFINE wrong == {i \in 1 .. n : text[i] \notin Seq(S)}
<1>4. ASSUME wrong # {} PROVE FALSE
  <2>1. PICK i \in wrong : \A k \in wrong : i <= k
    <3>1. wrong \in SUBSET Nat
      OBVIOUS
    <3> HIDE DEF wrong
    <3> QED
      BY <3>1, <1>4, LeastNat
  <2>2. i \in 1 .. n /\ text[i] \notin Seq(S)
    OBVIOUS
  <2>3. pieces[i] \in Seq(S) /\ pieces[1] \in Seq(S)
    BY <2>2, <1>2
  <2>4. i # 1
    BY <2>2, <2>3, <1>3
  <2>5. i - 1 \in 1 .. n /\ ~ (i <= i - 1)
    BY <2>2, <2>4
  <2>6. text[i - 1] \in Seq(S)
    BY <2>1, <2>5
  <2>7. text[i] = text[i - 1] \o separator \o pieces[i]
    BY <2>2, <2>4, <1>3
  <2> QED
    BY <2>2, <2>3, <2>6, <2>7
<1>5. text \in [1 .. n -> Seq(S)]
  <2>1. \A i \in 1 .. n : text[i] \in Seq(S)
    BY <1>4
  <2>2. text = [i \in 1 .. n |-> text[i]]
    BY <1>1, <1>2 DEF JoinedAs
  <2> QED
    BY <2>1, <2>2
<1> QED
  BY <1>1, <1>2, <1>3, <1>5

LEMMA JoinTyped ==
  ASSUME NEW S, NEW pieces \in Seq(Seq(S)), NEW separator \in Seq(S)
  PROVE  Join(pieces, separator) \in Seq(S)
<1>1. PICK text \in [1 .. Len(pieces) -> Seq(S)] :
        Join(pieces, separator)
          = IF pieces = <<>> THEN <<>> ELSE text[Len(pieces)]
  BY JoinSteps
<1>2. CASE pieces = <<>>
  <2>1. <<>> \in Seq(S)
    OBVIOUS
  <2> QED
    BY <2>1, <1>1, <1>2
<1>3. CASE pieces # <<>>
  <2>1. Len(pieces) \in 1 .. Len(pieces)
    BY <1>3, EmptySeq
  <2>2. text[Len(pieces)] \in Seq(S)
    BY <2>1
  <2> QED
    BY <2>2, <1>1, <1>3
<1> QED
  BY <1>2, <1>3

LEMMA PartsTyped ==
  ASSUME NEW S, NEW s \in Seq(S), NEW i \in Nat, i <= Len(s) + 1
  PROVE  /\ Before(s, i) \in Seq(S)
         /\ After(s, i) \in Seq(S)
<1>1. i - 1 \in Int /\ i - 1 <= Len(s) /\ i + 1 \in Nat \ {0}
  OBVIOUS
<1> QED
  BY <1>1, SliceTyped DEF Before, After

LEMMA NonEmptyTyped ==
  ASSUME NEW S, NEW pieces \in Seq(S)
  PROVE  NonEmpty(pieces) \in Seq(S)
<1> DEFINE places == {i \in DOMAIN pieces : pieces[i] # <<>>}
<1>1. places \in SUBSET DOMAIN pieces
  OBVIOUS
<1> HIDE DEF places
<1>2. Kept(pieces, places) \in Seq(S)
  BY <1>1, KeptTyped
<1> QED
  BY <1>2 DEF NonEmpty, places

LEMMA CommandTyped ==
  ASSUME NEW S, NEW head \in Seq(Seq(S)), NEW space
  PROVE  CommandOf(head, space) \in Seq(S)
<1> DEFINE HasCommand(line) ==
             /\ Find(line, ":") # 0
             /\ trim(Before(line, Find(line, ":")), space) = <<"COMMAND">>
           places == {i \in 1 .. Len(head) : HasCommand(head[i])}
<1>1. PICK at : at = IF places # {} THEN Max(places) ELSE 0
  OBVIOUS
<1>2. CommandOf(head, space)
        = IF at = 0 THEN <<>>
          ELSE trim(After(head[at], Find(head[at], ":")), space)
  BY <1>1 DEF CommandOf, SelectLastInSeq
<1>3. CASE at = 0
  BY <1>2, <1>3
<1>4. CASE at # 0
  <2>1. /\ places \in SUBSET (1 .. Len(head))
        /\ places \in SUBSET (0 .. Len(head))
    OBVIOUS
  <2> HIDE DEF places
  <2>2. IsFiniteSet(places) /\ places \in SUBSET Nat
    <3>1. PICK n \in Nat : n = Len(head)
      OBVIOUS
    <3> QED
      BY <3>1, <2>1, Places
  <2>3. at \in 1 .. Len(head)
    BY <2>1, <2>2, <1>1, <1>4, MinMax
  <2>4. PICK line \in Seq(S) : line = head[at]
    BY <2>3
  <2>5. Find(line, ":") \in 0 .. Len(line)
    BY Found
  <2>6. After(line, Find(line, ":")) \in Seq(S)
    BY <2>5, PartsTyped
  <2> QED
    BY <2>4, <2>6, <1>2, <1>4, TrimTyped
<1> QED
  BY <1>3, <1>4

LEMMA ParamsTyped ==
  ASSUME NEW S, NEW pieces \in Seq(Seq(S)), NEW space
  PROVE  \A k \in DOMAIN ParamsOf(pieces, space) :
           ParamsOf(pieces, space)[k] \in Seq(S)
<1> DEFINE places == {i \in DOMAIN pieces : Find(pieces[i], "=") # 0}
           KeyOf(p) == trim(Before(p, Find(p, "=")), space)
           ValueOf(p) == trim(After(p, Find(p, "=")), space)
<1>1. PICK set \in Seq(Seq(S)) : set = Kept(pieces, places)
  <2>1. places \in SUBSET DOMAIN pieces
    OBVIOUS
  <2> HIDE DEF places
  <2> QED
    BY <2>1, KeptTyped
<1> DEFINE those(k) == {i \in 1 .. Len(set) : KeyOf(set[i]) = k}
           last(k) == IF those(k) # {} THEN Max(those(k)) ELSE 0
<1>2. ParamsOf(pieces, space)
        = [k \in {KeyOf(set[i]) : i \in DOMAIN set} |-> ValueOf(set[last(k)])]
  BY <1>1 DEF ParamsOf, SelectLastInSeq
<1>3. ASSUME NEW k \in {KeyOf(set[i]) : i \in DOMAIN set}
      PROVE  ValueOf(set[last(k)]) \in Seq(S)
  <2>1. PICK n \in Nat : n = Len(set) /\ DOMAIN set = 1 .. n
    OBVIOUS
  <2>2. those(k) # {} /\ those(k) \in SUBSET (1 .. n)
    BY <2>1
  <2> HIDE DEF those
  <2>3. those(k) \in SUBSET (0 .. n)
    BY <2>2
  <2>4. last(k) \in 1 .. n
    BY <2>1, <2>2, <2>3, Places, MinMax
  <2>5. PICK p \in Seq(S) : p = set[last(k)]
    BY <2>1, <2>4
  <2>6. Find(p, "=") \in 0 .. Len(p)
    BY Found
  <2>7. After(p, Find(p, "=")) \in Seq(S)
    BY <2>6, PartsTyped
  <2> QED
    BY <2>5, <2>7, TrimTyped
<1> QED
  BY <1>2, <1>3

LEMMA HeadTyped ==
  ASSUME NEW S, NEW s \in Seq(S)
  PROVE  /\ HeadAndBody(s).head \in Seq(Seq(S))
         /\ "NL" \in S => HeadAndBody(s).body \in Seq(S)
<1>1. PICK lines \in Seq(Seq(S)) : lines = Split(s, {"NL"})
  BY SplitTyped
<1>2. PICK end \in Nat :
        /\ end = IF Find(lines, <<>>) = 0 THEN Len(lines) + 1
                 ELSE Find(lines, <<>>)
        /\ end <= Len(lines) + 1
  <2>1. Find(lines, <<>>) \in 0 .. Len(lines)
    BY Found
  <2> QED
    BY <2>1
<1>3. /\ HeadAndBody(s).head = Before(lines, end)
      /\ HeadAndBody(s).body = Join(NonEmpty(After(lines, end)), <<"NL">>)
  BY <1>1, <1>2 DEF HeadAndBody
<1>4. Before(lines, end) \in Seq(Seq(S)) /\ After(lines, end) \in Seq(Seq(S))
  BY <1>2, PartsTyped
<1>5. NonEmpty(After(lines, end)) \in Seq(Seq(S))
  BY <1>4, NonEmptyTyped
<1>6. "NL" \in S => <<"NL">> \in Seq(S)
  OBVIOUS
<1> QED
  BY <1>3, <1>4, <1>5, <1>6, JoinTyped

(* What is parsed consists of the tokens of the text.                      *)
LEMMA ParseTyped ==
  ASSUME NEW S, NEW s \in Seq(S)
  PROVE  /\ parse(s).command \in Seq(S)
         /\ parse_message(s).command \in Seq(S)
         /\ "NL" \in S
              => \A k \in DOMAIN parse_message(s).params :
                   parse_message(s).params[k] \in Seq(S)
<1>1. ASSUME NEW space
      PROVE  /\ ParseTLV(s, space).command \in Seq(S)
             /\ "NL" \in S
                  => \A k \in DOMAIN ParseTLV(s, space).params :
                       ParseTLV(s, space).params[k] \in Seq(S)
  <2>1. PICK pieces : pieces = Split(HeadAndBody(s).body, {"SEMI"})
    OBVIOUS
  <2>2. PICK trimmed :
          trimmed = [i \in DOMAIN pieces |-> trim(pieces[i], space)]
    OBVIOUS
  <2>3. /\ ParseTLV(s, space).command = CommandOf(HeadAndBody(s).head, space)
        /\ ParseTLV(s, space).params = ParamsOf(trimmed, space)
    BY <2>1, <2>2 DEF ParseTLV, ReadFrom
  <2>4. ASSUME "NL" \in S PROVE trimmed \in Seq(Seq(S))
    <3>1. HeadAndBody(s).body \in Seq(S)
      BY <2>4, HeadTyped
    <3>2. pieces \in Seq(Seq(S))
      BY <3>1, <2>1, SplitTyped
    <3>3. \A i \in DOMAIN pieces : trim(pieces[i], space) \in Seq(S)
      BY <3>2, TrimTyped
    <3>4. PICK n \in Nat : DOMAIN pieces = 1 .. n
      BY <3>2
    <3>5. trimmed \in [1 .. n -> Seq(S)]
      BY <3>3, <3>4, <2>2
    <3> QED
      BY <3>5
  <2> QED
    BY <2>3, <2>4, HeadTyped, CommandTyped, ParamsTyped
<1>2. ParseWords(s).command \in Seq(S)
  <2>1. PICK words \in Seq(Seq(S)) : words = NonEmpty(Split(s, IsSpace))
    BY SplitTyped, NonEmptyTyped
  <2>2. ParseWords(s).command = IF words = <<>> THEN <<>> ELSE words[1]
    BY <2>1 DEF ParseWords, NoMessage
  <2>3. words # <<>> => words[1] \in Seq(S)
    BY EmptySeq
  <2> QED
    BY <2>2, <2>3
<1>3. /\ NoMessage.command \in Seq(S)
      /\ \A k \in DOMAIN NoMessage.params : NoMessage.params[k] \in Seq(S)
  BY DEF NoMessage
<1> QED
  BY <1>1, <1>2, <1>3 DEF parse, parse_message

-----------------------------------------------------------------------------
(* The tokens of the messages.                                             *)

Commands == DOMAIN Required

(* What build puts around the command and the parameters, their names, and *)
(* what the server says of its own.                                        *)
Marks == {"COMMAND", ":", "SP", "NL", "LENGTH", "size", "=", "SEMI"}
Keys == {"username", "password", "token", "old_password", "new_password",
         "target_username", "from_username", "error_code", "error_msg", "msg",
         "user_id", "cleanup_user_map", "target_user_id", "from_user_id",
         "friend_count", "friends", "request_count", "requests"}
Said == {"ERROR", "ERR", "LOGIN_OK", "REGISTER_OK", "LOGOUT_OK",
         "RESET_PASSWORD_OK", "FRIEND_REQUEST_SENT",
         "FRIEND_REQUEST_ACCEPTED", "FRIEND_REQUEST_REJECTED",
         "FRIENDS_LIST", "PENDING_REQUESTS", "code", "some", "text",
         "UnknownCommand", "0", "1", "hex", "true"}

(* All tokens besides the commands of the requests.                        *)
Words == Marks \cup Keys \cup Said \cup {"part"}
           \cup UNION {ToSet(v) : v \in Typed \cup Names}

LEMMA TypedInWords == Typed \subseteq Seq(Words) /\ Names \subseteq Seq(Words)
<1> SUFFICES ASSUME NEW v \in Typed \cup Names PROVE v \in Seq(Words)
  OBVIOUS
<1>1. v \in Seq(STRING)
  BY TextsAssumption
<1>2. \A i \in 1 .. Len(v) : v[i] \in ToSet(v)
  BY <1>1 DEF ToSet
<1>3. ToSet(v) \subseteq Words
  BY DEF Words
<1>4. \A i \in 1 .. Len(v) : v[i] \in Words
  BY <1>2, <1>3
<1> QED
  BY <1>1, <1>4

(* Parameters over some tokens.                                            *)
Over(S, params) ==
  \A key \in DOMAIN params : \E k \in S : key = <<k>> /\ params[key] \in Seq(S)

LEMMA BodyTyped ==
  ASSUME NEW S, "=" \in S, "SEMI" \in S, NEW params, Over(S, params)
  PROVE  Body(params) \in Seq(S)
<1> DEFINE places == {i \in DOMAIN KeyOrder :
                        <<KeyOrder[i]>> \in DOMAIN params}
<1>1. PICK n \in Nat : KeyOrder \in Seq(STRING) /\ DOMAIN KeyOrder = 1 .. n
  BY KeysAssumption
<1>2. places \in SUBSET DOMAIN KeyOrder /\ places \in SUBSET (0 .. n)
  BY <1>1
<1>3. \A i \in places : <<KeyOrder[i]>> \in DOMAIN params
  OBVIOUS
<1> HIDE DEF places
<1>4. PICK k \in Nat : InOrder(places) \in [1 .. k -> places]
  BY <1>1, <1>2, Places, Ordering
<1>5. PICK order \in [1 .. k -> places] : order = InOrder(places)
  BY <1>4
<1>6. PICK keys : /\ keys = [i \in 1 .. k |-> KeyOrder[order[i]]]
                  /\ keys = Kept(KeyOrder, places)
  BY <1>5 DEF Kept
<1>7. Fields(params)
        = [i \in 1 .. k |-> <<keys[i], "=">> \o params[<<keys[i]>>]]
  BY <1>6 DEF Fields, places
<1>8. ASSUME NEW i \in 1 .. k
      PROVE  <<keys[i], "=">> \o params[<<keys[i]>>] \in Seq(S)
  <2>1. <<keys[i]>> \in DOMAIN params
    BY <1>3, <1>5, <1>6
  <2>2. keys[i] \in S /\ params[<<keys[i]>>] \in Seq(S)
    BY <2>1 DEF Over
  <2> QED
    BY <2>2
<1>9. Fields(params) \in Seq(Seq(S))
  BY <1>7, <1>8
<1>10. <<"SEMI">> \in Seq(S)
  OBVIOUS
<1> QED
  BY <1>9, <1>10, JoinTyped DEF Body

LEMMA BuildTyped ==
  ASSUME NEW S, Marks \subseteq S, NEW m, m.command \in Seq(S),
         Over(S, m.params)
  PROVE  build(m) \in Seq(S) /\ build(m) # <<>>
<1>1. PICK body \in Seq(S) : body = Body(m.params)
  BY BodyTyped DEF Marks
<1>2. /\ "COMMAND" \in S /\ ":" \in S /\ "SP" \in S /\ "NL" \in S
      /\ "LENGTH" \in S /\ "size" \in S
  BY DEF Marks
<1>3. /\ <<"COMMAND", ":", "SP">> \in Seq(S)
      /\ <<"NL">> \in Seq(S)
      /\ <<"LENGTH", ":", "SP", "size", "NL", "NL">> \in Seq(S)
  BY <1>2
<1>4. PICK before \in Seq(S), line \in Seq(S), after \in Seq(S) :
        /\ before = <<"COMMAND", ":", "SP">>
        /\ line = <<"NL">>
        /\ after = <<"LENGTH", ":", "SP", "size", "NL", "NL">>
  BY <1>3
<1>5. build(m) = before \o m.command \o line \o after \o body
  BY <1>1, <1>4 DEF build
<1>6. Len(before) = 3
  BY <1>4
<1>7. before \o m.command \o line \o after \o body \in Seq(S)
  OBVIOUS
<1>8. Len(before \o m.command \o line \o after \o body)
        = Len(before) + Len(m.command) + Len(line) + Len(after) + Len(body)
  OBVIOUS
<1> QED
  BY <1>5, <1>6, <1>7, <1>8, EmptySeq, LenProperties

LEMMA Vocabulary ==
  /\ Typed \subseteq Seq(Words) /\ Names \subseteq Seq(Words)
  /\ Marks \subseteq Words /\ Keys \subseteq Words /\ Said \subseteq Words
  /\ "part" \in Words
BY TypedInWords DEF Words

(* A message over the words, but for a command that is one token.          *)
Worded(m, commands) ==
  /\ \E c \in commands : m.command = <<c>>
  /\ Over(Words, m.params)

(* A message with one of some commands, whose parameters are in T.         *)
Of(T, params) ==
  /\ params = [key \in DOMAIN params |-> params[key]]
  /\ DOMAIN params # {}
  /\ \A key \in DOMAIN params :
       (\E k \in Keys : key = <<k>>) /\ params[key] \in T

Message(T, commands, m) ==
  \E c \in commands : m = Request(c, m.params) /\ Of(T, m.params)

LEMMA OfParam ==
  ASSUME NEW T, NEW k \in Keys, NEW v \in T
  PROVE  Of(T, Param(k, v))
<1>1. Param(k, v) = [key \in {<<k>>} |-> v]
  BY DEF Param
<1> QED
  BY <1>1 DEF Of

LEMMA OfBoth ==
  ASSUME NEW T, NEW p, NEW q, Of(T, p) \/ p = <<>>, Of(T, q)
  PROVE  Of(T, Both(p, q))
<1>1. DOMAIN Both(p, q) = DOMAIN p \cup DOMAIN q
  BY DEF Both
<1>2. \A key \in DOMAIN p \cup DOMAIN q :
        Both(p, q)[key] = IF key \in DOMAIN p THEN p[key] ELSE q[key]
  BY DEF Both
<1>3. Both(p, q) = [key \in DOMAIN Both(p, q) |-> Both(p, q)[key]]
  BY <1>1 DEF Both
<1>4. p = <<>> => DOMAIN p = {}
  OBVIOUS
<1>5. DOMAIN Both(p, q) # {}
  BY <1>1 DEF Of
<1>6. ASSUME NEW key \in DOMAIN p \cup DOMAIN q
      PROVE  (\E k \in Keys : key = <<k>>) /\ Both(p, q)[key] \in T
  BY <1>2, <1>4 DEF Of
<1> QED
  BY <1>1, <1>3, <1>5, <1>6 DEF Of

LEMMA MessageIs ==
  ASSUME NEW T, NEW commands, NEW c \in commands, NEW params, Of(T, params)
  PROVE  Message(T, commands, Request(c, params))
BY DEF Message, Request

LEMMA MessageWorded ==
  ASSUME NEW T, T \subseteq Seq(Words), NEW commands, NEW m,
         Message(T, commands, m)
  PROVE  Worded(m, commands)
<1>1. PICK c \in commands : m = Request(c, m.params) /\ Of(T, m.params)
  BY DEF Message
<1>2. m.command = <<c>>
  BY <1>1 DEF Request
<1>3. Over(Words, m.params)
  <2> SUFFICES ASSUME NEW key \in DOMAIN m.params
               PROVE  \E k \in Words : /\ key = <<k>>
                                       /\ m.params[key] \in Seq(Words)
    BY DEF Over
  <2>1. PICK k \in Keys : key = <<k>>
    BY <1>1 DEF Of
  <2>2. m.params[key] \in Seq(Words)
    BY <1>1 DEF Of
  <2> QED
    BY <2>1, <2>2, Vocabulary
<1> QED
  BY <1>2, <1>3 DEF Worded

(* What the client sends.                                                  *)
LEMMA SentOf ==
  ASSUME NEW T, token \in T, Typed \subseteq T,
         NEW m \in AuthMenu \cup MainMenu \cup RequestList \cup {ListRequests}
  PROVE  Message(T, Commands, m)
<1>1. \A k \in Keys : \A v \in Typed : Of(T, Param(k, v))
  BY OfParam
<1>2. Of(T, TokenParam)
  BY OfParam DEF TokenParam, Keys
<1>3. /\ {"LOGIN", "REGISTER", "LOGOUT", "RESET_PASSWORD",
          "SEND_FRIEND_REQUEST"} \subseteq Commands
      /\ {"ACCEPT_FRIEND_REQUEST", "REJECT_FRIEND_REQUEST", "LIST_FRIENDS",
          "LIST_PENDING_REQUESTS"} \subseteq Commands
  BY DEF Commands, Required
<1>4. ASSUME m \in Login \cup Register PROVE Message(T, Commands, m)
  <2>1. PICK p \in Credentials :
          m \in {Request("LOGIN", p), Request("REGISTER", p)}
    BY <1>4 DEF Login, Register
  <2>2. Of(T, p)
    BY <2>1, <1>1, OfBoth DEF Credentials, Keys
  <2> QED
    BY <2>1, <2>2, <1>3, MessageIs
<1>5. ASSUME m \in ResetPassword PROVE Message(T, Commands, m)
  <2>1. PICK o \in Typed, n \in Typed :
          m = Request("RESET_PASSWORD",
                      Both(TokenParam, Both(Param("old_password", o),
                                            Param("new_password", n))))
    BY <1>5 DEF ResetPassword
  <2>2. Of(T, Param("old_password", o)) /\ Of(T, Param("new_password", n))
    BY <1>1 DEF Keys
  <2> QED
    BY <2>1, <2>2, <1>2, <1>3, OfBoth, MessageIs
<1>6. ASSUME m \in AddFriend PROVE Message(T, Commands, m)
  <2>1. PICK n \in Typed :
          m = Request("SEND_FRIEND_REQUEST",
                      Both(TokenParam, Param("target_username", n)))
    BY <1>6 DEF AddFriend
  <2>2. Of(T, Param("target_username", n))
    BY <1>1 DEF Keys
  <2> QED
    BY <2>1, <2>2, <1>2, <1>3, OfBoth, MessageIs
<1>7. ASSUME m \in RequestList PROVE Message(T, Commands, m)
  <2>1. PICK command \in {"ACCEPT_FRIEND_REQUEST", "REJECT_FRIEND_REQUEST"},
             n \in Typed :
          m = Request(command, Both(TokenParam, Param("from_username", n)))
    BY <1>7 DEF RequestList, ReplyTo
  <2>2. Of(T, Param("from_username", n))
    BY <1>1 DEF Keys
  <2> QED
    BY <2>1, <2>2, <1>2, <1>3, OfBoth, MessageIs
<1>8. ASSUME m \in {ViewFriends, ListRequests, Logout}
      PROVE  Message(T, Commands, m)
  <2>1. PICK command \in {"LIST_FRIENDS", "LIST_PENDING_REQUESTS", "LOGOUT"} :
          m = Request(command, TokenParam)
    BY <1>8 DEF ViewFriends, ListRequests, Logout
  <2> QED
    BY <2>1, <1>2, <1>3, MessageIs
<1> QED
  BY <1>4, <1>5, <1>6, <1>7, <1>8 DEF AuthMenu, MainMenu

LEMMA SentWorded ==
  ASSUME token \in Seq(Words),
         NEW m \in AuthMenu \cup MainMenu \cup RequestList \cup {ListRequests}
  PROVE  Worded(m, Commands)
<1>1. PICK T : T = Seq(Words)
  OBVIOUS
<1>2. Message(T, Commands, m)
  BY <1>1, Vocabulary, SentOf
<1> QED
  BY <1>1, <1>2, MessageWorded

(* What the server answers.                                                *)
LEMMA AnswersOf ==
  ASSUME NEW T, Names \subseteq T, <<>> \in T, <<"some", "SP", "text">> \in T,
         \A w \in Said : <<w>> \in T,
         NEW m, NEW S, m.command \in Seq(S), NEW r \in handleCommand(m)
  PROVE  /\ Message(T, Said, r)
         /\ Known(m)
              => r.command[1] \in {"ERROR", ExpectedAnswer[m.command[1]]}
<1>1. \A k \in Keys : \A v \in T : Of(T, Param(k, v))
  BY OfParam
<1>2. \A k \in Keys : \A w \in Said : Of(T, Param(k, <<w>>))
  BY <1>1
<1>3. \A k \in Keys : \A n \in Names : Of(T, Param(k, n))
  BY <1>1
<1>4. \A command, params : Request(command, params).command[1] = command
  BY DEF Request
<1>5. ASSUME r = UnknownCommand PROVE Message(T, Said, r)
  <2>1. Of(T, Param("msg", <<"UnknownCommand">>)) /\ "ERR" \in Said
    BY <1>2 DEF Keys, Said
  <2> QED
    BY <2>1, <1>5, MessageIs DEF UnknownCommand
<1>6. ASSUME r = Error PROVE Message(T, Said, r) /\ r.command[1] = "ERROR"
  <2>1. /\ Of(T, Param("error_code", <<"code">>))
        /\ Of(T, Param("error_msg", <<"some", "SP", "text">>))
        /\ "ERROR" \in Said
    BY <1>1, <1>2 DEF Keys, Said
  <2> QED
    BY <2>1, <1>4, <1>6, OfBoth, MessageIs DEF Error
<1>7. ASSUME Known(m), r \in Successes(m)
      PROVE  Message(T, Said, r) /\ r.command[1] = ExpectedAnswer[m.command[1]]
  <2>1. PICK c \in Commands : m.command = <<c>>
    BY <1>7 DEF Known, Commands
  <2> DEFINE user == Param("user_id", <<"1">>)
             hex == Param("token", <<"hex">>)
             Right(command) == Message(T, Said, r) /\ r.command[1] = command
  <2>2. Of(T, user) /\ Of(T, hex)
    BY <1>2 DEF Keys, Said
  <2>3. ASSUME NEW command \in Said, NEW params, Of(T, params),
               r = Request(command, params)
        PROVE  Right(command)
    BY <2>3, <1>4, MessageIs
  <2>a. ASSUME NEW command \in Said, NEW id, Of(T, id) \/ id = <<>>,
               NEW key \in Keys, NEW n \in Names,
               r = Request(command, Both(id, Param(key, n)))
        PROVE  Right(command)
    <3>1. Of(T, Both(id, Param(key, n)))
      BY <2>a, <1>3, OfBoth
    <3> HIDE DEF Right
    <3> QED
      BY <3>1, <2>a, <2>3
  <2> HIDE DEF Right
  <2>4. CASE m.command = <<"LOGIN">>
    <3>1. r = Request("LOGIN_OK", Both(user, hex))
      BY <1>7, <2>4 DEF Successes
    <3>2. Right("LOGIN_OK")
      BY <3>1, <2>2, <2>3, OfBoth DEF Said
    <3> QED
      BY <3>2, <2>4 DEF Right, ExpectedAnswer
  <2>5. CASE m.command = <<"REGISTER">>
    <3>1. r = Request("REGISTER_OK", user)
      BY <1>7, <2>5 DEF Successes
    <3>2. Right("REGISTER_OK")
      BY <3>1, <2>2, <2>3 DEF Said
    <3> QED
      BY <3>2, <2>5 DEF Right, ExpectedAnswer
  <2>6. CASE m.command = <<"LOGOUT">>
    <3>1. r \in {Request("LOGOUT_OK", hex),
                 Request("LOGOUT_OK",
                         Both(Both(user, hex),
                              Param("cleanup_user_map", <<"true">>)))}
      BY <1>7, <2>6 DEF Successes
    <3>2. Of(T, Param("cleanup_user_map", <<"true">>))
      BY <1>2 DEF Keys, Said
    <3>3. Right("LOGOUT_OK")
      <4> HIDE DEF user, hex
      <4>1. Of(T, Both(Both(user, hex), Param("cleanup_user_map", <<"true">>)))
        BY <3>2, <2>2, OfBoth
      <4> QED
        BY <3>1, <4>1, <2>2, <2>3 DEF Said
    <3> QED
      BY <3>3, <2>6 DEF Right, ExpectedAnswer
  <2>7. CASE m.command = <<"RESET_PASSWORD">>
    <3>1. r = Request("RESET_PASSWORD_OK", user)
      BY <1>7, <2>7 DEF Successes
    <3>2. Right("RESET_PASSWORD_OK")
      BY <3>1, <2>2, <2>3 DEF Said
    <3> QED
      BY <3>2, <2>7 DEF Right, ExpectedAnswer
  <2>8. CASE m.command = <<"SEND_FRIEND_REQUEST">>
    <3>1. PICK n \in Names :
            r = Request("FRIEND_REQUEST_SENT",
                        Both(Param("target_user_id", <<"1">>),
                             Param("target_username", n)))
      BY <1>7, <2>8 DEF Successes
    <3>2. Of(T, Param("target_user_id", <<"1">>))
      BY <1>2 DEF Keys, Said
    <3>3. Right("FRIEND_REQUEST_SENT")
      BY <3>1, <3>2, <2>a DEF Keys, Said
    <3> QED
      BY <3>3, <2>8 DEF Right, ExpectedAnswer
  <2>9. CASE m.command = <<"ACCEPT_FRIEND_REQUEST">>
    <3>1. PICK n \in Names :
            r = Request("FRIEND_REQUEST_ACCEPTED",
                        Both(Param("from_user_id", <<"1">>),
                             Param("from_username", n)))
      BY <1>7, <2>9 DEF Successes
    <3>2. Of(T, Param("from_user_id", <<"1">>))
      BY <1>2 DEF Keys, Said
    <3>3. Right("FRIEND_REQUEST_ACCEPTED")
      BY <3>1, <3>2, <2>a DEF Keys, Said
    <3> QED
      BY <3>3, <2>9 DEF Right, ExpectedAnswer
  <2>10. CASE m.command = <<"REJECT_FRIEND_REQUEST">>
    <3>1. PICK n \in Names :
            r = Request("FRIEND_REQUEST_REJECTED",
                        Both(<<>>, Param("from_username", n)))
      BY <1>7, <2>10 DEF Successes
    <3>3. Right("FRIEND_REQUEST_REJECTED")
      BY <3>1, <2>a DEF Keys, Said
    <3> QED
      BY <3>3, <2>10 DEF Right, ExpectedAnswer
  <2>11. ASSUME NEW command \in Said, NEW count \in Keys, NEW names \in Keys,
                r \in List(command, count, names)
         PROVE  Right(command)
    <3>1. /\ Of(T, Param(count, <<"0">>))
          /\ Of(T, Param(count, <<"1">>))
          /\ Of(T, Param(names, <<>>))
      BY <1>1, <1>2 DEF Said
    <3>2. CASE r = Request(command, Both(Param(count, <<"0">>),
                                         Param(names, <<>>)))
      BY <3>1, <3>2, <2>3, OfBoth
    <3>3. CASE \E n \in Names :
                 r = Request(command, Both(Param(count, <<"1">>),
                                           Param(names, n)))
      BY <3>1, <3>3, <2>a
    <3> QED
      BY <2>11, <3>2, <3>3 DEF List
  <2>12. CASE m.command = <<"LIST_FRIENDS">>
    <3>1. r \in List("FRIENDS_LIST", "friend_count", "friends")
      BY <1>7, <2>12 DEF Successes
    <3>2. Right("FRIENDS_LIST")
      BY <3>1, <2>11 DEF Keys, Said
    <3> QED
      BY <3>2, <2>12 DEF Right, ExpectedAnswer
  <2>13. CASE m.command = <<"LIST_PENDING_REQUESTS">>
    <3>1. r \in List("PENDING_REQUESTS", "request_count", "requests")
      BY <1>7, <2>13 DEF Successes
    <3>2. Right("PENDING_REQUESTS")
      BY <3>1, <2>11 DEF Keys, Said
    <3> QED
      BY <3>2, <2>13 DEF Right, ExpectedAnswer
  <2> QED
    BY <2>1, <2>4, <2>5, <2>6, <2>7, <2>8, <2>9, <2>10, <2>12, <2>13
       DEF Commands, Required
<1>8. \/ ~ Known(m) /\ r = UnknownCommand
      \/ r = Error
      \/ Known(m) /\ r \in Successes(m)
  BY DEF handleCommand
<1> QED
  BY <1>5, <1>6, <1>7, <1>8

LEMMA AnswersWorded ==
  ASSUME NEW m, NEW S, m.command \in Seq(S), NEW r \in handleCommand(m)
  PROVE  Worded(r, Said)
<1>1. PICK T : T = Seq(Words)
  OBVIOUS
<1>2. /\ Names \subseteq T /\ <<>> \in T /\ <<"some", "SP", "text">> \in T
      /\ \A w \in Said : <<w>> \in T
  <2>1. <<"some", "SP", "text">> \in Seq(Words)
    BY Vocabulary DEF Said, Marks
  <2>2. \A w \in Said : <<w>> \in Seq(Words)
    <3> SUFFICES ASSUME NEW w \in Said PROVE <<w>> \in Seq(Words)
      OBVIOUS
    <3>1. w \in Words
      BY Vocabulary
    <3> QED
      BY <3>1
  <2> QED
    BY <2>1, <2>2, <1>1, Vocabulary
<1>3. Message(T, Said, r)
  BY <1>2, AnswersOf
<1> QED
  BY <1>1, <1>3, MessageWorded

-----------------------------------------------------------------------------
(* The two streams.                                                        *)

Streams ==
  /\ toServer \in Seq(Words \cup Commands)
  /\ toClient \in Seq(Words)
  /\ token \in Seq(Words)

LEMMA AmountsFit ==
  ASSUME NEW S, NEW stream \in Seq(S), NEW buffer \in Nat \ {0},
         NEW n \in Amounts(stream, buffer)
  PROVE  n \in 1 .. Len(stream)
<1>1. PICK k \in Nat : k = Len(stream)
  OBVIOUS
<1>2. PICK most : most = Min({k, buffer})
  OBVIOUS
<1>3. most \in {k, buffer} /\ most <= k
  <2>1. {k, buffer} \in SUBSET Nat
    OBVIOUS
  <2>2. \E least \in {k, buffer} : \A i \in {k, buffer} : least <= i
    BY <2>1, LeastNat
  <2> QED
    BY <1>2, <2>2 DEF Min
<1>4. n \in 1 .. most \/ n \in {most} \ {0}
  BY <1>1, <1>2 DEF Amounts
<1> QED
  BY <1>1, <1>3, <1>4

(* A stream with a word in two.                                            *)
LEMMA HalvedText ==
  ASSUME NEW S, "part" \in S, NEW stream \in Seq(S), NEW n \in 1 .. Len(stream)
  PROVE  /\ Halved(stream, n) \in Seq(S)
         /\ Len(Halved(stream, n)) = Len(stream) + 1
         /\ \A j \in 1 .. Len(stream) + 1 :
              Halved(stream, n)[j]
                = IF j < n THEN stream[j]
                  ELSE IF j <= n + 1 THEN "part" ELSE stream[j - 1]
<1>1. PICK l \in Nat : l = Len(stream) /\ n \in 1 .. l
  OBVIOUS
<1>2. PICK u \in Seq(S) : /\ u = Before(stream, n) /\ Len(u) = n - 1
                          /\ \A j \in 1 .. n - 1 : u[j] = stream[j]
  <2>1. n - 1 \in Nat /\ n - 1 <= Len(stream)
    BY <1>1
  <2>2. /\ SubSeq(stream, 1, n - 1) \in Seq(S)
        /\ Len(SubSeq(stream, 1, n - 1)) = n - 1
        /\ \A j \in 1 .. n - 1 : SubSeq(stream, 1, n - 1)[j] = stream[j]
    BY <2>1
  <2> QED
    BY <2>2 DEF Before
<1>3. PICK v \in Seq(S) : /\ v = After(stream, n) /\ Len(v) = l - n
                          /\ \A j \in 1 .. l - n : v[j] = stream[j + n]
  <2>1. n <= Len(stream) + 1 /\ n \in Nat
    BY <1>1
  <2>2. After(stream, n) \in Seq(S)
    BY <2>1, PartsTyped
  <2>3. /\ Len(After(stream, n)) = l - n
        /\ \A j \in 1 .. l - n : After(stream, n)[j] = stream[j + n]
    BY <1>1 DEF After
  <2> QED
    BY <2>2, <2>3
<1>4. PICK w \in Seq(S) : /\ w = <<"part", "part">> /\ Len(w) = 2
                          /\ w[1] = "part" /\ w[2] = "part"
  <2>1. <<"part", "part">> \in Seq(S)
    OBVIOUS
  <2> QED
    BY <2>1
<1>5. PICK r \in Seq(S) : /\ r = u \o w /\ Len(r) = n + 1
                          /\ \A j \in 1 .. n + 1 :
                               r[j] = IF j <= n - 1 THEN u[j]
                                      ELSE w[j - (n - 1)]
  <2>1. /\ u \o w \in Seq(S) /\ Len(u \o w) = Len(u) + Len(w)
        /\ \A j \in 1 .. Len(u) + Len(w) :
             (u \o w)[j] = IF j <= Len(u) THEN u[j] ELSE w[j - Len(u)]
    BY ConcatProperties
  <2>2. Len(u) + Len(w) = n + 1
    BY <1>1, <1>2, <1>4
  <2>3. \A j \in 1 .. n + 1 :
          (u \o w)[j] = IF j <= n - 1 THEN u[j] ELSE w[j - (n - 1)]
    BY <2>1, <2>2, <1>2
  <2>4. u \o w \in Seq(S) /\ Len(u \o w) = n + 1
    BY <2>1, <2>2
  <2> QED
    BY <2>3, <2>4
<1>6. PICK h \in Seq(S) : /\ h = r \o v /\ Len(h) = l + 1
                          /\ \A j \in 1 .. l + 1 :
                               h[j] = IF j <= n + 1 THEN r[j]
                                      ELSE v[j - (n + 1)]
  <2>1. /\ r \o v \in Seq(S) /\ Len(r \o v) = Len(r) + Len(v)
        /\ \A j \in 1 .. Len(r) + Len(v) :
             (r \o v)[j] = IF j <= Len(r) THEN r[j] ELSE v[j - Len(r)]
    BY ConcatProperties
  <2>2. Len(r) + Len(v) = l + 1
    BY <1>1, <1>3, <1>5
  <2>3. \A j \in 1 .. l + 1 :
          (r \o v)[j] = IF j <= n + 1 THEN r[j] ELSE v[j - (n + 1)]
    BY <2>1, <2>2, <1>5
  <2>4. r \o v \in Seq(S) /\ Len(r \o v) = l + 1
    BY <2>1, <2>2
  <2> QED
    BY <2>3, <2>4
<1>7. ASSUME NEW j \in 1 .. l + 1
      PROVE  h[j] = IF j < n THEN stream[j]
                    ELSE IF j <= n + 1 THEN "part" ELSE stream[j - 1]
  <2>1. CASE j < n
    <3>1. j \in 1 .. n - 1 /\ j <= n - 1 /\ j \in 1 .. n + 1 /\ j <= n + 1
      BY <2>1
    <3> QED
      BY <3>1, <2>1, <1>2, <1>5, <1>6
  <2>2. CASE j = n \/ j = n + 1
    <3>1. j \in 1 .. n + 1 /\ j <= n + 1 /\ ~ (j <= n - 1) /\ ~ (j < n)
          /\ j - (n - 1) \in {1, 2}
      BY <2>2
    <3> QED
      BY <3>1, <1>4, <1>5, <1>6
  <2>3. CASE j > n + 1
    <3>1. /\ j - (n + 1) \in 1 .. l - n /\ (j - (n + 1)) + n = j - 1
          /\ ~ (j <= n + 1) /\ ~ (j < n)
      BY <2>3, <1>1
    <3> QED
      BY <3>1, <1>3, <1>6
  <2>4. j < n \/ j = n \/ j = n + 1 \/ j > n + 1
    OBVIOUS
  <2> QED
    BY <2>1, <2>2, <2>3, <2>4
<1>8. h = Halved(stream, n)
  BY <1>2, <1>3, <1>4, <1>5, <1>6 DEF Halved
<1> QED
  BY <1>1, <1>6, <1>7, <1>8

(* The stream as a recv finds it.                                          *)
LEMMA FoundTyped ==
  ASSUME NEW S, "part" \in S, NEW stream \in Seq(S),
         NEW n \in 1 .. Len(stream), NEW s \in AsFound(stream, n)
  PROVE  /\ s \in Seq(S) /\ n \in 1 .. Len(s)
         /\ s = stream \/ s = Halved(stream, n)
         /\ n = Len(s) => s = stream
<1>1. s = stream \/ s = Halved(stream, n)
  BY DEF AsFound
<1>2. CASE s = stream
  BY <1>2
<1>3. CASE s = Halved(stream, n)
  <2>1. s \in Seq(S) /\ Len(s) = Len(stream) + 1
    BY <1>3, HalvedText
  <2>2. n \in 1 .. Len(stream) + 1 /\ n # Len(stream) + 1
    OBVIOUS
  <2> QED
    BY <2>1, <2>2, <1>3
<1> QED
  BY <1>1, <1>2, <1>3

(* What a recv takes, and leaves.                                          *)
LEMMA Taken ==
  ASSUME NEW S, NEW stream \in Seq(S), NEW n \in 1 .. Len(stream)
  PROVE  /\ SubSeq(stream, 1, n) \in Seq(S)
         /\ Unread(stream, n) \in Seq(S)
<1>1. n \in Nat /\ n <= Len(stream) /\ n <= Len(stream) + 1
  OBVIOUS
<1> QED
  BY <1>1, SliceTyped, PartsTyped DEF Unread

LEMMA ChooseSends ==
  ASSUME Streams, Choose
  PROVE  \E m : Worded(m, Commands) /\ Send(m)
<1>1. PICK m \in AuthMenu \cup MainMenu \cup RequestList \cup {ListRequests} :
        Send(m)
  BY DEF Choose
<1> QED
  BY <1>1, SentWorded DEF Streams

LEMMA WordedBuilt ==
  ASSUME NEW commands, NEW m, Worded(m, commands)
  PROVE  build(m) \in Seq(Words \cup commands) /\ build(m) # <<>>
<1> DEFINE S == Words \cup commands
<1>1. Marks \subseteq S
  BY Vocabulary
<1>2. m.command \in Seq(S)
  BY DEF Worded
<1>3. Over(S, m.params)
  <2>1. \A v \in Seq(Words) : v \in Seq(S)
    OBVIOUS
  <2> QED
    BY <2>1 DEF Worded, Over
<1> HIDE DEF S
<1>4. build(m) \in Seq(S) /\ build(m) # <<>>
  BY <1>1, <1>2, <1>3, BuildTyped
<1> QED
  BY <1>4 DEF S

LEMMA ServeStep ==
  ASSUME Streams, Serve
  PROVE  \E n \in 1 .. Len(toServer) : \E s \in AsFound(toServer, n) :
         \E m, r :
           /\ m = parse(SubSeq(s, 1, n))
           /\ Worded(r, Said)
           /\ toServer' = Unread(s, n)
           /\ toServer' \in Seq(Words \cup Commands)
           /\ toClient' = toClient \o build(r)
           /\ done' = IF Known(m) THEN Append(done, m.command) ELSE done
           /\ UNCHANGED <<client, token, asked>>
<1>0. PICK n \in Amounts(toServer, ServerBuffer) :
       \E s \in AsFound(toServer, n) :
        \E m :
          /\ m = parse(SubSeq(s, 1, n))
          /\ toServer' = Unread(s, n)
          /\ done' = IF Known(m) THEN Append(done, m.command) ELSE done
          /\ \E r \in handleCommand(m) :
               toClient' = IF r = NoMessage THEN toClient
                           ELSE toClient \o build(r)
          /\ UNCHANGED <<client, token, asked>>
  BY DEF Serve
<1>1. PICK s \in AsFound(toServer, n) :
        \E m :
          /\ m = parse(SubSeq(s, 1, n))
          /\ toServer' = Unread(s, n)
          /\ done' = IF Known(m) THEN Append(done, m.command) ELSE done
          /\ \E r \in handleCommand(m) :
               toClient' = IF r = NoMessage THEN toClient
                           ELSE toClient \o build(r)
          /\ UNCHANGED <<client, token, asked>>
  BY <1>0
<1>2. n \in 1 .. Len(toServer)
  BY AmountsFit, BuffersAssumption DEF Streams
<1>3. PICK m :
        /\ m = parse(SubSeq(s, 1, n))
        /\ toServer' = Unread(s, n)
        /\ done' = IF Known(m) THEN Append(done, m.command) ELSE done
        /\ \E r \in handleCommand(m) :
             toClient' = IF r = NoMessage THEN toClient
                         ELSE toClient \o build(r)
        /\ UNCHANGED <<client, token, asked>>
  BY <1>1
<1>4. /\ SubSeq(s, 1, n) \in Seq(Words \cup Commands)
      /\ Unread(s, n) \in Seq(Words \cup Commands)
  <2>1. s \in Seq(Words \cup Commands) /\ n \in 1 .. Len(s)
    BY <1>2, FoundTyped, Vocabulary DEF Streams
  <2> QED
    BY <2>1, Taken
<1>5. m.command \in Seq(Words \cup Commands)
  BY <1>3, <1>4, ParseTyped
<1>6. PICK r \in handleCommand(m) :
        toClient' = IF r = NoMessage THEN toClient ELSE toClient \o build(r)
  BY <1>3
<1>7. Worded(r, Said)
  BY <1>5, AnswersWorded
<1>8. r # NoMessage
  <2>1. r.command # <<>>
    BY <1>7 DEF Worded
  <2> QED
    BY <2>1 DEF NoMessage
<1> QED
  BY <1>2, <1>3, <1>4, <1>6, <1>7, <1>8

LEMMA StreamsServed ==
  ASSUME Streams, Serve
  PROVE  Streams' /\ toClient' # <<>>
<1>1. PICK r : /\ Worded(r, Said)
               /\ toServer' \in Seq(Words \cup Commands)
               /\ toClient' = toClient \o build(r)
               /\ token' = token
  BY ServeStep
<1>2. build(r) \in Seq(Words) /\ build(r) # <<>>
  <2>1. Words \cup Said = Words
    BY Vocabulary
  <2>2. build(r) \in Seq(Words \cup Said) /\ build(r) # <<>>
    BY <1>1, WordedBuilt
  <2> QED
    BY <2>1, <2>2
<1>3. toClient' \in Seq(Words) /\ toClient' # <<>>
  BY <1>1, <1>2 DEF Streams
<1> QED
  BY <1>1, <1>3 DEF Streams

LEMMA ReceiveStep ==
  ASSUME Streams, Receive
  PROVE  /\ Streams'
         /\ client' # "waiting"
         /\ UNCHANGED <<toServer, asked, done>>
<1>0. PICK n \in Amounts(toClient, ClientBuffer) :
       \E s \in AsFound(toClient, n) :
        \E m : /\ m = parse_message(SubSeq(s, 1, n))
               /\ toClient' = Unread(s, n)
               /\ client' \in Goes(m)
               /\ token' = TokenAfter(m)
  BY DEF Receive
<1>1. PICK s \in AsFound(toClient, n) :
        \E m : /\ m = parse_message(SubSeq(s, 1, n))
               /\ toClient' = Unread(s, n)
               /\ client' \in Goes(m)
               /\ token' = TokenAfter(m)
  BY <1>0
<1>2. PICK m : /\ m = parse_message(SubSeq(s, 1, n))
               /\ toClient' = Unread(s, n)
               /\ client' \in Goes(m)
               /\ token' = TokenAfter(m)
  BY <1>1
<1>3. n \in 1 .. Len(toClient)
  BY AmountsFit, BuffersAssumption DEF Streams
<1>4. SubSeq(s, 1, n) \in Seq(Words) /\ toClient' \in Seq(Words)
  <2>1. s \in Seq(Words) /\ n \in 1 .. Len(s)
    BY <1>3, FoundTyped, Vocabulary DEF Streams
  <2> QED
    BY <2>1, <1>2, Taken
<1>5. \A k \in DOMAIN m.params : m.params[k] \in Seq(Words)
  <2>1. "NL" \in Words
    BY Vocabulary DEF Marks
  <2> QED
    BY <2>1, <1>2, <1>4, ParseTyped
<1>6. token' \in Seq(Words)
  <2>1. Value(m, "token") \in Seq(Words)
    BY <1>5 DEF Value
  <2> QED
    BY <2>1, <1>2 DEF TokenAfter, Streams
<1>7. client' # "waiting"
  BY <1>2 DEF Goes
<1>8. UNCHANGED <<toServer, asked, done>>
  BY DEF Receive
<1> QED
  BY <1>4, <1>6, <1>7, <1>8 DEF Streams

LEMMA SendStep ==
  ASSUME Streams, NEW m, Worded(m, Commands), Send(m)
  PROVE  /\ Streams'
         /\ toServer' = toServer \o build(m) /\ toServer' # <<>>
         /\ asked' = Append(asked, m.command)
         /\ UNCHANGED <<toClient, token, done>>
<1>1. build(m) \in Seq(Words \cup Commands) /\ build(m) # <<>>
  BY WordedBuilt
<1>2. /\ toServer' = toServer \o build(m)
      /\ asked' = Append(asked, m.command)
      /\ UNCHANGED <<toClient, token, done>>
  BY DEF Send
<1>3. toServer' \in Seq(Words \cup Commands) /\ toServer' # <<>>
  BY <1>1, <1>2 DEF Streams
<1> QED
  BY <1>2, <1>3 DEF Streams

LEMMA StreamsInit == Init => Streams /\ WaitIsServed
BY DEF Init, Streams, WaitIsServed

LEMMA StreamsStep ==
  Streams /\ WaitIsServed /\ [Next]_vars => Streams' /\ WaitIsServed'
<1> SUFFICES ASSUME Streams, WaitIsServed, [Next]_vars
             PROVE  Streams' /\ WaitIsServed'
  OBVIOUS
<1>1. CASE Choose
  <2>1. PICK m : Worded(m, Commands) /\ Send(m)
    BY <1>1, ChooseSends
  <2> QED
    BY <2>1, SendStep DEF WaitIsServed
<1>2. CASE Leave
  BY <1>2 DEF Leave, Streams, WaitIsServed
<1>3. CASE Serve
  BY <1>3, StreamsServed DEF WaitIsServed
<1>4. CASE Receive
  BY <1>4, ReceiveStep DEF WaitIsServed
<1>5. CASE UNCHANGED vars
  BY <1>5 DEF vars, Streams, WaitIsServed
<1> QED
  BY <1>1, <1>2, <1>3, <1>4, <1>5 DEF Next

(* However the texts are cut into recvs, a client that waits in            *)
(* receive_message has something in one of the two streams: the dispatcher *)
(* answers whatever it is given, also what is no request.                  *)
THEOREM WaitingIsServed == Spec => []WaitIsServed
<1>1. Init => Streams /\ WaitIsServed
  BY StreamsInit
<1>2. Streams /\ WaitIsServed /\ [Next]_vars => Streams' /\ WaitIsServed'
  BY StreamsStep
<1> QED
  BY <1>1, <1>2, PTL DEF Spec

-----------------------------------------------------------------------------
(* The order of the commands.                                              *)

(* Nobody types, or is called, the name of a command.  (Neither does a     *)
(* word hold one: a part of a word is a token of its own.)                 *)
NoCommandTyped ==
  \A v \in Typed \cup Names : \A i \in DOMAIN v : v[i] \notin Commands

LEMMA WordsAreNoCommands ==
  ASSUME NoCommandTyped
  PROVE  \A w \in Words : w \notin Commands
<1>1. \A w \in Marks \cup Keys \cup Said \cup {"part"} : w \notin Commands
  BY DEF Marks, Keys, Said, Commands, Required
<1>2. ASSUME NEW v \in Typed \cup Names, NEW w \in ToSet(v)
      PROVE  w \notin Commands
  BY DEF NoCommandTyped, ToSet
<1> QED
  BY <1>1, <1>2 DEF Words

(* The requests that sent has and out has not are, in order, behind the    *)
(* commands that are still in the stream: at gives the request behind each *)
(* command carried out, from that behind each command in the stream.       *)
Behind(sent, out, stream, at, from) ==
  /\ at \in [DOMAIN out -> DOMAIN sent]
  /\ \A i \in DOMAIN out : out[i] = sent[at[i]]
  /\ \A i, j \in DOMAIN out : i < j => at[i] < at[j]
  /\ \A j \in DOMAIN stream :
       stream[j] \in Commands
         => /\ from[j] \in DOMAIN sent
            /\ sent[from[j]] = <<stream[j]>>
            /\ \A i \in DOMAIN out : at[i] < from[j]
  /\ \A i, j \in DOMAIN stream :
       i < j /\ stream[i] \in Commands /\ stream[j] \in Commands
         => from[i] < from[j]

Following(sent, out, stream) ==
  \E at, from : Behind(sent, out, stream, at, from)

LEMMA FollowsSent ==
  ASSUME NEW A, NEW T, NEW sent \in Seq(A), NEW out \in Seq(A),
         NEW stream \in Seq(T), NEW text \in Seq(T),
         Following(sent, out, stream),
         NEW c, NEW p \in 1 .. Len(text), text[p] = c,
         \A q \in 1 .. Len(text) : text[q] \in Commands => q = p,
         NEW more \in Seq(A), more = Append(sent, <<c>>)
  PROVE  Following(more, out, stream \o text)
<1>1. PICK at, from : Behind(sent, out, stream, at, from)
  BY DEF Following
<1>2. PICK k \in Nat, n \in Nat, l \in Nat :
        /\ k = Len(sent) /\ DOMAIN sent = 1 .. k
        /\ n = Len(stream) /\ DOMAIN stream = 1 .. n
        /\ l = Len(text)
  OBVIOUS
<1>3. /\ DOMAIN more = 1 .. k + 1
      /\ \A i \in 1 .. k : more[i] = sent[i]
      /\ more[k + 1] = <<c>>
  BY <1>2
<1>4. PICK longer : longer = stream \o text
  OBVIOUS
<1>5. /\ DOMAIN longer = 1 .. n + l
      /\ \A j \in 1 .. n : longer[j] = stream[j]
      /\ \A j \in 1 .. n + l : j \notin 1 .. n
           => j - n \in 1 .. l /\ longer[j] = text[j - n]
  BY <1>2, <1>4
<1>6. PICK new : new = [j \in 1 .. n + l |-> IF j \in 1 .. n THEN from[j]
                                             ELSE k + 1]
  OBVIOUS
<1>7. \A i \in DOMAIN out : at[i] \in 1 .. k
  BY <1>1, <1>2 DEF Behind
<1>8. at \in [DOMAIN out -> DOMAIN more]
  <2>1. at \in [DOMAIN out -> 1 .. k] /\ \A i \in 1 .. k : i \in 1 .. k + 1
    BY <1>1, <1>2 DEF Behind
  <2> QED
    BY <2>1, <1>3
<1>9. \A i \in DOMAIN out : out[i] = more[at[i]]
  BY <1>1, <1>3, <1>7 DEF Behind
<1>10. ASSUME NEW j \in 1 .. n + l, longer[j] \in Commands
       PROVE  /\ new[j] \in 1 .. k + 1
              /\ more[new[j]] = <<longer[j]>>
              /\ \A i \in DOMAIN out : at[i] < new[j]
              /\ j \notin 1 .. n => new[j] = k + 1 /\ j = n + p
              /\ j \in 1 .. n => new[j] = from[j] /\ from[j] \in 1 .. k
  <2>1. CASE j \in 1 .. n
    <3>1. /\ longer[j] = stream[j] /\ new[j] = from[j]
          /\ from[j] \in 1 .. k /\ sent[from[j]] = <<stream[j]>>
          /\ \A i \in DOMAIN out : at[i] < from[j]
      BY <2>1, <1>1, <1>2, <1>5, <1>6, <1>10 DEF Behind
    <3> QED
      BY <2>1, <3>1, <1>3
  <2>2. CASE j \notin 1 .. n
    <3>1. new[j] = k + 1 /\ longer[j] = text[j - n] /\ j - n \in 1 .. Len(text)
      BY <2>2, <1>2, <1>5, <1>6
    <3>2. j - n = p
      BY <3>1, <1>10
    <3>3. longer[j] = c /\ j = n + p
      <4>1. longer[j] = c
        BY <3>1, <3>2
      <4>2. j \in Nat /\ n \in Nat /\ j - n = p
        BY <3>2, <1>2
      <4> QED
        BY <4>1, <4>2
    <3>4. new[j] \in 1 .. k + 1 /\ more[new[j]] = <<longer[j]>>
      BY <3>1, <3>3, <1>3
    <3>5. \A i \in DOMAIN out : at[i] < new[j]
      BY <3>1, <1>7
    <3> QED
      BY <2>2, <3>1, <3>3, <3>4, <3>5
  <2> QED
    BY <2>1, <2>2
<1>11. ASSUME NEW i \in 1 .. n + l, NEW j \in 1 .. n + l, i < j,
              longer[i] \in Commands, longer[j] \in Commands
       PROVE  new[i] < new[j]
  <2>1. CASE j \in 1 .. n
    <3>1. i \in 1 .. n
      BY <2>1, <1>11
    <3>2. stream[i] \in Commands /\ stream[j] \in Commands
      BY <2>1, <3>1, <1>5, <1>11
    <3>3. from[i] < from[j]
      BY <2>1, <3>1, <3>2, <1>1, <1>2, <1>11 DEF Behind
    <3> QED
      BY <2>1, <3>1, <3>3, <1>6
  <2>2. CASE j \notin 1 .. n
    <3>1. new[j] = k + 1 /\ j = n + p
      BY <2>2, <1>10, <1>11
    <3>2. i \in 1 .. n
      BY <3>1, <1>10, <1>11
    <3>3. new[i] \in 1 .. k
      BY <3>2, <1>10, <1>11
    <3> QED
      BY <3>1, <3>3
  <2> QED
    BY <2>1, <2>2
<1>12. Behind(more, out, longer, at, new)
  BY <1>1, <1>3, <1>5, <1>8, <1>9, <1>10, <1>11 DEF Behind
<1> QED
  BY <1>4, <1>12 DEF Following

LEMMA FollowsCut ==
  ASSUME NEW A, NEW T, NEW sent \in Seq(A), NEW out \in Seq(A),
         NEW stream \in Seq(T), NEW n \in 1 .. Len(stream),
         NEW at, NEW from, Behind(sent, out, stream, at, from)
  PROVE  /\ Following(sent, out, After(stream, n))
         /\ \A p \in 1 .. n :
              stream[p] \in Commands
                => Following(sent, Append(out, <<stream[p]>>),
                             After(stream, n))
<1>1. PICK l \in Nat, k \in Nat : /\ l = Len(stream) /\ DOMAIN stream = 1 .. l
                                  /\ k = Len(out) /\ DOMAIN out = 1 .. k
  OBVIOUS
<1>2. PICK rest \in Seq(T) : rest = After(stream, n)
  BY <1>1, PartsTyped
<1>3. /\ DOMAIN rest = 1 .. l - n
      /\ \A j \in 1 .. l - n : rest[j] = stream[j + n]
  BY <1>1, <1>2 DEF After
<1>4. \A j \in 1 .. l - n : j + n \in 1 .. l
  BY <1>1
<1>5. PICK new : new = [j \in 1 .. l - n |-> from[j + n]]
  OBVIOUS
<1>6. \A i, j \in 1 .. l - n : i < j => i + n < j + n
  BY <1>1
<1>7. \A j \in 1 .. l - n : new[j] = from[j + n]
  BY <1>5
<1>8. Behind(sent, out, rest, at, new)
  <2>1. /\ at \in [DOMAIN out -> DOMAIN sent]
        /\ \A i \in DOMAIN out : out[i] = sent[at[i]]
        /\ \A i, j \in DOMAIN out : i < j => at[i] < at[j]
    BY DEF Behind
  <2>2. ASSUME NEW j \in DOMAIN rest, rest[j] \in Commands
        PROVE  /\ new[j] \in DOMAIN sent
               /\ sent[new[j]] = <<rest[j]>>
               /\ \A i \in DOMAIN out : at[i] < new[j]
    <3>1. /\ new[j] = from[j + n] /\ rest[j] = stream[j + n]
          /\ j + n \in DOMAIN stream
      BY <1>1, <1>3, <1>4, <1>7
    <3> QED
      BY <3>1, <2>2 DEF Behind
  <2>3. ASSUME NEW i \in DOMAIN rest, NEW j \in DOMAIN rest, i < j,
               rest[i] \in Commands, rest[j] \in Commands
        PROVE  new[i] < new[j]
    <3>1. /\ new[i] = from[i + n] /\ rest[i] = stream[i + n]
          /\ new[j] = from[j + n] /\ rest[j] = stream[j + n]
          /\ i + n \in DOMAIN stream /\ j + n \in DOMAIN stream
          /\ i + n < j + n
      BY <2>3, <1>1, <1>3, <1>4, <1>6, <1>7
    <3> QED
      BY <3>1, <2>3 DEF Behind
  <2> QED
    BY <2>1, <2>2, <2>3 DEF Behind
<1>9. ASSUME NEW p \in 1 .. n, stream[p] \in Commands
      PROVE  Following(sent, Append(out, <<stream[p]>>), rest)
  <2>1. PICK more : more = Append(out, <<stream[p]>>)
    OBVIOUS
  <2>2. /\ DOMAIN more = 1 .. k + 1
        /\ \A i \in 1 .. k : more[i] = out[i]
        /\ more[k + 1] = <<stream[p]>>
    BY <1>1, <2>1
  <2>3. PICK places : places = [i \in 1 .. k + 1 |-> IF i \in 1 .. k THEN at[i]
                                                    ELSE from[p]]
    OBVIOUS
  <2>4. /\ \A i \in 1 .. k : places[i] = at[i] /\ i \in 1 .. k + 1
        /\ places[k + 1] = from[p]
        /\ \A i \in 1 .. k + 1 : i \in 1 .. k \/ i = k + 1
    BY <2>3
  <2>5. p \in DOMAIN stream
    BY <1>1
  <2>6. /\ from[p] \in DOMAIN sent /\ sent[from[p]] = <<stream[p]>>
        /\ \A i \in 1 .. k : at[i] < from[p]
    BY <2>5, <1>1, <1>9 DEF Behind
  <2>7. places \in [DOMAIN more -> DOMAIN sent]
    <3>1. \A i \in 1 .. k + 1 : places[i] \in DOMAIN sent
      BY <2>4, <2>6, <1>1 DEF Behind
    <3> QED
      BY <3>1, <2>2, <2>3
  <2>8. \A i \in DOMAIN more : more[i] = sent[places[i]]
    BY <2>2, <2>4, <2>6, <1>1 DEF Behind
  <2>9. ASSUME NEW i \in DOMAIN more, NEW j \in DOMAIN more, i < j
        PROVE  places[i] < places[j]
    <3>1. i \in 1 .. k
      BY <2>2, <2>9
    <3>2. CASE j \in 1 .. k
      BY <3>1, <3>2, <2>4, <2>9, <1>1 DEF Behind
    <3>3. CASE j = k + 1
      BY <3>1, <3>3, <2>4, <2>6
    <3> QED
      BY <3>2, <3>3, <2>2, <2>4
  <2>10. ASSUME NEW j \in DOMAIN rest, rest[j] \in Commands
         PROVE  /\ new[j] \in DOMAIN sent
                /\ sent[new[j]] = <<rest[j]>>
                /\ \A i \in DOMAIN more : places[i] < new[j]
    <3>1. /\ new[j] = from[j + n] /\ rest[j] = stream[j + n]
          /\ j + n \in DOMAIN stream /\ p < j + n
      BY <1>1, <1>3, <1>4, <1>7
    <3>2. from[p] < new[j]
      BY <3>1, <2>5, <2>10, <1>9 DEF Behind
    <3>3. \A i \in 1 .. k : at[i] < new[j]
      BY <3>1, <2>10, <1>1 DEF Behind
    <3>4. new[j] \in DOMAIN sent /\ sent[new[j]] = <<rest[j]>>
      BY <3>1, <2>10 DEF Behind
    <3> QED
      BY <3>2, <3>3, <3>4, <2>2, <2>4
  <2>11. Behind(sent, more, rest, places, new)
    BY <2>7, <2>8, <2>9, <2>10, <1>8 DEF Behind
  <2> QED
    BY <2>1, <2>11 DEF Following
<1> QED
  BY <1>2, <1>8, <1>9 DEF Following

LEMMA FollowsHalved ==
  ASSUME NEW A, NEW T, "part" \in T, NEW sent \in Seq(A), NEW out \in Seq(A),
         NEW stream \in Seq(T), NEW n \in 1 .. Len(stream),
         Following(sent, out, stream)
  PROVE  Following(sent, out, Halved(stream, n))
<1>1. PICK at, from : Behind(sent, out, stream, at, from)
  BY DEF Following
<1>2. PICK l \in Nat : /\ l = Len(stream) /\ DOMAIN stream = 1 .. l
                       /\ n \in 1 .. l
  OBVIOUS
<1>3. PICK s : s = Halved(stream, n)
  OBVIOUS
<1>4. /\ s \in Seq(T) /\ DOMAIN s = 1 .. l + 1
      /\ \A j \in 1 .. l + 1 :
           s[j] = IF j < n THEN stream[j]
                  ELSE IF j <= n + 1 THEN "part" ELSE stream[j - 1]
  <2>1. s \in Seq(T) /\ Len(s) = l + 1
    BY <1>2, <1>3, HalvedText
  <2>2. \A j \in 1 .. l + 1 :
          s[j] = IF j < n THEN stream[j]
                 ELSE IF j <= n + 1 THEN "part" ELSE stream[j - 1]
    BY <1>2, <1>3, HalvedText
  <2> QED
    BY <2>1, <2>2
<1>5. "part" \notin Commands
  BY DEF Commands, Required
<1> DEFINE Was(j) == IF j < n THEN j ELSE j - 1
<1>6. ASSUME NEW j \in 1 .. l + 1, s[j] \in Commands
      PROVE  /\ Was(j) \in 1 .. l /\ s[j] = stream[Was(j)]
             /\ j < n \/ n + 1 < j
  <2>1. j < n \/ n + 1 < j
    BY <1>4, <1>5, <1>6
  <2>2. CASE j < n
    BY <2>2, <1>2, <1>4
  <2>3. CASE n + 1 < j
    <3>1. ~ (j < n) /\ ~ (j <= n + 1) /\ j - 1 \in 1 .. l
      BY <2>3, <1>2
    <3> QED
      BY <2>3, <3>1, <1>4
  <2> QED
    BY <2>1, <2>2, <2>3
<1>7. PICK new : new = [j \in 1 .. l + 1 |-> from[Was(j)]]
  OBVIOUS
<1>8. \A j \in 1 .. l + 1 : new[j] = from[Was(j)]
  BY <1>7
<1>9. ASSUME NEW i \in 1 .. l + 1, NEW j \in 1 .. l + 1, i < j,
             s[i] \in Commands, s[j] \in Commands
      PROVE  Was(i) < Was(j)
  <2>1. (i < n \/ n + 1 < i) /\ (j < n \/ n + 1 < j)
    BY <1>6, <1>9
  <2> QED
    BY <2>1, <1>9
<1> HIDE DEF Was
<1>10. /\ at \in [DOMAIN out -> DOMAIN sent]
       /\ \A i \in DOMAIN out : out[i] = sent[at[i]]
       /\ \A i, j \in DOMAIN out : i < j => at[i] < at[j]
  BY <1>1 DEF Behind
<1>11. ASSUME NEW j \in DOMAIN s, s[j] \in Commands
       PROVE  /\ new[j] \in DOMAIN sent
              /\ sent[new[j]] = <<s[j]>>
              /\ \A i \in DOMAIN out : at[i] < new[j]
  <2>1. /\ new[j] = from[Was(j)] /\ s[j] = stream[Was(j)]
        /\ Was(j) \in DOMAIN stream
    BY <1>2, <1>4, <1>6, <1>8, <1>11
  <2> QED
    BY <2>1, <1>1, <1>11 DEF Behind
<1>12. ASSUME NEW i \in DOMAIN s, NEW j \in DOMAIN s, i < j,
              s[i] \in Commands, s[j] \in Commands
       PROVE  new[i] < new[j]
  <2>1. /\ new[i] = from[Was(i)] /\ s[i] = stream[Was(i)]
        /\ Was(i) \in DOMAIN stream
    BY <1>2, <1>4, <1>6, <1>8, <1>12
  <2>2. /\ new[j] = from[Was(j)] /\ s[j] = stream[Was(j)]
        /\ Was(j) \in DOMAIN stream
    BY <1>2, <1>4, <1>6, <1>8, <1>12
  <2>3. Was(i) < Was(j)
    BY <1>4, <1>9, <1>12
  <2> QED
    BY <2>1, <2>2, <2>3, <1>1, <1>12 DEF Behind
<1>13. Behind(sent, out, s, at, new)
  BY <1>10, <1>11, <1>12 DEF Behind
<1> QED
  BY <1>3, <1>13 DEF Following

(* A text in which one token, at p, is a command.                          *)
OnlyAt(text, p, c) ==
  /\ p \in 1 .. Len(text)
  /\ text[p] = c
  /\ \A q \in 1 .. Len(text) : text[q] \in Commands => q = p

LEMMA OnlyAtExtended ==
  ASSUME NoCommandTyped, NEW T, NEW text \in Seq(T), NEW p, NEW c,
         OnlyAt(text, p, c), NEW more \in Seq(Words)
  PROVE  OnlyAt(text \o more, p, c)
<1>1. PICK n \in Nat, l \in Nat : n = Len(text) /\ l = Len(more)
  OBVIOUS
<1>2. PICK longer : longer = text \o more
  OBVIOUS
<1>3. /\ Len(longer) = n + l
      /\ \A q \in 1 .. n : longer[q] = text[q]
      /\ \A q \in 1 .. n + l : q \notin 1 .. n
           => q - n \in 1 .. l /\ longer[q] = more[q - n]
  BY <1>1, <1>2
<1>4. \A q \in 1 .. l : more[q] \notin Commands
  BY <1>1, WordsAreNoCommands
<1>5. \A q \in 1 .. n + l : longer[q] \in Commands => q \in 1 .. n
  BY <1>3, <1>4
<1>6. p \in 1 .. n /\ p \in 1 .. n + l
  BY <1>1 DEF OnlyAt
<1>7. \A q \in 1 .. n + l : longer[q] \in Commands => q = p
  BY <1>1, <1>3, <1>5 DEF OnlyAt
<1>8. longer[p] = c
  BY <1>3, <1>6 DEF OnlyAt
<1>9. OnlyAt(longer, p, c)
  BY <1>3, <1>6, <1>7, <1>8 DEF OnlyAt
<1> QED
  BY <1>2, <1>9

LEMMA CommandPlace ==
  ASSUME NoCommandTyped, NEW m, Worded(m, Commands)
  PROVE  \E c : m.command = <<c>> /\ OnlyAt(build(m), 4, c)
<1>1. PICK c \in Commands : m.command = <<c>>
  BY DEF Worded
<1>2. PICK body \in Seq(Words) : body = Body(m.params)
  BY Vocabulary, BodyTyped DEF Worded, Marks
<1>3. /\ "COMMAND" \in Words /\ ":" \in Words /\ "SP" \in Words
      /\ "NL" \in Words /\ "LENGTH" \in Words /\ "size" \in Words
  BY Vocabulary DEF Marks
<1>4. PICK line \in Seq(Words), after \in Seq(Words) :
        /\ line = <<"NL">>
        /\ after = <<"LENGTH", ":", "SP", "size", "NL", "NL">>
  <2>1. <<"NL">> \in Seq(Words)
    BY <1>3
  <2>2. <<"LENGTH", ":", "SP", "size", "NL", "NL">> \in Seq(Words)
    BY <1>3
  <2> QED
    BY <2>1, <2>2
<1>5. PICK first : first = <<"COMMAND", ":", "SP", c>>
  OBVIOUS
<1>6. PICK T : /\ first \in Seq(T)
               /\ first \o line \in Seq(T)
               /\ first \o line \o after \in Seq(T)
  <2>1. Words \subseteq Words \cup Commands
    OBVIOUS
  <2>2. first \in Seq(Words \cup Commands)
    BY <1>3, <1>5
  <2>3. line \in Seq(Words \cup Commands) /\ after \in Seq(Words \cup Commands)
    OBVIOUS
  <2> QED
    BY <2>2, <2>3
<1>7. OnlyAt(first, 4, c)
  <2>1. /\ "COMMAND" \notin Commands /\ ":" \notin Commands
        /\ "SP" \notin Commands
    BY <1>3, WordsAreNoCommands
  <2>2. Len(first) = 4 /\ first[1] = "COMMAND" /\ first[2] = ":"
        /\ first[3] = "SP" /\ first[4] = c
    BY <1>5
  <2> QED
    BY <2>1, <2>2 DEF OnlyAt
<1>8. OnlyAt(first \o line, 4, c)
  BY <1>6, <1>7, OnlyAtExtended
<1>9. OnlyAt(first \o line \o after, 4, c)
  BY <1>6, <1>8, OnlyAtExtended
<1>10. OnlyAt(first \o line \o after \o body, 4, c)
  BY <1>6, <1>9, OnlyAtExtended
<1>11. first = <<"COMMAND", ":", "SP">> \o m.command
  BY <1>1, <1>5
<1>12. build(m) = first \o line \o after \o body
  BY <1>2, <1>4, <1>11 DEF build
<1> QED
  BY <1>1, <1>10, <1>12

(* A command that is carried out was somewhere in what the recv took.      *)
LEMMA KnownWasSent ==
  ASSUME NEW S, NEW stream \in Seq(S), NEW n \in 1 .. Len(stream),
         NEW m, m = parse(SubSeq(stream, 1, n)), Known(m)
  PROVE  \E p \in 1 .. n :
           stream[p] \in Commands /\ m.command = <<stream[p]>>
<1>1. PICK text \in Seq(S) : /\ text = SubSeq(stream, 1, n)
                             /\ Len(text) = n
                             /\ \A p \in 1 .. n : text[p] = stream[p]
  <2>1. n \in Nat /\ n <= Len(stream)
    OBVIOUS
  <2>2. SubSeq(stream, 1, n) \in Seq(S)
    BY <2>1, SliceTyped
  <2>3. /\ Len(SubSeq(stream, 1, n)) = n
        /\ \A p \in 1 .. n : SubSeq(stream, 1, n)[p] = stream[p]
    BY <2>1
  <2> QED
    BY <2>2, <2>3
<1>2. PICK tokens : tokens = {text[p] : p \in 1 .. n}
  OBVIOUS
<1>3. text \in Seq(tokens)
  <2>1. \A p \in 1 .. n : text[p] \in tokens
    BY <1>2
  <2> QED
    BY <2>1, <1>1
<1>4. m.command \in Seq(tokens)
  BY <1>1, <1>3, ParseTyped
<1>5. Len(m.command) = 1 /\ m.command[1] \in Commands
  BY DEF Known, Commands
<1>6. m.command[1] \in tokens /\ m.command = <<m.command[1]>>
  BY <1>4, <1>5
<1>7. PICK p \in 1 .. n : m.command[1] = text[p]
  BY <1>2, <1>6
<1> QED
  BY <1>1, <1>5, <1>6, <1>7

-----------------------------------------------------------------------------
OrderInv ==
  /\ Streams
  /\ asked \in Seq(Seq(Words \cup Commands))
  /\ done \in Seq(Seq(Words \cup Commands))
  /\ Following(asked, done, toServer)

LEMMA OrderInit == Init => OrderInv
<1> SUFFICES ASSUME Init PROVE OrderInv
  OBVIOUS
<1>1. Streams
  BY StreamsInit
<1>2. asked = <<>> /\ done = <<>> /\ toServer = <<>>
  BY DEF Init
<1>3. Behind(asked, done, toServer, <<>>, <<>>)
  BY <1>2 DEF Behind
<1> QED
  BY <1>1, <1>2, <1>3 DEF OrderInv, Following

LEMMA OrderSent ==
  ASSUME NoCommandTyped, OrderInv, Choose
  PROVE  OrderInv'
<1>1. PICK m : Worded(m, Commands) /\ Send(m)
  BY ChooseSends DEF OrderInv
<1>2. /\ Streams' /\ toServer' = toServer \o build(m)
      /\ asked' = Append(asked, m.command) /\ done' = done
  BY <1>1, SendStep DEF OrderInv
<1>3. PICK c : m.command = <<c>> /\ OnlyAt(build(m), 4, c)
  BY <1>1, CommandPlace
<1>4. m.command \in Seq(Words \cup Commands)
  BY <1>1 DEF Worded
<1>5. asked' \in Seq(Seq(Words \cup Commands))
  BY <1>2, <1>4 DEF OrderInv
<1>6. build(m) \in Seq(Words \cup Commands)
  BY <1>1, WordedBuilt
<1>7. Following(asked', done, toServer \o build(m))
  BY <1>2, <1>3, <1>5, <1>6, FollowsSent DEF OnlyAt, OrderInv, Streams
<1> QED
  BY <1>2, <1>5, <1>7 DEF OrderInv

LEMMA OrderServed ==
  ASSUME OrderInv, Serve
  PROVE  OrderInv'
<1>0. PICK n \in 1 .. Len(toServer) :
       \E s \in AsFound(toServer, n) :
        \E m :
        /\ m = parse(SubSeq(s, 1, n))
        /\ toServer' = After(s, n)
        /\ done' = IF Known(m) THEN Append(done, m.command) ELSE done
        /\ asked' = asked
  BY ServeStep DEF OrderInv, Unread
<1>1. PICK s \in AsFound(toServer, n) :
        \E m :
        /\ m = parse(SubSeq(s, 1, n))
        /\ toServer' = After(s, n)
        /\ done' = IF Known(m) THEN Append(done, m.command) ELSE done
        /\ asked' = asked
  BY <1>0
<1>2. PICK m :
        /\ m = parse(SubSeq(s, 1, n))
        /\ toServer' = After(s, n)
        /\ done' = IF Known(m) THEN Append(done, m.command) ELSE done
        /\ asked' = asked
  BY <1>1
<1>3. Streams'
  BY StreamsServed DEF OrderInv
<1>4. PICK T : T = Words \cup Commands
  OBVIOUS
<1>5. /\ s \in Seq(T) /\ n \in 1 .. Len(s) /\ toServer \in Seq(T)
      /\ s = toServer \/ s = Halved(toServer, n)
  BY <1>4, FoundTyped, Vocabulary DEF OrderInv, Streams
<1>a. Following(asked, done, s)
  <2>1. Following(asked, done, toServer) /\ "part" \in T
    BY <1>4, Vocabulary DEF OrderInv
  <2>2. Following(asked, done, Halved(toServer, n))
    BY <2>1, <1>5, FollowsHalved DEF OrderInv
  <2> QED
    BY <2>1, <2>2, <1>5
<1>b. PICK at, from : Behind(asked, done, s, at, from)
  BY <1>a DEF Following
<1>6. /\ Following(asked, done, After(s, n))
      /\ \A p \in 1 .. n : s[p] \in Commands
           => Following(asked, Append(done, <<s[p]>>), After(s, n))
  BY <1>5, <1>b, FollowsCut DEF OrderInv
<1>7. CASE ~ Known(m)
  BY <1>2, <1>3, <1>6, <1>7 DEF OrderInv
<1>8. CASE Known(m)
  <2>1. PICK p \in 1 .. n : s[p] \in Commands /\ m.command = <<s[p]>>
    BY <1>2, <1>5, <1>8, KnownWasSent
  <2>2. m.command \in Seq(Words \cup Commands)
    BY <2>1
  <2>3. done' = Append(done, m.command) /\ asked' = asked
    BY <1>2, <1>8
  <2>4. done' \in Seq(Seq(Words \cup Commands))
    BY <2>2, <2>3 DEF OrderInv
  <2>5. Following(asked', done', toServer')
    BY <2>1, <2>3, <1>2, <1>6
  <2> QED
    BY <2>3, <2>4, <2>5, <1>3 DEF OrderInv
<1> QED
  BY <1>7, <1>8

LEMMA OrderStep ==
  ASSUME NoCommandTyped
  PROVE  OrderInv /\ [Next]_vars => OrderInv'
<1> SUFFICES ASSUME OrderInv, [Next]_vars PROVE OrderInv'
  OBVIOUS
<1>1. CASE Choose
  BY <1>1, OrderSent
<1>2. CASE Leave
  BY <1>2 DEF Leave, OrderInv, Streams
<1>3. CASE Serve
  BY <1>3, OrderServed
<1>4. CASE Receive
  <2>1. Streams' /\ UNCHANGED <<toServer, asked, done>>
    BY <1>4, ReceiveStep DEF OrderInv
  <2> QED
    BY <2>1 DEF OrderInv
<1>5. CASE UNCHANGED vars
  BY <1>5 DEF vars, OrderInv, Streams
<1> QED
  BY <1>1, <1>2, <1>3, <1>4, <1>5 DEF Next

LEMMA OrderSuffices == OrderInv => CarriedOutInOrder
<1> SUFFICES ASSUME OrderInv PROVE CarriedOutInOrder
  OBVIOUS
<1>1. PICK at, from : Behind(asked, done, toServer, at, from)
  BY DEF OrderInv, Following
<1> QED
  BY <1>1 DEF Behind, CarriedOutInOrder

(* However the stream to the server is cut into recvs, what the server     *)
(* carries out is a subsequence of what the client asked for: a command is *)
(* never taken for another request's, nor twice, nor out of order, as long *)
(* as no text a user types is itself the name of a command.                *)
THEOREM CarriedInOrder ==
  ASSUME NoCommandTyped
  PROVE  Spec => []CarriedOutInOrder
<1>1. Init => OrderInv
  BY OrderInit
<1>2. OrderInv /\ [Next]_vars => OrderInv'
  BY OrderStep
<1>3. OrderInv => CarriedOutInOrder
  BY OrderSuffices
<1> QED
  BY <1>1, <1>2, <1>3, PTL DEF Spec

-----------------------------------------------------------------------------
(* What is read back: the pieces of a text.                                *)

(* No separator lies between the places a and b of s, and one at each, or  *)
(* the start or the end of s.                                              *)
Between(s, separators, a, b) ==
  /\ a \in 0 .. Len(s) /\ b \in 1 .. Len(s) + 1 /\ a < b
  /\ a # 0 => s[a] \in separators
  /\ b # Len(s) + 1 => s[b] \in separators
  /\ \A j \in a + 1 .. b - 1 : s[j] \notin separators

(* ends are the k + 1 places between which the pieces of s lie.            *)
Ends(s, separators, k, ends) ==
  /\ k \in Nat /\ k # 0
  /\ Split(s, separators)
       = [n \in 1 .. k |-> SubSeq(s, ends[n] + 1, ends[n + 1] - 1)]
  /\ ends[1] = 0
  /\ \A i, j \in 1 .. k + 1 : ends[i] = ends[j] => i = j
  /\ \A n \in 1 .. k : Between(s, separators, ends[n], ends[n + 1])
  /\ \A a, b : Between(s, separators, a, b)
       => \E n \in 1 .. k : ends[n] = a /\ ends[n + 1] = b

LEMMA SplitEnds ==
  ASSUME NEW S, NEW s \in Seq(S), NEW separators
  PROVE  \E k, ends : Ends(s, separators, k, ends)
<1>1. PICK l \in Nat : l = Len(s) /\ DOMAIN s = 1 .. l
  OBVIOUS
<1>2. PICK places : places = {i \in DOMAIN s : s[i] \in separators}
                               \cup {0, l + 1}
  OBVIOUS
<1>3. places \in SUBSET Int /\ places \in SUBSET (0 .. l + 1)
  BY <1>1, <1>2
<1>4. IsFiniteSet(places)
  <2>1. PICK n \in Nat : n = l + 1
    OBVIOUS
  <2> QED
    BY <2>1, <1>3, Places
<1>5. PICK ends : ends = InOrder(places)
  OBVIOUS
<1>6. PICK m \in Nat :
        /\ ends \in [1 .. m -> places]
        /\ \A i, j \in 1 .. m : i < j => ends[i] < ends[j]
        /\ \A e \in places : \E n \in 1 .. m : ends[n] = e
  BY <1>5, <1>3, <1>4, Ordering
<1>7. \A n \in 1 .. m : ends[n] \in places /\ ends[n] \in 0 .. l + 1
  BY <1>3, <1>6
<1>8. \A i, j \in 1 .. m : ends[i] < ends[j] => i < j
  <2> SUFFICES ASSUME NEW i \in 1 .. m, NEW j \in 1 .. m, ends[i] < ends[j],
                      ~ (i < j)
               PROVE  FALSE
    OBVIOUS
  <2>1. i = j \/ j < i
    OBVIOUS
  <2>2. ends[i] \in 0 .. l + 1 /\ ends[j] \in 0 .. l + 1
    BY <1>7
  <2> QED
    BY <2>1, <2>2, <1>6
<1>9. 0 \in places /\ l + 1 \in places
  BY <1>2
<1>10. m - 1 \in Nat /\ m - 1 # 0
  <2>1. PICK i \in 1 .. m, j \in 1 .. m : ends[i] = 0 /\ ends[j] = l + 1
    BY <1>6, <1>9
  <2>2. i < j
    BY <2>1, <1>8
  <2> QED
    BY <2>2
<1>11. PICK k \in Nat : k = m - 1 /\ k + 1 = m /\ k # 0
  BY <1>10
<1>13. Split(s, separators)
         = [n \in 1 .. k |-> SubSeq(s, ends[n] + 1, ends[n + 1] - 1)]
  <2>1. Len(ends) = m
    BY <1>6
  <2> QED
    BY <2>1, <1>1, <1>2, <1>5, <1>11 DEF Split
<1>14. ends[1] = 0
  <2>1. PICK i \in 1 .. m : ends[i] = 0
    BY <1>6, <1>9
  <2>2. 1 \in 1 .. m
    BY <1>11
  <2>3. i = 1 \/ 1 < i
    OBVIOUS
  <2>4. ends[1] \in 0 .. l + 1
    BY <2>2, <1>7
  <2> QED
    BY <2>1, <2>2, <2>3, <2>4, <1>6
<1>15. ASSUME NEW n \in 1 .. k
       PROVE  Between(s, separators, ends[n], ends[n + 1])
  <2>1. n \in 1 .. m /\ n + 1 \in 1 .. m /\ n < n + 1
    BY <1>11
  <2>2. ends[n] < ends[n + 1]
    BY <2>1, <1>6
  <2>3. PICK a \in 0 .. l + 1, b \in 0 .. l + 1 :
          /\ a = ends[n] /\ b = ends[n + 1] /\ a < b
          /\ a \in places /\ b \in places
    BY <2>1, <2>2, <1>7
  <2>4. a \in 0 .. l /\ b \in 1 .. l + 1
    BY <2>3
  <2>5. (a # 0 => s[a] \in separators) /\ (b # l + 1 => s[b] \in separators)
    BY <2>3, <2>4, <1>1, <1>2
  <2>6. ASSUME NEW j \in a + 1 .. b - 1, s[j] \in separators PROVE FALSE
    <3>1. j \in 1 .. l /\ a < j /\ j < b
      BY <2>4
    <3>2. j \in places
      BY <3>1, <2>6, <1>1, <1>2
    <3>3. PICK i \in 1 .. m : ends[i] = j
      BY <3>2, <1>6
    <3>4. n < i /\ i < n + 1
      BY <3>1, <3>3, <2>1, <2>3, <1>8
    <3> QED
      BY <3>4
  <2> QED
    BY <2>3, <2>4, <2>5, <2>6, <1>1 DEF Between
<1>16. ASSUME NEW a, NEW b, Between(s, separators, a, b)
       PROVE  \E n \in 1 .. k : ends[n] = a /\ ends[n + 1] = b
  <2>1. /\ a \in 0 .. l /\ b \in 1 .. l + 1 /\ a < b
        /\ a # 0 => s[a] \in separators
        /\ b # l + 1 => s[b] \in separators
        /\ \A j \in a + 1 .. b - 1 : s[j] \notin separators
    BY <1>1, <1>16 DEF Between
  <2>2. a \in places /\ b \in places
    <3>1. a = 0 \/ a \in 1 .. l
      BY <2>1
    <3>2. b = l + 1 \/ b \in 1 .. l
      BY <2>1
    <3> QED
      BY <3>1, <3>2, <2>1, <1>1, <1>2
  <2>3. PICK i \in 1 .. m, j \in 1 .. m : ends[i] = a /\ ends[j] = b
    BY <2>2, <1>6
  <2>4. i < j
    BY <2>1, <2>3, <1>8
  <2>5. i \in 1 .. k /\ i + 1 \in 1 .. m /\ i < i + 1
    BY <2>4, <1>11
  <2>6. ASSUME i + 1 < j PROVE FALSE
    <3>1. PICK e : e = ends[i + 1]
      OBVIOUS
    <3>2. a < e /\ e < b /\ e \in places /\ e \in 0 .. l + 1
      BY <3>1, <2>3, <2>5, <2>6, <1>6, <1>7
    <3>3. e \in a + 1 .. b - 1 /\ e # 0 /\ e # l + 1
      BY <3>2, <2>1
    <3>4. s[e] \in separators
      BY <3>2, <3>3, <1>2
    <3> QED
      BY <3>3, <3>4, <2>1
  <2>7. j = i + 1
    BY <2>4, <2>6
  <2> QED
    BY <2>3, <2>5, <2>7
<1>17. Ends(s, separators, k, ends)
  <2>1. \A a, b : Between(s, separators, a, b)
          => \E n \in 1 .. k : ends[n] = a /\ ends[n + 1] = b
    BY <1>16
  <2>2. ASSUME NEW i \in 1 .. k + 1, NEW j \in 1 .. k + 1, ends[i] = ends[j]
        PROVE  i = j
    <3>1. i \in 1 .. m /\ j \in 1 .. m
      BY <1>11
    <3>2. i < j \/ j < i \/ i = j
      OBVIOUS
    <3>3. ends[i] \in 0 .. l + 1
      BY <3>1, <1>7
    <3> QED
      BY <3>1, <3>2, <3>3, <2>2, <1>6
  <2> QED
    BY <2>1, <2>2, <1>11, <1>13, <1>14, <1>15 DEF Ends
<1> QED
  BY <1>17

(* The pieces of a text, in whatever order.                                *)
IsPiece(s, separators, p) ==
  \E a, b : Between(s, separators, a, b) /\ p = SubSeq(s, a + 1, b - 1)

LEMMA SplitPieces ==
  ASSUME NEW S, NEW s \in Seq(S), NEW separators
  PROVE  /\ \A n \in DOMAIN Split(s, separators) :
              IsPiece(s, separators, Split(s, separators)[n])
         /\ \A p : IsPiece(s, separators, p)
              => \E n \in DOMAIN Split(s, separators) :
                   Split(s, separators)[n] = p
         /\ \E b : /\ Between(s, separators, 0, b)
                   /\ Split(s, separators)[1] = SubSeq(s, 1, b - 1)
<1>1. PICK k, ends : Ends(s, separators, k, ends)
  BY SplitEnds
<1>2. PICK pieces : /\ pieces = Split(s, separators)
                    /\ DOMAIN pieces = 1 .. k
                    /\ \A n \in 1 .. k :
                         pieces[n] = SubSeq(s, ends[n] + 1, ends[n + 1] - 1)
  <2>1. Split(s, separators)
          = [n \in 1 .. k |-> SubSeq(s, ends[n] + 1, ends[n + 1] - 1)]
    BY <1>1 DEF Ends
  <2> QED
    BY <2>1
<1>3. \A n \in 1 .. k : Between(s, separators, ends[n], ends[n + 1])
  BY <1>1 DEF Ends
<1>4. \A n \in 1 .. k : IsPiece(s, separators, pieces[n])
  BY <1>2, <1>3 DEF IsPiece
<1>5. ASSUME NEW p, IsPiece(s, separators, p)
      PROVE  \E n \in 1 .. k : pieces[n] = p
  <2>1. PICK a, b : /\ Between(s, separators, a, b)
                    /\ p = SubSeq(s, a + 1, b - 1)
    BY <1>5 DEF IsPiece
  <2>2. PICK n \in 1 .. k : ends[n] = a /\ ends[n + 1] = b
    BY <2>1, <1>1 DEF Ends
  <2> QED
    BY <2>1, <2>2, <1>2
<1>6. 1 \in 1 .. k /\ 0 + 1 = 1 /\ 1 + 1 = 2
  BY <1>1 DEF Ends
<1>7. ends[1] = 0
  BY <1>1 DEF Ends
<1>8. Between(s, separators, 0, ends[2])
  BY <1>3, <1>6, <1>7
<1>9. pieces[1] = SubSeq(s, 1, ends[2] - 1)
  BY <1>2, <1>6, <1>7
<1> QED
  BY <1>2, <1>4, <1>5, <1>8, <1>9

(* What is at a to b in s is d further on in t.                            *)
Shifted(s, t, d, a, b) == \A i \in a .. b : t[i + d] = s[i]

LEMMA SameSlice ==
  ASSUME NEW S, NEW s \in Seq(S), NEW t \in Seq(S), NEW d \in Int,
         NEW a \in Int, NEW b \in Int, 1 <= a, b <= Len(s),
         1 <= a + d, b + d <= Len(t), Shifted(s, t, d, a, b)
  PROVE  SubSeq(t, a + d, b + d) = SubSeq(s, a, b)
<1>1. \A i \in a .. b : s[i] \in S
  OBVIOUS
<1>2. PICK c \in Int, e \in Int : c = a + d /\ e = b + d
  OBVIOUS
<1>3. \A i \in c .. e : t[i] \in S
  <2>1. \A i \in c .. e : i \in 1 .. Len(t)
    BY <1>2
  <2> QED
    BY <2>1
<1>4. PICK n \in Nat : /\ n = IF a <= b THEN b - a + 1 ELSE 0
                       /\ n = IF c <= e THEN e - c + 1 ELSE 0
  <2>1. (a <= b <=> c <= e) /\ b - a = e - c
    BY <1>2
  <2>2. CASE a <= b
    <3>1. b - a + 1 \in Nat
      BY <2>2
    <3> QED
      BY <3>1, <2>1, <2>2
  <2>3. CASE ~ (a <= b)
    BY <2>1, <2>3
  <2> QED
    BY <2>2, <2>3
<1>5. PICK p \in Seq(S) :
        /\ p = SubSeq(s, a, b) /\ Len(p) = n
        /\ \A i \in 1 .. n : p[i] = s[a + i - 1]
  <2>1. /\ SubSeq(s, a, b) \in Seq(S) /\ Len(SubSeq(s, a, b)) = n
        /\ \A i \in 1 .. b - a + 1 : SubSeq(s, a, b)[i] = s[a + i - 1]
    BY <1>1, <1>4, SubSeqProperties
  <2>2. \A i \in 1 .. n : i \in 1 .. b - a + 1
    BY <1>4
  <2> QED
    BY <2>1, <2>2
<1>6. PICK q \in Seq(S) :
        /\ q = SubSeq(t, c, e) /\ Len(q) = n
        /\ \A i \in 1 .. n : q[i] = t[c + i - 1]
  <2>1. /\ SubSeq(t, c, e) \in Seq(S) /\ Len(SubSeq(t, c, e)) = n
        /\ \A i \in 1 .. e - c + 1 : SubSeq(t, c, e)[i] = t[c + i - 1]
    BY <1>3, <1>4, SubSeqProperties
  <2>2. \A i \in 1 .. n : i \in 1 .. e - c + 1
    BY <1>4
  <2> QED
    BY <2>1, <2>2
<1>7. ASSUME NEW i \in 1 .. n PROVE p[i] = q[i]
  <2>1. a + i - 1 \in a .. b /\ c + i - 1 = (a + i - 1) + d
    BY <1>2, <1>4
  <2>2. t[(a + i - 1) + d] = s[a + i - 1]
    BY <2>1 DEF Shifted
  <2> QED
    BY <2>1, <2>2, <1>5, <1>6
<1>8. p = q
  BY <1>5, <1>6, <1>7, SeqEqual
<1> QED
  BY <1>2, <1>5, <1>6, <1>8

(* s is the part of t that begins behind the place d and is set off by     *)
(* separators from what is in front of it and behind it.                   *)
PartOf(s, t, separators, d) ==
  /\ d + Len(s) <= Len(t)
  /\ Shifted(s, t, d, 1, Len(s))
  /\ d # 0 => t[d] \in separators
  /\ d + Len(s) # Len(t) => t[d + Len(s) + 1] \in separators

LEMMA PartPieces ==
  ASSUME NEW S, NEW s \in Seq(S), NEW t \in Seq(S), NEW separators,
         NEW d \in Nat, PartOf(s, t, separators, d),
         NEW a \in 0 .. Len(s), NEW b \in 1 .. Len(s) + 1
  PROVE  /\ Between(t, separators, a + d, b + d)
              <=> Between(s, separators, a, b)
         /\ SubSeq(t, a + d + 1, b + d - 1) = SubSeq(s, a + 1, b - 1)
<1>1. PICK l \in Nat, k \in Nat :
        /\ l = Len(s) /\ k = Len(t)
        /\ d + l <= k /\ (d + l # k => t[d + l + 1] \in separators)
        /\ Shifted(s, t, d, 1, l) /\ (d # 0 => t[d] \in separators)
  BY DEF PartOf
<1>2. PICK c \in Nat, e \in Nat : c = a + d /\ e = b + d
  OBVIOUS
<1>3. /\ c \in 0 .. k /\ e \in 1 .. k + 1
      /\ (c < e <=> a < b)
  BY <1>1, <1>2
<1>4. (c # 0 => t[c] \in separators) <=> (a # 0 => s[a] \in separators)
  <2>1. CASE a = 0
    <3>1. c = d
      BY <2>1, <1>2
    <3> QED
      BY <3>1, <2>1, <1>1
  <2>2. CASE a # 0
    <3>1. a \in 1 .. l /\ c # 0
      BY <2>2, <1>1, <1>2
    <3>2. t[c] = s[a]
      BY <3>1, <1>1, <1>2 DEF Shifted
    <3> QED
      BY <3>1, <3>2, <2>2
  <2> QED
    BY <2>1, <2>2
<1>5. (e # k + 1 => t[e] \in separators)
        <=> (b # l + 1 => s[b] \in separators)
  <2>1. CASE b = l + 1
    <3>1. e = d + l + 1
      BY <2>1, <1>2
    <3>2. e # k + 1 => d + l # k
      BY <3>1
    <3>3. e # k + 1 => t[e] \in separators
      BY <3>1, <3>2, <1>1
    <3> QED
      BY <3>3, <2>1
  <2>2. CASE b # l + 1
    <3>1. b \in 1 .. l
      BY <2>2, <1>1
    <3>4. e # k + 1
      BY <3>1, <1>1, <1>2
    <3>2. t[e] = s[b]
      BY <3>1, <1>1, <1>2 DEF Shifted
    <3> QED
      BY <3>2, <3>4, <2>2
  <2> QED
    BY <2>1, <2>2
<1>6. Shifted(s, t, d, a + 1, b - 1)
  <2>1. \A j \in a + 1 .. b - 1 : j \in 1 .. Len(s)
    BY <1>1
  <2> QED
    BY <2>1, <1>1 DEF Shifted
<1>7. (\A j \in c + 1 .. e - 1 : t[j] \notin separators)
        <=> (\A j \in a + 1 .. b - 1 : s[j] \notin separators)
  <2>1. ASSUME NEW j \in c + 1 .. e - 1
        PROVE  \E i \in a + 1 .. b - 1 : j = i + d
    <3>1. j - d \in a + 1 .. b - 1 /\ j = (j - d) + d
      BY <1>2
    <3> QED
      BY <3>1
  <2>2. \A i \in a + 1 .. b - 1 : i + d \in c + 1 .. e - 1
    BY <1>2
  <2> QED
    BY <2>1, <2>2, <1>6 DEF Shifted
<1>8. Between(t, separators, c, e) <=> Between(s, separators, a, b)
  BY <1>1, <1>3, <1>4, <1>5, <1>7 DEF Between
<1>9. SubSeq(t, c + 1, e - 1) = SubSeq(s, a + 1, b - 1)
  <2>1. PICK f \in Int, g \in Int : f = a + 1 /\ g = b - 1
    OBVIOUS
  <2>2. /\ 1 <= f /\ g <= Len(s) /\ 1 <= f + d /\ g + d <= Len(t) /\ d \in Int
        /\ f + d = c + 1 /\ g + d = e - 1
    BY <2>1, <1>1, <1>2
  <2>3. Shifted(s, t, d, f, g)
    BY <2>1, <1>6
  <2>4. SubSeq(t, f + d, g + d) = SubSeq(s, f, g)
    BY <2>2, <2>3, SameSlice
  <2> QED
    BY <2>1, <2>2, <2>4
<1> QED
  BY <1>2, <1>8, <1>9

(* The pieces of a text put together around a separator.                   *)
LEMMA GluedPieces ==
  ASSUME NEW S, NEW u \in Seq(S), NEW v \in Seq(S), NEW separators,
         NEW w \in Seq(S), Len(w) = 1, w[1] \in separators, NEW p
  PROVE  IsPiece(u \o w \o v, separators, p)
           <=> IsPiece(u, separators, p) \/ IsPiece(v, separators, p)
<1>1. PICK m \in Nat, l \in Nat : m = Len(u) /\ l = Len(v)
  OBVIOUS
<1>2. PICK r \in Seq(S) :
        /\ r = u \o w
        /\ Len(r) = m + 1
        /\ \A i \in 1 .. m : r[i] = u[i]
        /\ r[m + 1] = w[1]
  <2>0. /\ u \o w \in Seq(S) /\ Len(u \o w) = Len(u) + Len(w)
        /\ \A i \in 1 .. Len(u) + Len(w) :
             (u \o w)[i] = IF i <= Len(u) THEN u[i] ELSE w[i - Len(u)]
    BY ConcatProperties
  <2>1. /\ u \o w \in Seq(S) /\ Len(u \o w) = m + 1
        /\ \A i \in 1 .. m + 1 :
             (u \o w)[i] = IF i <= m THEN u[i] ELSE w[i - m]
    BY <2>0, <1>1
  <2>2. m + 1 \in 1 .. m + 1 /\ ~ (m + 1 <= m) /\ (m + 1) - m = 1
        /\ \A i \in 1 .. m : i \in 1 .. m + 1 /\ i <= m
    OBVIOUS
  <2> QED
    BY <2>1, <2>2
<1>3. PICK n \in Nat : n = m + 1
  OBVIOUS
<1>4. PICK t \in Seq(S) :
        /\ t = u \o w \o v
        /\ Len(t) = n + l
        /\ \A i \in 1 .. n : t[i] = r[i]
        /\ Shifted(v, t, n, 1, l)
  <2>0. /\ r \o v \in Seq(S) /\ Len(r \o v) = Len(r) + Len(v)
        /\ \A i \in 1 .. Len(r) + Len(v) :
             (r \o v)[i] = IF i <= Len(r) THEN r[i] ELSE v[i - Len(r)]
    BY ConcatProperties
  <2>1. /\ r \o v \in Seq(S) /\ Len(r \o v) = n + l
        /\ \A i \in 1 .. n + l :
             (r \o v)[i] = IF i <= n THEN r[i] ELSE v[i - n]
    BY <2>0, <1>1, <1>2, <1>3
  <2>2. \A i \in 1 .. n : i \in 1 .. n + l /\ i <= n
    OBVIOUS
  <2>3. \A i \in 1 .. l : i + n \in 1 .. n + l /\ ~ (i + n <= n)
                          /\ (i + n) - n = i
    OBVIOUS
  <2>4. Shifted(v, r \o v, n, 1, l)
    BY <2>1, <2>3 DEF Shifted
  <2> QED
    BY <2>1, <2>2, <2>4, <1>2
<1>5. /\ Len(t) = m + 1 + l
      /\ \A i \in 1 .. m : t[i] = u[i]
      /\ t[m + 1] \in separators
      /\ Shifted(v, t, m + 1, 1, l)
  <2>1. n \in 1 .. n /\ \A i \in 1 .. m : i \in 1 .. n
    BY <1>3
  <2> QED
    BY <2>1, <1>2, <1>3, <1>4
<1>6. ASSUME NEW a \in 0 .. m, NEW b \in 1 .. m + 1
      PROVE  /\ Between(t, separators, a, b) <=> Between(u, separators, a, b)
             /\ SubSeq(t, a + 1, b - 1) = SubSeq(u, a + 1, b - 1)
  <2>1. PICK d \in Nat : d = 0
    OBVIOUS
  <2>2. Len(u) = m /\ d + Len(u) = m /\ a + d = a /\ b + d = b
    BY <2>1, <1>1
  <2>3. Shifted(u, t, d, 1, Len(u))
    <3>1. \A i \in 1 .. m : i + d = i /\ t[i] = u[i]
      BY <2>1, <1>5
    <3> QED
      BY <3>1, <2>2 DEF Shifted
  <2>4. PartOf(u, t, separators, d)
    BY <2>1, <2>2, <2>3, <1>5 DEF PartOf
  <2>5. /\ Between(t, separators, a + d, b + d)
             <=> Between(u, separators, a, b)
        /\ SubSeq(t, a + d + 1, b + d - 1) = SubSeq(u, a + 1, b - 1)
    <3>1. a \in 0 .. Len(u) /\ b \in 1 .. Len(u) + 1
      BY <2>2
    <3> QED
      BY <3>1, <2>4, PartPieces
  <2> QED
    BY <2>2, <2>5
<1>7. PICK d \in Nat : d = m + 1
  OBVIOUS
<1>8. ASSUME NEW a \in 0 .. l, NEW b \in 1 .. l + 1
      PROVE  /\ Between(t, separators, a + d, b + d)
                  <=> Between(v, separators, a, b)
             /\ SubSeq(t, a + d + 1, b + d - 1) = SubSeq(v, a + 1, b - 1)
  <2>1. PartOf(v, t, separators, d)
    BY <1>1, <1>5, <1>7 DEF PartOf
  <2>2. a \in 0 .. Len(v) /\ b \in 1 .. Len(v) + 1
    BY <1>1
  <2> QED
    BY <2>1, <2>2, PartPieces
<1>9. ASSUME NEW a, NEW b, Between(t, separators, a, b)
      PROVE  \/ a \in 0 .. m /\ b \in 1 .. m + 1
             \/ /\ a - d \in 0 .. l /\ b - d \in 1 .. l + 1
                /\ a = (a - d) + d /\ b = (b - d) + d
  <2>1. /\ a \in 0 .. m + 1 + l /\ b \in 1 .. m + 1 + l + 1 /\ a < b
        /\ \A j \in a + 1 .. b - 1 : t[j] \notin separators
    BY <1>5, <1>9 DEF Between
  <2>2. ~ (m + 1 \in a + 1 .. b - 1)
    BY <2>1, <1>5
  <2>3. b <= m + 1 \/ m + 1 <= a
    BY <2>1, <2>2
  <2>4. CASE b <= m + 1
    BY <2>1, <2>4
  <2>5. CASE m + 1 <= a
    BY <2>1, <2>5, <1>7
  <2> QED
    BY <2>3, <2>4, <2>5
<1>10. ASSUME IsPiece(t, separators, p)
       PROVE  IsPiece(u, separators, p) \/ IsPiece(v, separators, p)
  <2>1. PICK a, b : Between(t, separators, a, b) /\ p = SubSeq(t, a + 1, b - 1)
    BY <1>10 DEF IsPiece
  <2>2. CASE a \in 0 .. m /\ b \in 1 .. m + 1
    BY <2>1, <2>2, <1>6 DEF IsPiece
  <2>3. ASSUME NEW i \in 0 .. l, NEW j \in 1 .. l + 1, a = i + d, b = j + d
        PROVE  IsPiece(v, separators, p)
    <3>1. Between(v, separators, i, j) /\ p = SubSeq(v, i + 1, j - 1)
      BY <2>1, <2>3, <1>8
    <3> QED
      BY <3>1 DEF IsPiece
  <2>4. \/ a \in 0 .. m /\ b \in 1 .. m + 1
        \/ /\ a - d \in 0 .. l /\ b - d \in 1 .. l + 1
           /\ a = (a - d) + d /\ b = (b - d) + d
    BY <2>1, <1>9
  <2> QED
    BY <2>2, <2>3, <2>4
<1>11. ASSUME IsPiece(u, separators, p) PROVE IsPiece(t, separators, p)
  <2>1. PICK a, b : Between(u, separators, a, b) /\ p = SubSeq(u, a + 1, b - 1)
    BY <1>11 DEF IsPiece
  <2>2. a \in 0 .. m /\ b \in 1 .. m + 1
    BY <2>1, <1>1 DEF Between
  <2> QED
    BY <2>1, <2>2, <1>6 DEF IsPiece
<1>12. ASSUME IsPiece(v, separators, p) PROVE IsPiece(t, separators, p)
  <2>1. PICK a, b : Between(v, separators, a, b) /\ p = SubSeq(v, a + 1, b - 1)
    BY <1>12 DEF IsPiece
  <2>2. a \in 0 .. l /\ b \in 1 .. l + 1
    BY <2>1, <1>1 DEF Between
  <2>3. /\ Between(t, separators, a + d, b + d)
        /\ p = SubSeq(t, (a + d) + 1, (b + d) - 1)
    BY <2>1, <2>2, <1>8
  <2> QED
    BY <2>3 DEF IsPiece
<1> QED
  BY <1>4, <1>10, <1>11, <1>12

LEMMA KeptHas ==
  ASSUME NEW S, NEW s \in Seq(S), NEW places \in SUBSET DOMAIN s
  PROVE  /\ \A n \in DOMAIN Kept(s, places) :
              \E i \in places : Kept(s, places)[n] = s[i]
         /\ \A i \in places :
              \E n \in DOMAIN Kept(s, places) : Kept(s, places)[n] = s[i]
<1>1. DOMAIN s = 1 .. Len(s) /\ Len(s) \in Nat
  OBVIOUS
<1>2. IsFiniteSet(places) /\ places \in SUBSET Int
  <2>1. places \in SUBSET (0 .. Len(s))
    BY <1>1
  <2> QED
    BY <2>1, <1>1, Places
<1>3. PICK k \in Nat : /\ InOrder(places) \in [1 .. k -> places]
                       /\ \A e \in places :
                            \E n \in 1 .. k : InOrder(places)[n] = e
  BY <1>2, Ordering
<1>4. PICK order : order = InOrder(places)
  OBVIOUS
<1>5. PICK kept : kept = Kept(s, places)
  OBVIOUS
<1>6. DOMAIN kept = 1 .. k /\ \A n \in 1 .. k : kept[n] = s[order[n]]
  BY <1>3, <1>4, <1>5 DEF Kept
<1>7. \A n \in 1 .. k : order[n] \in places
  BY <1>3, <1>4
<1>8. \A e \in places : \E n \in 1 .. k : order[n] = e
  BY <1>3, <1>4
<1> QED
  BY <1>5, <1>6, <1>7, <1>8

LEMMA FindIs ==
  ASSUME NEW S, NEW s \in Seq(S), NEW t, NEW n \in 1 .. Len(s), s[n] = t,
         \A i \in 1 .. n - 1 : s[i] # t
  PROVE  Find(s, t) = n
<1>1. PICK f \in 0 .. Len(s) :
        /\ f = Find(s, t)
        /\ f = 0 => \A i \in 1 .. Len(s) : s[i] # t
        /\ f # 0 => s[f] = t /\ \A i \in 1 .. f - 1 : s[i] # t
  BY Found
<1>2. f # 0
  BY <1>1
<1>3. s[f] = t /\ \A i \in 1 .. f - 1 : s[i] # t
  BY <1>1, <1>2
<1>4. ~ (n < f)
  <2>1. n < f => n \in 1 .. f - 1
    OBVIOUS
  <2> QED
    BY <2>1, <1>3
<1>5. ~ (f < n)
  <2>1. f < n => f \in 1 .. n - 1
    BY <1>2
  <2> QED
    BY <2>1, <1>3
<1> QED
  BY <1>1, <1>4, <1>5

(* a and b are the places of the first and the last token of s that is no  *)
(* space.                                                                  *)
Ink(s, space, a, b) ==
  /\ a \in 1 .. Len(s) /\ b \in 1 .. Len(s)
  /\ s[a] \notin space /\ s[b] \notin space
  /\ \A i \in 1 .. Len(s) : s[i] \notin space => a <= i /\ i <= b

LEMMA TrimIs ==
  ASSUME NEW S, NEW s \in Seq(S), NEW space
  PROVE  /\ (\A i \in 1 .. Len(s) : s[i] \in space) => trim(s, space) = <<>>
         /\ \A a, b : Ink(s, space, a, b) => trim(s, space) = SubSeq(s, a, b)
         /\ (\E i \in 1 .. Len(s) : s[i] \notin space)
              => \E a, b : Ink(s, space, a, b)
<1>1. PICK l \in Nat : l = Len(s) /\ DOMAIN s = 1 .. l
  OBVIOUS
<1>2. PICK kept : kept = {i \in DOMAIN s : s[i] \notin space}
  OBVIOUS
<1>3. /\ \A i : i \in kept <=> i \in 1 .. l /\ s[i] \notin space
      /\ kept \in SUBSET (0 .. l)
  BY <1>1, <1>2
<1>4. kept # {} => /\ Min(kept) \in kept /\ \A n \in kept : Min(kept) <= n
                   /\ Max(kept) \in kept /\ \A n \in kept : n <= Max(kept)
  BY <1>3, Places, MinMax
<1>5. trim(s, space) = IF kept = {} THEN <<>>
                       ELSE SubSeq(s, Min(kept), Max(kept))
  BY <1>2 DEF trim
<1>6. (\A i \in 1 .. l : s[i] \in space) => trim(s, space) = <<>>
  BY <1>3, <1>5
<1>7. kept # {} => Ink(s, space, Min(kept), Max(kept))
  <2> SUFFICES ASSUME kept # {} PROVE Ink(s, space, Min(kept), Max(kept))
    OBVIOUS
  <2>1. PICK a \in kept, b \in kept :
          /\ a = Min(kept) /\ b = Max(kept)
          /\ \A n \in kept : a <= n /\ n <= b
    BY <1>4
  <2>2. a \in 1 .. l /\ b \in 1 .. l /\ s[a] \notin space /\ s[b] \notin space
    BY <1>3
  <2>3. \A i \in 1 .. l : s[i] \notin space => a <= i /\ i <= b
    BY <2>1, <1>3
  <2> QED
    BY <2>1, <2>2, <2>3, <1>1 DEF Ink
<1>8. ASSUME NEW a, NEW b, Ink(s, space, a, b)
      PROVE  trim(s, space) = SubSeq(s, a, b)
  <2>1. /\ a \in 1 .. l /\ b \in 1 .. l
        /\ s[a] \notin space /\ s[b] \notin space
        /\ \A i \in 1 .. l : s[i] \notin space => a <= i /\ i <= b
    BY <1>1, <1>8 DEF Ink
  <2>2. a \in kept /\ b \in kept
    BY <2>1, <1>3
  <2>3. PICK c \in kept, e \in kept :
          /\ c = Min(kept) /\ e = Max(kept)
          /\ \A n \in kept : c <= n /\ n <= e
    BY <2>2, <1>4
  <2>4. c \in 1 .. l /\ e \in 1 .. l /\ s[c] \notin space /\ s[e] \notin space
    BY <1>3
  <2>5. a <= c /\ c <= a /\ e <= b /\ b <= e
    BY <2>1, <2>2, <2>3, <2>4
  <2>6. a = c /\ b = e
    BY <2>1, <2>4, <2>5
  <2> QED
    BY <2>2, <2>3, <2>6, <1>5
<1>9. (\E i \in 1 .. l : s[i] \notin space) => kept # {}
  BY <1>3
<1> QED
  BY <1>1, <1>6, <1>7, <1>8, <1>9

(* Spaces at the end do not matter to trim.                                *)
LEMMA TrimSlice ==
  ASSUME NEW S, NEW w \in Seq(S), NEW t \in Seq(S), NEW space,
         NEW b \in Nat, b <= Len(w), Len(t) = b, Shifted(t, w, 0, 1, b),
         \A i \in b + 1 .. Len(w) : w[i] \in space
  PROVE  trim(t, space) = trim(w, space)
<1>1. PICK l \in Nat : l = Len(w) /\ b <= l
  OBVIOUS
<1>2. \A i \in 1 .. b : i \in 1 .. l /\ w[i] = t[i]
  BY <1>1 DEF Shifted
<1>3. \A i \in 1 .. l : w[i] \notin space => i \in 1 .. b
  <2>1. \A i \in 1 .. l : i \in 1 .. b \/ i \in b + 1 .. l
    BY <1>1
  <2> QED
    BY <2>1, <1>1
<1>4. CASE \A i \in 1 .. b : t[i] \in space
  <2>1. \A i \in 1 .. l : w[i] \in space
    BY <1>2, <1>3, <1>4
  <2>2. trim(w, space) = <<>>
    BY <2>1, <1>1, TrimIs
  <2>3. trim(t, space) = <<>>
    BY <1>4, TrimIs
  <2> QED
    BY <2>2, <2>3
<1>5. CASE \E i \in 1 .. b : t[i] \notin space
  <2>1. PICK c, e : Ink(t, space, c, e)
    BY <1>5, TrimIs
  <2>2. /\ c \in 1 .. b /\ e \in 1 .. b
        /\ t[c] \notin space /\ t[e] \notin space
        /\ \A i \in 1 .. b : t[i] \notin space => c <= i /\ i <= e
    BY <2>1 DEF Ink
  <2>3. Ink(w, space, c, e)
    <3>1. c \in 1 .. l /\ e \in 1 .. l /\ w[c] = t[c] /\ w[e] = t[e]
      BY <2>2, <1>2
    <3>2. \A i \in 1 .. l : w[i] \notin space => c <= i /\ i <= e
      BY <2>2, <1>2, <1>3
    <3> QED
      BY <3>1, <3>2, <2>2, <1>1 DEF Ink
  <2>4. SubSeq(w, c, e) = SubSeq(t, c, e)
    <3>1. c + 0 = c /\ e + 0 = e /\ c \in Int /\ e \in Int /\ 0 \in Int
          /\ 1 <= c /\ e <= Len(t) /\ e <= Len(w)
      BY <2>2, <1>1
    <3>2. Shifted(t, w, 0, c, e)
      <4>1. \A i \in c .. e : i + 0 = i /\ i \in 1 .. b
        BY <2>2
      <4> QED
        BY <4>1, <1>2 DEF Shifted
    <3>3. SubSeq(w, c + 0, e + 0) = SubSeq(t, c, e)
      BY <3>1, <3>2, SameSlice
    <3> QED
      BY <3>1, <3>3
  <2>5. trim(w, space) = SubSeq(w, c, e)
    BY <2>3, TrimIs
  <2>6. trim(t, space) = SubSeq(t, c, e)
    BY <2>1, TrimIs
  <2> QED
    BY <2>4, <2>5, <2>6
<1> QED
  BY <1>4, <1>5

-----------------------------------------------------------------------------
(* Fields.                                                                 *)

Field(k, v) == <<k, "=">> \o v

LEMMA FieldText ==
  ASSUME NEW S, NEW k \in S, "=" \in S, NEW v \in Seq(S)
  PROVE  /\ Field(k, v) \in Seq(S)
         /\ Len(Field(k, v)) = Len(v) + 2
         /\ Field(k, v)[1] = k /\ Field(k, v)[2] = "="
         /\ \A i \in 1 .. Len(v) : Field(k, v)[i + 2] = v[i]
<1>1. PICK l \in Nat : l = Len(v)
  OBVIOUS
<1>2. PICK head \in Seq(S) : /\ head = <<k, "=">> /\ Len(head) = 2
                             /\ head[1] = k /\ head[2] = "="
  <2>1. <<k, "=">> \in Seq(S)
    OBVIOUS
  <2> QED
    BY <2>1
<1>3. PICK f : f = head \o v
  OBVIOUS
<1>4. /\ f \in Seq(S) /\ Len(f) = Len(head) + Len(v)
      /\ \A i \in 1 .. Len(head) + Len(v) :
           f[i] = IF i <= Len(head) THEN head[i] ELSE v[i - Len(head)]
  BY <1>3, ConcatProperties
<1>5. /\ f \in Seq(S) /\ Len(f) = 2 + l
      /\ \A i \in 1 .. 2 + l : f[i] = IF i <= 2 THEN head[i] ELSE v[i - 2]
  BY <1>1, <1>2, <1>4
<1>6. /\ 1 \in 1 .. 2 + l /\ 2 \in 1 .. 2 + l
      /\ \A i \in 1 .. l : i + 2 \in 1 .. 2 + l /\ ~ (i + 2 <= 2)
                           /\ (i + 2) - 2 = i
  OBVIOUS
<1>7. f[1] = k /\ f[2] = "=" /\ \A i \in 1 .. l : f[i + 2] = v[i]
  BY <1>2, <1>5, <1>6
<1>8. f = Field(k, v)
  BY <1>2, <1>3 DEF Field
<1> QED
  BY <1>1, <1>5, <1>7, <1>8

(* What the parsers make of a field.                                       *)
LEMMA FieldRead ==
  ASSUME NEW S, NEW k \in S, "=" \in S, NEW v \in Seq(S), NEW space,
         k \notin space, k # "=", "=" \notin space
  PROVE  \E q \in Seq(S) :
           /\ q = trim(Field(k, v), space)
           /\ Find(q, "=") = 2
           /\ trim(Before(q, 2), space) = <<k>>
           /\ trim(After(q, 2), space) = trim(v, space)
<1>1. PICK l \in Nat : l = Len(v)
  OBVIOUS
<1>2. PICK f \in Seq(S) : /\ f = Field(k, v) /\ Len(f) = l + 2
                          /\ f[1] = k /\ f[2] = "="
                          /\ \A i \in 1 .. l : f[i + 2] = v[i]
  BY <1>1, FieldText
<1>3. PICK a, b : Ink(f, space, a, b)
  <2>1. 1 \in 1 .. Len(f) /\ f[1] \notin space
    BY <1>2
  <2> QED
    BY <2>1, TrimIs
<1>4. /\ a = 1 /\ b \in 2 .. l + 2
      /\ \A i \in 1 .. l + 2 : f[i] \notin space => i <= b
  <2>1. /\ a \in 1 .. l + 2 /\ b \in 1 .. l + 2
        /\ \A i \in 1 .. l + 2 : f[i] \notin space => a <= i /\ i <= b
    BY <1>2, <1>3 DEF Ink
  <2>2. a <= 1 /\ 2 <= b
    <3>1. 1 \in 1 .. l + 2 /\ 2 \in 1 .. l + 2
      OBVIOUS
    <3> QED
      BY <3>1, <2>1, <1>2
  <2> QED
    BY <2>1, <2>2
<1>5. PICK q \in Seq(S) : /\ q = trim(f, space) /\ Len(q) = b
                          /\ \A i \in 1 .. b : q[i] = f[i]
  <2>1. trim(f, space) = SubSeq(f, 1, b)
    BY <1>3, <1>4, TrimIs
  <2>2. b \in Nat /\ b <= Len(f)
    BY <1>2, <1>4
  <2>3. /\ SubSeq(f, 1, b) \in Seq(S) /\ Len(SubSeq(f, 1, b)) = b
        /\ \A i \in 1 .. b : SubSeq(f, 1, b)[i] = f[i]
    BY <2>2
  <2> QED
    BY <2>1, <2>3
<1>6. 1 \in 1 .. b /\ 2 \in 1 .. b /\ q[1] = k /\ q[2] = "="
  BY <1>2, <1>4, <1>5
<1>7. Find(q, "=") = 2
  <2>1. 2 \in 1 .. Len(q)
    BY <1>5, <1>6
  <2>2. \A i \in 1 .. 2 - 1 : q[i] # "="
    BY <1>6
  <2> QED
    BY <2>1, <2>2, <1>6, FindIs
<1>8. trim(Before(q, 2), space) = <<k>>
  <2>1. PICK p \in Seq(S) : p = <<k>> /\ Len(p) = 1 /\ p[1] = k
    <3>1. <<k>> \in Seq(S)
      OBVIOUS
    <3> QED
      BY <3>1
  <2>2. Before(q, 2) = p
    <3>1. Before(q, 2) = SubSeq(q, 1, 1)
      BY DEF Before
    <3>2. /\ SubSeq(q, 1, 1) \in Seq(S) /\ Len(SubSeq(q, 1, 1)) = 1
          /\ SubSeq(q, 1, 1)[1] = k
      BY <1>5, <1>6
    <3> QED
      BY <3>1, <3>2, <2>1
  <2>3. Ink(p, space, 1, 1)
    BY <2>1 DEF Ink
  <2>4. trim(p, space) = SubSeq(p, 1, 1)
    BY <2>3, TrimIs
  <2>5. SubSeq(p, 1, 1) = p
    BY <2>1, SubSeqFull
  <2> QED
    BY <2>1, <2>2, <2>4, <2>5
<1>9. trim(After(q, 2), space) = trim(v, space)
  <2>1. PICK c \in Nat : c = b - 2 /\ c <= l
    BY <1>4
  <2>2. PICK t \in Seq(S) : /\ t = After(q, 2) /\ Len(t) = c
                            /\ \A i \in 1 .. c : t[i] = q[i + 2]
    <3>1. After(q, 2) = SubSeq(q, 3, b)
      BY <1>5 DEF After
    <3>2. /\ SubSeq(q, 3, b) \in Seq(S) /\ Len(SubSeq(q, 3, b)) = c
          /\ \A i \in 1 .. c : SubSeq(q, 3, b)[i] = q[i + 2]
      BY <1>4, <1>5, <2>1
    <3> QED
      BY <3>1, <3>2
  <2>3. Shifted(t, v, 0, 1, c)
    <3>1. ASSUME NEW i \in 1 .. c PROVE v[i + 0] = t[i]
      <4>1. i \in 1 .. l /\ i + 2 \in 1 .. b /\ i + 0 = i
        BY <2>1, <1>4
      <4> QED
        BY <4>1, <2>2, <1>2, <1>5
    <3> QED
      BY <3>1 DEF Shifted
  <2>4. ASSUME NEW i \in c + 1 .. l PROVE v[i] \in space
    <3>1. i \in 1 .. l /\ i + 2 \in 1 .. l + 2 /\ ~ (i + 2 <= b)
      BY <2>1, <2>4, <1>4
    <3>2. f[i + 2] \in space
      BY <3>1, <1>4
    <3> QED
      BY <3>1, <3>2, <1>2
  <2>5. trim(t, space) = trim(v, space)
    BY <2>1, <2>2, <2>3, <2>4, <1>1, TrimSlice
  <2> QED
    BY <2>2, <2>5
<1> QED
  BY <1>2, <1>5, <1>7, <1>8, <1>9

(* A text without separators is one piece.                                 *)
LEMMA WholePiece ==
  ASSUME NEW S, NEW s \in Seq(S), NEW separators,
         \A i \in 1 .. Len(s) : s[i] \notin separators, NEW p
  PROVE  IsPiece(s, separators, p) <=> p = s
<1>1. PICK l \in Nat : l = Len(s)
  OBVIOUS
<1>2. SubSeq(s, 0 + 1, (l + 1) - 1) = s
  <2>1. 0 + 1 = 1 /\ (l + 1) - 1 = Len(s)
    BY <1>1
  <2> QED
    BY <2>1, SubSeqFull
<1>3. Between(s, separators, 0, l + 1)
  <2>1. /\ 0 \in 0 .. l /\ l + 1 \in 1 .. l + 1 /\ 0 < l + 1
        /\ \A j \in 0 + 1 .. (l + 1) - 1 : j \in 1 .. l
    OBVIOUS
  <2> QED
    BY <2>1, <1>1 DEF Between
<1>4. ASSUME NEW a, NEW b, Between(s, separators, a, b)
      PROVE  a = 0 /\ b = l + 1
  <2>1. /\ a \in 0 .. l /\ b \in 1 .. l + 1
        /\ a # 0 => s[a] \in separators
        /\ b # l + 1 => s[b] \in separators
    BY <1>1, <1>4 DEF Between
  <2>2. (a # 0 => a \in 1 .. l) /\ (b # l + 1 => b \in 1 .. l)
    BY <2>1
  <2> QED
    BY <2>1, <2>2, <1>1
<1> QED
  BY <1>2, <1>3, <1>4 DEF IsPiece

(* A value up to its first semicolon, and the rest behind it.              *)
Parted(v, w, semi, rest) ==
  /\ w = Split(v, {"SEMI"})[1] /\ rest = Rest(v) /\ semi = <<"SEMI">>
  /\ \A i \in 1 .. Len(w) : w[i] # "SEMI"
  /\ Find(v, "SEMI") = 0 => v = w /\ rest = <<>>
  /\ Find(v, "SEMI") # 0 => v = w \o semi \o rest

LEMMA RestOf ==
  ASSUME NEW S, NEW v \in Seq(S), "SEMI" \in S
  PROVE  \E w \in Seq(S), semi \in Seq(S), rest \in Seq(S) :
           Parted(v, w, semi, rest)
<1>1. PICK l \in Nat : l = Len(v)
  OBVIOUS
<1>2. PICK b : /\ Between(v, {"SEMI"}, 0, b)
               /\ Split(v, {"SEMI"})[1] = SubSeq(v, 1, b - 1)
  BY SplitPieces
<1>3. /\ b \in 1 .. l + 1
      /\ b # l + 1 => v[b] = "SEMI"
      /\ \A j \in 1 .. b - 1 : v[j] # "SEMI"
  <2>1. 0 + 1 = 1
    OBVIOUS
  <2> QED
    BY <2>1, <1>1, <1>2 DEF Between
<1>4. PICK w \in Seq(S) : /\ w = SubSeq(v, 1, b - 1) /\ Len(w) = b - 1
                          /\ \A j \in 1 .. b - 1 : w[j] = v[j]
  <2>1. b - 1 \in Nat /\ b - 1 <= Len(v)
    BY <1>1, <1>3
  <2>2. /\ SubSeq(v, 1, b - 1) \in Seq(S) /\ Len(SubSeq(v, 1, b - 1)) = b - 1
        /\ \A j \in 1 .. b - 1 : SubSeq(v, 1, b - 1)[j] = v[j]
    BY <2>1
  <2> QED
    BY <2>2
<1>5. \A i \in 1 .. Len(w) : w[i] # "SEMI"
  BY <1>3, <1>4
<1>6. PICK semi \in Seq(S) : semi = <<"SEMI">>
  <2>1. <<"SEMI">> \in Seq(S)
    OBVIOUS
  <2> QED
    BY <2>1
<1>7. PICK n \in 0 .. l :
        /\ n = Find(v, "SEMI")
        /\ n = 0 => \A i \in 1 .. l : v[i] # "SEMI"
        /\ n # 0 => v[n] = "SEMI" /\ \A i \in 1 .. n - 1 : v[i] # "SEMI"
  <2>1. /\ Find(v, "SEMI") \in 0 .. l
        /\ Find(v, "SEMI") = 0 => \A i \in 1 .. l : v[i] # "SEMI"
        /\ Find(v, "SEMI") # 0
             => /\ v[Find(v, "SEMI")] = "SEMI"
                /\ \A i \in 1 .. Find(v, "SEMI") - 1 : v[i] # "SEMI"
    BY <1>1, Found
  <2> QED
    BY <2>1
<1>8. CASE n = 0
  <2>1. b = l + 1
    <3>1. b # l + 1 => b \in 1 .. l
      BY <1>3
    <3> QED
      BY <3>1, <1>3, <1>7, <1>8
  <2>2. v = w
    <3>1. b - 1 = Len(v)
      BY <2>1, <1>1
    <3> QED
      BY <3>1, <1>4, SubSeqFull
  <2>3. Rest(v) = <<>> /\ <<>> \in Seq(S)
    BY <1>7, <1>8 DEF Rest
  <2> QED
    BY <2>2, <2>3, <1>2, <1>4, <1>5, <1>6, <1>7, <1>8 DEF Parted
<1>9. CASE n # 0
  <2>1. n \in 1 .. l /\ v[n] = "SEMI" /\ \A i \in 1 .. n - 1 : v[i] # "SEMI"
    BY <1>7, <1>9
  <2>2. b = n
    <3>1. ~ (n < b)
      <4>1. n < b => n \in 1 .. b - 1
        BY <2>1, <1>3
      <4> QED
        BY <4>1, <2>1, <1>3
    <3>2. ~ (b < n)
      <4>1. b < n => b \in 1 .. n - 1 /\ b # l + 1
        BY <2>1, <1>3
      <4> QED
        BY <4>1, <2>1, <1>3
    <3> QED
      BY <3>1, <3>2, <2>1, <1>3
  <2>3. PICK rest \in Seq(S) : rest = Rest(v) /\ rest = SubSeq(v, n + 1, l)
    <3>1. Rest(v) = After(v, n)
      BY <1>7, <1>9 DEF Rest
    <3>2. n \in Nat /\ n <= Len(v) + 1
      BY <2>1, <1>1
    <3>3. After(v, n) \in Seq(S)
      BY <3>2, PartsTyped
    <3> QED
      BY <3>1, <3>3, <1>1 DEF After
  <2>4. SubSeq(v, 1, n) = SubSeq(v, 1, n - 1) \o <<v[n]>>
    <3>1. 1 \in 1 .. Len(v) /\ n \in 1 .. Len(v)
      BY <2>1, <1>1
    <3> QED
      BY <3>1, SubSeqRecursiveSecond
  <2>5. SubSeq(v, 1, n) \o SubSeq(v, n + 1, l) = SubSeq(v, 1, l)
    <3>1. 1 \in 1 .. Len(v) + 1 /\ n \in 1 - 1 .. Len(v) /\ l \in n .. Len(v)
      BY <2>1, <1>1
    <3> QED
      BY <3>1, ConcatAdjacentSubSeq
  <2>6. SubSeq(v, 1, l) = v
    BY <1>1, SubSeqFull
  <2>7. v = w \o semi \o rest
    BY <2>1, <2>2, <2>3, <2>4, <2>5, <2>6, <1>4, <1>6
  <2> QED
    BY <2>3, <2>7, <1>2, <1>4, <1>5, <1>6, <1>7, <1>9 DEF Parted
<1> QED
  BY <1>8, <1>9

Associate(t, u, v) == t \o (u \o v) = (t \o u) \o v

LEMMA TextsAssociate ==
  ASSUME NEW S, NEW t \in Seq(S), NEW u \in Seq(S), NEW v \in Seq(S)
  PROVE  Associate(t, u, v)
  BY ConcatAssociative DEF Associate

(* A field is cut at the semicolons of its value: what is in front of the  *)
(* first stays with the key, the rest is cut on its own.                   *)
LEMMA FieldPieces ==
  ASSUME NEW S, NEW k \in S, "=" \in S, "SEMI" \in S, NEW v \in Seq(S),
         k # "SEMI"
  PROVE  \E w \in Seq(S) :
           /\ w = Split(v, {"SEMI"})[1]
           /\ \A p : IsPiece(Field(k, v), {"SEMI"}, p)
                <=> \/ p = Field(k, w)
                    \/ /\ Find(v, "SEMI") # 0
                       /\ IsPiece(Rest(v), {"SEMI"}, p)
<1>0. PICK w \in Seq(S), semi \in Seq(S), rest \in Seq(S) :
        Parted(v, w, semi, rest)
  BY RestOf
<1>1. /\ w = Split(v, {"SEMI"})[1] /\ rest = Rest(v) /\ semi = <<"SEMI">>
      /\ \A i \in 1 .. Len(w) : w[i] # "SEMI"
      /\ Find(v, "SEMI") = 0 => v = w /\ rest = <<>>
      /\ Find(v, "SEMI") # 0 => v = w \o semi \o rest
  BY <1>0 DEF Parted
<1>2. PICK m \in Nat : m = Len(w)
  OBVIOUS
<1>3. PICK f \in Seq(S) : /\ f = Field(k, w) /\ Len(f) = m + 2
                          /\ f[1] = k /\ f[2] = "="
                          /\ \A i \in 1 .. m : f[i + 2] = w[i]
  <2>1. /\ Field(k, w) \in Seq(S) /\ Len(Field(k, w)) = Len(w) + 2
        /\ Field(k, w)[1] = k /\ Field(k, w)[2] = "="
        /\ \A i \in 1 .. Len(w) : Field(k, w)[i + 2] = w[i]
    BY FieldText
  <2> QED
    BY <2>1, <1>2
<1>4. \A i \in 1 .. Len(f) : f[i] \notin {"SEMI"}
  <2> SUFFICES ASSUME NEW i \in 1 .. m + 2 PROVE f[i] # "SEMI"
    BY <1>3
  <2>1. CASE i \in {1, 2}
    BY <2>1, <1>3
  <2>2. CASE i \notin {1, 2}
    <3>1. i - 2 \in 1 .. m /\ (i - 2) + 2 = i
      BY <2>2
    <3>2. f[i] = w[i - 2]
      BY <3>1, <1>3
    <3> QED
      BY <3>1, <3>2, <1>1, <1>2
  <2> QED
    BY <2>1, <2>2
<1>5. \A p : IsPiece(f, {"SEMI"}, p) <=> p = f
  BY <1>4, WholePiece
<1>6. CASE Find(v, "SEMI") = 0
  BY <1>1, <1>3, <1>5, <1>6
<1>7. CASE Find(v, "SEMI") # 0
  <2>1. PICK first \in Seq(S) : first = <<k, "=">>
    <3>1. <<k, "=">> \in Seq(S)
      OBVIOUS
    <3> QED
      BY <3>1
  <2>2. Field(k, v) = f \o semi \o rest
    <3>1. Field(k, v) = first \o (w \o semi \o rest) /\ f = first \o w
      BY <2>1, <1>1, <1>3, <1>7 DEF Field
    <3>2. PICK x \in Seq(S) : x = w \o semi
      <4>1. w \o semi \in Seq(S)
        OBVIOUS
      <4> QED
        BY <4>1
    <3>3. Associate(first, x, rest) /\ Associate(first, w, semi)
      BY TextsAssociate
    <3> QED
      BY <3>1, <3>2, <3>3 DEF Associate
  <2>3. Len(semi) = 1 /\ semi[1] \in {"SEMI"}
    BY <1>1
  <2>4. ASSUME NEW p
        PROVE  IsPiece(f \o semi \o rest, {"SEMI"}, p)
                 <=> IsPiece(f, {"SEMI"}, p) \/ IsPiece(rest, {"SEMI"}, p)
    BY <2>3, GluedPieces
  <2> QED
    BY <2>2, <2>4, <1>1, <1>3, <1>5, <1>7
<1> QED
  BY <1>6, <1>7

-----------------------------------------------------------------------------
(* The body.                                                               *)

LEMMA JoinPieces ==
  ASSUME NEW S, NEW pieces \in Seq(Seq(S)), pieces # <<>>, NEW separators,
         NEW w \in Seq(S), Len(w) = 1, w[1] \in separators
  PROVE  \A p : IsPiece(Join(pieces, w), separators, p)
                  <=> \E i \in 1 .. Len(pieces) :
                        IsPiece(pieces[i], separators, p)
<1>1. PICK l \in Nat : l = Len(pieces) /\ l # 0
  BY EmptySeq
<1>2. PICK text \in [1 .. l -> Seq(S)] :
        /\ Join(pieces, w) = text[l]
        /\ \A i \in 1 .. l :
             text[i] = IF i = 1 THEN pieces[1]
                       ELSE text[i - 1] \o w \o pieces[i]
  <2>1. PICK text \in [1 .. Len(pieces) -> Seq(S)] :
          /\ Join(pieces, w)
               = IF pieces = <<>> THEN <<>> ELSE text[Len(pieces)]
          /\ \A i \in 1 .. Len(pieces) :
               text[i] = IF i = 1 THEN pieces[1]
                         ELSE text[i - 1] \o w \o pieces[i]
    BY JoinSteps
  <2> QED
    BY <2>1, <1>1
<1> DEFINE Right(n) ==
             \A p : IsPiece(text[n], separators, p)
                      <=> \E i \in 1 .. n : IsPiece(pieces[i], separators, p)
           wrong == {n \in Nat : n \in 1 .. l /\ ~ Right(n)}
<1>3. Right(1)
  <2>1. 1 \in 1 .. l
    BY <1>1
  <2>2. text[1] = pieces[1]
    BY <2>1, <1>2
  <2>3. 1 \in 1 .. 1 /\ \A i \in 1 .. 1 : i = 1
    OBVIOUS
  <2> QED
    BY <2>2, <2>3
<1>4. ASSUME NEW n \in 1 .. l, n # 1, Right(n - 1)
      PROVE  Right(n)
  <2>1. n - 1 \in 1 .. l
    BY <1>4
  <2>2. PICK u \in Seq(S), v \in Seq(S) : u = text[n - 1] /\ v = pieces[n]
    <3>1. text[n - 1] \in Seq(S)
      BY <2>1, <1>2
    <3>2. pieces[n] \in Seq(S)
      BY <1>1
    <3> QED
      BY <3>1, <3>2
  <2>3. text[n] = u \o w \o v
    BY <2>2, <1>2, <1>4
  <2>4. \A p : IsPiece(text[n], separators, p)
                 <=> IsPiece(u, separators, p) \/ IsPiece(v, separators, p)
    <3> SUFFICES ASSUME NEW p
                 PROVE  IsPiece(u \o w \o v, separators, p)
                          <=> \/ IsPiece(u, separators, p)
                              \/ IsPiece(v, separators, p)
      BY <2>3
    <3> QED
      BY GluedPieces
  <2>5. 1 .. n = (1 .. n - 1) \cup {n}
    OBVIOUS
  <2>6. \A p : IsPiece(u, separators, p)
                 <=> \E i \in 1 .. n - 1 : IsPiece(pieces[i], separators, p)
    BY <2>2, <1>4
  <2> QED
    BY <2>2, <2>4, <2>5, <2>6
<1> HIDE DEF Right
<1>5. ASSUME wrong # {} PROVE FALSE
  <2>1. PICK n \in wrong : \A k \in wrong : n <= k
    <3>1. wrong \in SUBSET Nat
      OBVIOUS
    <3> HIDE DEF wrong
    <3> QED
      BY <3>1, <1>5, LeastNat
  <2>2. n \in 1 .. l /\ ~ Right(n) /\ n # 1
    BY <1>3
  <2>3. n - 1 \in Nat /\ n - 1 \in 1 .. l /\ ~ (n <= n - 1)
    BY <2>2
  <2>4. Right(n - 1)
    BY <2>1, <2>3
  <2> QED
    BY <2>2, <2>4, <1>4
<1>6. Right(l)
  <2>1. l \in Nat /\ l \in 1 .. l
    BY <1>1
  <2> QED
    BY <2>1, <1>5
<1> QED
  BY <1>1, <1>2, <1>6 DEF Right

(* The names of all parameters are in the map.                             *)
Listed(params) ==
  \A key \in DOMAIN params : \E k \in ToSet(KeyOrder) : key = <<k>>

LEMMA BodyPieces ==
  ASSUME NEW S, Marks \subseteq S, NEW params, Over(S, params), Listed(params),
         DOMAIN params # {}, NEW p
  PROVE  IsPiece(Body(params), {"SEMI"}, p)
           <=> \E k \in S : /\ <<k>> \in DOMAIN params
                            /\ IsPiece(Field(k, params[<<k>>]), {"SEMI"}, p)
<1> DEFINE places == {i \in DOMAIN KeyOrder :
                        <<KeyOrder[i]>> \in DOMAIN params}
<1>1. KeyOrder \in Seq(STRING)
  BY KeysAssumption
<1>2. places \in SUBSET DOMAIN KeyOrder
  OBVIOUS
<1>3. PICK keys \in Seq(STRING) : keys = Kept(KeyOrder, places)
  <2> HIDE DEF places
  <2> QED
    BY <1>1, <1>2, KeptTyped
<1>4. /\ \A n \in DOMAIN keys : <<keys[n]>> \in DOMAIN params
      /\ \A k \in S :
           <<k>> \in DOMAIN params => \E n \in DOMAIN keys : keys[n] = k
  <2>1. \A i \in places : <<KeyOrder[i]>> \in DOMAIN params
    OBVIOUS
  <2>2. ASSUME NEW k, <<k>> \in DOMAIN params
        PROVE  \E i \in places : KeyOrder[i] = k
    <3>1. PICK g \in ToSet(KeyOrder) : <<k>> = <<g>>
      BY <2>2 DEF Listed
    <3>2. g = k
      BY <3>1
    <3>3. PICK i \in DOMAIN KeyOrder : KeyOrder[i] = g
      BY DEF ToSet
    <3> QED
      BY <3>2, <3>3, <2>2
  <2> HIDE DEF places
  <2>3. /\ \A n \in DOMAIN keys : \E i \in places : keys[n] = KeyOrder[i]
        /\ \A i \in places : \E n \in DOMAIN keys : keys[n] = KeyOrder[i]
    BY <1>1, <1>2, <1>3, KeptHas
  <2>4. \A n \in DOMAIN keys : <<keys[n]>> \in DOMAIN params
    BY <2>1, <2>3
  <2>5. \A k \in S :
          <<k>> \in DOMAIN params => \E n \in DOMAIN keys : keys[n] = k
    BY <2>2, <2>3
  <2> QED
    BY <2>4, <2>5
<1>5. PICK n \in Nat : DOMAIN keys = 1 .. n
  OBVIOUS
<1>6. PICK fields : /\ fields = Fields(params)
                    /\ DOMAIN fields = 1 .. n
                    /\ \A i \in 1 .. n :
                         fields[i] = Field(keys[i], params[<<keys[i]>>])
  <2>1. Fields(params) = [i \in DOMAIN keys |->
                            <<keys[i], "=">> \o params[<<keys[i]>>]]
    BY <1>3 DEF Fields
  <2>2. PICK fields : fields = Fields(params)
    OBVIOUS
  <2>3. DOMAIN fields = 1 .. n
    BY <2>1, <2>2, <1>5
  <2>4. \A i \in 1 .. n : fields[i] = <<keys[i], "=">> \o params[<<keys[i]>>]
    BY <2>1, <2>2, <1>5
  <2> QED
    BY <2>2, <2>3, <2>4 DEF Field
<1>7. "SEMI" \in S /\ "=" \in S
  BY DEF Marks
<1>8. \A i \in 1 .. n : keys[i] \in S /\ params[<<keys[i]>>] \in Seq(S)
  <2> SUFFICES ASSUME NEW i \in 1 .. n
               PROVE  keys[i] \in S /\ params[<<keys[i]>>] \in Seq(S)
    OBVIOUS
  <2>1. <<keys[i]>> \in DOMAIN params
    BY <1>4, <1>5
  <2>2. PICK k \in S : <<keys[i]>> = <<k>> /\ params[<<keys[i]>>] \in Seq(S)
    BY <2>1 DEF Over
  <2>3. keys[i] = k
    BY <2>2
  <2> QED
    BY <2>2, <2>3
<1>9. \A i \in 1 .. n : fields[i] \in Seq(S)
  <2> SUFFICES ASSUME NEW i \in 1 .. n PROVE fields[i] \in Seq(S)
    OBVIOUS
  <2>1. PICK k \in S, v \in Seq(S) : k = keys[i] /\ v = params[<<keys[i]>>]
    BY <1>8
  <2>2. Field(k, v) \in Seq(S)
    BY <1>7, FieldText
  <2> QED
    BY <2>1, <2>2, <1>6
<1>10. fields \in Seq(Seq(S)) /\ Len(fields) = n
  <2>1. fields = [i \in 1 .. n |-> fields[i]]
    BY <1>6, <1>5, <1>3 DEF Fields
  <2>2. fields \in [1 .. n -> Seq(S)]
    BY <2>1, <1>9
  <2> QED
    BY <2>2
<1>11. n # 0
  <2>1. PICK key \in DOMAIN params : TRUE
    OBVIOUS
  <2>2. PICK k \in S : key = <<k>>
    BY DEF Over
  <2> QED
    BY <2>1, <2>2, <1>4, <1>5
<1>12. fields # <<>>
  BY <1>10, <1>11
<1>13. PICK w \in Seq(S) : w = <<"SEMI">> /\ Len(w) = 1 /\ w[1] \in {"SEMI"}
  <2>1. <<"SEMI">> \in Seq(S)
    BY <1>7
  <2> QED
    BY <2>1
<1>14. IsPiece(Join(fields, w), {"SEMI"}, p)
         <=> \E i \in 1 .. Len(fields) : IsPiece(fields[i], {"SEMI"}, p)
  BY <1>10, <1>12, <1>13, JoinPieces
<1>15. ASSUME NEW i \in 1 .. n, IsPiece(fields[i], {"SEMI"}, p)
       PROVE  \E k \in S : /\ <<k>> \in DOMAIN params
                           /\ IsPiece(Field(k, params[<<k>>]), {"SEMI"}, p)
  BY <1>4, <1>5, <1>6, <1>8, <1>15
<1>16. ASSUME NEW k \in S, <<k>> \in DOMAIN params,
              IsPiece(Field(k, params[<<k>>]), {"SEMI"}, p)
       PROVE  \E i \in 1 .. n : IsPiece(fields[i], {"SEMI"}, p)
  <2>1. PICK i \in 1 .. n : keys[i] = k
    BY <1>4, <1>5, <1>16
  <2> QED
    BY <2>1, <1>6, <1>16
<1>17. Body(params) = Join(fields, w)
  BY <1>6, <1>13 DEF Body
<1> QED
  BY <1>10, <1>14, <1>15, <1>16, <1>17

(* p sets a parameter.                                                     *)
SetsKey(p, key, space) ==
  Find(p, "=") # 0 /\ trim(Before(p, Find(p, "=")), space) = key
ValueSet(p, space) == trim(After(p, Find(p, "=")), space)

LEMMA ParamsRead ==
  ASSUME NEW S, NEW pieces \in Seq(Seq(S)), NEW space, NEW key
  PROVE  /\ key \in DOMAIN ParamsOf(pieces, space)
              <=> \E i \in DOMAIN pieces : SetsKey(pieces[i], key, space)
         /\ key \in DOMAIN ParamsOf(pieces, space)
              => \E i \in DOMAIN pieces :
                   /\ SetsKey(pieces[i], key, space)
                   /\ ParamsOf(pieces, space)[key] = ValueSet(pieces[i], space)
<1> DEFINE places == {i \in DOMAIN pieces : Find(pieces[i], "=") # 0}
           KeyOf(p) == trim(Before(p, Find(p, "=")), space)
           ValueOf(p) == trim(After(p, Find(p, "=")), space)
<1>1. places \in SUBSET DOMAIN pieces
  OBVIOUS
<1>2. PICK set \in Seq(Seq(S)) :
        /\ set = Kept(pieces, places)
        /\ \A n \in DOMAIN set : \E i \in places : set[n] = pieces[i]
        /\ \A i \in places : \E n \in DOMAIN set : set[n] = pieces[i]
  <2> HIDE DEF places
  <2>1. Kept(pieces, places) \in Seq(Seq(S))
    BY <1>1, KeptTyped
  <2>2. PICK set : set = Kept(pieces, places)
    OBVIOUS
  <2>3. /\ \A n \in DOMAIN set : \E i \in places : set[n] = pieces[i]
        /\ \A i \in places : \E n \in DOMAIN set : set[n] = pieces[i]
    BY <2>2, <1>1, KeptHas
  <2> QED
    BY <2>1, <2>2, <2>3
<1> DEFINE those(k) == {i \in 1 .. Len(set) : KeyOf(set[i]) = k}
           last(k) == IF those(k) # {} THEN Max(those(k)) ELSE 0
<1>3. ParamsOf(pieces, space)
        = [k \in {KeyOf(set[i]) : i \in DOMAIN set} |-> ValueOf(set[last(k)])]
  BY <1>2 DEF ParamsOf, SelectLastInSeq
<1>4. PICK read : read = ParamsOf(pieces, space)
  OBVIOUS
<1>5. ASSUME NEW i \in places
      PROVE  i \in DOMAIN pieces /\ Find(pieces[i], "=") # 0
  OBVIOUS
<1>6. ASSUME NEW i \in DOMAIN pieces, Find(pieces[i], "=") # 0
      PROVE  i \in places
  BY <1>6
<1>7. key \in DOMAIN read <=> \E n \in DOMAIN set : KeyOf(set[n]) = key
  BY <1>3, <1>4
<1>8. key \in DOMAIN read => read[key] = ValueOf(set[last(key)])
  BY <1>3, <1>4
<1>9. key \in DOMAIN read
        => last(key) \in DOMAIN set /\ KeyOf(set[last(key)]) = key
  <2> SUFFICES ASSUME key \in DOMAIN read
               PROVE  last(key) \in DOMAIN set /\ KeyOf(set[last(key)]) = key
    OBVIOUS
  <2>1. PICK l \in Nat : l = Len(set) /\ DOMAIN set = 1 .. l
    OBVIOUS
  <2>2. PICK found : found = those(key)
    OBVIOUS
  <2>3. /\ found \in SUBSET (0 .. l) /\ found # {}
        /\ \A i \in found : i \in DOMAIN set /\ KeyOf(set[i]) = key
    BY <2>1, <2>2, <1>7
  <2>4. Max(found) \in found
    BY <2>1, <2>3, Places, MinMax
  <2>5. last(key) = Max(found)
    BY <2>2, <2>3
  <2> HIDE DEF those, last, KeyOf
  <2> QED
    BY <2>3, <2>4, <2>5
<1> HIDE DEF places, those, last
<1>10. ASSUME NEW n \in DOMAIN set, KeyOf(set[n]) = key
       PROVE  \E i \in DOMAIN pieces : /\ SetsKey(pieces[i], key, space)
                                       /\ set[n] = pieces[i]
  <2>1. PICK i \in places : set[n] = pieces[i]
    BY <1>2
  <2>2. i \in DOMAIN pieces /\ Find(pieces[i], "=") # 0
    BY <1>5
  <2> QED
    BY <2>1, <2>2, <1>10 DEF SetsKey
<1>11. ASSUME NEW i \in DOMAIN pieces, SetsKey(pieces[i], key, space)
       PROVE  \E n \in DOMAIN set : KeyOf(set[n]) = key
  <2>1. i \in places
    BY <1>6, <1>11 DEF SetsKey
  <2>2. PICK n \in DOMAIN set : set[n] = pieces[i]
    BY <2>1, <1>2
  <2> QED
    BY <2>2, <1>11 DEF SetsKey
<1>12. key \in DOMAIN read
         => \E i \in DOMAIN pieces :
              /\ SetsKey(pieces[i], key, space)
              /\ read[key] = ValueSet(pieces[i], space)
  <2> SUFFICES ASSUME key \in DOMAIN read
               PROVE  \E i \in DOMAIN pieces :
                        /\ SetsKey(pieces[i], key, space)
                        /\ read[key] = ValueSet(pieces[i], space)
    OBVIOUS
  <2>1. PICK i \in DOMAIN pieces : /\ SetsKey(pieces[i], key, space)
                                   /\ set[last(key)] = pieces[i]
    BY <1>9, <1>10
  <2> QED
    BY <2>1, <1>8 DEF ValueSet
<1>13. key \in DOMAIN read
         <=> \E i \in DOMAIN pieces : SetsKey(pieces[i], key, space)
  BY <1>7, <1>10, <1>11
<1> QED
  BY <1>4, <1>12, <1>13

(* What the pieces of a body set.                                          *)
LEMMA ReadPieces ==
  ASSUME NEW S, NEW body \in Seq(S), NEW space, NEW key
  PROVE  /\ key \in DOMAIN ReadFrom(body, space)
              <=> \E p : /\ IsPiece(body, {"SEMI"}, p)
                         /\ SetsKey(trim(p, space), key, space)
         /\ key \in DOMAIN ReadFrom(body, space)
              => \E p : /\ IsPiece(body, {"SEMI"}, p)
                        /\ SetsKey(trim(p, space), key, space)
                        /\ ReadFrom(body, space)[key]
                             = ValueSet(trim(p, space), space)
<1>1. PICK pieces \in Seq(Seq(S)) : pieces = Split(body, {"SEMI"})
  BY SplitTyped
<1>2. /\ \A i \in DOMAIN pieces : IsPiece(body, {"SEMI"}, pieces[i])
      /\ \A p : IsPiece(body, {"SEMI"}, p)
           => \E i \in DOMAIN pieces : pieces[i] = p
  BY <1>1, SplitPieces
<1>3. PICK n \in Nat : DOMAIN pieces = 1 .. n
  OBVIOUS
<1>4. PICK trimmed : trimmed = [i \in 1 .. n |-> trim(pieces[i], space)]
  OBVIOUS
<1>5. trimmed \in Seq(Seq(S)) /\ DOMAIN trimmed = 1 .. n
  <2>1. \A i \in 1 .. n : trim(pieces[i], space) \in Seq(S)
    <3> SUFFICES ASSUME NEW i \in 1 .. n
                 PROVE  trim(pieces[i], space) \in Seq(S)
      OBVIOUS
    <3>1. pieces[i] \in Seq(S)
      BY <1>3
    <3> QED
      BY <3>1, TrimTyped
  <2>2. trimmed \in [1 .. n -> Seq(S)]
    BY <2>1, <1>4
  <2> QED
    BY <2>2
<1>6. PICK read : /\ read = ReadFrom(body, space)
                  /\ read = ParamsOf(trimmed, space)
  BY <1>1, <1>3, <1>4 DEF ReadFrom
<1>7. /\ key \in DOMAIN read
           <=> \E i \in 1 .. n : SetsKey(trimmed[i], key, space)
      /\ key \in DOMAIN read
           => \E i \in 1 .. n : /\ SetsKey(trimmed[i], key, space)
                                /\ read[key] = ValueSet(trimmed[i], space)
  <2>1. /\ key \in DOMAIN ParamsOf(trimmed, space)
             <=> \E i \in DOMAIN trimmed : SetsKey(trimmed[i], key, space)
        /\ key \in DOMAIN ParamsOf(trimmed, space)
             => \E i \in DOMAIN trimmed :
                  /\ SetsKey(trimmed[i], key, space)
                  /\ ParamsOf(trimmed, space)[key]
                       = ValueSet(trimmed[i], space)
    BY <1>5, ParamsRead
  <2>2. DOMAIN trimmed = 1 .. n /\ read = ParamsOf(trimmed, space)
    BY <1>5, <1>6
  <2>3. key \in DOMAIN read
          <=> \E i \in 1 .. n : SetsKey(trimmed[i], key, space)
    BY <2>1, <2>2
  <2>4. key \in DOMAIN read
          => \E i \in 1 .. n : /\ SetsKey(trimmed[i], key, space)
                               /\ read[key] = ValueSet(trimmed[i], space)
    BY <2>1, <2>2
  <2> QED
    BY <2>3, <2>4
<1>8. \A i \in 1 .. n : /\ IsPiece(body, {"SEMI"}, pieces[i])
                        /\ trimmed[i] = trim(pieces[i], space)
  BY <1>2, <1>3, <1>4
<1>9. ASSUME NEW p, IsPiece(body, {"SEMI"}, p)
      PROVE  \E i \in 1 .. n : trimmed[i] = trim(p, space)
  BY <1>2, <1>3, <1>4, <1>9
<1>10. ASSUME key \in DOMAIN read
       PROVE  \E p : /\ IsPiece(body, {"SEMI"}, p)
                     /\ SetsKey(trim(p, space), key, space)
                     /\ read[key] = ValueSet(trim(p, space), space)
  <2>1. PICK i \in 1 .. n : /\ SetsKey(trimmed[i], key, space)
                            /\ read[key] = ValueSet(trimmed[i], space)
    BY <1>7, <1>10
  <2> QED
    BY <2>1, <1>8
<1>11. ASSUME NEW p, IsPiece(body, {"SEMI"}, p),
              SetsKey(trim(p, space), key, space)
       PROVE  key \in DOMAIN read
  <2>1. PICK i \in 1 .. n : trimmed[i] = trim(p, space)
    BY <1>9, <1>11
  <2> QED
    BY <2>1, <1>7, <1>11
<1> QED
  BY <1>6, <1>10, <1>11

LEMMA NothingRead ==
  ASSUME NEW space
  PROVE  DOMAIN ReadFrom(<<>>, space) = {}
<1>1. PICK s \in Seq(STRING) : s = <<>> /\ Len(s) = 0
  <2>1. <<>> \in Seq(STRING) /\ Len(<<>>) = 0
    OBVIOUS
  <2> QED
    BY <2>1
<1>2. ASSUME NEW p PROVE IsPiece(s, {"SEMI"}, p) <=> p = s
  <2>1. \A i \in 1 .. Len(s) : s[i] \notin {"SEMI"}
    BY <1>1
  <2> QED
    BY <2>1, WholePiece
<1>3. trim(s, space) = <<>>
  <2>1. \A i \in 1 .. Len(s) : s[i] \in space
    BY <1>1
  <2> QED
    BY <2>1, TrimIs
<1>4. Find(s, "=") = 0
  <2>1. Find(s, "=") \in 0 .. Len(s)
    BY Found
  <2> QED
    BY <2>1, <1>1
<1>5. ASSUME NEW key PROVE ~ SetsKey(trim(s, space), key, space)
  BY <1>1, <1>3, <1>4 DEF SetsKey
<1>6. ASSUME NEW key \in DOMAIN ReadFrom(s, space) PROVE FALSE
  BY <1>2, <1>5, <1>6, ReadPieces
<1> QED
  BY <1>1, <1>6

(* What the values of the parameters set besides.                          *)
InsertedIn(params, space) ==
  UNION {DOMAIN ReadFrom(Rest(params[k]), space) : k \in DOMAIN params}

(* No key holds a mark of the format.                                      *)
PlainKeys(S, params, space) ==
  \A k \in S : <<k>> \in DOMAIN params
                 => k \notin space /\ k # "=" /\ k # "SEMI"

Gets(params, space, read) ==
  /\ DOMAIN read = DOMAIN params \cup InsertedIn(params, space)
  /\ \A key \in DOMAIN params \ InsertedIn(params, space) :
       read[key] = trim(Split(params[key], {"SEMI"})[1], space)

(* What is read from the body of a message: the parameters and those in    *)
(* the rests of their values, and each that is in none cut at its first    *)
(* semicolon and trimmed.                                                  *)
LEMMA BodyRead ==
  ASSUME NEW S, Marks \subseteq S, NEW params, Over(S, params), Listed(params),
         DOMAIN params # {}, NEW space, "=" \notin space,
         PlainKeys(S, params, space)
  PROVE  Gets(params, space, ReadFrom(Body(params), space))
<1>1. PICK body \in Seq(S) : body = Body(params)
  BY BodyTyped DEF Marks
<1>2. "=" \in S /\ "SEMI" \in S
  BY DEF Marks
<1>3. PICK read : read = ReadFrom(body, space)
  OBVIOUS
<1>4. ASSUME NEW key
      PROVE  /\ key \in DOMAIN read
                  <=> \E p : /\ IsPiece(body, {"SEMI"}, p)
                             /\ SetsKey(trim(p, space), key, space)
             /\ key \in DOMAIN read
                  => \E p : /\ IsPiece(body, {"SEMI"}, p)
                            /\ SetsKey(trim(p, space), key, space)
                            /\ read[key] = ValueSet(trim(p, space), space)
  BY <1>3, ReadPieces
<1>5. ASSUME NEW p
      PROVE  IsPiece(body, {"SEMI"}, p)
               <=> \E k \in S :
                     /\ <<k>> \in DOMAIN params
                     /\ IsPiece(Field(k, params[<<k>>]), {"SEMI"}, p)
  BY <1>1, BodyPieces
<1>6. \A k \in S : <<k>> \in DOMAIN params => params[<<k>>] \in Seq(S)
  BY DEF Over
<1>7. ASSUME NEW k \in S, <<k>> \in DOMAIN params
      PROVE  \E w \in Seq(S) :
               /\ w = Split(params[<<k>>], {"SEMI"})[1]
               /\ \A p : IsPiece(Field(k, params[<<k>>]), {"SEMI"}, p)
                    <=> \/ p = Field(k, w)
                        \/ /\ Find(params[<<k>>], "SEMI") # 0
                           /\ IsPiece(Rest(params[<<k>>]), {"SEMI"}, p)
  <2>1. PICK v \in Seq(S) : v = params[<<k>>]
    BY <1>6, <1>7
  <2>2. k # "SEMI"
    BY <1>7 DEF PlainKeys
  <2>3. \E w \in Seq(S) :
          /\ w = Split(v, {"SEMI"})[1]
          /\ \A p : IsPiece(Field(k, v), {"SEMI"}, p)
               <=> \/ p = Field(k, w)
                   \/ /\ Find(v, "SEMI") # 0
                      /\ IsPiece(Rest(v), {"SEMI"}, p)
    BY <2>2, <1>2, FieldPieces
  <2> QED
    BY <2>1, <2>3
<1>8. ASSUME NEW k \in S, <<k>> \in DOMAIN params, NEW w \in Seq(S)
      PROVE  /\ SetsKey(trim(Field(k, w), space), <<k>>, space)
             /\ \A key : SetsKey(trim(Field(k, w), space), key, space)
                           => key = <<k>>
             /\ ValueSet(trim(Field(k, w), space), space) = trim(w, space)
  <2>1. k \notin space /\ k # "="
    BY <1>8 DEF PlainKeys
  <2>2. PICK q \in Seq(S) : /\ q = trim(Field(k, w), space)
                            /\ Find(q, "=") = 2
                            /\ trim(Before(q, 2), space) = <<k>>
                            /\ trim(After(q, 2), space) = trim(w, space)
    BY <2>1, <1>2, FieldRead
  <2> QED
    BY <2>2 DEF SetsKey, ValueSet
<1>9. ASSUME NEW k \in S, <<k>> \in DOMAIN params, NEW key
      PROVE  key \in DOMAIN ReadFrom(Rest(params[<<k>>]), space)
               <=> \E p : /\ IsPiece(Rest(params[<<k>>]), {"SEMI"}, p)
                          /\ SetsKey(trim(p, space), key, space)
  <2>1. PICK v \in Seq(S) : v = params[<<k>>]
    BY <1>6, <1>9
  <2>2. PICK rest \in Seq(S) : rest = Rest(v)
    <3>1. PICK w \in Seq(S), semi \in Seq(S), rest \in Seq(S) :
            Parted(v, w, semi, rest)
      BY <1>2, RestOf
    <3> QED
      BY <3>1 DEF Parted
  <2>3. key \in DOMAIN ReadFrom(rest, space)
          <=> \E p : /\ IsPiece(rest, {"SEMI"}, p)
                     /\ SetsKey(trim(p, space), key, space)
    BY ReadPieces
  <2> QED
    BY <2>1, <2>2, <2>3
<1>10. ASSUME NEW p, IsPiece(body, {"SEMI"}, p), NEW key,
              SetsKey(trim(p, space), key, space),
              key \notin InsertedIn(params, space)
       PROVE  /\ key \in DOMAIN params
              /\ ValueSet(trim(p, space), space)
                   = trim(Split(params[key], {"SEMI"})[1], space)
  <2>1. PICK k \in S : /\ <<k>> \in DOMAIN params
                       /\ IsPiece(Field(k, params[<<k>>]), {"SEMI"}, p)
    BY <1>5, <1>10
  <2>2. PICK w \in Seq(S) :
          /\ w = Split(params[<<k>>], {"SEMI"})[1]
          /\ \/ p = Field(k, w)
             \/ IsPiece(Rest(params[<<k>>]), {"SEMI"}, p)
    BY <2>1, <1>7
  <2>3. CASE p = Field(k, w)
    <3>1. /\ key = <<k>>
          /\ ValueSet(trim(p, space), space) = trim(w, space)
      BY <2>1, <2>3, <1>8, <1>10
    <3> QED
      BY <3>1, <2>1, <2>2
  <2>4. CASE IsPiece(Rest(params[<<k>>]), {"SEMI"}, p)
    <3>1. key \in DOMAIN ReadFrom(Rest(params[<<k>>]), space)
      BY <2>1, <2>4, <1>9, <1>10
    <3> QED
      BY <3>1, <2>1, <1>10 DEF InsertedIn
  <2> QED
    BY <2>2, <2>3, <2>4
<1>11. ASSUME NEW key \in DOMAIN params PROVE key \in DOMAIN read
  <2>1. PICK k \in S : key = <<k>>
    BY <1>11 DEF Over
  <2>2. <<k>> \in DOMAIN params
    BY <2>1, <1>11
  <2>3. PICK w \in Seq(S) :
          IsPiece(Field(k, params[<<k>>]), {"SEMI"}, Field(k, w))
    BY <2>2, <1>7
  <2>4. IsPiece(body, {"SEMI"}, Field(k, w))
    BY <2>2, <2>3, <1>5
  <2>5. SetsKey(trim(Field(k, w), space), <<k>>, space)
    BY <2>2, <1>8
  <2> QED
    BY <2>1, <2>4, <2>5, <1>4
<1>12. ASSUME NEW key \in InsertedIn(params, space)
       PROVE  key \in DOMAIN read
  <2>1. PICK field \in DOMAIN params :
          key \in DOMAIN ReadFrom(Rest(params[field]), space)
    BY <1>12 DEF InsertedIn
  <2>2. PICK k \in S : field = <<k>> /\ <<k>> \in DOMAIN params
    BY <2>1 DEF Over
  <2>3. Find(params[<<k>>], "SEMI") # 0
    <3> SUFFICES ASSUME Find(params[<<k>>], "SEMI") = 0 PROVE FALSE
      OBVIOUS
    <3>1. Rest(params[<<k>>]) = <<>>
      BY DEF Rest
    <3> QED
      BY <3>1, <2>1, <2>2, NothingRead
  <2>4. PICK p : /\ IsPiece(Rest(params[<<k>>]), {"SEMI"}, p)
                 /\ SetsKey(trim(p, space), key, space)
    BY <2>1, <2>2, <1>9
  <2>5. IsPiece(Field(k, params[<<k>>]), {"SEMI"}, p)
    BY <2>2, <2>3, <2>4, <1>7
  <2>6. IsPiece(body, {"SEMI"}, p)
    BY <2>2, <2>5, <1>5
  <2> QED
    BY <2>4, <2>6, <1>4
<1>13. ASSUME NEW key \in DOMAIN read
       PROVE  key \in DOMAIN params \cup InsertedIn(params, space)
  <2>1. PICK p : /\ IsPiece(body, {"SEMI"}, p)
                 /\ SetsKey(trim(p, space), key, space)
    BY <1>4, <1>13
  <2> QED
    BY <2>1, <1>10
<1>14. ASSUME NEW key \in DOMAIN params \ InsertedIn(params, space)
       PROVE  read[key] = trim(Split(params[key], {"SEMI"})[1], space)
  <2>1. key \in DOMAIN read
    BY <1>11, <1>14
  <2>2. PICK p : /\ IsPiece(body, {"SEMI"}, p)
                 /\ SetsKey(trim(p, space), key, space)
                 /\ read[key] = ValueSet(trim(p, space), space)
    BY <2>1, <1>4
  <2> QED
    BY <2>2, <1>10, <1>14
<1>15. DOMAIN read = DOMAIN params \cup InsertedIn(params, space)
  BY <1>11, <1>12, <1>13
<1> QED
  BY <1>1, <1>3, <1>14, <1>15 DEF Gets

-----------------------------------------------------------------------------
(* The whole text of a message.                                            *)

(* t is the text of a message with the command c.                          *)
Laid(t, c, body) ==
  /\ Len(t) = Len(body) + 11
  /\ t[1] = "COMMAND" /\ t[2] = ":" /\ t[3] = "SP" /\ t[4] = c /\ t[5] = "NL"
  /\ t[6] = "LENGTH" /\ t[7] = ":" /\ t[8] = "SP" /\ t[9] = "size"
  /\ t[10] = "NL" /\ t[11] = "NL"
  /\ Shifted(body, t, 11, 1, Len(body))

LEMMA Concat ==
  ASSUME NEW S, NEW u \in Seq(S), NEW v \in Seq(S),
         NEW m \in Nat, NEW n \in Nat, m = Len(u), n = Len(v)
  PROVE  \E r \in Seq(S) : /\ r = u \o v /\ Len(r) = n + m
                           /\ \A i \in 1 .. m : r[i] = u[i]
                           /\ Shifted(v, r, m, 1, n)
<1>1. PICK r : r = u \o v
  OBVIOUS
<1>2. /\ r \in Seq(S) /\ Len(r) = Len(u) + Len(v)
      /\ \A i \in 1 .. Len(u) + Len(v) :
           r[i] = IF i <= Len(u) THEN u[i] ELSE v[i - Len(u)]
  BY <1>1, ConcatProperties
<1>3. /\ Len(r) = n + m
      /\ \A i \in 1 .. n + m : r[i] = IF i <= m THEN u[i] ELSE v[i - m]
  BY <1>2
<1>4. \A i \in 1 .. m : i \in 1 .. n + m /\ i <= m
  OBVIOUS
<1>5. \A i \in 1 .. n : i + m \in 1 .. n + m /\ ~ (i + m <= m)
                        /\ (i + m) - m = i
  OBVIOUS
<1>6. Shifted(v, r, m, 1, n)
  BY <1>3, <1>5 DEF Shifted
<1> QED
  BY <1>1, <1>2, <1>3, <1>4, <1>6

LEMMA BuiltText ==
  ASSUME NEW S, Marks \subseteq S, NEW c \in S, NEW m, m.command = <<c>>,
         Over(S, m.params)
  PROVE  \E body \in Seq(S) : \E t \in Seq(S) :
           body = Body(m.params) /\ t = build(m) /\ Laid(t, c, body)
<1>1. PICK body \in Seq(S) : body = Body(m.params)
  BY BodyTyped DEF Marks
<1>2. /\ "COMMAND" \in S /\ ":" \in S /\ "SP" \in S /\ "NL" \in S
      /\ "LENGTH" \in S /\ "size" \in S
  BY DEF Marks
<1>3. PICK three \in Seq(S) :
        /\ three = <<"COMMAND", ":", "SP">> /\ Len(three) = 3
        /\ three[1] = "COMMAND" /\ three[2] = ":" /\ three[3] = "SP"
  <2>1. <<"COMMAND", ":", "SP">> \in Seq(S)
    BY <1>2
  <2> QED
    BY <2>1
<1>4. PICK one \in Seq(S) : one = m.command /\ Len(one) = 1 /\ one[1] = c
  <2>1. <<c>> \in Seq(S)
    OBVIOUS
  <2> QED
    BY <2>1
<1>5. PICK nl \in Seq(S) : nl = <<"NL">> /\ Len(nl) = 1 /\ nl[1] = "NL"
  <2>1. <<"NL">> \in Seq(S)
    BY <1>2
  <2> QED
    BY <2>1
<1>6. PICK six \in Seq(S) :
        /\ six = <<"LENGTH", ":", "SP", "size", "NL", "NL">> /\ Len(six) = 6
        /\ six[1] = "LENGTH" /\ six[2] = ":" /\ six[3] = "SP"
        /\ six[4] = "size" /\ six[5] = "NL" /\ six[6] = "NL"
  <2>1. <<"LENGTH", ":", "SP", "size", "NL", "NL">> \in Seq(S)
    BY <1>2
  <2> QED
    BY <2>1
<1>7. build(m) = three \o one \o nl \o six \o body
  BY <1>1, <1>3, <1>4, <1>5, <1>6 DEF build
<1>8. PICK p \in Seq(S) : /\ p = three \o one /\ Len(p) = 1 + 3
                          /\ \A i \in 1 .. 3 : p[i] = three[i]
                          /\ Shifted(one, p, 3, 1, 1)
  BY <1>3, <1>4, Concat
<1>9. /\ Len(p) = 4 /\ p[1] = "COMMAND" /\ p[2] = ":" /\ p[3] = "SP"
      /\ p[4] = c
  <2>1. 1 \in 1 .. 3 /\ 2 \in 1 .. 3 /\ 3 \in 1 .. 3
    OBVIOUS
  <2>2. p[1 + 3] = one[1]
    BY <1>8 DEF Shifted
  <2>3. 1 + 3 = 4
    OBVIOUS
  <2> QED
    BY <2>1, <2>2, <2>3, <1>3, <1>4, <1>8
<1>10. PICK q \in Seq(S) : /\ q = p \o nl /\ Len(q) = 1 + 4
                           /\ \A i \in 1 .. 4 : q[i] = p[i]
                           /\ Shifted(nl, q, 4, 1, 1)
  BY <1>5, <1>9, Concat
<1>11. /\ Len(q) = 5 /\ q[1] = "COMMAND" /\ q[2] = ":" /\ q[3] = "SP"
       /\ q[4] = c /\ q[5] = "NL"
  <2>1. 1 \in 1 .. 4 /\ 2 \in 1 .. 4 /\ 3 \in 1 .. 4 /\ 4 \in 1 .. 4
    OBVIOUS
  <2>2. q[1 + 4] = nl[1]
    BY <1>10 DEF Shifted
  <2>3. 1 + 4 = 5
    OBVIOUS
  <2> QED
    BY <2>1, <2>2, <2>3, <1>5, <1>9, <1>10
<1>12. PICK h \in Seq(S) : /\ h = q \o six /\ Len(h) = 6 + 5
                           /\ \A i \in 1 .. 5 : h[i] = q[i]
                           /\ Shifted(six, h, 5, 1, 6)
  BY <1>6, <1>11, Concat
<1>13. /\ Len(h) = 11 /\ h[1] = "COMMAND" /\ h[2] = ":" /\ h[3] = "SP"
       /\ h[4] = c /\ h[5] = "NL"
  <2>1. /\ 1 \in 1 .. 5 /\ 2 \in 1 .. 5 /\ 3 \in 1 .. 5 /\ 4 \in 1 .. 5
        /\ 5 \in 1 .. 5
    OBVIOUS
  <2>2. 6 + 5 = 11
    OBVIOUS
  <2> QED
    BY <2>1, <2>2, <1>11, <1>12
<1>14. /\ h[6] = "LENGTH" /\ h[7] = ":" /\ h[8] = "SP" /\ h[9] = "size"
       /\ h[10] = "NL" /\ h[11] = "NL"
  <2>0. ASSUME NEW i \in 1 .. 6 PROVE h[i + 5] = six[i]
    BY <1>12 DEF Shifted
  <2>a. h[1 + 5] = six[1]
    BY <2>0
  <2>b. h[2 + 5] = six[2]
    BY <2>0
  <2>c. h[3 + 5] = six[3]
    BY <2>0
  <2>d. h[4 + 5] = six[4]
    BY <2>0
  <2>e. h[5 + 5] = six[5]
    BY <2>0
  <2>f. h[6 + 5] = six[6]
    BY <2>0
  <2>2. /\ 1 + 5 = 6 /\ 2 + 5 = 7 /\ 3 + 5 = 8 /\ 4 + 5 = 9
        /\ 5 + 5 = 10 /\ 6 + 5 = 11
    OBVIOUS
  <2> QED
    BY <2>a, <2>b, <2>c, <2>d, <2>e, <2>f, <2>2, <1>6
<1>15. PICK l \in Nat : l = Len(body)
  OBVIOUS
<1>16. PICK t \in Seq(S) : /\ t = h \o body /\ Len(t) = l + 11
                           /\ \A i \in 1 .. 11 : t[i] = h[i]
                           /\ Shifted(body, t, 11, 1, l)
  BY <1>13, <1>15, Concat
<1>17. Laid(t, c, body)
  <2>1. /\ 1 \in 1 .. 11 /\ 2 \in 1 .. 11 /\ 3 \in 1 .. 11 /\ 4 \in 1 .. 11
        /\ 5 \in 1 .. 11 /\ 6 \in 1 .. 11 /\ 7 \in 1 .. 11 /\ 8 \in 1 .. 11
        /\ 9 \in 1 .. 11 /\ 10 \in 1 .. 11 /\ 11 \in 1 .. 11
    OBVIOUS
  <2>2. /\ t[1] = h[1] /\ t[2] = h[2] /\ t[3] = h[3] /\ t[4] = h[4]
        /\ t[5] = h[5] /\ t[6] = h[6] /\ t[7] = h[7] /\ t[8] = h[8]
        /\ t[9] = h[9] /\ t[10] = h[10] /\ t[11] = h[11]
    BY <2>1, <1>16
  <2>3. Len(t) = Len(body) + 11 /\ Shifted(body, t, 11, 1, Len(body))
    BY <1>15, <1>16
  <2> QED
    BY <2>2, <2>3, <1>13, <1>14 DEF Laid
<1>18. t = build(m)
  BY <1>7, <1>8, <1>10, <1>12, <1>16
<1> QED
  BY <1>1, <1>17, <1>18

LEMMA BetweenUnique ==
  ASSUME NEW S, NEW s \in Seq(S), NEW separators, NEW a, NEW b, NEW e,
         Between(s, separators, a, b), Between(s, separators, a, e)
  PROVE  b = e
<1>1. PICK l \in Nat : l = Len(s)
  OBVIOUS
<1>2. /\ a \in 0 .. l /\ b \in 1 .. l + 1 /\ e \in 1 .. l + 1
      /\ a < b /\ a < e
      /\ b # l + 1 => s[b] \in separators
      /\ e # l + 1 => s[e] \in separators
      /\ \A j \in a + 1 .. b - 1 : s[j] \notin separators
      /\ \A j \in a + 1 .. e - 1 : s[j] \notin separators
  BY <1>1 DEF Between
<1>3. ASSUME b < e PROVE FALSE
  <2>1. b \in a + 1 .. e - 1 /\ b # l + 1
    BY <1>2, <1>3
  <2> QED
    BY <2>1, <1>2
<1>4. ASSUME e < b PROVE FALSE
  <2>1. e \in a + 1 .. b - 1 /\ e # l + 1
    BY <1>2, <1>4
  <2> QED
    BY <2>1, <1>2
<1> QED
  BY <1>2, <1>3, <1>4

LEMMA LinesOf ==
  ASSUME NEW S, NEW t \in Seq(S), NEW body \in Seq(S), NEW c,
         Laid(t, c, body), c # "NL", \A i \in 1 .. Len(body) : body[i] # "NL"
  PROVE  \E lines : /\ lines = Split(t, {"NL"})
                    /\ DOMAIN lines = 1 .. 4
                    /\ lines[1] = SubSeq(t, 1, 4)
                    /\ lines[2] = SubSeq(t, 6, 9)
                    /\ lines[3] = SubSeq(t, 11, 10)
                    /\ lines[4] = SubSeq(t, 12, Len(t))
<1>1. PICK l \in Nat : l = Len(body) /\ Len(t) = l + 11
  BY DEF Laid
<1>2. PICK end \in Nat : end = l + 12
  OBVIOUS
<1>3. PICK k, ends : Ends(t, {"NL"}, k, ends)
  BY SplitEnds
<1>4. k \in Nat
  BY <1>3 DEF Ends
<1>a. k # 0 /\ ends[1] = 0
  BY <1>3 DEF Ends
<1>b. \A i, j \in 1 .. k + 1 : ends[i] = ends[j] => i = j
  BY <1>3 DEF Ends
<1>c. ASSUME NEW n \in 1 .. k
      PROVE  Between(t, {"NL"}, ends[n], ends[n + 1])
  BY <1>3 DEF Ends
<1>d. ASSUME NEW a, NEW b, Between(t, {"NL"}, a, b)
      PROVE  \E n \in 1 .. k : ends[n] = a /\ ends[n + 1] = b
  BY <1>3, <1>d DEF Ends
<1>5. \A j \in 12 .. l + 11 : t[j] # "NL"
  <2> SUFFICES ASSUME NEW j \in 12 .. l + 11 PROVE t[j] # "NL"
    OBVIOUS
  <2>1. PICK i \in 1 .. l : j = i + 11
    <3>1. j - 11 \in 1 .. l /\ j = (j - 11) + 11
      OBVIOUS
    <3> QED
      BY <3>1
  <2>2. t[i + 11] = body[i]
    BY <1>1 DEF Laid, Shifted
  <2> QED
    BY <2>1, <2>2, <1>1
<1>6. /\ t[1] # "NL" /\ t[2] # "NL" /\ t[3] # "NL" /\ t[4] # "NL"
      /\ t[5] = "NL" /\ t[6] # "NL" /\ t[7] # "NL" /\ t[8] # "NL"
      /\ t[9] # "NL" /\ t[10] = "NL" /\ t[11] = "NL"
  BY DEF Laid
<1>7. Between(t, {"NL"}, 0, 5)
  <2>1. \A j \in 0 + 1 .. 5 - 1 : j = 1 \/ j = 2 \/ j = 3 \/ j = 4
    OBVIOUS
  <2> QED
    BY <2>1, <1>1, <1>6 DEF Between
<1>8. Between(t, {"NL"}, 5, 10)
  <2>1. \A j \in 5 + 1 .. 10 - 1 : j = 6 \/ j = 7 \/ j = 8 \/ j = 9
    OBVIOUS
  <2> QED
    BY <2>1, <1>1, <1>6 DEF Between
<1>9. Between(t, {"NL"}, 10, 11)
  BY <1>1, <1>6 DEF Between
<1>10. Between(t, {"NL"}, 11, end)
  <2>1. \A j \in 11 + 1 .. end - 1 : j \in 12 .. l + 11
    BY <1>2
  <2>2. /\ 11 \in 0 .. Len(t) /\ end \in 1 .. Len(t) + 1 /\ 11 < end
        /\ end = Len(t) + 1
    BY <1>1, <1>2
  <2> QED
    BY <2>1, <2>2, <1>5, <1>6 DEF Between
<1>11. 1 \in 1 .. k /\ 1 + 1 = 2 /\ 2 \in 1 .. k + 1
  BY <1>4, <1>a
<1>12. ends[2] = 5
  <2>1. Between(t, {"NL"}, ends[1], ends[1 + 1])
    BY <1>c, <1>11
  <2>2. Between(t, {"NL"}, 0, ends[2])
    BY <2>1, <1>a, <1>11
  <2> QED
    BY <2>2, <1>7, BetweenUnique
<1>13. 2 \in 1 .. k /\ ends[3] = 10
  <2>1. PICK n \in 1 .. k : ends[n] = 5 /\ ends[n + 1] = 10
    BY <1>8, <1>d
  <2>2. n \in 1 .. k + 1
    BY <1>4
  <2>3. n = 2
    BY <2>1, <2>2, <1>b, <1>11, <1>12
  <2>4. 2 + 1 = 3
    OBVIOUS
  <2> QED
    BY <2>1, <2>3, <2>4
<1>14. 3 \in 1 .. k /\ ends[4] = 11
  <2>1. PICK n \in 1 .. k : ends[n] = 10 /\ ends[n + 1] = 11
    BY <1>9, <1>d
  <2>2. n \in 1 .. k + 1 /\ 3 \in 1 .. k + 1
    BY <1>4, <1>13
  <2>3. n = 3
    BY <2>1, <2>2, <1>b, <1>13
  <2>4. 3 + 1 = 4
    OBVIOUS
  <2> QED
    BY <2>1, <2>3, <2>4
<1>15. 4 \in 1 .. k /\ ends[5] = end
  <2>1. PICK n \in 1 .. k : ends[n] = 11 /\ ends[n + 1] = end
    BY <1>10, <1>d
  <2>2. n \in 1 .. k + 1 /\ 4 \in 1 .. k + 1
    BY <1>4, <1>14
  <2>3. n = 4
    BY <2>1, <2>2, <1>b, <1>14
  <2>4. 4 + 1 = 5
    OBVIOUS
  <2> QED
    BY <2>1, <2>3, <2>4
<1>16. k = 4
  <2>1. ASSUME k # 4 PROVE FALSE
    <3>1. 5 \in 1 .. k
      BY <2>1, <1>4, <1>15
    <3>2. Between(t, {"NL"}, ends[5], ends[5 + 1])
      BY <3>1, <1>c
    <3>3. ends[5] \in 0 .. Len(t)
      BY <3>2 DEF Between
    <3> QED
      BY <3>3, <1>1, <1>2, <1>15
  <2> QED
    BY <2>1
<1>17. PICK lines : lines = Split(t, {"NL"})
  OBVIOUS
<1>18. ASSUME NEW n \in 1 .. 4
       PROVE  lines[n] = SubSeq(t, ends[n] + 1, ends[n + 1] - 1)
  BY <1>3, <1>16, <1>17 DEF Ends
<1>19. /\ lines[1] = SubSeq(t, 0 + 1, 5 - 1)
       /\ lines[2] = SubSeq(t, 5 + 1, 10 - 1)
       /\ lines[3] = SubSeq(t, 10 + 1, 11 - 1)
       /\ lines[4] = SubSeq(t, 11 + 1, end - 1)
  <2>1. lines[1] = SubSeq(t, ends[1] + 1, ends[1 + 1] - 1)
    BY <1>18
  <2>2. lines[2] = SubSeq(t, ends[2] + 1, ends[2 + 1] - 1)
    BY <1>18
  <2>3. lines[3] = SubSeq(t, ends[3] + 1, ends[3 + 1] - 1)
    BY <1>18
  <2>4. lines[4] = SubSeq(t, ends[4] + 1, ends[4 + 1] - 1)
    BY <1>18
  <2>5. 1 + 1 = 2 /\ 2 + 1 = 3 /\ 3 + 1 = 4 /\ 4 + 1 = 5
    OBVIOUS
  <2> QED
    BY <2>1, <2>2, <2>3, <2>4, <2>5, <1>a, <1>12, <1>13, <1>14, <1>15
<1>21. DOMAIN lines = 1 .. 4
  BY <1>3, <1>16, <1>17 DEF Ends
<1>20. end - 1 = Len(t)
  BY <1>1, <1>2
<1> QED
  BY <1>17, <1>19, <1>20, <1>21

LEMMA Slice ==
  ASSUME NEW S, NEW s \in Seq(S), NEW a \in Nat, NEW b \in Nat,
         NEW d \in Nat, NEW n \in Nat, a = d + 1, b = d + n, b <= Len(s)
  PROVE  /\ SubSeq(s, a, b) \in Seq(S)
         /\ Len(SubSeq(s, a, b)) = n
         /\ Shifted(SubSeq(s, a, b), s, d, 1, n)
<1>1. \A i \in a .. b : s[i] \in S
  OBVIOUS
<1>2. PICK p : p = SubSeq(s, a, b)
  OBVIOUS
<1>3. /\ p \in Seq(S)
      /\ Len(p) = IF a <= b THEN b - a + 1 ELSE 0
      /\ \A i \in 1 .. b - a + 1 : p[i] = s[a + i - 1]
  BY <1>1, <1>2, SubSeqProperties
<1>4. Len(p) = n /\ b - a + 1 = n
  BY <1>3
<1>5. \A i \in 1 .. n : p[i] = s[a + i - 1] /\ i + d = a + i - 1
  BY <1>3, <1>4
<1>6. Shifted(p, s, d, 1, n)
  BY <1>5 DEF Shifted
<1> QED
  BY <1>2, <1>3, <1>4, <1>6

LEMMA OnlyPiece ==
  ASSUME NEW S, NEW body \in Seq(S), NEW separator \in Seq(S),
         NEW pieces \in Seq(Seq(S)), Len(pieces) = 1, pieces[1] = body
  PROVE  Join(NonEmpty(pieces), separator) = body
<1>1. DOMAIN pieces = {1}
  <2>1. DOMAIN pieces = 1 .. 1 /\ 1 .. 1 = {1}
    OBVIOUS
  <2> QED
    BY <2>1
<1>2. PICK places : /\ places = {i \in DOMAIN pieces : pieces[i] # <<>>}
                    /\ places = IF body = <<>> THEN {} ELSE {1}
  BY <1>1
<1>3. NonEmpty(pieces) = Kept(pieces, places)
  BY <1>2 DEF NonEmpty
<1>4. PICK kept \in Seq(Seq(S)) : /\ kept = Kept(pieces, places)
                                  /\ kept = NonEmpty(pieces)
  BY <1>3, NonEmptyTyped
<1>5. PICK order : order = InOrder(places)
  OBVIOUS
<1>6. kept = [n \in DOMAIN order |-> pieces[order[n]]]
  BY <1>4, <1>5 DEF Kept
<1>7. places \in SUBSET Int /\ IsFiniteSet(places)
      /\ Cardinality(places) = IF body = <<>> THEN 0 ELSE 1
  <2>1. IsFiniteSet({1}) /\ Cardinality({1}) = 1
    BY FS_Singleton
  <2>2. IsFiniteSet({}) /\ Cardinality({}) = 0
    BY FS_EmptySet
  <2>3. CASE body = <<>>
    BY <2>2, <2>3, <1>2
  <2>4. CASE body # <<>>
    <3>1. places = {1} /\ {1} \in SUBSET Int
      BY <2>4, <1>2
    <3> QED
      BY <3>1, <2>1, <2>4
  <2> QED
    BY <2>3, <2>4
<1>8. order \in [1 .. Cardinality(places) -> places]
  BY <1>5, <1>7, Ordering
<1>9. CASE body = <<>>
  <2>1. DOMAIN order = 1 .. 0
    BY <1>7, <1>8, <1>9
  <2>2. kept = <<>>
    BY <2>1, <1>6
  <2> QED
    BY <2>2, <1>4, <1>9 DEF Join
<1>10. CASE body # <<>>
  <2>1. order \in [1 .. 1 -> {1}]
    BY <1>2, <1>7, <1>8, <1>10
  <2>2. 1 \in 1 .. 1
    OBVIOUS
  <2>3. DOMAIN order = 1 .. 1 /\ order[1] = 1
    BY <2>1, <2>2
  <2>4. kept[1] = body
    BY <2>2, <2>3, <1>6
  <2>5. Len(kept) = 1
    BY <2>3, <1>6
  <2>6. PICK text : /\ Join(kept, separator)
                         = IF kept = <<>> THEN <<>> ELSE text[Len(kept)]
                    /\ \A i \in 1 .. Len(kept) :
                         text[i] = IF i = 1 THEN kept[1]
                                   ELSE text[i - 1] \o separator \o kept[i]
    BY JoinSteps
  <2>7. text[1] = kept[1]
    BY <2>2, <2>5, <2>6
  <2>8. kept # <<>>
    <3>1. kept = <<>> => Len(kept) = 0
      OBVIOUS
    <3> QED
      BY <3>1, <2>5
  <2> QED
    BY <2>4, <2>5, <2>6, <2>7, <2>8, <1>4
<1> QED
  BY <1>9, <1>10

(* head is the two lines of headers at the beginning of t.                 *)
Headed(head, t) ==
  Len(head) = 2 /\ head[1] = SubSeq(t, 1, 4) /\ head[2] = SubSeq(t, 6, 9)

(* There is no end of a line in text.                                      *)
OneLine(text) == \A i \in 1 .. Len(text) : text[i] # "NL"

LEMMA HeadRead ==
  ASSUME NEW S, "NL" \in S, NEW t \in Seq(S), NEW body \in Seq(S), NEW c,
         Laid(t, c, body), c # "NL", OneLine(body)
  PROVE  /\ HeadAndBody(t).head \in Seq(Seq(S))
         /\ Headed(HeadAndBody(t).head, t)
         /\ HeadAndBody(t).body = body
<1>1. PICK lines : /\ lines = Split(t, {"NL"})
                   /\ DOMAIN lines = 1 .. 4
                   /\ lines[1] = SubSeq(t, 1, 4)
                   /\ lines[2] = SubSeq(t, 6, 9)
                   /\ lines[3] = SubSeq(t, 11, 10)
                   /\ lines[4] = SubSeq(t, 12, Len(t))
  BY LinesOf DEF OneLine
<1>2. lines \in Seq(Seq(S))
  BY <1>1, SplitTyped
<1>3. Len(lines) = 4
  BY <1>1, <1>2
<1>4. PICK l \in Nat : l = Len(body) /\ Len(t) = l + 11
  BY DEF Laid
<1>5. lines[1] # <<>> /\ lines[2] # <<>>
  <2>1. 1 = 0 + 1 /\ 4 = 0 + 4 /\ 4 <= Len(t)
    BY <1>4
  <2>2. Len(SubSeq(t, 1, 4)) = 4
    BY <2>1, Slice
  <2>3. 6 = 5 + 1 /\ 9 = 5 + 4 /\ 9 <= Len(t)
    BY <1>4
  <2>4. Len(SubSeq(t, 6, 9)) = 4
    BY <2>3, Slice
  <2> QED
    BY <2>2, <2>4, <1>1
<1>6. lines[3] = <<>>
  <2>1. 11 = 10 + 1 /\ 10 = 10 + 0 /\ 10 <= Len(t)
    BY <1>4
  <2>2. SubSeq(t, 11, 10) \in Seq(S) /\ Len(SubSeq(t, 11, 10)) = 0
    BY <2>1, Slice
  <2> QED
    BY <2>2, <1>1, EmptySeq
<1>7. lines[4] = body
  <2>1. PICK p \in Seq(S) : /\ p = SubSeq(t, 12, l + 11) /\ Len(p) = l
                            /\ Shifted(p, t, 11, 1, l)
    <3>1. PICK b \in Nat : b = l + 11 /\ b = 11 + l /\ b <= Len(t)
                           /\ 12 = 11 + 1
      BY <1>4
    <3>2. /\ SubSeq(t, 12, b) \in Seq(S) /\ Len(SubSeq(t, 12, b)) = l
          /\ Shifted(SubSeq(t, 12, b), t, 11, 1, l)
      BY <3>1, Slice
    <3> QED
      BY <3>1, <3>2
  <2>2. \A i \in 1 .. l : t[i + 11] = body[i]
    BY <1>4 DEF Laid, Shifted
  <2>3. \A i \in 1 .. l : t[i + 11] = p[i]
    BY <2>1 DEF Shifted
  <2>5. \A i \in 1 .. l : p[i] = body[i]
    BY <2>2, <2>3
  <2>6. p = body
    BY <2>1, <2>5, <1>4, SeqEqual
  <2> QED
    BY <2>1, <2>6, <1>1, <1>4
<1>8. Find(lines, <<>>) = 3
  <2>1. \A i \in 1 .. 3 - 1 : i = 1 \/ i = 2
    OBVIOUS
  <2>2. \A i \in 1 .. 3 - 1 : lines[i] # <<>>
    BY <2>1, <1>5
  <2>3. 3 \in 1 .. Len(lines)
    BY <1>3
  <2> QED
    BY <2>2, <2>3, <1>2, <1>6, FindIs
<1>9. /\ HeadAndBody(t).head = Before(lines, 3)
      /\ HeadAndBody(t).body = Join(NonEmpty(After(lines, 3)), <<"NL">>)
  BY <1>1, <1>8 DEF HeadAndBody
<1>10. PICK head \in Seq(Seq(S)) :
         /\ head = Before(lines, 3) /\ Len(head) = 2
         /\ head[1] = lines[1] /\ head[2] = lines[2]
  <2>1. 1 = 0 + 1 /\ 2 = 0 + 2 /\ 2 <= Len(lines) /\ 3 - 1 = 2
    BY <1>3
  <2>2. PICK p : p = SubSeq(lines, 1, 2)
    OBVIOUS
  <2>3. p \in Seq(Seq(S)) /\ Len(p) = 2 /\ Shifted(p, lines, 0, 1, 2)
    BY <2>1, <2>2, <1>2, Slice
  <2>4. ASSUME NEW i \in 1 .. 2 PROVE lines[i + 0] = p[i]
    BY <2>3 DEF Shifted
  <2>5. lines[1 + 0] = p[1]
    BY <2>4
  <2>6. lines[2 + 0] = p[2]
    BY <2>4
  <2>7. 1 + 0 = 1 /\ 2 + 0 = 2
    OBVIOUS
  <2>8. Before(lines, 3) = p
    BY <2>1, <2>2 DEF Before
  <2> QED
    BY <2>3, <2>5, <2>6, <2>7, <2>8
<1>11. PICK rest \in Seq(Seq(S)) :
         rest = After(lines, 3) /\ Len(rest) = 1 /\ rest[1] = body
  <2>1. 4 = 3 + 1 /\ 4 <= Len(lines)
    BY <1>3
  <2>2. PICK p : p = SubSeq(lines, 4, 4)
    OBVIOUS
  <2>3. p \in Seq(Seq(S)) /\ Len(p) = 1 /\ Shifted(p, lines, 3, 1, 1)
    BY <2>1, <2>2, <1>2, Slice
  <2>4. lines[1 + 3] = p[1]
    BY <2>3 DEF Shifted
  <2>5. 1 + 3 = 4 /\ 3 + 1 = 4
    OBVIOUS
  <2>6. After(lines, 3) = p
    BY <2>2, <2>5, <1>3 DEF After
  <2> QED
    BY <2>3, <2>4, <2>5, <2>6, <1>7
<1>12. PICK nl \in Seq(S) : nl = <<"NL">>
  <2>1. <<"NL">> \in Seq(S)
    OBVIOUS
  <2> QED
    BY <2>1
<1>13. Join(NonEmpty(rest), nl) = body
  BY <1>11, OnlyPiece
<1>14. Headed(head, t)
  BY <1>1, <1>10 DEF Headed
<1> QED
  BY <1>9, <1>10, <1>11, <1>12, <1>13, <1>14

LEMMA CommandRead ==
  ASSUME NEW S, NEW t \in Seq(S), NEW body \in Seq(S), NEW c,
         Laid(t, c, body), NEW space, "SP" \in space, c \notin space,
         "COMMAND" \notin space, "LENGTH" \notin space,
         NEW head \in Seq(Seq(S)), Headed(head, t)
  PROVE  CommandOf(head, space) = <<c>>
<1>1. PICK l \in Nat : l = Len(body) /\ Len(t) = l + 11
  BY DEF Laid
<1> /\ Len(head) = 2 /\ head[1] = SubSeq(t, 1, 4)
    /\ head[2] = SubSeq(t, 6, 9)
  BY DEF Headed
<1>2. /\ t[1] = "COMMAND" /\ t[2] = ":" /\ t[3] = "SP" /\ t[4] = c
      /\ t[6] = "LENGTH" /\ t[7] = ":"
  BY DEF Laid
<1>3. PICK p \in Seq(S) :
        /\ p = head[1] /\ Len(p) = 4
        /\ p[1] = "COMMAND" /\ p[2] = ":" /\ p[3] = "SP" /\ p[4] = c
  <2>1. 1 = 0 + 1 /\ 4 = 0 + 4 /\ 4 <= Len(t)
    BY <1>1
  <2>2. PICK p : p = SubSeq(t, 1, 4)
    OBVIOUS
  <2>3. p \in Seq(S) /\ Len(p) = 4 /\ Shifted(p, t, 0, 1, 4)
    BY <2>1, <2>2, Slice
  <2>4. ASSUME NEW i \in 1 .. 4 PROVE t[i] = p[i]
    <3>1. t[i + 0] = p[i] /\ i + 0 = i
      BY <2>3 DEF Shifted
    <3> QED
      BY <3>1
  <2>5. 1 \in 1 .. 4 /\ 2 \in 1 .. 4 /\ 3 \in 1 .. 4 /\ 4 \in 1 .. 4
    OBVIOUS
  <2> QED
    BY <2>2, <2>3, <2>4, <2>5, <1>2
<1>4. PICK q \in Seq(S) :
        q = head[2] /\ Len(q) = 4 /\ q[1] = "LENGTH" /\ q[2] = ":"
  <2>1. 6 = 5 + 1 /\ 9 = 5 + 4 /\ 9 <= Len(t)
    BY <1>1
  <2>2. PICK q : q = SubSeq(t, 6, 9)
    OBVIOUS
  <2>3. q \in Seq(S) /\ Len(q) = 4 /\ Shifted(q, t, 5, 1, 4)
    BY <2>1, <2>2, Slice
  <2>4. t[1 + 5] = q[1]
    BY <2>3 DEF Shifted
  <2>5. t[2 + 5] = q[2]
    BY <2>3 DEF Shifted
  <2>6. 1 + 5 = 6 /\ 2 + 5 = 7
    OBVIOUS
  <2> QED
    BY <2>2, <2>3, <2>4, <2>5, <2>6, <1>2
<1>5. ASSUME NEW line \in Seq(S), Len(line) = 4, line[2] = ":",
             NEW key, line[1] = key, key # ":", key \notin space
      PROVE  Find(line, ":") = 2 /\ trim(Before(line, 2), space) = <<key>>
  <2>1. Find(line, ":") = 2
    <3>1. \A i \in 1 .. 2 - 1 : i = 1
      OBVIOUS
    <3>2. \A i \in 1 .. 2 - 1 : line[i] # ":"
      BY <3>1, <1>5
    <3>3. 2 \in 1 .. Len(line)
      BY <1>5
    <3> QED
      BY <3>2, <3>3, <1>5, FindIs
  <2>2. PICK w : w = Before(line, 2)
    OBVIOUS
  <2>3. w \in Seq(S) /\ Len(w) = 1 /\ w[1] = key
    <3>1. 1 = 0 + 1 /\ 1 <= Len(line) /\ 2 - 1 = 1
      BY <1>5
    <3>2. w = SubSeq(line, 1, 1)
      BY <3>1, <2>2 DEF Before
    <3>3. w \in Seq(S) /\ Len(w) = 1 /\ Shifted(w, line, 0, 1, 1)
      BY <3>1, <3>2, Slice
    <3>4. line[1 + 0] = w[1]
      BY <3>3 DEF Shifted
    <3>5. 1 + 0 = 1
      OBVIOUS
    <3> QED
      BY <3>3, <3>4, <3>5, <1>5
  <2>4. Ink(w, space, 1, 1)
    BY <2>3, <1>5 DEF Ink
  <2>5. trim(w, space) = SubSeq(w, 1, 1)
    BY <2>3, <2>4, TrimIs
  <2>6. SubSeq(w, 1, 1) = w
    BY <2>3, SubSeqFull
  <2>7. w = <<key>>
    BY <2>3
  <2> QED
    BY <2>1, <2>2, <2>5, <2>6, <2>7
<1> DEFINE HasCommand(line) ==
             /\ Find(line, ":") # 0
             /\ trim(Before(line, Find(line, ":")), space) = <<"COMMAND">>
           places == {i \in 1 .. Len(head) : HasCommand(head[i])}
<1>6. HasCommand(head[1])
  <2>1. Find(p, ":") = 2 /\ trim(Before(p, 2), space) = <<"COMMAND">>
    BY <1>3, <1>5
  <2> QED
    BY <2>1, <1>3
<1>7. ~ HasCommand(head[2])
  <2>1. Find(q, ":") = 2 /\ trim(Before(q, 2), space) = <<"LENGTH">>
    BY <1>4, <1>5
  <2>2. <<"LENGTH">> # <<"COMMAND">>
    OBVIOUS
  <2> QED
    BY <2>1, <2>2, <1>4
<1>8. PICK at : at = IF places # {} THEN Max(places) ELSE 0
  OBVIOUS
<1>9. CommandOf(head, space)
        = IF at = 0 THEN <<>>
          ELSE trim(After(head[at], Find(head[at], ":")), space)
  BY <1>8 DEF CommandOf, SelectLastInSeq
<1>10. at = 1
  <2>1. \A i \in 1 .. Len(head) : i = 1 \/ i = 2
    OBVIOUS
  <2>2. 1 \in 1 .. Len(head)
    OBVIOUS
  <2> HIDE DEF HasCommand
  <2>3. \A i \in places : i = 1
    BY <2>1, <1>7
  <2>4. 1 \in places
    BY <2>2, <1>6
  <2> HIDE DEF places
  <2>5. places = {1}
    BY <2>3, <2>4
  <2>6. PICK one : one = {1}
    OBVIOUS
  <2>9. one \in SUBSET Nat /\ one # {}
    BY <2>6
  <2>7. IsFiniteSet(one)
    BY <2>6, FS_Singleton
  <2>8. Max(one) \in one
    BY <2>7, <2>9, MinMax
  <2> QED
    BY <2>5, <2>6, <2>8, <1>8
<1>11. Find(p, ":") = 2
  BY <1>3, <1>5
<1>12. CommandOf(head, space) = trim(After(p, 2), space)
  BY <1>3, <1>9, <1>10, <1>11
<1>13. PICK v : v = After(p, 2)
  OBVIOUS
<1>14. v \in Seq(S) /\ Len(v) = 2 /\ v[1] = "SP" /\ v[2] = c
  <2>1. 3 = 2 + 1 /\ 4 = 2 + 2 /\ 4 <= Len(p)
    BY <1>3
  <2>2. v = SubSeq(p, 3, 4)
    BY <2>1, <1>3, <1>13 DEF After
  <2>3. v \in Seq(S) /\ Len(v) = 2 /\ Shifted(v, p, 2, 1, 2)
    BY <2>1, <2>2, Slice
  <2>4. p[1 + 2] = v[1]
    BY <2>3 DEF Shifted
  <2>5. p[2 + 2] = v[2]
    BY <2>3 DEF Shifted
  <2>6. 1 + 2 = 3 /\ 2 + 2 = 4
    OBVIOUS
  <2> QED
    BY <2>3, <2>4, <2>5, <2>6, <1>3
<1>15. Ink(v, space, 2, 2)
  <2>1. \A i \in 1 .. 2 : i = 1 \/ i = 2
    OBVIOUS
  <2> QED
    BY <2>1, <1>14 DEF Ink
<1>16. trim(v, space) = SubSeq(v, 2, 2)
  BY <1>14, <1>15, TrimIs
<1>17. PICK w : w = SubSeq(v, 2, 2)
  OBVIOUS
<1>18. w \in Seq(S) /\ Len(w) = 1 /\ w[1] = c
  <2>1. SubSeq(v, 2, 2) \in Seq(S)
    <3>1. 2 \in Nat \ {0} /\ 2 \in Int /\ 2 <= Len(v) /\ v \in Seq(S)
      BY <1>14
    <3> QED
      BY <3>1, SliceTyped
  <2>2. Len(SubSeq(v, 2, 2)) = 1 /\ SubSeq(v, 2, 2)[1] = v[2]
    BY <1>14
  <2> QED
    BY <2>1, <2>2, <1>14, <1>17
<1>19. w = <<c>>
  BY <1>18
<1> QED
  BY <1>12, <1>13, <1>16, <1>17, <1>19

LEMMA LaidRead ==
  ASSUME NEW S, "NL" \in S, NEW t \in Seq(S), NEW body \in Seq(S), NEW c,
         Laid(t, c, body), c # "NL", OneLine(body),
         NEW space, "SP" \in space, c \notin space,
         "COMMAND" \notin space, "LENGTH" \notin space
  PROVE  /\ HeadAndBody(t).body = body
         /\ CommandOf(HeadAndBody(t).head, space) = <<c>>
<1>1. /\ HeadAndBody(t).head \in Seq(Seq(S))
      /\ Headed(HeadAndBody(t).head, t)
      /\ HeadAndBody(t).body = body
  BY HeadRead
<1>2. CommandOf(HeadAndBody(t).head, space) = <<c>>
  BY <1>1, CommandRead
<1> QED
  BY <1>1, <1>2

(* What a parser makes of the text of a message.                           *)
LEMMA WholeRead ==
  ASSUME NEW S, Marks \subseteq S, NEW c \in S, c # "NL", NEW m,
         m.command = <<c>>, Over(S, m.params), NEW space, "SP" \in space,
         c \notin space, "COMMAND" \notin space, "LENGTH" \notin space,
         \A i \in 1 .. Len(Body(m.params)) : Body(m.params)[i] # "NL"
  PROVE  /\ HasHeader(build(m))
         /\ ParseTLV(build(m), space).command = m.command
         /\ ParseTLV(build(m), space).params
              = ReadFrom(Body(m.params), space)
<1>1. PICK body \in Seq(S), t \in Seq(S) :
        body = Body(m.params) /\ t = build(m) /\ Laid(t, c, body)
  BY BuiltText
<1>2. "NL" \in S
  BY DEF Marks
<1>3. PICK text : text = HeadAndBody(t)
  OBVIOUS
<1>4. OneLine(body)
  BY <1>1 DEF OneLine
<1>5. text.body = body /\ CommandOf(text.head, space) = <<c>>
  <2>1. /\ HeadAndBody(t).body = body
        /\ CommandOf(HeadAndBody(t).head, space) = <<c>>
    BY <1>1, <1>2, <1>4, LaidRead
  <2> QED
    BY <2>1, <1>3
<1>6. /\ ParseTLV(t, space).command = CommandOf(text.head, space)
      /\ ParseTLV(t, space).params = ReadFrom(text.body, space)
  BY <1>3 DEF ParseTLV, ReadFrom
<1>7. HasHeader(t)
  <2>1. 1 \in 1 .. Len(t) - 1 /\ 1 + 1 = 2
    BY <1>1 DEF Laid
  <2>2. t[1] = "COMMAND" /\ t[2] = ":"
    BY <1>1 DEF Laid
  <2> QED
    BY <2>1, <2>2 DEF HasHeader
<1> QED
  BY <1>1, <1>5, <1>6, <1>7

-----------------------------------------------------------------------------
(* Messages that survive the way.                                          *)

(* Texts of one line, and those of them that the client reads as they were *)
(* written.                                                                *)
PlainTexts ==
  {v \in Seq(Words) : \A i \in 1 .. Len(v) : v[i] # "NL"}
NeatTexts ==
  {v \in PlainTexts : /\ \A i \in 1 .. Len(v) : v[i] # "SEMI"
                      /\ trim(v, ClientSpace) = v}

(* A user types one line at a time, whatever is in it; names are what the  *)
(* server has read, without semicolons and spaces around them; and         *)
(* std::map orders the names of all parameters.                            *)
PlainlyTyped ==
  /\ Typed \subseteq PlainTexts
  /\ Names \subseteq NeatTexts
  /\ \A k \in Keys : \E i \in DOMAIN KeyOrder : KeyOrder[i] = k

LEMMA KeyWords ==
  /\ "NL" \notin Keys /\ "=" \notin Keys /\ "SEMI" \notin Keys
  /\ \A k \in Keys : k \notin IsSpace /\ k \notin ClientSpace
BY DEF Keys, IsSpace, ClientSpace

LEMMA CommandWords ==
  \A c \in Commands \cup Said :
    c # "NL" /\ c \notin IsSpace /\ c \notin ClientSpace
BY DEF Commands, Required, Said, IsSpace, ClientSpace

LEMMA PlainParams ==
  ASSUME PlainlyTyped, NEW params, Of(PlainTexts, params)
  PROVE  /\ Over(Words, params)
         /\ Over(Words \ {"NL"}, params)
         /\ Listed(params)
         /\ DOMAIN params # {}
         /\ \A k : <<k>> \in DOMAIN params => k \in Keys
<1>1. ASSUME NEW key \in DOMAIN params
      PROVE  /\ \E k \in Keys : key = <<k>>
             /\ params[key] \in Seq(Words)
             /\ \A i \in 1 .. Len(params[key]) : params[key][i] # "NL"
  BY DEF Of, PlainTexts
<1>2. \A k : <<k>> \in DOMAIN params => k \in Keys
  <2> SUFFICES ASSUME NEW k, <<k>> \in DOMAIN params PROVE k \in Keys
    OBVIOUS
  <2>1. PICK key : key = <<k>>
    OBVIOUS
  <2>2. PICK g \in Keys : key = <<g>>
    BY <2>1, <1>1
  <2> QED
    BY <2>1, <2>2
<1>3. Over(Words, params)
  BY <1>1, Vocabulary DEF Over
<1>4. Over(Words \ {"NL"}, params)
  <2> SUFFICES ASSUME NEW key \in DOMAIN params
               PROVE  \E k \in Words \ {"NL"} :
                        key = <<k>> /\ params[key] \in Seq(Words \ {"NL"})
    BY DEF Over
  <2>1. PICK k \in Keys : key = <<k>>
    BY <1>1
  <2>2. k \in Words \ {"NL"}
    BY Vocabulary, KeyWords
  <2>3. PICK v \in Seq(Words) : /\ v = params[key]
                                /\ \A i \in 1 .. Len(v) : v[i] # "NL"
    BY <1>1
  <2>4. \A i \in 1 .. Len(v) : v[i] \in Words \ {"NL"}
    BY <2>3
  <2>5. v \in Seq(Words \ {"NL"})
    BY <2>4
  <2> QED
    BY <2>1, <2>2, <2>3, <2>5
<1>5. Listed(params)
  <2> SUFFICES ASSUME NEW key \in DOMAIN params
               PROVE  \E k \in ToSet(KeyOrder) : key = <<k>>
    BY DEF Listed
  <2>1. PICK k \in Keys : key = <<k>>
    BY <1>1
  <2>2. k \in ToSet(KeyOrder)
    BY DEF PlainlyTyped, ToSet
  <2> QED
    BY <2>1, <2>2
<1>7. DOMAIN params # {}
  BY DEF Of
<1> QED
  BY <1>2, <1>3, <1>4, <1>5, <1>7

(* A message is read with its command, its parameters and those inserted   *)
(* in them, the others cut at their first semicolon and trimmed.           *)
LEMMA MessageRead ==
  ASSUME PlainlyTyped, NEW commands, commands \subseteq Commands \cup Said,
         NEW m, Message(PlainTexts, commands, m),
         NEW space, space \in {IsSpace, ClientSpace}
  PROVE  /\ HasHeader(build(m))
         /\ ParseTLV(build(m), space).command = m.command
         /\ Gets(m.params, space, ParseTLV(build(m), space).params)
<1>1. PICK c \in commands : /\ m = Request(c, m.params)
                            /\ Of(PlainTexts, m.params)
  BY DEF Message
<1>2. m.command = <<c>>
  BY <1>1 DEF Request
<1>3. c # "NL" /\ c \notin space
  BY CommandWords
<1>4. PICK params : params = m.params
  OBVIOUS
<1>5. /\ Over(Words, params)
      /\ Over(Words \ {"NL"}, params)
      /\ Listed(params)
      /\ DOMAIN params # {}
      /\ \A k : <<k>> \in DOMAIN params => k \in Keys
  BY <1>1, <1>4, PlainParams
<1>6. PICK S : S = Words \cup commands
  OBVIOUS
<1>7. c \in S /\ Marks \subseteq S
  BY <1>6, Vocabulary
<1>8. Over(S, params)
  <2>1. \A v \in Seq(Words) : v \in Seq(S)
    BY <1>6
  <2> QED
    BY <2>1, <1>5, <1>6 DEF Over
<1>9. \A i \in 1 .. Len(Body(params)) : Body(params)[i] # "NL"
  <2>1. PICK W : W = Words \ {"NL"}
    OBVIOUS
  <2>2. "=" \in W /\ "SEMI" \in W
    BY <2>1, Vocabulary DEF Marks
  <2>3. Over(W, params)
    BY <2>1, <1>5
  <2>4. Body(params) \in Seq(W)
    BY <2>2, <2>3, BodyTyped
  <2>5. \A i \in 1 .. Len(Body(params)) : Body(params)[i] \in W
    BY <2>4, ElementOfSeq
  <2> QED
    BY <2>1, <2>5
<1>10. /\ "SP" \in space /\ "=" \notin space
       /\ "COMMAND" \notin space /\ "LENGTH" \notin space
  BY DEF IsSpace, ClientSpace
<1>11. /\ HasHeader(build(m))
       /\ ParseTLV(build(m), space).command = m.command
       /\ ParseTLV(build(m), space).params = ReadFrom(Body(params), space)
  BY <1>2, <1>3, <1>4, <1>7, <1>8, <1>9, <1>10, WholeRead
<1>12. PlainKeys(S, params, space)
  BY <1>5, KeyWords DEF PlainKeys
<1>13. Gets(params, space, ReadFrom(Body(params), space))
  BY <1>5, <1>7, <1>8, <1>10, <1>12, BodyRead
<1> QED
  BY <1>4, <1>11, <1>13

(* What RequestArrives says of a request and what the server has read.     *)
Arrived(m, read) ==
  /\ read.command = m.command
  /\ DOMAIN read.params = DOMAIN m.params \cup Inserted(m.params)
  /\ \A k \in DOMAIN m.params \ Inserted(m.params) :
       read.params[k] = Arrives(m.params[k])

LEMMA RequestRead ==
  ASSUME PlainlyTyped, NEW m, Message(PlainTexts, Commands, m)
  PROVE  Arrived(m, parse(build(m)))
<1>1. PICK read : read = ParseTLV(build(m), IsSpace)
  OBVIOUS
<1>2. /\ HasHeader(build(m))
      /\ read.command = m.command
      /\ Gets(m.params, IsSpace, read.params)
  BY <1>1, MessageRead
<1>3. parse(build(m)) = read
  BY <1>1, <1>2 DEF parse
<1>4. Arrived(m, read)
  <2>1. Inserted(m.params) = InsertedIn(m.params, IsSpace)
    BY DEF Inserted, InsertedIn
  <2> QED
    BY <2>1, <1>2 DEF Arrived, Arrives, Gets
<1> QED
  BY <1>3, <1>4

LEMMA AnswerRead ==
  ASSUME PlainlyTyped, NEW r, Message(NeatTexts, Said, r)
  PROVE  parse_message(build(r)) = r
<1>1. PICK c \in Said : r = Request(c, r.params) /\ Of(NeatTexts, r.params)
  BY DEF Message
<1>2. Of(PlainTexts, r.params)
  BY <1>1 DEF Of, NeatTexts
<1>3. Message(PlainTexts, Said, r)
  BY <1>1, <1>2 DEF Message
<1>4. PICK read : read = ParseTLV(build(r), ClientSpace)
  OBVIOUS
<1>5. /\ HasHeader(build(r))
      /\ read.command = r.command
      /\ Gets(r.params, ClientSpace, read.params)
  BY <1>3, <1>4, MessageRead
<1>6. parse_message(build(r)) = read
  BY <1>4, <1>5 DEF parse_message
<1>7. ASSUME NEW v \in NeatTexts
      PROVE  /\ Rest(v) = <<>>
             /\ trim(Split(v, {"SEMI"})[1], ClientSpace) = v
  <2>1. /\ v \in Seq(Words)
        /\ \A i \in 1 .. Len(v) : v[i] # "SEMI"
        /\ trim(v, ClientSpace) = v
    BY DEF NeatTexts, PlainTexts
  <2>2. "SEMI" \in Words
    BY Vocabulary DEF Marks
  <2>3. Find(v, "SEMI") = 0
    <3>1. PICK n \in 0 .. Len(v) : n = Find(v, "SEMI")
                                   /\ (n # 0 => v[n] = "SEMI")
      BY <2>1, Found
    <3>2. n # 0 => n \in 1 .. Len(v)
      BY <3>1, <2>1
    <3> QED
      BY <3>1, <3>2, <2>1
  <2>4. Rest(v) = <<>> /\ Split(v, {"SEMI"})[1] = v
    <3>1. PICK w \in Seq(Words), semi \in Seq(Words), rest \in Seq(Words) :
            Parted(v, w, semi, rest)
      BY <2>1, <2>2, RestOf
    <3> QED
      BY <3>1, <2>3 DEF Parted
  <2> QED
    BY <2>1, <2>4
<1>8. \A key \in DOMAIN r.params : r.params[key] \in NeatTexts
  BY <1>1 DEF Of
<1>a. InsertedIn(r.params, ClientSpace) = {}
  <2>1. ASSUME NEW key \in DOMAIN r.params
        PROVE  DOMAIN ReadFrom(Rest(r.params[key]), ClientSpace) = {}
    BY <1>7, <1>8, NothingRead
  <2> QED
    BY <2>1 DEF InsertedIn
<1>9. DOMAIN read.params = DOMAIN r.params
  BY <1>5, <1>a DEF Gets
<1>10. \A key \in DOMAIN r.params : read.params[key] = r.params[key]
  BY <1>5, <1>7, <1>8, <1>a DEF Gets
<1>11. read.params = [key \in DOMAIN read.params |-> read.params[key]]
  BY <1>4 DEF ParseTLV, ReadFrom, ParamsOf
<1>12. read.params = r.params
  BY <1>1, <1>9, <1>10, <1>11 DEF Of
<1>13. read = [command |-> read.command, params |-> read.params]
  BY <1>4 DEF ParseTLV
<1>14. r = [command |-> r.command, params |-> r.params]
  BY <1>1 DEF Request
<1> QED
  BY <1>5, <1>6, <1>12, <1>13, <1>14

LEMMA NeatAnswers ==
  ASSUME PlainlyTyped, NEW m, NEW S, m.command \in Seq(S),
         NEW r \in handleCommand(m)
  PROVE  /\ Message(NeatTexts, Said, r)
         /\ Known(m)
              => r.command[1] \in {"ERROR", ExpectedAnswer[m.command[1]]}
<1>1. ASSUME NEW w \in Said PROVE <<w>> \in NeatTexts
  <2>1. PICK v : v = <<w>>
    OBVIOUS
  <2>2. w \in Words
    BY Vocabulary
  <2>3. v \in Seq(Words) /\ Len(v) = 1 /\ v[1] = w
    BY <2>1, <2>2
  <2>4. w # "NL" /\ w # "SEMI" /\ w \notin ClientSpace
    BY DEF Said, ClientSpace
  <2>5. \A i \in 1 .. Len(v) : i = 1
    BY <2>3
  <2>6. Ink(v, ClientSpace, 1, 1)
    BY <2>3, <2>4, <2>5 DEF Ink
  <2>7. trim(v, ClientSpace) = SubSeq(v, 1, 1)
    BY <2>3, <2>6, TrimIs
  <2>8. SubSeq(v, 1, 1) = v
    BY <2>3, SubSeqFull
  <2> QED
    BY <2>1, <2>3, <2>4, <2>5, <2>7, <2>8 DEF NeatTexts, PlainTexts
<1>2. <<>> \in NeatTexts
  <2>1. PICK v : v = <<>>
    OBVIOUS
  <2>2. v \in Seq(Words) /\ Len(v) = 0
    BY <2>1
  <2>3. trim(v, ClientSpace) = <<>>
    <3>1. \A i \in 1 .. Len(v) : v[i] \in ClientSpace
      BY <2>2
    <3> QED
      BY <2>2, <3>1, TrimIs
  <2> QED
    BY <2>1, <2>2, <2>3 DEF NeatTexts, PlainTexts
<1>3. <<"some", "SP", "text">> \in NeatTexts
  <2>1. PICK v : v = <<"some", "SP", "text">>
    OBVIOUS
  <2>2. "some" \in Words /\ "SP" \in Words /\ "text" \in Words
    BY Vocabulary DEF Said, Marks
  <2>3. /\ v \in Seq(Words) /\ Len(v) = 3
        /\ v[1] = "some" /\ v[2] = "SP" /\ v[3] = "text"
    BY <2>1, <2>2
  <2>4. \A i \in 1 .. Len(v) : i = 1 \/ i = 2 \/ i = 3
    BY <2>3
  <2>5. /\ "SP" # "NL" /\ "SP" # "SEMI"
        /\ "some" # "NL" /\ "some" # "SEMI"
        /\ "text" # "NL" /\ "text" # "SEMI"
        /\ "some" \notin ClientSpace /\ "text" \notin ClientSpace
    BY DEF ClientSpace
  <2>6. Ink(v, ClientSpace, 1, 3)
    BY <2>3, <2>4, <2>5 DEF Ink
  <2>7. trim(v, ClientSpace) = SubSeq(v, 1, 3)
    BY <2>3, <2>6, TrimIs
  <2>8. SubSeq(v, 1, 3) = v
    BY <2>3, SubSeqFull
  <2>9. \A i \in 1 .. Len(v) : v[i] # "NL" /\ v[i] # "SEMI"
    BY <2>3, <2>4, <2>5
  <2> QED
    BY <2>1, <2>3, <2>7, <2>8, <2>9 DEF NeatTexts, PlainTexts
<1>4. PICK T : T = NeatTexts
  OBVIOUS
<1>5. /\ Names \subseteq T /\ <<>> \in T /\ <<"some", "SP", "text">> \in T
      /\ \A w \in Said : <<w>> \in T
  BY <1>1, <1>2, <1>3, <1>4 DEF PlainlyTyped
<1>6. /\ Message(T, Said, r)
      /\ Known(m)
           => r.command[1] \in {"ERROR", ExpectedAnswer[m.command[1]]}
  BY <1>5, AnswersOf
<1> QED
  BY <1>4, <1>6

-----------------------------------------------------------------------------
(* As long as every recv takes a whole text, the two take turns: a request *)
(* on its way, then its answer, then nothing.                              *)

Answered(m, r) ==
  /\ Message(NeatTexts, Said, r)
  /\ r.command[1] \in {"ERROR", ExpectedAnswer[m.command[1]]}

Turns ==
  /\ token \in PlainTexts
  /\ client = "waiting"
       => /\ request # NoMessage
          /\ \/ toServer = build(request) /\ toClient = <<>>
             \/ toServer = <<>> /\ toClient = build(response)
  /\ client # "waiting" => toServer = <<>> /\ toClient = <<>>
  /\ request # NoMessage => Message(PlainTexts, Commands, request)
  /\ request # NoMessage /\ toServer = <<>>
       => Arrived(request, served) /\ Answered(request, response)
  /\ request # NoMessage /\ client # "waiting" => got = response

TurnsInv == Streams /\ cuts \in Nat /\ (cuts = 0 => Turns)

LEMMA TurnsInit == Init => TurnsInv
<1> SUFFICES ASSUME Init PROVE TurnsInv
  OBVIOUS
<1>1. Streams
  BY StreamsInit
<1>2. <<>> \in PlainTexts
  BY DEF PlainTexts
<1> QED
  BY <1>1, <1>2 DEF Init, TurnsInv, Turns

(* A recv that leaves nothing behind took the whole stream.                *)
LEMMA TookAll ==
  ASSUME NEW S, "part" \in S, NEW stream \in Seq(S),
         NEW n \in 1 .. Len(stream), NEW s \in AsFound(stream, n),
         cuts \in Nat, Cut(n, s)
  PROVE  /\ cuts' \in Nat
         /\ cuts' = 0 => /\ cuts = 0
                         /\ SubSeq(s, 1, n) = stream
                         /\ Unread(s, n) = <<>>
<1>1. cuts' = IF n = Len(s) THEN cuts ELSE cuts + 1
  BY DEF Cut
<1>2. cuts' \in Nat /\ (cuts' = 0 => cuts = 0 /\ n = Len(stream) /\ s = stream)
  <2>1. n = Len(s) => s = stream
    BY FoundTyped
  <2> QED
    BY <2>1, <1>1
<1>3. SubSeq(stream, 1, Len(stream)) = stream
  BY SubSeqFull
<1>4. Unread(stream, Len(stream)) = <<>>
  <2>1. PICK k \in Nat : k = Len(stream)
    OBVIOUS
  <2>2. SubSeq(stream, k + 1, k) = <<>>
    OBVIOUS
  <2> QED
    BY <2>1, <2>2 DEF Unread, After
<1> QED
  BY <1>2, <1>3, <1>4

LEMMA TurnsSent ==
  ASSUME PlainlyTyped, TurnsInv, Choose
  PROVE  TurnsInv'
<1>1. PICK m \in AuthMenu \cup MainMenu \cup RequestList \cup {ListRequests} :
        Send(m) /\ client # "waiting"
  BY DEF Choose
<1>2. /\ toServer' = toServer \o build(m) /\ request' = m
      /\ client' = "waiting"
      /\ UNCHANGED <<toClient, token, served, response, got, done, cuts>>
  BY <1>1 DEF Send
<1>3. Worded(m, Commands)
  BY SentWorded DEF TurnsInv, Streams
<1>4. Streams'
  BY <1>1, <1>3, SendStep DEF TurnsInv
<1>5. CASE cuts = 0
  <2>1. Turns
    BY <1>5 DEF TurnsInv
  <2>2. toServer = <<>> /\ toClient = <<>> /\ token \in PlainTexts
    BY <2>1, <1>1 DEF Turns
  <2>3. PICK T : T = PlainTexts
    OBVIOUS
  <2>4. Message(T, Commands, m)
    BY <2>2, <2>3, SentOf DEF PlainlyTyped
  <2>5. build(m) \in Seq(Words \cup Commands) /\ build(m) # <<>>
    BY <1>3, WordedBuilt
  <2>6. toServer' = build(m)
    BY <2>2, <2>5, <1>2
  <2>7. m # NoMessage
    BY <1>3 DEF Worded, NoMessage
  <2>8. Turns'
    BY <2>2, <2>3, <2>4, <2>5, <2>6, <2>7, <1>2 DEF Turns
  <2> QED
    BY <2>8, <1>2, <1>4 DEF TurnsInv
<1>6. CASE cuts # 0
  BY <1>2, <1>4, <1>6 DEF TurnsInv
<1> QED
  BY <1>5, <1>6

LEMMA TurnsServed ==
  ASSUME PlainlyTyped, TurnsInv, Serve
  PROVE  TurnsInv'
<1>0. PICK n \in Amounts(toServer, ServerBuffer) :
       \E s \in AsFound(toServer, n) :
        \E m :
          /\ m = parse(SubSeq(s, 1, n))
          /\ toServer' = Unread(s, n)
          /\ served' = m
          /\ \E r \in handleCommand(m) :
               /\ response' = r
               /\ toClient' = IF r = NoMessage THEN toClient
                              ELSE toClient \o build(r)
          /\ Cut(n, s)
          /\ UNCHANGED <<client, token, request, got>>
  BY DEF Serve
<1>1. PICK s \in AsFound(toServer, n) :
        \E m :
          /\ m = parse(SubSeq(s, 1, n))
          /\ toServer' = Unread(s, n)
          /\ served' = m
          /\ \E r \in handleCommand(m) :
               /\ response' = r
               /\ toClient' = IF r = NoMessage THEN toClient
                              ELSE toClient \o build(r)
          /\ Cut(n, s)
          /\ UNCHANGED <<client, token, request, got>>
  BY <1>0
<1>2. n \in 1 .. Len(toServer)
  BY AmountsFit, BuffersAssumption DEF TurnsInv, Streams
<1>3. PICK m :
        /\ m = parse(SubSeq(s, 1, n))
        /\ toServer' = Unread(s, n)
        /\ served' = m
        /\ \E r \in handleCommand(m) :
             /\ response' = r
             /\ toClient' = IF r = NoMessage THEN toClient
                            ELSE toClient \o build(r)
        /\ Cut(n, s)
        /\ UNCHANGED <<client, token, request, got>>
  BY <1>1
<1>4. PICK r \in handleCommand(m) :
        /\ response' = r
        /\ toClient' = IF r = NoMessage THEN toClient ELSE toClient \o build(r)
  BY <1>3
<1>5. Streams'
  BY StreamsServed DEF TurnsInv
<1>6. /\ cuts' \in Nat
      /\ cuts' = 0 => /\ cuts = 0
                      /\ SubSeq(s, 1, n) = toServer
                      /\ Unread(s, n) = <<>>
  BY <1>2, <1>3, TookAll, Vocabulary DEF TurnsInv, Streams
<1>7. ASSUME cuts' = 0 PROVE Turns'
  <2>1. Turns /\ m = parse(toServer) /\ toServer' = <<>>
    BY <1>3, <1>6, <1>7 DEF TurnsInv
  <2>2. toServer # <<>>
    <3>1. toServer = <<>> => Len(toServer) = 0
      OBVIOUS
    <3> QED
      BY <3>1, <1>2
  <2>3. /\ client = "waiting" /\ request # NoMessage
        /\ toServer = build(request) /\ toClient = <<>>
        /\ Message(PlainTexts, Commands, request) /\ token \in PlainTexts
    BY <2>1, <2>2 DEF Turns
  <2>4. Arrived(request, m)
    BY <2>1, <2>3, RequestRead
  <2>5. PICK c \in Commands : request.command = <<c>>
    BY <2>3 DEF Message, Request
  <2>6. m.command = <<c>>
    BY <2>4, <2>5 DEF Arrived
  <2>7. Known(m)
    BY <2>6 DEF Known, Commands
  <2>8. <<c>> \in Seq(Commands)
    OBVIOUS
  <2>9. Answered(request, r)
    BY <2>5, <2>6, <2>7, <2>8, <1>4, NeatAnswers DEF Answered
  <2>10. Worded(r, Said)
    BY <2>6, <2>8, <1>4, AnswersWorded
  <2>11. r # NoMessage
    <3>1. r.command # <<>>
      BY <2>10 DEF Worded
    <3> QED
      BY <3>1 DEF NoMessage
  <2>12. toClient' = build(r)
    <3>1. build(r) \in Seq(Words \cup Said)
      BY <2>10, WordedBuilt
    <3> QED
      BY <3>1, <2>3, <2>11, <1>4
  <2> QED
    BY <2>1, <2>3, <2>4, <2>9, <2>12, <1>3, <1>4 DEF Turns
<1> QED
  BY <1>5, <1>6, <1>7 DEF TurnsInv

LEMMA TurnsReceived ==
  ASSUME PlainlyTyped, TurnsInv, Receive
  PROVE  TurnsInv'
<1>0. PICK n \in Amounts(toClient, ClientBuffer) :
       \E s \in AsFound(toClient, n) :
        \E m :
          /\ m = parse_message(SubSeq(s, 1, n))
          /\ toClient' = Unread(s, n)
          /\ got' = m
          /\ token' = TokenAfter(m)
          /\ Cut(n, s)
  BY DEF Receive
<1>1. PICK s \in AsFound(toClient, n) :
        \E m :
          /\ m = parse_message(SubSeq(s, 1, n))
          /\ toClient' = Unread(s, n)
          /\ got' = m
          /\ token' = TokenAfter(m)
          /\ Cut(n, s)
  BY <1>0
<1>2. n \in 1 .. Len(toClient)
  BY AmountsFit, BuffersAssumption DEF TurnsInv, Streams
<1>3. PICK m :
        /\ m = parse_message(SubSeq(s, 1, n))
        /\ toClient' = Unread(s, n)
        /\ got' = m
        /\ token' = TokenAfter(m)
        /\ Cut(n, s)
  BY <1>1
<1>4. Streams' /\ client' # "waiting"
  BY ReceiveStep DEF TurnsInv
<1>5. /\ client = "waiting"
      /\ UNCHANGED <<toServer, request, served, response>>
  BY DEF Receive
<1>6. /\ cuts' \in Nat
      /\ cuts' = 0 => /\ cuts = 0
                      /\ SubSeq(s, 1, n) = toClient
                      /\ Unread(s, n) = <<>>
  BY <1>2, <1>3, TookAll, Vocabulary DEF TurnsInv, Streams
<1>7. ASSUME cuts' = 0 PROVE Turns'
  <2>1. Turns /\ m = parse_message(toClient) /\ toClient' = <<>>
    BY <1>3, <1>6, <1>7 DEF TurnsInv
  <2>2. toClient # <<>>
    <3>1. toClient = <<>> => Len(toClient) = 0
      OBVIOUS
    <3> QED
      BY <3>1, <1>2
  <2>3. /\ request # NoMessage /\ toServer = <<>>
        /\ toClient = build(response)
        /\ Message(PlainTexts, Commands, request) /\ token \in PlainTexts
        /\ Arrived(request, served) /\ Answered(request, response)
    BY <2>1, <2>2, <1>5 DEF Turns
  <2>4. m = response
    BY <2>1, <2>3, AnswerRead DEF Answered
  <2>5. token' \in PlainTexts
    <3>1. <<>> \in PlainTexts
      BY DEF PlainTexts
    <3>2. Value(m, "token") \in PlainTexts
      <4>1. Of(NeatTexts, m.params)
        BY <2>3, <2>4 DEF Answered, Message
      <4> QED
        BY <3>1, <4>1 DEF Value, Of, NeatTexts
    <3> QED
      BY <3>1, <3>2, <2>3, <1>3 DEF TokenAfter
  <2> QED
    BY <2>1, <2>3, <2>4, <2>5, <1>3, <1>4, <1>5 DEF Turns
<1> QED
  BY <1>4, <1>6, <1>7 DEF TurnsInv

LEMMA TurnsStep ==
  ASSUME PlainlyTyped
  PROVE  TurnsInv /\ [Next]_vars => TurnsInv'
<1> SUFFICES ASSUME TurnsInv, [Next]_vars PROVE TurnsInv'
  OBVIOUS
<1>1. CASE Choose
  BY <1>1, TurnsSent
<1>2. CASE Leave
  <2>1. UNCHANGED <<toServer, toClient, token, request, served, response, got,
                    asked, done, cuts>>
    BY <1>2 DEF Leave
  <2>2. client # "waiting" /\ client' # "waiting"
    BY <1>2 DEF Leave
  <2>3. Turns => Turns'
    BY <2>1, <2>2 DEF Turns
  <2> QED
    BY <2>1, <2>3 DEF TurnsInv, Streams
<1>3. CASE Serve
  BY <1>3, TurnsServed
<1>4. CASE Receive
  BY <1>4, TurnsReceived
<1>5. CASE UNCHANGED vars
  BY <1>5 DEF vars, TurnsInv, Turns, Streams
<1> QED
  BY <1>1, <1>2, <1>3, <1>4, <1>5 DEF Next

(* As long as every recv takes a whole text, parse finds in what build has *)
(* made of a request exactly its command, its parameters and those that    *)
(* stand behind a semicolon in a value, whatever is typed on a line; and   *)
(* every parameter that is not among these up to its first semicolon and   *)
(* trimmed.                                                                *)
THEOREM RequestsArrive ==
  ASSUME PlainlyTyped
  PROVE  Spec => []RequestArrives
<1>1. Init => TurnsInv
  BY TurnsInit
<1>2. TurnsInv /\ [Next]_vars => TurnsInv'
  BY TurnsStep
<1>3. TurnsInv => RequestArrives
  BY DEF TurnsInv, Turns, Arrived, RequestArrives
<1> QED
  BY <1>1, <1>2, <1>3, PTL DEF Spec

(* As long as every recv takes a whole text, the client never takes one    *)
(* answer for another's: what it reads is the answer to its last request,  *)
(* exactly as the server has put it, one its handler knows, and nothing is *)
(* left in the stream for the next request.                                *)
THEOREM AnswersMatchRequests ==
  ASSUME PlainlyTyped
  PROVE  Spec => []AnswersMatch
<1>1. Init => TurnsInv
  BY TurnsInit
<1>2. TurnsInv /\ [Next]_vars => TurnsInv'
  BY TurnsStep
<1>3. TurnsInv => AnswersMatch
  BY DEF TurnsInv, Turns, Answered, AnswersMatch
<1> QED
  BY <1>1, <1>2, <1>3, PTL DEF Spec
=============================================================================
