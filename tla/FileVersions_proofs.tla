-------------------------- MODULE FileVersions_proofs --------------------------
(***************************************************************************)
(* Proofs about FileVersions for any number of requests and any limit of   *)
(* versions: what holds whether or not handlers overlap.                   *)
(***************************************************************************)
EXTENDS FileVersions, FunctionTheorems, FiniteSetTheorems, SequenceTheorems, TLAPS

-----------------------------------------------------------------------------
(* The inductive invariant of any execution.                               *)

Makers == {"create", "meta", "rollback"}

Made == {q \in Requests : req[q].ver # NoVersion}

MadeVersions == {req[q].ver : q \in Made}

Distinct(s) == \A i, j \in DOMAIN s : s[i] = s[j] => i = j

\* Which phases and which versions go with which kind of request.
PhaseAt(x) ==
    /\ x.phase \in {"idle", "uploaded"} <=> x.kind = "none"
    /\ x.ver # NoVersion <=> x.kind \in Makers
    /\ x.phase \in {"numbered", "saveVersion"} => x.kind \in Makers
    /\ x.phase = "saveFile" => x.kind # "deleteFile"
    /\ x.phase = "unsave" => x.kind = "deleteFile"
    /\ x.phase = "drop" <=> x.todo # <<>>
    /\ x.phase \notin {"drop", "finish", "saveFile"} \/ x.kind = "deleteFile"
         => x.keep = <<>>

PhaseInv == \A r \in Requests : PhaseAt(req[r])

\* The clock gives every version an id of its own.
IdsInv ==
    /\ \A q \in Made : req[q].ver.id <= Cardinality(Made) /\ req[q].ver.num >= 1
    /\ \A p, q \in Made : req[p].ver.id = req[q].ver.id => p = q

\* Lists hold versions that were made, each once, and none that is only numbered.
ListsInv ==
    /\ ToSet(versions) \subseteq MadeVersions /\ dbVersions \subseteq MadeVersions
    /\ Distinct(versions)
    /\ \A r \in Requests :
         /\ ToSet(req[r].todo) \subseteq MadeVersions
         /\ ToSet(req[r].keep) \subseteq MadeVersions
         /\ Distinct(req[r].keep)
    /\ \A r \in Requests : req[r].phase = "numbered" =>
         /\ req[r].ver \notin ToSet(versions)
         /\ \A q \in Requests : req[q].ver = req[r].ver => q = r
         /\ \A q \in Requests : req[r].ver \notin ToSet(req[q].keep)

\* What is listed, and what a handler is about to list, is saved or will be.
Safe(v) ==
    v \in dbVersions \/ \E r \in Requests : req[r].ver = v /\ req[r].phase \in InHandler

SavedInv ==
    /\ \A v \in ToSet(versions) : Safe(v)
    /\ \A r \in Requests : \A v \in ToSet(req[r].keep) : Safe(v)

BaseInv == TypeOK /\ PhaseInv /\ IdsInv /\ ListsInv /\ SavedInv

-----------------------------------------------------------------------------
(* Lists.                                                                  *)

\* A list with one more element.
LEMMA AppendList ==
    ASSUME NEW T, NEW s \in Seq(T), NEW e \in T
    PROVE  /\ Append(s, e) \in Seq(T)
           /\ Len(Append(s, e)) = Len(s) + 1
           /\ ToSet(Append(s, e)) = ToSet(s) \cup {e}
           /\ \A i \in 1..Len(s) : Append(s, e)[i] = s[i]
           /\ Append(s, e)[Len(s) + 1] = e
           /\ Distinct(s) /\ e \notin ToSet(s) => Distinct(Append(s, e))
<1>1. /\ Append(s, e) \in Seq(T) /\ Len(Append(s, e)) = Len(s) + 1
      /\ \A i \in 1..Len(s) : Append(s, e)[i] = s[i]
      /\ Append(s, e)[Len(s) + 1] = e
      /\ DOMAIN Append(s, e) = 1..(Len(s) + 1) /\ DOMAIN s = 1..Len(s) /\ Len(s) \in Nat
  BY AppendProperties, LenProperties
<1>2. ToSet(Append(s, e)) = ToSet(s) \cup {e}
  BY <1>1 DEF ToSet
<1>3. Distinct(s) /\ e \notin ToSet(s) => Distinct(Append(s, e))
  BY <1>1 DEF ToSet, Distinct
<1> QED
  BY <1>1, <1>2, <1>3

\* A list cut in two.
LEMMA CutList ==
    ASSUME NEW T, NEW s \in Seq(T), NEW k \in 0..Len(s)
    PROVE  LET a == SubSeq(s, 1, k)
               b == SubSeq(s, k + 1, Len(s))
           IN  /\ a \in Seq(T) /\ b \in Seq(T)
               /\ Len(a) = k /\ Len(b) = Len(s) - k
               /\ \A i \in 1..k : a[i] = s[i]
               /\ \A i \in 1..(Len(s) - k) : b[i] = s[k + i]
               /\ ToSet(a) \cup ToSet(b) = ToSet(s)
               /\ Distinct(s) => /\ Distinct(a) /\ Distinct(b)
                                 /\ ToSet(a) \cap ToSet(b) = {}
<1> DEFINE a == SubSeq(s, 1, k)
           b == SubSeq(s, k + 1, Len(s))
<1>1. Len(s) \in Nat /\ DOMAIN s = 1..Len(s) /\ \A i \in 1..Len(s) : s[i] \in T
  BY LenProperties, ElementOfSeq
<1>2. /\ a \in Seq(T) /\ Len(a) = k /\ \A i \in 1..k : a[i] = s[i]
  <2>1. \A i \in 1..k : s[i] \in T
    BY <1>1
  <2>2. /\ a \in Seq(T) /\ Len(a) = (IF 1 <= k THEN k - 1 + 1 ELSE 0)
        /\ \A i \in 1..(k - 1 + 1) : a[i] = s[1 + i - 1]
    BY <2>1, SubSeqProperties
  <2>3. \A i \in 1..k : a[i] = s[i]
    <3> TAKE i \in 1..k
    <3>1. i \in 1..(k - 1 + 1) /\ 1 + i - 1 = i
      BY <1>1
    <3> QED
      BY <2>2, <3>1
  <2> QED
    BY <1>1, <2>2, <2>3
<1>3. /\ b \in Seq(T) /\ Len(b) = Len(s) - k /\ \A i \in 1..(Len(s) - k) : b[i] = s[k + i]
  <2>1. \A i \in (k + 1)..Len(s) : s[i] \in T
    BY <1>1
  <2>2. /\ b \in Seq(T)
        /\ Len(b) = (IF k + 1 <= Len(s) THEN Len(s) - (k + 1) + 1 ELSE 0)
        /\ \A i \in 1..(Len(s) - (k + 1) + 1) : b[i] = s[k + 1 + i - 1]
    BY <1>1, <2>1, SubSeqProperties
  <2>3. \A i \in 1..(Len(s) - k) : b[i] = s[k + i]
    <3> TAKE i \in 1..(Len(s) - k)
    <3>1. i \in 1..(Len(s) - (k + 1) + 1) /\ k + 1 + i - 1 = k + i
      BY <1>1
    <3> QED
      BY <2>2, <3>1
  <2>4. CASE k + 1 <= Len(s)
    <3>1. Len(s) - (k + 1) + 1 = Len(s) - k
      BY <1>1
    <3> QED
      BY <2>2, <2>3, <2>4, <3>1
  <2>5. CASE ~(k + 1 <= Len(s))
    <3>1. k \in Int /\ k <= Len(s) /\ Len(s) \in Int
      BY <1>1
    <3>2. Len(s) - k = 0
      BY <2>5, <3>1
    <3> QED
      BY <2>2, <2>3, <2>5, <3>2
  <2> QED
    BY <2>4, <2>5
<1>4. DOMAIN a = 1..k /\ DOMAIN b = 1..(Len(s) - k)
  BY <1>2, <1>3, LenProperties
<1> HIDE DEF a, b
<1>5. ToSet(a) \cup ToSet(b) = ToSet(s)
  <2>1. ToSet(a) \subseteq ToSet(s) /\ ToSet(b) \subseteq ToSet(s)
    <3>1. ASSUME NEW i \in DOMAIN a
          PROVE  a[i] = s[i] /\ i \in DOMAIN s
      BY <1>1, <1>2, <1>4
    <3>2. ASSUME NEW i \in DOMAIN b
          PROVE  b[i] = s[k + i] /\ k + i \in DOMAIN s
      BY <1>1, <1>3, <1>4
    <3> QED
      BY <3>1, <3>2 DEF ToSet
  <2>2. ASSUME NEW i \in 1..Len(s)
        PROVE  s[i] \in ToSet(a) \cup ToSet(b)
    <3>1. CASE i <= k
      BY <1>1, <1>2, <1>4, <3>1 DEF ToSet
    <3>2. CASE i > k
      <4>1. i - k \in 1..(Len(s) - k) /\ k + (i - k) = i
        BY <1>1, <3>2
      <4> QED
        BY <1>3, <1>4, <4>1 DEF ToSet
    <3> QED
      BY <1>1, <3>1, <3>2
  <2> QED
    BY <1>1, <2>1, <2>2 DEF ToSet
<1>6. ASSUME Distinct(s)
      PROVE  Distinct(a) /\ Distinct(b) /\ ToSet(a) \cap ToSet(b) = {}
  <2>1. Distinct(a)
    BY <1>1, <1>2, <1>4, <1>6 DEF Distinct
  <2>2. Distinct(b)
    <3> SUFFICES ASSUME NEW i \in 1..(Len(s) - k), NEW j \in 1..(Len(s) - k), b[i] = b[j]
                 PROVE  i = j
      BY <1>4 DEF Distinct
    <3>1. s[k + i] = s[k + j] /\ k + i \in DOMAIN s /\ k + j \in DOMAIN s
      BY <1>1, <1>3
    <3>2. k + i = k + j
      BY <1>6, <3>1 DEF Distinct
    <3> QED
      BY <1>1, <3>2
  <2>3. ASSUME NEW i \in 1..k, NEW j \in 1..(Len(s) - k)
        PROVE  a[i] # b[j]
    <3>1. i \in DOMAIN s /\ k + j \in DOMAIN s /\ i # k + j
      BY <1>1
    <3> QED
      BY <1>2, <1>3, <1>6, <3>1 DEF Distinct
  <2>4. ToSet(a) \cap ToSet(b) = {}
    BY <1>4, <2>3 DEF ToSet
  <2> QED
    BY <2>1, <2>2, <2>4
<1>7. Distinct(s) => Distinct(a) /\ Distinct(b) /\ ToSet(a) \cap ToSet(b) = {}
  BY <1>6
<1> QED
  BY <1>2, <1>3, <1>5, <1>7 DEF a, b

\* A list without its first element.
LEMMA HeadTailList ==
    ASSUME NEW T, NEW s \in Seq(T), s # <<>>
    PROVE  /\ Head(s) \in T /\ Tail(s) \in Seq(T)
           /\ Len(s) = Len(Tail(s)) + 1
           /\ ToSet(s) = {Head(s)} \cup ToSet(Tail(s))
           /\ Distinct(s) => Distinct(Tail(s)) /\ Head(s) \notin ToSet(Tail(s))
<1>1. Len(s) \in Nat \ {0} /\ DOMAIN s = 1..Len(s)
  BY EmptySeq, LenProperties
<1>2. /\ Head(s) \in T /\ Tail(s) \in Seq(T) /\ Len(Tail(s)) = Len(s) - 1 /\ Head(s) = s[1]
      /\ DOMAIN Tail(s) = 1..(Len(s) - 1)
      /\ \A i \in 1..(Len(s) - 1) : Tail(s)[i] = s[i + 1]
  BY <1>1, HeadTailProperties, LenProperties
<1>3. ToSet(s) = {Head(s)} \cup ToSet(Tail(s))
  <2>1. \A i \in 1..Len(s) : i = 1 \/ (i - 1 \in 1..(Len(s) - 1) /\ (i - 1) + 1 = i)
    BY <1>1
  <2>2. \A i \in 1..Len(s) : s[i] = Head(s) \/ s[i] \in ToSet(Tail(s))
    BY <1>2, <2>1 DEF ToSet
  <2>3. ToSet(Tail(s)) \subseteq ToSet(s) /\ Head(s) \in ToSet(s)
    BY <1>1, <1>2 DEF ToSet
  <2> QED
    BY <1>1, <2>2, <2>3 DEF ToSet
<1>4. Distinct(s) => Distinct(Tail(s)) /\ Head(s) \notin ToSet(Tail(s))
  BY <1>1, <1>2 DEF Distinct, ToSet
<1> QED
  BY <1>1, <1>2, <1>3, <1>4

-----------------------------------------------------------------------------
(* Sets in order.                                                          *)

\* A function on 1..n is a list of its values.
LEMMA FunctionList ==
    ASSUME NEW S, NEW n \in Nat, NEW s \in [1..n -> S]
    PROVE  s \in Seq(S) /\ Len(s) = n /\ DOMAIN s = 1..n /\ \A i \in 1..n : s[i] \in S
  OBVIOUS

\* The elements of a finite set, each at the place that the number of those before
\* it gives, are a list of the set in that order.
LEMMA RankOrder ==
    ASSUME NEW S, IsFiniteSet(S), NEW lt,
           \A v \in S : <<v, v>> \notin lt,
           \A u, v, w \in S : <<u, v>> \in lt /\ <<v, w>> \in lt => <<u, w>> \in lt,
           \A v, w \in S : v # w => <<v, w>> \in lt \/ <<w, v>> \in lt,
           NEW s, s = InOrder(S, lt)
    PROVE  /\ s \in Seq(S) /\ Len(s) = Cardinality(S)
           /\ ToSet(s) = S
           /\ Distinct(s)
           /\ \A i, j \in DOMAIN s : i < j => <<s[i], s[j]>> \in lt
<1> DEFINE n == Cardinality(S)
           below == [v \in S |-> {w \in S : <<w, v>> \in lt}]
           rank == [v \in S |-> 1 + Cardinality({w \in S : <<w, v>> \in lt})]
<1>0. \A v \in S : /\ below[v] = {w \in S : <<w, v>> \in lt}
                   /\ \A w : w \in below[v] <=> w \in S /\ <<w, v>> \in lt
  OBVIOUS
<1> HIDE DEF below
<1>1. n \in Nat
  BY FS_CardinalityType
<1>2. ASSUME NEW v \in S
      PROVE  IsFiniteSet(below[v]) /\ Cardinality(below[v]) \in 0..(n - 1)
  <2>1. below[v] \in SUBSET (S \ {v})
    BY <1>0
  <2>2. IsFiniteSet(S \ {v}) /\ Cardinality(S \ {v}) = n - 1
    BY FS_RemoveElement
  <2>3. IsFiniteSet(below[v]) /\ Cardinality(below[v]) <= Cardinality(S \ {v})
    BY <2>1, <2>2, FS_Subset
  <2>4. Cardinality(below[v]) \in Nat
    BY <2>3, FS_CardinalityType
  <2> QED
    BY <1>1, <2>2, <2>3, <2>4
<1>3. ASSUME NEW v \in S, NEW w \in S, <<v, w>> \in lt
      PROVE  Cardinality(below[v]) < Cardinality(below[w])
  <2>1. v \notin below[v] /\ v \in below[w]
    BY <1>0, <1>3
  <2>2. below[v] \subseteq below[w]
    <3> SUFFICES ASSUME NEW u \in below[v] PROVE u \in below[w]
      OBVIOUS
    <3>1. u \in S /\ <<u, v>> \in lt
      BY <1>0
    <3>2. <<u, w>> \in lt
      BY <1>3, <3>1
    <3> QED
      BY <1>0, <3>1, <3>2
  <2>3. below[v] \cup {v} \in SUBSET below[w]
    BY <2>1, <2>2
  <2>4. Cardinality(below[v] \cup {v}) = Cardinality(below[v]) + 1
    BY <1>2, <2>1, FS_AddElement
  <2>5. Cardinality(below[v] \cup {v}) <= Cardinality(below[w])
    BY <1>2, <2>3, FS_Subset
  <2> QED
    BY <1>2, <2>4, <2>5
<1>4. rank \in [S -> 1..n] /\ \A v \in S : rank[v] = Cardinality(below[v]) + 1
  <2>1. ASSUME NEW v \in S
        PROVE  1 + Cardinality({w \in S : <<w, v>> \in lt}) = Cardinality(below[v]) + 1
    <3>1. {w \in S : <<w, v>> \in lt} = below[v]
      BY <1>0
    <3>2. Cardinality(below[v]) \in Int
      BY <1>2
    <3> HIDE DEF below
    <3> DEFINE b == below[v]
    <3>3. 1 + Cardinality(b) = Cardinality(b) + 1
      BY <3>2
    <3> QED
      BY <3>1, <3>3, Zenon
  <2>2. \A v \in S : Cardinality(below[v]) + 1 \in 1..n
    BY <1>1, <1>2
  <2> QED
    BY <2>1, <2>2
<1>a. s = AntiFunction(rank)
  BY DEF InOrder
<1> HIDE DEF rank
<1>5. ASSUME NEW v \in S, NEW w \in S, <<v, w>> \in lt
      PROVE  rank[v] < rank[w]
  <2>1. Cardinality(below[v]) < Cardinality(below[w])
    BY <1>3, <1>5
  <2>2. Cardinality(below[v]) \in Int /\ Cardinality(below[w]) \in Int
    BY <1>2
  <2> QED
    BY <1>4, <2>1, <2>2
<1>6. ASSUME NEW v \in S, NEW w \in S, rank[v] = rank[w]
      PROVE  v = w
  <2>1. rank[v] \in Int /\ rank[w] \in Int
    BY <1>1, <1>4
  <2>2. ~(rank[v] < rank[w]) /\ ~(rank[w] < rank[v])
    BY <1>6, <2>1
  <2>3. <<v, w>> \notin lt /\ <<w, v>> \notin lt
    BY <1>5, <2>2
  <2> QED
    BY <2>3
<1>7. rank \in Bijection(S, 1..n)
  <2>1. rank \in Injection(S, 1..n)
    BY <1>4, <1>6 DEF Injection, IsInjective
  <2>2. IsFiniteSet(1..n) /\ Cardinality(1..n) = n
    BY <1>1, FS_Interval
  <2>3. rank \in Surjection(S, 1..n)
    BY <2>1, <2>2, FS_Injection
  <2> QED
    BY <2>1, <2>3 DEF Bijection
<1>8. s \in Bijection(1..n, S) /\ \A v \in S : s[rank[v]] = v
  <2>1. DOMAIN rank = S /\ Range(rank) = 1..n
    BY <1>7 DEF Bijection, Surjection, Range
  <2>2. s = Inverse(rank, S, 1..n)
    BY <1>a, <2>1 DEF AntiFunction
  <2> QED
    BY <1>7, <2>2, Fun_BijInverse
<1>9. s \in Seq(S) /\ Len(s) = n /\ DOMAIN s = 1..n /\ \A i \in 1..n : s[i] \in S
  <2>1. s \in [1..n -> S]
    BY <1>8 DEF Bijection, Surjection
  <2> QED
    BY <1>1, <2>1, FunctionList
<1>10. \A i \in 1..n : rank[s[i]] = i
  BY <1>4, <1>7, <1>8 DEF Bijection, Surjection
<1>11. ToSet(s) = S
  <2>1. \A v \in S : rank[v] \in DOMAIN s /\ s[rank[v]] = v
    BY <1>4, <1>8, <1>9
  <2> QED
    BY <1>9, <2>1 DEF ToSet
<1>12. Distinct(s)
  BY <1>9, <1>10 DEF Distinct
<1>13. ASSUME NEW i \in 1..n, NEW j \in 1..n, i < j
       PROVE  <<s[i], s[j]>> \in lt
  <2>1. s[i] \in S /\ s[j] \in S /\ rank[s[i]] = i /\ rank[s[j]] = j
    BY <1>9, <1>10
  <2>2. s[i] # s[j] /\ ~(j < i)
    <3>1. i \in Int /\ j \in Int /\ i # j /\ ~(j < i)
      BY <1>1, <1>13
    <3> QED
      BY <2>1, <3>1
  <2>3. <<s[j], s[i]>> \notin lt
    BY <1>5, <2>1, <2>2
  <2> QED
    BY <2>1, <2>2, <2>3
<1> QED
  BY <1>9, <1>11, <1>12, <1>13

\* Different versions have different ids, and so an order by numbers and one by ids.
LEMMA InNumberOrder ==
    ASSUME NEW S \in SUBSET Version, IsFiniteSet(S),
           \A v, w \in S : v.id = w.id => v = w,
           NEW s, s = InOrder(S, ByNumber(S))
    PROVE  /\ s \in Seq(S) /\ Len(s) = Cardinality(S) /\ ToSet(s) = S /\ Distinct(s)
           /\ \A i, j \in DOMAIN s : i < j =>
                s[i].num < s[j].num \/ (s[i].num = s[j].num /\ s[i].id < s[j].id)
<1> DEFINE lt == ByNumber(S)
<1>1. \A v, w \in S : <<v, w>> \in lt <=>
        v.num < w.num \/ (v.num = w.num /\ v.id < w.id)
  BY DEF ByNumber
<1>2. \A v \in S : v.num \in Nat /\ v.id \in Int
  BY DEF Version
<1>3. s = InOrder(S, lt)
  OBVIOUS
<1> HIDE DEF lt
<1>4. /\ \A v \in S : <<v, v>> \notin lt
      /\ \A u, v, w \in S : <<u, v>> \in lt /\ <<v, w>> \in lt => <<u, w>> \in lt
      /\ \A v, w \in S : v # w => <<v, w>> \in lt \/ <<w, v>> \in lt
  BY <1>1, <1>2
<1>5. /\ s \in Seq(S) /\ Len(s) = Cardinality(S) /\ ToSet(s) = S /\ Distinct(s)
      /\ \A i, j \in DOMAIN s : i < j => <<s[i], s[j]>> \in lt
  BY <1>3, <1>4, RankOrder
<1>6. \A i \in DOMAIN s : s[i] \in S
  BY <1>5 DEF ToSet
<1> QED
  BY <1>1, <1>5, <1>6

\* A finite set of versions in the order of their ids.
LEMMA InIdOrder ==
    ASSUME NEW S \in SUBSET Version, IsFiniteSet(S),
           \A v, w \in S : v.id = w.id => v = w,
           NEW s, s = InOrder(S, ById(S))
    PROVE  /\ s \in Seq(S) /\ Len(s) = Cardinality(S) /\ ToSet(s) = S /\ Distinct(s)
           /\ \A i, j \in DOMAIN s : i < j => s[i].id < s[j].id
<1> DEFINE lt == ById(S)
<1>1. \A v, w \in S : <<v, w>> \in lt <=> v.id < w.id
  BY DEF ById
<1>2. \A v \in S : v.id \in Int
  BY DEF Version
<1>3. s = InOrder(S, lt)
  OBVIOUS
<1> HIDE DEF lt
<1>4. /\ \A v \in S : <<v, v>> \notin lt
      /\ \A u, v, w \in S : <<u, v>> \in lt /\ <<v, w>> \in lt => <<u, w>> \in lt
      /\ \A v, w \in S : v # w => <<v, w>> \in lt \/ <<w, v>> \in lt
  BY <1>1, <1>2
<1>5. /\ s \in Seq(S) /\ Len(s) = Cardinality(S) /\ ToSet(s) = S /\ Distinct(s)
      /\ \A i, j \in DOMAIN s : i < j => <<s[i], s[j]>> \in lt
  BY <1>3, <1>4, RankOrder
<1>6. \A i \in DOMAIN s : s[i] \in S
  BY <1>5 DEF ToSet
<1> QED
  BY <1>1, <1>5, <1>6

\* A set of places that is not empty has a first one.
LEMMA MinOfNumbers ==
    ASSUME NEW n \in Nat, NEW I \in SUBSET (1..n), I # {}
    PROVE  Min(I) \in I
<1> DEFINE lt == {p \in I \X I : p[1] < p[2]}
           s == InOrder(I, lt)
<1>1. IsFiniteSet(I) /\ Cardinality(I) \in Nat /\ Cardinality(I) # 0
  <2>1. IsFiniteSet(1..n)
    BY FS_Interval
  <2>2. IsFiniteSet(I)
    BY <2>1, FS_Subset
  <2> QED
    BY <2>2, FS_CardinalityType, FS_EmptySet
<1>2. /\ \A v, w \in I : <<v, w>> \in lt <=> v < w
      /\ \A v \in I : v \in Int
  OBVIOUS
<1> HIDE DEF lt
<1>3. /\ \A v \in I : <<v, v>> \notin lt
      /\ \A u, v, w \in I : <<u, v>> \in lt /\ <<v, w>> \in lt => <<u, w>> \in lt
      /\ \A v, w \in I : v # w => <<v, w>> \in lt \/ <<w, v>> \in lt
  BY <1>2
<1>4. /\ s \in Seq(I) /\ Len(s) = Cardinality(I) /\ ToSet(s) = I
      /\ \A i, j \in DOMAIN s : i < j => <<s[i], s[j]>> \in lt
  BY <1>1, <1>3, RankOrder
<1> HIDE DEF s
<1>5. DOMAIN s = 1..Cardinality(I)
  BY <1>4, LenProperties
<1>6. 1 \in DOMAIN s /\ s[1] \in I
  BY <1>1, <1>4, <1>5 DEF ToSet
<1>7. ASSUME NEW v \in I
      PROVE  s[1] <= v
  <2>1. PICK j \in DOMAIN s : v = s[j]
    BY <1>4 DEF ToSet
  <2>2. CASE j = 1
    BY <1>2, <2>1, <2>2
  <2>3. CASE j # 1
    <3>1. 1 < j
      BY <1>1, <1>5, <2>3
    <3>2. <<s[1], v>> \in lt
      BY <1>4, <1>6, <2>1, <3>1
    <3>3. s[1] < v /\ s[1] \in Int /\ v \in Int
      BY <1>2, <1>6, <3>2
    <3> QED
      BY <3>3
  <2>4. j = 1 \/ j # 1
    OBVIOUS
  <2> QED
    BY <2>2, <2>3, <2>4
<1> QED
  BY <1>6, <1>7, Zenon DEF Min

\* Find answers with a version of the number, and with one if there is one.
LEMMA FindFinds ==
    ASSUME versions \in Seq(Version), NEW num
    PROVE  /\ Find(num) # 0 => Find(num) \in 1..Len(versions) /\ versions[Find(num)].num = num
           /\ (\E i \in 1..Len(versions) : versions[i].num = num) => Find(num) # 0
<1> DEFINE I == {i \in 1..Len(versions) : versions[i].num = num}
<1>1. Find(num) = IF I # {} THEN Min(I) ELSE 0
  BY DEF Find, SelectInSeq
<1>2. Len(versions) \in Nat /\ I \in SUBSET (1..Len(versions))
  BY LenProperties
<1>3. I # {} => Min(I) \in I
  BY <1>2, MinOfNumbers
<1>4. \A i : i \in I => i \in 1..Len(versions) /\ i # 0 /\ versions[i].num = num
  BY <1>2
<1>5. (\E i \in 1..Len(versions) : versions[i].num = num) => I # {}
  OBVIOUS
<1> HIDE DEF I
<1> QED
  BY <1>1, <1>3, <1>4, <1>5

\* A list without one of its elements.
LEMMA RemoveFromList ==
    ASSUME NEW T, NEW s \in Seq(T), NEW k \in 1..Len(s), NEW t, t = RemoveAt(s, k)
    PROVE  /\ t \in Seq(T) /\ Len(t) = Len(s) - 1
           /\ \A i \in 1..Len(t) : t[i] = s[IF i < k THEN i ELSE i + 1]
           /\ ToSet(t) \subseteq ToSet(s) /\ ToSet(s) = ToSet(t) \cup {s[k]}
           /\ Distinct(s) => Distinct(t) /\ s[k] \notin ToSet(t)
<1>1. Len(s) \in Nat /\ DOMAIN s = 1..Len(s) /\ k \in Int /\ 1 <= k /\ k <= Len(s)
      /\ \A i \in 1..Len(s) : s[i] \in T
  BY LenProperties, ElementOfSeq
<1> DEFINE a == SubSeq(s, 1, k - 1)
           b == SubSeq(s, k + 1, Len(s))
<1>2. k - 1 \in 0..Len(s) /\ k \in 0..Len(s) /\ (k - 1) + 1 = k
  BY <1>1
<1>3. a \in Seq(T) /\ Len(a) = k - 1 /\ \A i \in 1..(k - 1) : a[i] = s[i]
  BY <1>2, CutList
<1>4. b \in Seq(T) /\ Len(b) = Len(s) - k /\ \A i \in 1..(Len(s) - k) : b[i] = s[k + i]
  BY <1>2, CutList
<1>5. t = a \o b
  BY DEF RemoveAt
<1> HIDE DEF a, b
<1>6. /\ t \in Seq(T) /\ Len(t) = (k - 1) + (Len(s) - k)
      /\ \A i \in 1..((k - 1) + (Len(s) - k)) : t[i] = IF i <= k - 1 THEN a[i] ELSE b[i - (k - 1)]
  <2>1. /\ t \in Seq(T) /\ Len(t) = Len(a) + Len(b)
        /\ \A i \in 1..(Len(a) + Len(b)) : t[i] = IF i <= Len(a) THEN a[i] ELSE b[i - Len(a)]
    BY <1>3, <1>4, <1>5, ConcatProperties
  <2> QED
    BY <1>3, <1>4, <2>1
<1>7. Len(t) = Len(s) - 1
  BY <1>1, <1>6
<1>8. ASSUME NEW i \in 1..Len(t)
      PROVE  t[i] = s[IF i < k THEN i ELSE i + 1]
  <2>1. i \in 1..((k - 1) + (Len(s) - k))
    BY <1>6
  <2>2. CASE i < k
    <3>1. i \in 1..(k - 1) /\ i <= k - 1
      BY <1>1, <2>2
    <3> QED
      BY <1>3, <1>6, <2>1, <2>2, <3>1
  <2>3. CASE ~(i < k)
    <3>1. i - (k - 1) \in 1..(Len(s) - k) /\ ~(i <= k - 1) /\ k + (i - (k - 1)) = i + 1
      BY <1>1, <1>7, <2>3
    <3> QED
      BY <1>4, <1>6, <2>1, <2>3, <3>1
  <2> QED
    BY <2>2, <2>3
<1>9. DOMAIN t = 1..(Len(s) - 1)
  BY <1>6, <1>7, LenProperties
<1>10. ToSet(t) \subseteq ToSet(s)
  <2>1. \A i \in 1..Len(t) : (IF i < k THEN i ELSE i + 1) \in DOMAIN s
    BY <1>1, <1>7
  <2> QED
    BY <1>7, <1>8, <1>9, <2>1 DEF ToSet
<1>11. ASSUME NEW j \in DOMAIN s
       PROVE  s[j] \in ToSet(t) \cup {s[k]}
  <2>1. CASE j = k
    BY <2>1
  <2>2. CASE j < k
    <3>1. j \in 1..Len(t)
      BY <1>1, <1>7, <2>2
    <3> QED
      BY <1>7, <1>8, <1>9, <2>2, <3>1 DEF ToSet
  <2>3. CASE j > k
    <3>1. j - 1 \in 1..Len(t) /\ ~(j - 1 < k) /\ (j - 1) + 1 = j
      BY <1>1, <1>7, <2>3
    <3> QED
      BY <1>7, <1>8, <1>9, <3>1 DEF ToSet
  <2> QED
    BY <1>1, <2>1, <2>2, <2>3
<1>12. ToSet(s) = ToSet(t) \cup {s[k]}
  BY <1>1, <1>10, <1>11 DEF ToSet
<1>13. ASSUME Distinct(s)
       PROVE  Distinct(t) /\ s[k] \notin ToSet(t)
  <2>1. ASSUME NEW i \in 1..Len(t)
        PROVE  /\ (IF i < k THEN i ELSE i + 1) \in DOMAIN s
               /\ (IF i < k THEN i ELSE i + 1) # k
    BY <1>1, <1>7
  <2>2. \A i, j \in 1..Len(t) :
          (IF i < k THEN i ELSE i + 1) = (IF j < k THEN j ELSE j + 1) => i = j
    BY <1>1, <1>7
  <2>3. Distinct(t)
    BY <1>7, <1>8, <1>9, <1>13, <2>1, <2>2 DEF Distinct
  <2>4. \A i \in 1..Len(t) : t[i] # s[k]
    BY <1>1, <1>8, <1>13, <2>1 DEF Distinct
  <2> QED
    BY <1>7, <1>9, <2>3, <2>4 DEF ToSet
<1> QED
  BY <1>6, <1>7, <1>8, <1>10, <1>12, <1>13

\* A list without repetition is as long as its set is large.
LEMMA DistinctLength ==
    ASSUME NEW T, NEW s \in Seq(T), Distinct(s)
    PROVE  IsFiniteSet(ToSet(s)) /\ Cardinality(ToSet(s)) = Len(s)
<1>1. Len(s) \in Nat /\ s \in [1..Len(s) -> T] /\ DOMAIN s = 1..Len(s)
  BY LenProperties
<1>2. IsFiniteSet(1..Len(s)) /\ Cardinality(1..Len(s)) = Len(s)
  BY <1>1, FS_Interval
<1>3. s \in [1..Len(s) -> ToSet(s)]
  <2>1. \A i \in 1..Len(s) : s[i] \in ToSet(s)
    BY <1>1 DEF ToSet
  <2> QED
    BY <1>1, <2>1
<1>4. s \in Bijection(1..Len(s), ToSet(s))
  BY <1>1, <1>3 DEF Bijection, Injection, Surjection, IsInjective, Distinct, ToSet
<1>5. ExistsBijection(1..Len(s), ToSet(s))
  BY <1>4 DEF ExistsBijection
<1> QED
  BY <1>2, <1>5, FS_Bijection

-----------------------------------------------------------------------------
(* What the actions do to the request they serve.                          *)

\* Only the progress of r changes, and it becomes this.
Becomes(r, kind, phase, ver, todo, keep) ==
    /\ \A q \in Requests : q # r => req'[q] = req[q]
    /\ req'[r].kind = kind /\ req'[r].phase = phase /\ req'[r].ver = ver
    /\ req'[r].todo = todo /\ req'[r].keep = keep
    /\ DOMAIN req' = Requests /\ req' = [q \in Requests |-> req'[q]]
    /\ req'[r] = [kind |-> req'[r].kind, phase |-> req'[r].phase, ver |-> req'[r].ver,
                  todo |-> req'[r].todo, keep |-> req'[r].keep]

\* The fields of a request have their types.
LEMMA RequestShape ==
    ASSUME TypeOK, NEW r \in Requests
    PROVE  /\ req[r] \in Request
           /\ req[r].kind \in Kinds \cup {"none"} /\ req[r].phase \in Phase
           /\ req[r].ver \in Version \cup {NoVersion}
           /\ req[r].todo \in Seq(Version) /\ req[r].keep \in Seq(Version)
  BY DEF TypeOK, Request

\* Each action replaces some fields of the request it serves.
LEMMA UploadEffect ==
    ASSUME TypeOK, NEW r \in Requests, Upload(r)
    PROVE  Becomes(r, req[r].kind, "uploaded", req[r].ver, req[r].todo, req[r].keep)
  BY RequestShape DEF Upload, TypeOK, Request, Becomes

\* The fields after CreateVersion.
LEMMA CreateEffect ==
    ASSUME TypeOK, NEW r \in Requests, CreateVersion(r)
    PROVE  Becomes(r, "create", "numbered", NextVersion(file', r), req[r].todo, req[r].keep)
  BY RequestShape DEF CreateVersion, TypeOK, Request, Becomes

\* The fields after CreateFileMeta.
LEMMA MetaEffect ==
    ASSUME TypeOK, NEW r \in Requests, CreateFileMeta(r)
    PROVE  Becomes(r, "meta", "numbered", NextVersion(NewFile, r), req[r].todo, req[r].keep)
  BY RequestShape DEF CreateFileMeta, TypeOK, Request, Becomes

\* The fields after RollbackFile.
LEMMA RollbackEffect ==
    ASSUME TypeOK, NEW r \in Requests, NEW num, RollbackFile(r, num)
    PROVE  Becomes(r, "rollback", "numbered",
                   NextVersion(file, versions[Find(num)].data), req[r].todo, req[r].keep)
  BY RequestShape DEF RollbackFile, TypeOK, Request, Becomes

\* The fields after DeleteVersion.
LEMMA DeleteVersionEffect ==
    ASSUME TypeOK, NEW r \in Requests, NEW num, DeleteVersion(r, num)
    PROVE  Becomes(r, "deleteVersion", "drop", req[r].ver,
                   <<versions[Find(num)]>>, RemoveAt(versions, Find(num)))
  BY RequestShape DEF DeleteVersion, TypeOK, Request, Becomes

\* The fields after DeleteFile.
LEMMA DeleteFileEffect ==
    ASSUME TypeOK, NEW r \in Requests, DeleteFile(r)
    PROVE  Becomes(r, "deleteFile", IF versions = <<>> THEN "finish" ELSE "drop",
                   req[r].ver, versions, req[r].keep)
  BY RequestShape DEF DeleteFile, TypeOK, Request, Becomes

\* The fields after DropChunks.
LEMMA DropEffect ==
    ASSUME TypeOK, NEW r \in Requests, DropChunks(r)
    PROVE  Becomes(r, req[r].kind, IF Tail(req[r].todo) = <<>> THEN "finish" ELSE "drop",
                   req[r].ver, Tail(req[r].todo), req[r].keep)
  BY RequestShape DEF DropChunks, TypeOK, Request, Becomes

\* The fields after InstallList.
LEMMA InstallEffect ==
    ASSUME TypeOK, NEW r \in Requests, InstallList(r)
    PROVE  Becomes(r, req[r].kind,
                   IF req[r].kind = "deleteFile" THEN "unsave" ELSE "saveFile",
                   req[r].ver, req[r].todo, <<>>)
  BY RequestShape DEF InstallList, TypeOK, Request, Becomes

\* The fields after SaveFile.
LEMMA SaveFileEffect ==
    ASSUME TypeOK, NEW r \in Requests, SaveFile(r)
    PROVE  Becomes(r, req[r].kind,
                   IF req[r].kind = "deleteVersion" THEN "done" ELSE "saveVersion",
                   req[r].ver, req[r].todo, <<>>)
  BY RequestShape DEF SaveFile, TypeOK, Request, Becomes

\* The fields after SaveVersion.
LEMMA SaveVersionEffect ==
    ASSUME TypeOK, NEW r \in Requests, SaveVersion(r)
    PROVE  Becomes(r, req[r].kind, "done", req[r].ver, req[r].todo, req[r].keep)
  BY RequestShape DEF SaveVersion, TypeOK, Request, Becomes

\* The fields after UnsaveFile.
LEMMA UnsaveEffect ==
    ASSUME TypeOK, NEW r \in Requests, UnsaveFile(r)
    PROVE  Becomes(r, req[r].kind, "done", req[r].ver, req[r].todo, req[r].keep)
  BY RequestShape DEF UnsaveFile, TypeOK, Request, Becomes

\* The list after AppendVersion, and how it is cut.
LEMMA AppendEffect ==
    ASSUME BaseInv, NEW r \in Requests, AppendVersion(r),
           NEW drop, drop = Excess(req[r].kind, Len(versions) + 1)
    PROVE  /\ Becomes(r, req[r].kind, IF drop > 0 THEN "drop" ELSE "saveFile", req[r].ver,
                      SubSeq(versions', 1, drop), SubSeq(versions', drop + 1, Len(versions')))
           /\ req[r].phase = "numbered" /\ req[r].ver \in Version
           /\ drop \in 0..Len(versions)
           /\ versions' \in Seq(Version) /\ Len(versions') = Len(versions) + 1
           /\ ToSet(versions') = ToSet(versions) \cup {req[r].ver} /\ Distinct(versions')
           /\ drop = 0 => versions' = Append(versions, req[r].ver)
           /\ drop > 0 => \A i, j \in DOMAIN versions' : i < j =>
                \/ versions'[i].num < versions'[j].num
                \/ versions'[i].num = versions'[j].num /\ versions'[i].id < versions'[j].id
<1> DEFINE ver == req[r].ver
           all == Append(versions, ver)
<1>1. /\ versions \in Seq(Version) /\ Len(versions) \in Nat /\ Distinct(versions)
      /\ ToSet(versions) \subseteq MadeVersions /\ ver \notin ToSet(versions)
      /\ req[r].phase = "numbered"
  BY LenProperties DEF BaseInv, TypeOK, ListsInv, AppendVersion
<1>2. ver \in Version /\ ver \in MadeVersions
  <2>1. ver # NoVersion
    BY <1>1 DEF BaseInv, PhaseInv, PhaseAt
  <2> QED
    BY <2>1, RequestShape DEF BaseInv, MadeVersions, Made
<1>3. /\ all \in Seq(Version) /\ Len(all) = Len(versions) + 1 /\ Distinct(all)
      /\ ToSet(all) = ToSet(versions) \cup {ver}
  BY <1>1, <1>2, AppendList
<1>4. drop \in 0..Len(versions)
  BY <1>1, MaxVersionsAssumption DEF Excess
<1>5. /\ versions' = IF drop > 0 THEN InOrder(ToSet(all), ByNumber(ToSet(all))) ELSE all
      /\ Becomes(r, req[r].kind, IF drop > 0 THEN "drop" ELSE "saveFile", req[r].ver,
                 SubSeq(versions', 1, drop), SubSeq(versions', drop + 1, Len(versions')))
  <2>1. drop = Excess(req[r].kind, Len(all))
    BY <1>3
  <2> HIDE DEF all
  <2>2. /\ versions' = IF drop > 0 THEN InOrder(ToSet(all), ByNumber(ToSet(all))) ELSE all
        /\ req' = [req EXCEPT ![r] =
              [@ EXCEPT !.phase = IF drop > 0 THEN "drop" ELSE "saveFile",
                        !.todo = SubSeq(versions', 1, drop),
                        !.keep = SubSeq(versions', drop + 1, Len(versions'))]]
    BY <2>1 DEF AppendVersion, all
  <2> QED
    BY <2>2, RequestShape DEF Becomes, BaseInv, TypeOK, Request
<1> HIDE DEF all
<1>6. CASE drop = 0
  BY <1>1, <1>2, <1>3, <1>4, <1>5, <1>6 DEF all
<1>7. CASE drop > 0
  <2> DEFINE S == ToSet(all)
  <2>1. S \in SUBSET MadeVersions /\ S \in SUBSET Version
    <3>1. S \in SUBSET Version
      BY <1>3, LenProperties, ElementOfSeq DEF ToSet
    <3> QED
      BY <1>1, <1>2, <1>3, <3>1
  <2>2. IsFiniteSet(S) /\ Cardinality(S) = Len(all)
    BY <1>3, DistinctLength
  <2>3. \A v, w \in S : v.id = w.id => v = w
    BY <2>1 DEF MadeVersions, BaseInv, IdsInv
  <2>4. versions' = InOrder(S, ByNumber(S))
    BY <1>5, <1>7
  <2> HIDE DEF S
  <2>5. /\ versions' \in Seq(S) /\ Len(versions') = Cardinality(S) /\ ToSet(versions') = S
        /\ Distinct(versions')
        /\ \A i, j \in DOMAIN versions' : i < j =>
             \/ versions'[i].num < versions'[j].num
             \/ versions'[i].num = versions'[j].num /\ versions'[i].id < versions'[j].id
    BY <2>1, <2>2, <2>3, <2>4, InNumberOrder
  <2>6. versions' \in Seq(Version)
    BY <2>1, <2>5, SeqMonotonic
  <2>7. ToSet(versions') = ToSet(versions) \cup {ver} /\ Len(versions') = Len(versions) + 1
    BY <1>3, <2>2, <2>5 DEF S
  <2>8. drop # 0
    BY <1>7
  <2> QED
    BY <1>1, <1>2, <1>4, <1>5, <2>5, <2>6, <2>7, <2>8, Zenon
<1>8. drop = 0 \/ drop > 0
  BY <1>1, <1>4
<1> QED
  BY <1>6, <1>7, <1>8

-----------------------------------------------------------------------------
(* The inductive invariant.                                                *)

\* There are finitely many versions, at most one per request.
LEMMA MadeIsFinite ==
    ASSUME TypeOK
    PROVE  /\ IsFiniteSet(Made) /\ Cardinality(Made) \in Nat
           /\ \A r \in Requests \ Made :
                /\ Cardinality(Made \cup {r}) = Cardinality(Made) + 1
                /\ Cardinality(Made) + 1 <= Cardinality(Requests)
<1>1. IsFiniteSet(Made) /\ Cardinality(Made) \in Nat
  BY RequestsAssumption, FS_Subset, FS_CardinalityType DEF Made
<1>2. ASSUME NEW r \in Requests \ Made
      PROVE  /\ Cardinality(Made \cup {r}) = Cardinality(Made) + 1
             /\ Cardinality(Made) + 1 <= Cardinality(Requests)
  <2>1. Cardinality(Made \cup {r}) = Cardinality(Made) + 1
    BY <1>1, FS_AddElement
  <2>2. Made \cup {r} \in SUBSET Requests
    BY DEF Made
  <2>3. Cardinality(Made \cup {r}) <= Cardinality(Requests)
    BY <2>2, RequestsAssumption, FS_Subset
  <2> QED
    BY <2>1, <2>3
<1> QED
  BY <1>1, <1>2

\* A step that makes no version, with what it does to the lists.
LEMMA BaseAfter ==
    ASSUME BaseInv, NEW r \in Requests,
           NEW kind \in Kinds \cup {"none"}, NEW phase \in Phase \ {"numbered"},
           NEW todo \in Seq(Version), NEW keep \in Seq(Version),
           Becomes(r, kind, phase, req[r].ver, todo, keep),
           PhaseAt(req'[r]),
           file' \in FileInfo, versions' \in Seq(Version), dbFile' \in FileInfo,
           stored' \in SUBSET Requests, restarted' \in BOOLEAN,
           ToSet(versions') \subseteq MadeVersions, Distinct(versions'),
           dbVersions' \subseteq MadeVersions, dbVersions \subseteq dbVersions',
           ToSet(todo) \subseteq MadeVersions,
           ToSet(keep) \subseteq MadeVersions, Distinct(keep),
           \A q \in Requests : q # r /\ req[q].phase = "numbered" =>
             req[q].ver \notin ToSet(versions') \cup ToSet(keep),
           req[r].ver # NoVersion /\ req[r].phase \in InHandler /\ phase \notin InHandler
             => req[r].ver \in dbVersions',
           \A v \in ToSet(versions') \cup ToSet(keep) :
             Safe(v) \/ (v = req[r].ver /\ phase \in InHandler)
    PROVE  BaseInv'
<1>1. \A q \in Requests : req'[q].ver = req[q].ver
  BY DEF Becomes
<1>2. Made' = Made /\ MadeVersions' = MadeVersions
  BY <1>1 DEF Made, MadeVersions
<1>3. \A v \in MadeVersions : v \in Version /\ v # NoVersion
  BY RequestShape DEF MadeVersions, Made, BaseInv
<1>4. TypeOK'
  <2>1. req'[r] \in Request
    BY RequestShape DEF Becomes, Request, BaseInv
  <2>2. \A q \in Requests : req'[q] \in Request
    BY <2>1, RequestShape DEF Becomes, BaseInv
  <2>3. req' \in [Requests -> Request]
    BY <2>2 DEF Becomes
  <2>4. dbVersions' \in SUBSET Version
    BY <1>3
  <2> QED
    BY <2>3, <2>4 DEF TypeOK
<1>5. PhaseInv'
  BY DEF PhaseInv, PhaseAt, Becomes, BaseInv
<1>6. IdsInv'
  <2>1. \A q \in Made : req'[q].ver = req[q].ver
    BY <1>1 DEF Made
  <2> QED
    BY <1>2, <2>1 DEF IdsInv, BaseInv
<1>7. ListsInv'
  <2>1. \A q \in Requests :
          /\ ToSet(req'[q].todo) \subseteq MadeVersions
          /\ ToSet(req'[q].keep) \subseteq MadeVersions
          /\ Distinct(req'[q].keep)
    BY DEF Becomes, BaseInv, ListsInv
  <2>2. ASSUME NEW p \in Requests, req'[p].phase = "numbered"
        PROVE  /\ req'[p].ver \notin ToSet(versions')
               /\ \A q \in Requests : req'[q].ver = req'[p].ver => q = p
               /\ \A q \in Requests : req'[p].ver \notin ToSet(req'[q].keep)
    <3>1. p # r /\ req[p].phase = "numbered" /\ req'[p].ver = req[p].ver
      BY <1>1, <2>2 DEF Becomes
    <3>2. \A q \in Requests : req'[q].keep = keep \/ req'[q].keep = req[q].keep
      BY DEF Becomes
    <3> QED
      BY <1>1, <3>1, <3>2 DEF BaseInv, ListsInv
  <2> QED
    BY <1>2, <2>1, <2>2 DEF ListsInv
<1>8. SavedInv'
  <2>1. ASSUME NEW v \in MadeVersions, Safe(v)
        PROVE  Safe(v)'
    <3>1. CASE v \in dbVersions
      BY <3>1 DEF Safe
    <3>2. ASSUME NEW q \in Requests, req[q].ver = v, req[q].phase \in InHandler
          PROVE  Safe(v)'
      <4>1. CASE q = r
        <5>1. v # NoVersion
          BY <1>3
        <5>2. CASE phase \in InHandler
          BY <1>1, <3>2, <4>1, <5>2 DEF Safe, Becomes
        <5>3. CASE phase \notin InHandler
          BY <3>2, <4>1, <5>1, <5>3 DEF Safe
        <5> QED
          BY <5>2, <5>3
      <4>2. CASE q # r
        BY <3>2, <4>2 DEF Safe, Becomes
      <4> QED
        BY <4>1, <4>2
    <3> QED
      BY <2>1, <3>1, <3>2 DEF Safe
  <2>2. ASSUME NEW v \in ToSet(versions') \cup ToSet(keep)
        PROVE  Safe(v)'
    <3>1. CASE Safe(v)
      BY <2>1, <2>2, <3>1
    <3>2. CASE v = req[r].ver /\ phase \in InHandler
      BY <3>2 DEF Safe, Becomes
    <3> QED
      BY <2>2, <3>1, <3>2
  <2>3. ASSUME NEW q \in Requests, NEW v \in ToSet(req'[q].keep)
        PROVE  Safe(v)'
    <3>1. CASE q = r
      BY <2>2, <2>3, <3>1 DEF Becomes
    <3>2. CASE q # r
      <4>1. v \in ToSet(req[q].keep)
        BY <2>3, <3>2 DEF Becomes
      <4>2. v \in MadeVersions /\ Safe(v)
        BY <4>1 DEF BaseInv, ListsInv, SavedInv
      <4> QED
        BY <2>1, <4>2
    <3> QED
      BY <3>1, <3>2
  <2> QED
    BY <2>2, <2>3 DEF SavedInv
<1> QED
  BY <1>4, <1>5, <1>6, <1>7, <1>8 DEF BaseInv

\* A step that numbers a new version.
LEMMA BaseMaking ==
    ASSUME BaseInv, NEW r \in Requests, req[r].phase \in {"idle", "uploaded"},
           NEW kind \in Makers \cap Kinds, NEW f \in FileInfo, NEW data \in Requests,
           Becomes(r, kind, "numbered", NextVersion(f, data), req[r].todo, req[r].keep),
           file' \in FileInfo,
           UNCHANGED <<versions, dbFile, dbVersions, stored, restarted>>
    PROVE  /\ BaseInv'
           /\ r \notin Made /\ Made' = Made \cup {r}
           /\ MadeVersions' = MadeVersions \cup {NextVersion(f, data)}
           /\ NextVersion(f, data) \in Version \ MadeVersions
           /\ NextVersion(f, data) = [id |-> Cardinality(Made) + 1, num |-> f.latest + 1,
                                      data |-> data]
<1> DEFINE ver == NextVersion(f, data)
<1>1. req[r].kind = "none" /\ req[r].ver = NoVersion /\ req[r].todo = <<>> /\ req[r].keep = <<>>
      /\ r \notin Made
  BY DEF BaseInv, PhaseInv, PhaseAt, Made, Makers, InHandler
<1>2. ver = [id |-> Cardinality(Made) + 1, num |-> f.latest + 1, data |-> data]
  <2>1. {q \in Requests : req[q].ver # NoVersion} = Made
    BY DEF Made
  <2>2. ver = [id |-> 1 + Cardinality(Made), num |-> f.latest + 1, data |-> data]
    BY <2>1 DEF NextVersion
  <2>3. 1 + Cardinality(Made) = Cardinality(Made) + 1
    BY MadeIsFinite DEF BaseInv
  <2> QED
    BY <2>2, <2>3
<1>3. ver \in Version /\ ver # NoVersion /\ ver.id = Cardinality(Made) + 1 /\ ver.num >= 1
  <2>1. Cardinality(Made) + 1 \in 1..Cardinality(Requests)
    <3>1. r \in Requests \ Made /\ TypeOK
      BY <1>1 DEF BaseInv
    <3>2. Cardinality(Made) \in Nat /\ Cardinality(Made) + 1 <= Cardinality(Requests)
      BY <3>1, MadeIsFinite
    <3>3. Cardinality(Requests) \in Nat
      BY RequestsAssumption, FS_CardinalityType
    <3> QED
      BY <3>2, <3>3
  <2>2. f.latest + 1 \in Nat /\ f.latest + 1 >= 1
    BY DEF FileInfo
  <2>3. ver \in Version /\ ver.id = Cardinality(Made) + 1 /\ ver.num >= 1
    BY <1>2, <2>1, <2>2 DEF Version
  <2>4. NoVersion.id = 0 /\ Cardinality(Made) + 1 # 0
    BY <2>1 DEF NoVersion
  <2> QED
    BY <2>3, <2>4
<1>4. \A q \in Made : req[q].ver.id \in Int /\ req[q].ver.id <= Cardinality(Made)
  BY RequestShape DEF BaseInv, IdsInv, Made, Version
<1>5. \A q \in Made : req[q].ver.id # ver.id
  BY <1>3, <1>4, MadeIsFinite DEF BaseInv
<1>6. ver \notin MadeVersions
  BY <1>5 DEF MadeVersions
<1> HIDE DEF ver
<1>7. \A q \in Requests : q # r => req'[q].ver = req[q].ver
  BY DEF Becomes
<1>8. req'[r].ver = ver
  BY DEF Becomes, ver
<1>9. Made' = Made \cup {r} /\ Made \subseteq Requests
  BY <1>1, <1>3, <1>7, <1>8 DEF Made
<1>10. MadeVersions' = MadeVersions \cup {ver}
  BY <1>1, <1>7, <1>8, <1>9 DEF MadeVersions
<1>11. TypeOK'
  <2>1. req'[r] \in Request
    BY <1>3, <1>8, RequestShape DEF Becomes, Request, BaseInv, Phase
  <2>2. \A q \in Requests : req'[q] \in Request
    BY <2>1, RequestShape DEF Becomes, BaseInv
  <2>3. req' \in [Requests -> Request]
    BY <2>2 DEF Becomes
  <2> QED
    BY <2>3 DEF TypeOK, BaseInv
<1>12. PhaseInv'
  <2>1. PhaseAt(req'[r])
    BY <1>1, <1>3, <1>8 DEF PhaseAt, Becomes, Makers, InHandler
  <2> QED
    BY <2>1 DEF PhaseInv, PhaseAt, Becomes, BaseInv
<1>13. IdsInv'
  <2>1. Cardinality(Made') = Cardinality(Made) + 1 /\ Cardinality(Made) \in Nat
    BY <1>1, <1>9, MadeIsFinite DEF BaseInv
  <2>2. \A q \in Made : q # r /\ req'[q].ver = req[q].ver
    BY <1>1, <1>7, <1>9
  <2>3. \A q \in Made' : req'[q].ver.id <= Cardinality(Made') /\ req'[q].ver.num >= 1
    BY <1>3, <1>4, <1>8, <1>9, <2>1, <2>2 DEF BaseInv, IdsInv
  <2>4. \A p, q \in Made' : req'[p].ver.id = req'[q].ver.id => p = q
    BY <1>5, <1>8, <1>9, <2>2 DEF BaseInv, IdsInv
  <2> QED
    BY <2>3, <2>4 DEF IdsInv
<1>14. ListsInv'
  <2>1. \A q \in Requests : req'[q].todo = req[q].todo /\ req'[q].keep = req[q].keep
    BY DEF Becomes
  <2>2. ASSUME NEW p \in Requests, req'[p].phase = "numbered"
        PROVE  /\ req'[p].ver \notin ToSet(versions)
               /\ \A q \in Requests : req'[q].ver = req'[p].ver => q = p
               /\ \A q \in Requests : req'[p].ver \notin ToSet(req'[q].keep)
    <3>1. CASE p = r
      <4>1. ver \notin ToSet(versions) /\ \A q \in Requests : ver \notin ToSet(req[q].keep)
        BY <1>6 DEF BaseInv, ListsInv
      <4>2. \A q \in Requests : q # r => req[q].ver # ver
        BY <1>3, <1>5 DEF Made
      <4> QED
        BY <1>7, <1>8, <2>1, <3>1, <4>1, <4>2
    <3>2. CASE p # r
      <4>1. req[p].phase = "numbered" /\ req'[p].ver = req[p].ver
        BY <2>2, <3>2 DEF Becomes
      <4>2. req[p].ver # ver
        BY <1>3, <1>5 DEF Made
      <4> QED
        BY <1>7, <1>8, <2>1, <3>2, <4>1, <4>2 DEF BaseInv, ListsInv
    <3> QED
      BY <3>1, <3>2
  <2> QED
    BY <1>10, <2>1, <2>2 DEF BaseInv, ListsInv
<1>15. SavedInv'
  <2>1. ASSUME NEW v \in MadeVersions, Safe(v)
        PROVE  Safe(v)'
    <3>1. \A q \in Requests : req[q].ver = v /\ req[q].phase \in InHandler =>
            req'[q].ver = v /\ req'[q].phase \in InHandler
      <4>1. v # NoVersion
        BY DEF MadeVersions, Made
      <4> QED
        BY <1>1, <4>1 DEF Becomes
    <3> QED
      BY <2>1, <3>1 DEF Safe
  <2>2. \A q \in Requests : req'[q].keep = req[q].keep
    BY DEF Becomes
  <2> QED
    BY <2>1, <2>2 DEF SavedInv, BaseInv, ListsInv
<1> QED
  BY <1>1, <1>2, <1>3, <1>6, <1>9, <1>10, <1>11, <1>12, <1>13, <1>14, <1>15 DEF BaseInv, ver

\* BaseInv holds at the start.
LEMMA BaseInit == Init => BaseInv
<1> SUFFICES ASSUME Init PROVE BaseInv
  OBVIOUS
<1>1. TypeOK
  <2>1. <<>> \in Seq(Version)
    BY EmptySeq
  <2>2. NoRequest \in Request
    BY <2>1 DEF Request, NoRequest, Phase
  <2>3. req \in [Requests -> Request]
    BY <2>2 DEF Init
  <2>4. /\ file \in FileInfo /\ versions \in Seq(Version) /\ dbFile \in FileInfo
        /\ dbVersions \in SUBSET Version /\ stored \in SUBSET Requests /\ restarted \in BOOLEAN
    <3>1. /\ file = NoFile /\ versions = <<>> /\ dbFile = NoFile /\ dbVersions = {}
          /\ stored = {} /\ restarted = FALSE
      BY DEF Init
    <3>2. NoFile \in FileInfo
      BY DEF FileInfo, NoFile
    <3> QED
      BY <2>1, <3>1, <3>2
  <2> QED
    BY <2>3, <2>4 DEF TypeOK
<1>2. Made = {} /\ MadeVersions = {}
  BY DEF Init, Made, MadeVersions, NoRequest
<1>3. ToSet(<<>>) = {} /\ Distinct(<<>>)
  BY DEF ToSet, Distinct
<1>4. PhaseInv /\ IdsInv
  BY <1>2 DEF Init, PhaseInv, PhaseAt, IdsInv, NoRequest, Makers, InHandler
<1>5. ListsInv /\ SavedInv
  BY <1>2, <1>3 DEF Init, ListsInv, SavedInv, NoRequest
<1> QED
  BY <1>1, <1>4, <1>5 DEF BaseInv

\* What BaseInv says of the list and of one request.
LEMMA ShownInv ==
    ASSUME BaseInv, NEW r \in Requests
    PROVE  /\ versions \in Seq(Version) /\ ToSet(versions) \subseteq MadeVersions
           /\ Distinct(versions) /\ dbVersions \subseteq MadeVersions
           /\ \A v \in ToSet(versions) : Safe(v)
           /\ req[r].todo \in Seq(Version) /\ req[r].keep \in Seq(Version)
           /\ ToSet(req[r].todo) \subseteq MadeVersions
           /\ ToSet(req[r].keep) \subseteq MadeVersions /\ Distinct(req[r].keep)
           /\ \A v \in ToSet(req[r].keep) : Safe(v)
           /\ \A q \in Requests : req[q].phase = "numbered" =>
                req[q].ver \notin ToSet(versions) \cup ToSet(req[r].keep)
           /\ ToSet(<<>>) = {} /\ Distinct(<<>>) /\ <<>> \in Seq(Version)
<1>1. ToSet(<<>>) = {} /\ Distinct(<<>>) /\ <<>> \in Seq(Version)
  BY EmptySeq DEF ToSet, Distinct
<1> QED
  BY <1>1, RequestShape DEF BaseInv, TypeOK, ListsInv, SavedInv

\* Uploading preserves BaseInv.
LEMMA BaseUpload ==
    ASSUME BaseInv, NEW r \in Requests, Upload(r)
    PROVE  BaseInv'
<1>1. req[r].phase = "idle" /\ UNCHANGED <<file, versions, dbFile, dbVersions, restarted>>
      /\ stored' \in SUBSET Requests
  BY DEF Upload, BaseInv, TypeOK
<1>2. Becomes(r, req[r].kind, "uploaded", req[r].ver, req[r].todo, req[r].keep)
  BY UploadEffect DEF BaseInv
<1>3. PhaseAt(req'[r])
  BY <1>1, <1>2 DEF PhaseAt, Becomes, BaseInv, PhaseInv, InHandler
<1>4. TypeOK /\ "uploaded" \in Phase \ {"numbered"} /\ req[r].kind \in Kinds \cup {"none"}
      /\ req[r].phase \notin InHandler
  BY <1>1, RequestShape DEF BaseInv, Phase, InHandler
<1> QED
  BY <1>1, <1>2, <1>3, <1>4, ShownInv, BaseAfter DEF TypeOK

\* The requests that make a version preserve BaseInv.
LEMMA BaseMakes ==
    ASSUME BaseInv, NEW r \in Requests,
           \/ CreateVersion(r) \/ CreateFileMeta(r)
           \/ \E num \in 1..Cardinality(Requests) : RollbackFile(r, num)
    PROVE  BaseInv'
<1> USE DEF FileInfo, NewFile, Makers
<1>1. TypeOK
  BY DEF BaseInv
<1>2. CASE CreateVersion(r)
  <2>1. file' \in FileInfo /\ req[r].phase = "uploaded" /\ "create" \in Kinds
        /\ UNCHANGED <<versions, dbFile, dbVersions, stored, restarted>>
    BY <1>1, <1>2 DEF CreateVersion, Admit, TypeOK
  <2>2. PICK f \in FileInfo : f = file'
    BY <2>1
  <2>3. NextVersion(f, r) = NextVersion(file', r)
    BY <2>2 DEF NextVersion
  <2>4. Becomes(r, "create", "numbered", NextVersion(f, r), req[r].todo, req[r].keep)
    BY <1>1, <1>2, <2>3, CreateEffect
  <2> QED
    BY <2>1, <2>4, BaseMaking
<1>3. CASE CreateFileMeta(r)
  <2>1. file' \in FileInfo /\ req[r].phase = "uploaded" /\ "meta" \in Kinds
        /\ UNCHANGED <<versions, dbFile, dbVersions, stored, restarted>>
        /\ NewFile \in FileInfo
    BY <1>1, <1>3 DEF CreateFileMeta, Admit, TypeOK
  <2>2. Becomes(r, "meta", "numbered", NextVersion(NewFile, r), req[r].todo, req[r].keep)
    BY <1>1, <1>3, MetaEffect
  <2> QED
    BY <2>1, <2>2, BaseMaking
<1>4. ASSUME NEW num \in 1..Cardinality(Requests), RollbackFile(r, num)
      PROVE  BaseInv'
  <2>1. file \in FileInfo /\ req[r].phase = "idle" /\ "rollback" \in Kinds
        /\ UNCHANGED <<file, versions, dbFile, dbVersions, stored, restarted>>
        /\ Find(num) # 0
    BY <1>1, <1>4 DEF RollbackFile, Admit, TypeOK
  <2>2. versions[Find(num)].data \in Requests
    <3>1. PICK k \in 1..Len(versions) : k = Find(num)
      BY <1>1, <2>1, FindFinds DEF TypeOK
    <3>2. versions[k] \in Version
      BY <1>1, ElementOfSeq DEF TypeOK
    <3> QED
      BY <3>1, <3>2 DEF Version
  <2>3. Becomes(r, "rollback", "numbered", NextVersion(file, versions[Find(num)].data),
                req[r].todo, req[r].keep)
    BY <1>1, <1>4, RollbackEffect
  <2> QED
    BY <2>1, <2>2, <2>3, BaseMaking
<1> QED
  BY <1>2, <1>3, <1>4

\* Appending the version and cutting the list preserves BaseInv.
LEMMA BaseAppend ==
    ASSUME BaseInv, NEW r \in Requests, AppendVersion(r)
    PROVE  BaseInv'
<1>1. PICK drop : drop = Excess(req[r].kind, Len(versions) + 1)
  OBVIOUS
<1> DEFINE todo == SubSeq(versions', 1, drop)
           keep == SubSeq(versions', drop + 1, Len(versions'))
           phase == IF drop > 0 THEN "drop" ELSE "saveFile"
<1>2. /\ Becomes(r, req[r].kind, phase, req[r].ver, todo, keep)
      /\ req[r].phase = "numbered" /\ req[r].ver \in Version
      /\ drop \in 0..Len(versions)
      /\ versions' \in Seq(Version) /\ Len(versions') = Len(versions) + 1
      /\ ToSet(versions') = ToSet(versions) \cup {req[r].ver} /\ Distinct(versions')
  BY <1>1, AppendEffect
<1>3. drop \in 0..Len(versions') /\ Len(versions) \in Nat
  BY <1>2, LenProperties DEF BaseInv, TypeOK
<1>4. /\ todo \in Seq(Version) /\ keep \in Seq(Version) /\ Len(todo) = drop
      /\ ToSet(todo) \cup ToSet(keep) = ToSet(versions') /\ Distinct(keep)
  BY <1>2, <1>3, CutList
<1> HIDE DEF todo, keep
<1>5. req[r].kind \in Makers /\ req[r].kind \in Kinds \cup {"none"} /\ req[r].ver \in MadeVersions
      /\ req[r].ver # NoVersion
  BY <1>2, RequestShape DEF BaseInv, PhaseInv, PhaseAt, MadeVersions, Made
<1>6. phase = "drop" <=> todo # <<>>
  BY <1>2, <1>4, EmptySeq
<1>7. PhaseAt(req'[r])
  BY <1>2, <1>5, <1>6 DEF Becomes, PhaseAt, Makers, InHandler
<1>8. /\ file' \in FileInfo /\ UNCHANGED <<dbFile, dbVersions, stored, restarted>>
  <2>1. /\ file' = [file EXCEPT !.latest = req[r].ver.num, !.count = @ + 1]
        /\ UNCHANGED <<dbFile, dbVersions, stored, restarted>>
    BY DEF AppendVersion
  <2>2. file \in FileInfo /\ req[r].ver.num \in Nat
    BY <1>2 DEF BaseInv, TypeOK, Version
  <2>3. file' \in FileInfo
    <3>1. file.known \in BOOLEAN /\ file.count \in Int
          /\ file = [known |-> file.known, latest |-> file.latest, count |-> file.count]
      BY <2>2 DEF FileInfo
    <3>2. file' = [known |-> file.known, latest |-> req[r].ver.num, count |-> file.count + 1]
      BY <2>1, <3>1
    <3> QED
      BY <2>2, <3>1, <3>2 DEF FileInfo
  <2> QED
    BY <2>1, <2>3
<1>9. phase \in Phase \ {"numbered"} /\ phase \in InHandler
  BY DEF Phase, InHandler
<1>10. \A q \in Requests : q # r /\ req[q].phase = "numbered" =>
         req[q].ver \notin ToSet(versions') \cup ToSet(keep)
  BY <1>2, <1>4 DEF BaseInv, ListsInv
<1>11. TypeOK
  BY DEF BaseInv
<1> HIDE DEF phase
<1>12. \A v \in ToSet(versions') \cup ToSet(keep) :
         Safe(v) \/ (v = req[r].ver /\ phase \in InHandler)
  BY <1>2, <1>4, <1>9, ShownInv
<1>13. /\ ToSet(versions') \subseteq MadeVersions /\ ToSet(todo) \subseteq MadeVersions
       /\ ToSet(keep) \subseteq MadeVersions
       /\ dbVersions' \subseteq MadeVersions /\ dbVersions \subseteq dbVersions'
  BY <1>2, <1>4, <1>5, <1>8, ShownInv
<1>14. dbFile' \in FileInfo /\ stored' \in SUBSET Requests /\ restarted' \in BOOLEAN
  BY <1>8, <1>11 DEF TypeOK
<1> QED
  BY <1>2, <1>4, <1>5, <1>7, <1>8, <1>9, <1>10, <1>12, <1>13, <1>14, BaseAfter

\* The requests that delete preserve BaseInv.
LEMMA BaseDeletes ==
    ASSUME BaseInv, NEW r \in Requests,
           DeleteFile(r) \/ \E num \in 1..Cardinality(Requests) : DeleteVersion(r, num)
    PROVE  BaseInv'
<1>1. TypeOK
  BY DEF BaseInv
<1>2. CASE DeleteFile(r)
  <2> DEFINE phase == IF versions = <<>> THEN "finish" ELSE "drop"
  <2>1. /\ req[r].phase = "idle" /\ "deleteFile" \in Kinds
        /\ UNCHANGED <<file, versions, dbFile, dbVersions, stored, restarted>>
    BY <1>2 DEF DeleteFile, Admit
  <2>2. Becomes(r, "deleteFile", phase, req[r].ver, versions, req[r].keep)
    BY <1>1, <1>2, DeleteFileEffect
  <2>3. req[r].ver = NoVersion /\ req[r].keep = <<>>
    BY <2>1 DEF BaseInv, PhaseInv, PhaseAt, InHandler, Makers
  <2>4. PhaseAt(req'[r])
    BY <2>2, <2>3 DEF PhaseAt, Becomes, Makers, InHandler
  <2>5. phase \in Phase \ {"numbered"} /\ phase \in InHandler
    BY DEF Phase, InHandler
  <2> HIDE DEF phase
  <2> QED
    BY <1>1, <2>1, <2>2, <2>4, <2>5, ShownInv, BaseAfter DEF TypeOK
<1>3. ASSUME NEW num \in 1..Cardinality(Requests), DeleteVersion(r, num)
      PROVE  BaseInv'
  <2>1. /\ req[r].phase = "idle" /\ "deleteVersion" \in Kinds /\ Find(num) # 0
        /\ UNCHANGED <<file, versions, dbFile, dbVersions, stored, restarted>>
    BY <1>3 DEF DeleteVersion, Admit
  <2>2. PICK k \in 1..Len(versions) : k = Find(num)
    BY <1>1, <2>1, FindFinds DEF TypeOK
  <2> DEFINE todo == <<versions[k]>>
             keep == RemoveAt(versions, k)
  <2>3. Becomes(r, "deleteVersion", "drop", req[r].ver, todo, keep)
    BY <1>1, <1>3, <2>2, DeleteVersionEffect
  <2>4. /\ keep \in Seq(Version) /\ Distinct(keep) /\ ToSet(keep) \subseteq ToSet(versions)
        /\ ToSet(versions) = ToSet(keep) \cup {versions[k]}
    BY <2>2, RemoveFromList, ShownInv
  <2>5. todo \in Seq(Version) /\ ToSet(todo) = {versions[k]} /\ todo # <<>>
    <3>1. versions[k] \in Version
      BY <1>1, ElementOfSeq DEF TypeOK
    <3> QED
      BY <3>1 DEF ToSet
  <2>6. req[r].ver = NoVersion
    BY <2>1 DEF BaseInv, PhaseInv, PhaseAt, InHandler, Makers
  <2> HIDE DEF todo, keep
  <2>7. PhaseAt(req'[r])
    BY <2>3, <2>5, <2>6 DEF PhaseAt, Becomes, Makers, InHandler
  <2>8. "drop" \in Phase \ {"numbered"} /\ "drop" \in InHandler
    BY DEF Phase, InHandler
  <2> QED
    BY <1>1, <2>1, <2>3, <2>4, <2>5, <2>6, <2>7, <2>8, ShownInv, BaseAfter DEF TypeOK
<1> QED
  BY <1>2, <1>3

\* Deleting chunks preserves BaseInv.
LEMMA BaseDrops ==
    ASSUME BaseInv, NEW r \in Requests, DropChunks(r)
    PROVE  BaseInv'
<1> DEFINE todo == Tail(req[r].todo)
           phase == IF todo = <<>> THEN "finish" ELSE "drop"
<1>1. TypeOK
  BY DEF BaseInv
<1>2. /\ req[r].phase = "drop" /\ stored' \in SUBSET Requests /\ file' \in FileInfo
      /\ UNCHANGED <<versions, dbFile, dbVersions, restarted>>
  <2>1. /\ stored' = stored \ {Head(req[r].todo).data} /\ req[r].phase = "drop"
        /\ file' = IF req[r].kind = "deleteFile" THEN file ELSE [file EXCEPT !.count = @ - 1]
        /\ UNCHANGED <<versions, dbFile, dbVersions, restarted>>
    BY DEF DropChunks
  <2>2. file' \in FileInfo
    BY <1>1, <2>1 DEF TypeOK, FileInfo
  <2> QED
    BY <1>1, <2>1, <2>2 DEF TypeOK
<1>3. Becomes(r, req[r].kind, phase, req[r].ver, todo, req[r].keep)
  BY <1>1, DropEffect
<1>4. req[r].todo # <<>>
  BY <1>2 DEF BaseInv, PhaseInv, PhaseAt
<1>5. todo \in Seq(Version) /\ ToSet(todo) \subseteq ToSet(req[r].todo)
  BY <1>4, ShownInv, HeadTailList
<1>6. PhaseAt(req'[r])
  BY <1>2, <1>3 DEF PhaseAt, Becomes, BaseInv, PhaseInv, InHandler
<1> HIDE DEF todo
<1>7. phase \in Phase \ {"numbered"} /\ phase \in InHandler
  BY DEF Phase, InHandler
<1> HIDE DEF phase
<1> QED
  BY <1>1, <1>2, <1>3, <1>5, <1>6, <1>7, ShownInv, RequestShape, BaseAfter DEF TypeOK

\* Installing the shortened list preserves BaseInv.
LEMMA BaseInstall ==
    ASSUME BaseInv, NEW r \in Requests, InstallList(r)
    PROVE  BaseInv'
<1> DEFINE phase == IF req[r].kind = "deleteFile" THEN "unsave" ELSE "saveFile"
<1>1. TypeOK
  BY DEF BaseInv
<1>2. /\ req[r].phase = "finish" /\ versions' = req[r].keep /\ file' \in FileInfo
      /\ UNCHANGED <<dbFile, dbVersions, stored, restarted>>
  BY <1>1 DEF InstallList, TypeOK, FileInfo, NoFile
<1>3. Becomes(r, req[r].kind, phase, req[r].ver, req[r].todo, <<>>)
  BY <1>1, InstallEffect
<1>4. PhaseAt(req'[r])
  BY <1>2, <1>3 DEF PhaseAt, Becomes, BaseInv, PhaseInv, InHandler
<1>5. phase \in Phase \ {"numbered"} /\ phase \in InHandler
  BY DEF Phase, InHandler
<1> HIDE DEF phase
<1> QED
  BY <1>1, <1>2, <1>3, <1>4, <1>5, ShownInv, RequestShape, BaseAfter DEF TypeOK

\* The database writes preserve BaseInv.
LEMMA BaseSaves ==
    ASSUME BaseInv, NEW r \in Requests, SaveFile(r) \/ SaveVersion(r) \/ UnsaveFile(r)
    PROVE  BaseInv'
<1>1. TypeOK
  BY DEF BaseInv
<1>2. CASE SaveFile(r)
  <2> DEFINE phase == IF req[r].kind = "deleteVersion" THEN "done" ELSE "saveVersion"
  <2>1. /\ req[r].phase = "saveFile" /\ dbFile' = file
        /\ UNCHANGED <<file, versions, dbVersions, stored, restarted>>
    BY <1>2 DEF SaveFile
  <2>2. Becomes(r, req[r].kind, phase, req[r].ver, req[r].todo, <<>>)
    BY <1>1, <1>2, SaveFileEffect
  <2>3. PhaseAt(req'[r])
    <3>1. req[r].kind \in Makers \cup {"deleteVersion"}
      BY <2>1, RequestShape, <1>1, KindsAssumption
         DEF BaseInv, PhaseInv, PhaseAt, AllKinds, Makers
    <3> QED
      BY <2>1, <2>2, <3>1 DEF PhaseAt, Becomes, BaseInv, PhaseInv, InHandler, Makers
  <2>4. phase \in Phase \ {"numbered"}
        /\ (phase \in InHandler \/ req[r].ver = NoVersion)
    BY DEF Phase, InHandler, BaseInv, PhaseInv, PhaseAt, Makers
  <2> HIDE DEF phase
  <2> QED
    BY <1>1, <2>1, <2>2, <2>3, <2>4, ShownInv, RequestShape, BaseAfter DEF TypeOK
<1>3. CASE SaveVersion(r)
  <2>1. /\ req[r].phase = "saveVersion" /\ dbVersions' = dbVersions \cup {req[r].ver}
        /\ UNCHANGED <<file, versions, dbFile, stored, restarted>>
    BY <1>3 DEF SaveVersion
  <2>2. req[r].ver \in MadeVersions /\ req[r].keep = <<>>
    BY <2>1 DEF BaseInv, PhaseInv, PhaseAt, MadeVersions, Made
  <2>3. Becomes(r, req[r].kind, "done", req[r].ver, req[r].todo, <<>>)
    BY <1>1, <1>3, <2>2, SaveVersionEffect
  <2>4. PhaseAt(req'[r])
    BY <2>1, <2>3 DEF PhaseAt, Becomes, BaseInv, PhaseInv, Makers
  <2>5. "done" \in Phase \ {"numbered"}
    BY DEF Phase
  <2>6. dbVersions' \in SUBSET Version /\ dbVersions' \subseteq MadeVersions
    <3>1. req[r].ver \in Version
      BY <1>1, <2>1, RequestShape DEF BaseInv, PhaseInv, PhaseAt
    <3> QED
      BY <1>1, <2>1, <2>2, <3>1, ShownInv DEF TypeOK
  <2> QED
    BY <1>1, <2>1, <2>2, <2>3, <2>4, <2>5, <2>6, ShownInv, RequestShape, BaseAfter
       DEF TypeOK
<1>4. CASE UnsaveFile(r)
  <2>1. /\ req[r].phase = "unsave" /\ dbFile' = NoFile
        /\ UNCHANGED <<file, versions, dbVersions, stored, restarted>>
    BY <1>4 DEF UnsaveFile
  <2>2. req[r].kind = "deleteFile" /\ req[r].ver = NoVersion /\ req[r].keep = <<>>
    BY <2>1 DEF BaseInv, PhaseInv, PhaseAt, Makers
  <2>3. Becomes(r, req[r].kind, "done", req[r].ver, req[r].todo, <<>>)
    BY <1>1, <1>4, <2>2, UnsaveEffect
  <2>4. PhaseAt(req'[r])
    BY <2>1, <2>3 DEF PhaseAt, Becomes, BaseInv, PhaseInv, Makers
  <2>5. "done" \in Phase \ {"numbered"} /\ NoFile \in FileInfo
    BY DEF Phase, NoFile, FileInfo
  <2> QED
    BY <1>1, <2>1, <2>2, <2>3, <2>4, <2>5, ShownInv, RequestShape, BaseAfter DEF TypeOK
<1> QED
  BY <1>2, <1>3, <1>4

\* What a restart lists: the saved versions, in the order of their ids.
LEMMA RestartedList ==
    ASSUME BaseInv, NEW s, s = InOrder(dbVersions, ById(dbVersions))
    PROVE  /\ s \in Seq(dbVersions) /\ ToSet(s) = dbVersions /\ Distinct(s)
           /\ \A i, j \in DOMAIN s : i < j => s[i].id < s[j].id
<1>1. TypeOK /\ dbVersions \subseteq MadeVersions /\ dbVersions \in SUBSET Version
  BY DEF BaseInv, ListsInv, TypeOK
<1>2. IsFiniteSet(dbVersions)
  <2>1. IsFiniteSet(1..Cardinality(Made))
    BY <1>1, MadeIsFinite, FS_Interval
  <2> DEFINE f == [v \in dbVersions |-> v.id]
  <2>2. f \in Injection(dbVersions, 1..Cardinality(Made))
    <3>1. ASSUME NEW v \in dbVersions
          PROVE  v.id \in 1..Cardinality(Made)
      BY <1>1, MadeIsFinite DEF BaseInv, IdsInv, MadeVersions, Version
    <3>2. ASSUME NEW v \in dbVersions, NEW w \in dbVersions, v.id = w.id
          PROVE  v = w
      BY <1>1, <3>2 DEF BaseInv, IdsInv, MadeVersions
    <3> QED
      BY <3>1, <3>2 DEF Injection, IsInjective
  <2> QED
    BY <2>1, <2>2, FS_Injection
<1>3. \A v, w \in dbVersions : v.id = w.id => v = w
  BY <1>1 DEF BaseInv, IdsInv, MadeVersions
<1> QED
  BY <1>1, <1>2, <1>3, InIdOrder

\* A stop at any point and the load after it preserve BaseInv.
LEMMA BaseRestart ==
    ASSUME BaseInv, Restart
    PROVE  BaseInv'
<1>1. TypeOK /\ dbVersions \subseteq MadeVersions /\ dbFile \in FileInfo
  BY DEF BaseInv, ListsInv, TypeOK
<1>2. /\ file' = dbFile /\ restarted' = TRUE /\ UNCHANGED <<dbFile, dbVersions, stored>>
      /\ versions' = InOrder(dbVersions, ById(dbVersions))
  BY DEF Restart
<1>3. ASSUME NEW q \in Requests
      PROVE  /\ req'[q].kind = req[q].kind /\ req'[q].ver = req[q].ver
             /\ req[q].phase \in InHandler => req'[q].phase = "aborted"
             /\ req[q].phase \notin InHandler => req'[q].phase = req[q].phase
             /\ req'[q].todo = <<>> /\ req'[q].keep = <<>>
             /\ req'[q] \in Request
  <2>1. req[q] \in Request /\ PhaseAt(req[q])
    BY <1>1, RequestShape DEF BaseInv, PhaseInv
  <2>2. CASE req[q].phase \in InHandler
    <3>1. req'[q] = [req[q] EXCEPT !.phase = "aborted", !.todo = <<>>, !.keep = <<>>]
      BY <2>2 DEF Restart
    <3>2. <<>> \in Seq(Version) /\ "aborted" \in Phase
      BY EmptySeq DEF Phase
    <3> QED
      BY <2>1, <2>2, <3>1, <3>2 DEF Request
  <2>3. CASE req[q].phase \notin InHandler
    <3>1. req'[q] = req[q]
      BY <2>3 DEF Restart
    <3> QED
      BY <2>1, <2>3, <3>1 DEF PhaseAt, InHandler
  <2> QED
    BY <2>2, <2>3
<1>4. req' \in [Requests -> Request]
  BY <1>3 DEF Restart
<1>5. Made' = Made /\ MadeVersions' = MadeVersions
  BY <1>3 DEF Made, MadeVersions
<1>6. IdsInv'
  <2>1. \A q \in Requests : req'[q].ver = req[q].ver
    BY <1>3
  <2> QED
    BY <1>5, <2>1 DEF IdsInv, BaseInv, Made
<1>7. PhaseInv'
  <2>1. ASSUME NEW q \in Requests
        PROVE  PhaseAt(req'[q])
    <3>1. PhaseAt(req[q])
      BY DEF BaseInv, PhaseInv
    <3> QED
      BY <1>3, <3>1 DEF PhaseAt, InHandler
  <2> QED
    BY <2>1 DEF PhaseInv
<1>8. /\ versions' \in Seq(dbVersions) /\ ToSet(versions') = dbVersions
      /\ Distinct(versions')
  BY <1>2, RestartedList
<1>9. versions' \in Seq(Version)
  BY <1>1, <1>8, ElementOfSeq, SeqDef DEF TypeOK
<1>10. TypeOK'
  BY <1>1, <1>2, <1>4, <1>9 DEF TypeOK
<1>11. \A q \in Requests : req'[q].phase # "numbered"
  BY <1>3 DEF InHandler
<1>12. ToSet(<<>>) = {} /\ Distinct(<<>>)
  BY DEF ToSet, Distinct
<1>13. ListsInv'
  BY <1>1, <1>2, <1>3, <1>5, <1>8, <1>11, <1>12 DEF ListsInv
<1>14. SavedInv'
  BY <1>2, <1>3, <1>8, <1>12 DEF SavedInv, Safe
<1> QED
  BY <1>6, <1>7, <1>10, <1>13, <1>14 DEF BaseInv

\* Every step preserves BaseInv, whether or not handlers overlap.
LEMMA BaseNext ==
    ASSUME BaseInv, [Next]_vars
    PROVE  BaseInv'
<1>1. CASE Next
  <2>1. CASE Restart
    BY <2>1, BaseRestart
  <2>2. ASSUME NEW r \in Requests,
               \/ Upload(r) \/ CreateVersion(r) \/ CreateFileMeta(r)
               \/ \E num \in 1..Cardinality(Requests) :
                    RollbackFile(r, num) \/ DeleteVersion(r, num)
               \/ AppendVersion(r) \/ DeleteFile(r) \/ DropChunks(r) \/ InstallList(r)
               \/ SaveFile(r) \/ SaveVersion(r) \/ UnsaveFile(r)
        PROVE  BaseInv'
    BY <2>2, BaseUpload, BaseMakes, BaseAppend, BaseDeletes, BaseDrops, BaseInstall,
       BaseSaves
  <2> QED
    BY <1>1, <2>1, <2>2 DEF Next
<1>2. CASE UNCHANGED vars
  <2>1. /\ file' = file /\ versions' = versions /\ dbFile' = dbFile
        /\ dbVersions' = dbVersions /\ stored' = stored /\ req' = req
        /\ restarted' = restarted
    BY <1>2 DEF vars
  <2>2. Made' = Made /\ MadeVersions' = MadeVersions /\ TypeOK'
    BY <2>1 DEF BaseInv, Made, MadeVersions, TypeOK
  <2>3. PhaseInv' /\ IdsInv'
    BY <2>1, <2>2 DEF BaseInv, PhaseInv, IdsInv
  <2>4. ListsInv' /\ SavedInv'
    BY <2>1, <2>2 DEF BaseInv, ListsInv, SavedInv, Safe
  <2> QED
    BY <2>2, <2>3, <2>4 DEF BaseInv
<1> QED
  BY <1>1, <1>2

\* BaseInv holds in every reachable state.
THEOREM BaseInvariant == Spec => []BaseInv
<1>1. BaseInv /\ [Next]_vars => BaseInv'
  BY BaseNext
<1> QED
  BY <1>1, BaseInit, PTL DEF Spec

-----------------------------------------------------------------------------
(* The properties.                                                         *)

\* The version list, the buckets and the progress of the handlers keep their types: in
\* particular a sorted, cut or reloaded list is a list of versions again.
THEOREM VersionsTypeCorrect == Spec => []TypeOK
<1>1. BaseInv => TypeOK
  BY DEF BaseInv
<1> QED
  BY <1>1, BaseInvariant, PTL

\* What the server lists is in the Replicas bucket or its handler is still at work,
\* with handlers that overlap and a server that stops between any two of their writes.
THEOREM ListedSaved == Spec => []ListedIsSaved
<1>1. BaseInv => ListedIsSaved
  <2>1. Listed = ToSet(versions)
    BY DEF Listed, ToSet
  <2> QED
    BY <2>1 DEF BaseInv, SavedInv, Safe, ListedIsSaved
<1> QED
  BY <1>1, BaseInvariant, PTL
================================================================================
