------------------------ MODULE FileVersionsAtomic_proofs ------------------------
(***************************************************************************)
(* Proof that FileVersions implements VersionList when the handlers of a   *)
(* file run one at a time, for any number of requests and any limit: what  *)
(* a handler does in many steps is one step of the list it will leave.     *)
(* And what a client may rely on once its request is answered.             *)
(***************************************************************************)
EXTENDS FileVersionsSerial_proofs

-----------------------------------------------------------------------------
(* Lists in order.                                                         *)

\* In a list that increases, the place of an element is the number of those below it.
LEMMA PlaceInList ==
    ASSUME NEW s \in Seq(Version), Increasing(s), NEW i \in 1..Len(s)
    PROVE  Cardinality({w \in ToSet(s) : w.num < s[i].num}) = i - 1
<1> DEFINE a == SubSeq(s, 1, i - 1)
<1>1. /\ Len(s) \in Nat /\ DOMAIN s = 1..Len(s) /\ i \in Int /\ i - 1 \in 0..Len(s)
      /\ \A j \in 1..Len(s) : s[j].num \in Nat
  <2>1. \A j \in 1..Len(s) : s[j] \in Version
    BY ElementOfSeq
  <2>2. Len(s) \in Nat /\ DOMAIN s = 1..Len(s)
    BY LenProperties
  <2>3. \A j \in 1..Len(s) : s[j].num \in Nat
    BY <2>1 DEF Version
  <2> QED BY <2>2, <2>3
<1>2. \A j, k \in 1..Len(s) : j # k => s[j] # s[k]
  <2>1. \A j, k \in 1..Len(s) : j < k => s[j].num < s[k].num
    BY <1>1 DEF Increasing
  <2>2. \A j, k \in 1..Len(s) : j # k => s[j].num # s[k].num
    BY <1>1, <2>1
  <2> QED BY <2>2
<1>3. Distinct(s)
  BY <1>1, <1>2 DEF Distinct
<1>4. a \in Seq(Version) /\ Len(a) = i - 1 /\ Distinct(a)
      /\ \A j \in 1..(i - 1) : a[j] = s[j]
  BY <1>1, <1>3, CutList
<1>5. DOMAIN a = 1..(i - 1)
  BY <1>4, LenProperties
<1> HIDE DEF a
<1>6. ToSet(a) = {w \in ToSet(s) : w.num < s[i].num}
  <2>1. \A j \in 1..Len(s) : s[j].num < s[i].num <=> j \in 1..(i - 1)
    BY <1>1 DEF Increasing
  <2>2. \A j \in 1..(i - 1) : j \in 1..Len(s)
    BY <1>1
  <2> QED BY <1>1, <1>4, <1>5, <2>1, <2>2 DEF ToSet
<1> QED BY <1>4, <1>6, DistinctLength

\* A set of versions is listed in increasing order in one way only.
LEMMA SortedSame ==
    ASSUME NEW s \in Seq(Version), NEW t \in Seq(Version), Increasing(s), Increasing(t),
           Distinct(s), Distinct(t), ToSet(s) = ToSet(t)
    PROVE  s = t
<1>1. Len(s) = Len(t) /\ Len(s) \in Nat /\ DOMAIN s = 1..Len(s) /\ DOMAIN t = 1..Len(t)
  BY DistinctLength, LenProperties
<1>2. ASSUME NEW i \in 1..Len(s) PROVE s[i] = t[i]
  <2>1. PICK j \in 1..Len(t) : t[j] = s[i]
    BY <1>1 DEF ToSet
  <2>2. i - 1 = j - 1
    BY <2>1, PlaceInList
  <2> QED BY <1>1, <2>1, <2>2
<1> QED BY <1>1, <1>2, SeqEqual

\* While numbers may be relied on, sorting a list that got too long changes nothing.
LEMMA AppendInOrder ==
    ASSUME BaseInv, NumbersInv, Orderly, NEW r \in Requests,
           NEW drop, NEW todo, NEW keep, Appends(r, drop, todo, keep)
    PROVE  versions' = Append(versions, req[r].ver)
<1>1. /\ Increasing(versions) /\ UpToLatest(versions) /\ req[r].ver.num = file.latest + 1
      /\ versions \in Seq(Version) /\ Distinct(versions) /\ file.latest \in Nat
      /\ req[r].ver \in Version /\ req[r].ver \notin ToSet(versions)
  BY NumbersBefore DEF Appends, NumbersAt, BaseInv, TypeOK, ListsInv, FileInfo
<1>2. PICK l \in Seq(Version) : l = Append(versions, req[r].ver)
  BY <1>1, AppendList
<1>3. /\ Len(l) = Len(versions) + 1 /\ ToSet(l) = ToSet(versions) \cup {req[r].ver}
      /\ \A i \in 1..Len(versions) : l[i] = versions[i]
      /\ l[Len(versions) + 1] = req[r].ver /\ Distinct(l)
  BY <1>1, <1>2, AppendList
<1>4. Increasing(l)
  <2>1. Len(versions) \in Nat /\ DOMAIN versions = 1..Len(versions) /\ DOMAIN l = 1..Len(l)
    BY <1>1, <1>2, LenProperties
  <2>2. \A i \in 1..Len(versions) : versions[i].num <= file.latest /\ versions[i].num \in Nat
    <3>1. \A i \in 1..Len(versions) : versions[i] \in Version
      BY <1>1, ElementOfSeq
    <3>2. \A i \in 1..Len(versions) : versions[i] \in ToSet(versions)
      BY <2>1 DEF ToSet
    <3> QED BY <1>1, <3>1, <3>2 DEF UpToLatest, Version
  <2>3. ASSUME NEW i \in DOMAIN l, NEW j \in DOMAIN l, i < j
        PROVE  l[i].num < l[j].num
    <3>1. i \in 1..Len(versions) /\ (j \in 1..Len(versions) \/ j = Len(versions) + 1)
      BY <1>3, <2>1, <2>3
    <3>2. CASE j \in 1..Len(versions)
      BY <1>1, <1>3, <2>1, <2>3, <3>1, <3>2 DEF Increasing
    <3>3. CASE j = Len(versions) + 1
      BY <1>1, <1>3, <2>2, <3>1, <3>3
    <3> QED BY <3>1, <3>2, <3>3
  <2> QED BY <2>3 DEF Increasing
<1>5. /\ versions' \in Seq(Version) /\ Distinct(versions') /\ ToSet(versions') = ToSet(l)
      /\ Increasing(versions')
  BY <1>1, <1>3, AppendIncreases DEF Appends
<1>6. PICK s \in Seq(Version) : s = versions'
  BY <1>5
<1>7. s = l
  BY <1>3, <1>4, <1>5, <1>6, SortedSame
<1> QED BY <1>2, <1>6, <1>7

-----------------------------------------------------------------------------
(* Lists of versions as lists of sets of chunks.                           *)

DataList(s) == [i \in DOMAIN s |-> {s[i].data}]

DataOf(s) == {v.data : v \in ToSet(s)}

\* The sets of a list, one by one.
LEMMA DataListIs ==
    ASSUME NEW s \in Seq(Version)
    PROVE  /\ DataList(s) \in Seq(SUBSET Requests) /\ Len(DataList(s)) = Len(s)
           /\ DOMAIN s = 1..Len(s) /\ DOMAIN DataList(s) = 1..Len(s)
           /\ \A i \in 1..Len(s) : s[i] \in Version /\ DataList(s)[i] = {s[i].data}
<1>1. DOMAIN s = 1..Len(s) /\ Len(s) \in Nat /\ \A i \in 1..Len(s) : s[i] \in Version
  BY ElementOfSeq, LenProperties
<1>2. \A i \in 1..Len(s) : {s[i].data} \in SUBSET Requests
  BY <1>1 DEF Version
<1>3. DataList(s) \in [1..Len(s) -> SUBSET Requests]
  BY <1>1, <1>2 DEF DataList
<1> QED BY <1>1, <1>3, FunctionList DEF DataList

\* Appending and taking the sets can be done in any order.
LEMMA DataListAppend ==
    ASSUME NEW s \in Seq(Version), NEW v \in Version
    PROVE  Append(DataList(s), {v.data}) = DataList(Append(s, v))
<1>1. PICK l \in Seq(Version) : l = Append(s, v)
  BY AppendList
<1>2. /\ Len(l) = Len(s) + 1 /\ l[Len(s) + 1] = v /\ Len(s) \in Nat
      /\ \A i \in 1..Len(s) : l[i] = s[i]
  BY <1>1, AppendList, LenProperties
<1>3. PICK d \in Seq(SUBSET Requests) : d = DataList(s)
  BY DataListIs
<1>4. Len(d) = Len(s) /\ \A i \in 1..Len(s) : d[i] = {s[i].data}
  BY <1>3, DataListIs
<1>5. {v.data} \in SUBSET Requests
  BY DEF Version
<1>6. PICK a \in Seq(SUBSET Requests) : a = Append(d, {v.data})
  BY <1>5, AppendProperties
<1>7. /\ Len(a) = Len(s) + 1 /\ a[Len(s) + 1] = {v.data}
      /\ \A i \in 1..Len(s) : a[i] = d[i]
  BY <1>4, <1>5, <1>6, AppendProperties
<1>8. PICK b \in Seq(SUBSET Requests) : b = DataList(l)
  BY DataListIs
<1>9. Len(b) = Len(s) + 1 /\ \A i \in 1..(Len(s) + 1) : b[i] = {l[i].data}
  BY <1>2, <1>8, DataListIs
<1>10. \A i \in 1..(Len(s) + 1) : i \in 1..Len(s) \/ i = Len(s) + 1
  BY <1>2
<1>11. ASSUME NEW i \in 1..Len(a) PROVE a[i] = b[i]
  <2>1. CASE i \in 1..Len(s)
    <3>1. a[i] = {s[i].data} /\ l[i] = s[i]
      BY <1>2, <1>4, <1>7, <2>1
    <3> QED BY <1>7, <1>9, <3>1
  <2>2. CASE i = Len(s) + 1
    <3>1. a[i] = {v.data} /\ l[i] = v
      BY <1>2, <1>7, <2>2
    <3> QED BY <1>7, <1>9, <3>1
  <2> QED BY <1>7, <1>10, <2>1, <2>2
<1>12. a = b
  BY <1>7, <1>9, <1>11, SeqEqual
<1> QED BY <1>1, <1>3, <1>6, <1>8, <1>12

\* So can cutting a list and taking the sets.
LEMMA DataListCut ==
    ASSUME NEW s \in Seq(Version), NEW k \in 0..Len(s)
    PROVE  /\ SubSeq(DataList(s), k + 1, Len(s)) = DataList(SubSeq(s, k + 1, Len(s)))
           /\ UNION {DataList(s)[i] : i \in 1..k} = DataOf(SubSeq(s, 1, k))
<1>1. /\ Len(s) \in Nat /\ k \in Nat /\ \A i \in 1..k : i \in 1..Len(s)
      /\ \A i \in 1..(Len(s) - k) : k + i \in 1..Len(s) /\ k + 1 + i - 1 = k + i
      /\ \A i \in (k + 1)..Len(s) : i \in 1..Len(s)
  BY LenProperties
<1>2. PICK d \in Seq(SUBSET Requests) : d = DataList(s)
  BY DataListIs
<1>3. Len(d) = Len(s) /\ \A i \in 1..Len(s) : d[i] = {s[i].data}
  BY <1>2, DataListIs
<1>4. PICK a \in Seq(SUBSET Requests) : a = SubSeq(d, k + 1, Len(s))
  <2>1. \A i \in (k + 1)..Len(s) : d[i] \in SUBSET Requests
    BY <1>1, <1>3, ElementOfSeq
  <2>2. SubSeq(d, k + 1, Len(s)) \in Seq(SUBSET Requests)
    BY <1>1, <2>1, SubSeqProperties
  <2> QED BY <2>2
<1>5. Len(a) = Len(s) - k /\ \A i \in 1..(Len(s) - k) : a[i] = d[k + i]
  <2>1. \A i \in (k + 1)..Len(s) : d[i] \in SUBSET Requests
    BY <1>1, <1>3, ElementOfSeq
  <2>2. /\ Len(a) = IF k + 1 <= Len(s) THEN Len(s) - (k + 1) + 1 ELSE 0
        /\ \A i \in 1..(Len(s) - (k + 1) + 1) : a[i] = d[k + 1 + i - 1]
    BY <1>1, <1>4, <2>1, SubSeqProperties
  <2>3. Len(a) = Len(s) - k
    BY <1>1, <2>2
  <2>4. ASSUME NEW i \in 1..(Len(s) - k)
        PROVE  a[i] = d[k + i]
    <3>1. i \in 1..(Len(s) - (k + 1) + 1) /\ k + 1 + i - 1 = k + i
      BY <1>1
    <3> QED BY <2>2, <3>1
  <2> QED BY <2>3, <2>4
<1>6. PICK l \in Seq(Version) : l = SubSeq(s, k + 1, Len(s))
  BY CutList
<1>7. Len(l) = Len(s) - k /\ \A i \in 1..(Len(s) - k) : l[i] = s[k + i]
  BY <1>6, CutList
<1>8. PICK b \in Seq(SUBSET Requests) : b = DataList(l)
  BY DataListIs
<1>9. Len(b) = Len(s) - k /\ \A i \in 1..(Len(s) - k) : b[i] = {l[i].data}
  BY <1>7, <1>8, DataListIs
<1>10. ASSUME NEW i \in 1..Len(a) PROVE a[i] = b[i]
  <2>1. i \in 1..(Len(s) - k) /\ k + i \in 1..Len(s)
    BY <1>1, <1>5
  <2> QED BY <1>3, <1>5, <1>7, <1>9, <2>1
<1>11. a = b
  BY <1>5, <1>9, <1>10, SeqEqual
<1>12. PICK h \in Seq(Version) : h = SubSeq(s, 1, k)
  BY CutList
<1>13. /\ Len(h) = k /\ DOMAIN h = 1..k /\ \A i \in 1..k : h[i] = s[i]
  BY <1>12, CutList, LenProperties
<1>14. UNION {d[i] : i \in 1..k} = DataOf(h)
  <2>1. \A i \in 1..k : d[i] = {h[i].data}
    BY <1>1, <1>3, <1>13
  <2>2. ToSet(h) = {h[i] : i \in 1..k}
    BY <1>13 DEF ToSet
  <2>3. DataOf(h) = {h[i].data : i \in 1..k}
    BY <2>2 DEF DataOf
  <2>4. \A x : x \in UNION {d[i] : i \in 1..k} <=> \E i \in 1..k : x = h[i].data
    BY <2>1
  <2> QED BY <2>3, <2>4
<1> QED BY <1>2, <1>4, <1>6, <1>8, <1>11, <1>12, <1>14

\* And taking an element out.
LEMMA DataListRemove ==
    ASSUME NEW s \in Seq(Version), NEW k \in 1..Len(s)
    PROVE  DataList(RemoveAt(s, k)) =
             SubSeq(DataList(s), 1, k - 1) \o SubSeq(DataList(s), k + 1, Len(s))
<1>1. /\ Len(s) \in Nat /\ k \in Nat \ {0} /\ k - 1 \in 0..Len(s) /\ k \in 0..Len(s)
      /\ k <= Len(s)
  BY LenProperties
<1>2. PICK a \in Seq(Version) : a = SubSeq(s, 1, k - 1)
  BY <1>1, CutList
<1>3. PICK b \in Seq(Version) : b = SubSeq(s, k + 1, Len(s))
  BY <1>1, CutList
<1>4. Len(a) = k - 1 /\ Len(b) = Len(s) - k
  BY <1>1, <1>2, <1>3, CutList
<1>5. SubSeq(DataList(s), k + 1, Len(s)) = DataList(b)
  BY <1>1, <1>3, DataListCut
<1>6. SubSeq(DataList(s), 1, k - 1) = DataList(a)
  <2>1. PICK d \in Seq(SUBSET Requests) : d = DataList(s)
    BY DataListIs
  <2>2. Len(d) = Len(s) /\ \A i \in 1..Len(s) : d[i] = {s[i].data}
    BY <2>1, DataListIs
  <2>3. \A i \in 1..(k - 1) : i \in 1..Len(s) /\ d[i] \in SUBSET Requests
    BY <1>1, <2>2, ElementOfSeq
  <2>4. PICK e \in Seq(SUBSET Requests) : e = SubSeq(d, 1, k - 1)
    <3>1. SubSeq(d, 1, k - 1) \in Seq(SUBSET Requests)
      BY <1>1, <2>3, SubSeqProperties
    <3> QED BY <3>1
  <2>5. /\ Len(e) = IF 1 <= k - 1 THEN (k - 1) - 1 + 1 ELSE 0
        /\ \A i \in 1..((k - 1) - 1 + 1) : e[i] = d[1 + i - 1]
    BY <1>1, <2>3, <2>4, SubSeqProperties
  <2>6. Len(e) = k - 1 /\ \A i \in 1..(k - 1) : e[i] = d[i]
    <3>1. Len(e) = k - 1
      BY <1>1, <2>5
    <3>2. ASSUME NEW i \in 1..(k - 1) PROVE e[i] = d[i]
      <4>1. i \in 1..((k - 1) - 1 + 1) /\ 1 + i - 1 = i
        BY <1>1
      <4> QED BY <2>5, <4>1
    <3> QED BY <3>1, <3>2
  <2>7. PICK g \in Seq(SUBSET Requests) : g = DataList(a)
    BY DataListIs
  <2>8. Len(g) = k - 1 /\ \A i \in 1..(k - 1) : g[i] = {a[i].data} /\ a[i] = s[i]
    <3>1. \A i \in 1..(k - 1) : a[i] = s[i]
      BY <1>1, <1>2, CutList
    <3>2. Len(g) = Len(a) /\ \A i \in 1..Len(a) : g[i] = {a[i].data}
      BY <2>7, DataListIs
    <3> QED BY <1>4, <3>1, <3>2
  <2>9. \A i \in 1..Len(e) : e[i] = g[i]
    BY <2>2, <2>3, <2>6, <2>8
  <2>10. e = g
    BY <2>6, <2>8, <2>9, SeqEqual
  <2> QED BY <2>1, <2>4, <2>7, <2>10
<1>7. RemoveAt(s, k) = a \o b
  BY <1>2, <1>3 DEF RemoveAt
<1>8. DataList(a \o b) = DataList(a) \o DataList(b)
  <2>1. PICK x \in Seq(SUBSET Requests) : x = DataList(a)
    BY DataListIs
  <2>2. PICK y \in Seq(SUBSET Requests) : y = DataList(b)
    BY DataListIs
  <2>3. /\ Len(x) = Len(a) /\ Len(y) = Len(b) /\ Len(a) \in Nat /\ Len(b) \in Nat
        /\ \A i \in 1..Len(a) : x[i] = {a[i].data}
        /\ \A i \in 1..Len(b) : y[i] = {b[i].data}
    BY <2>1, <2>2, DataListIs, LenProperties
  <2>4. PICK ab \in Seq(Version) : ab = a \o b
    BY ConcatProperties
  <2>5. /\ Len(ab) = Len(a) + Len(b)
        /\ \A i \in 1..(Len(a) + Len(b)) : ab[i] = IF i <= Len(a) THEN a[i] ELSE b[i - Len(a)]
    BY <2>4, ConcatProperties
  <2>6. PICK xy \in Seq(SUBSET Requests) : xy = x \o y
    BY ConcatProperties
  <2>7. /\ Len(xy) = Len(a) + Len(b)
        /\ \A i \in 1..(Len(a) + Len(b)) : xy[i] = IF i <= Len(a) THEN x[i] ELSE y[i - Len(a)]
    <3>1. /\ Len(xy) = Len(x) + Len(y)
          /\ \A i \in 1..(Len(x) + Len(y)) :
               xy[i] = IF i <= Len(x) THEN x[i] ELSE y[i - Len(x)]
      BY <2>6, ConcatProperties
    <3> QED BY <2>3, <3>1
  <2>8. PICK z \in Seq(SUBSET Requests) : z = DataList(ab)
    BY DataListIs
  <2>9. Len(z) = Len(a) + Len(b) /\ \A i \in 1..(Len(a) + Len(b)) : z[i] = {ab[i].data}
    BY <2>5, <2>8, DataListIs
  <2>10. ASSUME NEW i \in 1..Len(z) PROVE z[i] = xy[i]
    <3>1. CASE i <= Len(a)
      <4>1. i \in 1..Len(a) /\ i \in 1..(Len(a) + Len(b))
        BY <2>3, <2>9, <3>1
      <4> QED BY <2>3, <2>5, <2>7, <2>9, <3>1, <4>1
    <3>2. CASE ~(i <= Len(a))
      <4>1. i - Len(a) \in 1..Len(b) /\ i \in 1..(Len(a) + Len(b))
        BY <2>3, <2>9, <3>2
      <4> QED BY <2>3, <2>5, <2>7, <2>9, <3>2, <4>1
    <3> QED BY <3>1, <3>2
  <2>11. z = xy
    BY <2>7, <2>9, <2>10, SeqEqual
  <2> QED BY <2>1, <2>2, <2>4, <2>6, <2>8, <2>11
<1> QED BY <1>5, <1>6, <1>7, <1>8

-----------------------------------------------------------------------------
(* Where the chunks of a version that is about to enter the list come from.  *)

\* An upload enters with its own chunks, which are there and in no other version; a
\* rollback enters with those of a version that is still listed.
SourceAt(r) ==
    req[r].phase = "numbered" =>
      /\ req[r].kind \in Uploaders =>
           /\ req[r].ver.data = r /\ r \in stored
           /\ \A q \in Made : q # r => req[q].ver.data # r
      /\ req[r].kind = "rollback" => \E v \in ToSet(versions) : v.data = req[r].ver.data

SourceInv == \A r \in Requests : SourceAt(r)

\* When r moves alone, r is the only request to look at.
LEMMA SourceAfter ==
    ASSUME NEW r \in Requests, Alone(r), SourceAt(r)'
    PROVE  SourceInv'
<1>1. ASSUME NEW q \in Requests, q # r PROVE SourceAt(q)'
  BY <1>1 DEF Alone, InHandler, SourceAt
<1> QED BY <1>1 DEF SourceInv

\* Numbering a version over the chunks of an upload.
LEMMA SourceOfUpload ==
    ASSUME BaseInv, DataInv, NEW r \in Requests, Alone(r),
           req[r].phase = "uploaded", req[r].kind = "none", stored' = stored,
           NEW f, NEW kind \in Uploaders,
           Moves(r, kind, "numbered", NextVersion(f, r), <<>>, <<>>)
    PROVE  SourceInv'
<1>1. r \in stored /\ req'[r].ver.data = r /\ req'[r].kind \in Uploaders
  BY DEF DataInv, Moves, NextVersion
<1>2. ASSUME NEW q \in Requests, q # r, req'[q].ver # NoVersion
      PROVE  req'[q].ver.data # r
  <2>1. q \in Made /\ req'[q] = req[q]
    BY <1>2 DEF Moves, Made
  <2>2. req[req[q].ver.data].kind \in Uploaders
    BY <2>1 DEF DataInv
  <2> QED BY <2>1, <2>2 DEF Uploaders
<1>3. SourceAt(r)'
  BY <1>1, <1>2 DEF SourceAt, Made, Uploaders
<1> QED BY <1>3, SourceAfter

\* A step inside a handler that numbers no version.
LEMMA SourceStays ==
    ASSUME NEW r \in Requests, Alone(r), req'[r].phase # "numbered"
    PROVE  SourceInv'
  BY SourceAfter DEF SourceAt

\* Every step preserves SourceInv.
LEMMA SourceNext ==
    ASSUME BaseInv, Single, DataInv, SourceInv, ~Overlap, [Next]_vars
    PROVE  SourceInv'
<1>1. ASSUME NEW r \in Requests, Upload(r) PROVE SourceInv'
  <2>1. /\ Moves(r, "none", "uploaded", req[r].ver, <<>>, <<>>) /\ req[r].phase = "idle"
        /\ req[r].kind = "none" /\ stored' = stored \cup {r} /\ versions' = versions
    BY <1>1, UploadFacts
  <2>2. Made' = Made /\ \A q \in Made : req'[q].ver = req[q].ver
    BY <2>1 DEF Moves, Made
  <2>3. ASSUME NEW q \in Requests PROVE SourceAt(q)'
    <3>1. CASE q = r
      BY <2>1, <3>1 DEF SourceAt, Moves
    <3>2. CASE q # r
      <4>1. req'[q] = req[q] /\ SourceAt(q)
        BY <2>1, <3>2 DEF Moves, SourceInv
      <4> QED BY <2>1, <2>2, <4>1 DEF SourceAt
    <3> QED BY <3>1, <3>2
  <2> QED BY <2>3 DEF SourceInv
<1>2. ASSUME NEW r \in Requests, CreateVersion(r) PROVE SourceInv'
  <2>1. PICK f : f = file'
    OBVIOUS
  <2>2. /\ Alone(r) /\ req[r].phase = "uploaded" /\ req[r].kind = "none" /\ stored' = stored
        /\ Moves(r, "create", "numbered", NextVersion(f, r), <<>>, <<>>)
    BY <1>2, <2>1, CreateFacts
  <2> QED BY <2>2, SourceOfUpload DEF Uploaders
<1>3. ASSUME NEW r \in Requests, CreateFileMeta(r) PROVE SourceInv'
  <2>1. PICK f : f = NewFile
    OBVIOUS
  <2>2. /\ Alone(r) /\ req[r].phase = "uploaded" /\ req[r].kind = "none" /\ stored' = stored
        /\ Moves(r, "meta", "numbered", NextVersion(f, r), <<>>, <<>>)
    BY <1>3, <2>1, MetaFacts
  <2> QED BY <2>2, SourceOfUpload DEF Uploaders
<1>4. ASSUME NEW r \in Requests, NEW num \in 1..Cardinality(Requests), RollbackFile(r, num)
      PROVE  SourceInv'
  <2>1. Alone(r) /\ versions' = versions
    BY <1>4, RollbackFacts
  <2>2. PICK v \in ToSet(versions) :
          Moves(r, "rollback", "numbered", NextVersion(file, v.data), <<>>, <<>>)
    BY <1>4, RollbackFacts
  <2>3. SourceAt(r)'
    BY <2>1, <2>2 DEF SourceAt, Moves, Uploaders, NextVersion
  <2> QED BY <2>1, <2>3, SourceAfter
<1>5. ASSUME NEW r \in Requests, AppendVersion(r) PROVE SourceInv'
  <2>1. Alone(r) /\ req'[r].phase # "numbered"
    BY <1>5, AppendFacts DEF Appends, Moves
  <2> QED BY <2>1, SourceStays
<1>6. ASSUME NEW r \in Requests, DropChunks(r) PROVE SourceInv'
  <2>1. PICK todo : todo = Tail(req[r].todo)
    OBVIOUS
  <2>2. Alone(r) /\ req'[r].phase # "numbered"
    BY <1>6, <2>1, DropFacts DEF Moves
  <2> QED BY <2>2, SourceStays
<1>7. ASSUME NEW r \in Requests,
             \/ DeleteFile(r) \/ InstallList(r) \/ SaveFile(r) \/ SaveVersion(r) \/ UnsaveFile(r)
             \/ \E num \in 1..Cardinality(Requests) : DeleteVersion(r, num)
      PROVE  SourceInv'
  <2>1. Alone(r)
    BY <1>7, HandlerAlone DEF HandlerStep
  <2>2. req'[r].phase # "numbered"
    BY <1>7, DeleteFileFacts, InstallFacts, SaveFileFacts, SaveVersionFacts, UnsaveFacts,
       DeleteVersionFacts DEF Moves
  <2> QED BY <2>1, <2>2, SourceStays
<1>8. CASE Restart
  BY <1>8, RestartFacts DEF SourceInv, SourceAt, InHandler
<1>9. CASE UNCHANGED vars
  BY <1>9 DEF vars, SourceInv, SourceAt, Made
<1> QED BY <1>1, <1>2, <1>3, <1>4, <1>5, <1>6, <1>7, <1>8, <1>9, StepCases DEF HandlerStep

\* The invariant that the refinement needs.
LEMMA SourceInvariant ==
    ASSUME ~Overlap
    PROVE  Spec => [](BaseInv /\ SerialInv /\ SourceInv)
<1>1. Init => SourceInv
  BY DEF Init, NoRequest, SourceInv, SourceAt
<1>2. BaseInv /\ SerialInv /\ SourceInv /\ [Next]_vars => SourceInv'
  BY SourceNext DEF SerialInv
<1> QED BY <1>1, <1>2, SerialInvariant, PTL DEF Spec

-----------------------------------------------------------------------------
(* What the file will be once the handler at work is done.                   *)

\* The list that the handler of r leaves, if no other is at work.
LeftBy(r) == IF req[r].phase \in {"drop", "finish"} THEN req[r].keep ELSE versions

SettledFacts ==
    BaseInv =>
      \A r \in Requests :
        (\A q \in Requests : q # r => req[q].phase \notin InHandler) =>
          /\ SettledList = LeftBy(r)
          /\ Doomed = DataOf(req[r].todo)

\* SettledList and Doomed are those of the handler at work.
LEMMA SettledIs == SettledFacts
<1> SUFFICES ASSUME BaseInv, NEW r \in Requests,
                    \A q \in Requests : q # r => req[q].phase \notin InHandler
             PROVE  SettledList = LeftBy(r) /\ Doomed = DataOf(req[r].todo)
  BY DEF SettledFacts
<1>1. \A q \in Requests : req[q].phase \in {"drop", "finish"} => q = r
  BY DEF InHandler
<1>2. SettledList = LeftBy(r)
  <2>1. CASE req[r].phase \in {"drop", "finish"}
    <3>1. (CHOOSE q \in Requests : req[q].phase \in {"drop", "finish"}) = r
      BY <1>1, <2>1
    <3> QED BY <2>1, <3>1 DEF SettledList, LeftBy
  <2>2. CASE req[r].phase \notin {"drop", "finish"}
    BY <1>1, <2>2 DEF SettledList, LeftBy
  <2> QED BY <2>1, <2>2
<1>3. \A q \in Requests : q # r => ToSet(req[q].todo) = {}
  <2>1. \A q \in Requests : q # r => req[q].todo = <<>>
    BY DEF BaseInv, PhaseInv, PhaseAt, InHandler
  <2>2. ToSet(<<>>) = {}
    BY DEF ToSet
  <2> QED BY <2>1, <2>2
<1>4. Doomed = DataOf(req[r].todo)
  BY <1>3 DEF Doomed, DataOf
<1> QED BY <1>2, <1>4

\* The same of the next state.
LEMMA SettledIsNext == SettledFacts'
  BY SettledIs, PTL

\* Before and after a step of a handler.
LEMMA SettledAround ==
    ASSUME BaseInv, BaseInv', NEW r \in Requests, Alone(r)
    PROVE  /\ SettledList = LeftBy(r) /\ Doomed = DataOf(req[r].todo)
           /\ SettledList' = LeftBy(r)' /\ Doomed' = DataOf(req'[r].todo)
<1>1. \A q \in Requests : q # r => req[q].phase \notin InHandler /\ req'[q].phase \notin InHandler
  BY DEF Alone
<1>2. SettledList = LeftBy(r) /\ Doomed = DataOf(req[r].todo)
  BY <1>1, SettledIs DEF SettledFacts
<1>3. SettledList' = LeftBy(r)' /\ Doomed' = DataOf(req'[r].todo)
  BY <1>1, SettledIsNext DEF SettledFacts
<1> QED BY <1>2, <1>3

\* Nothing is doomed where there is nothing to drop.
LEMMA NoneDoomed == DataOf(<<>>) = {}
  BY DEF DataOf, ToSet

-----------------------------------------------------------------------------
(* The steps.                                                              *)

\* A step that leaves what the file will be as it is.
LEMMA Unseen ==
    ASSUME SettledList' = SettledList, stored' \ Doomed' = stored \ Doomed
    PROVE  UNCHANGED Settled!lvars
  BY DEF Settled!lvars

\* Numbering a version, or saving something, changes no list and no chunk.
LEMMA UnseenStep ==
    ASSUME BaseInv, BaseInv', NEW r \in Requests, Alone(r),
           req[r].phase \notin {"drop", "finish"}, req'[r].phase \notin {"drop", "finish"},
           versions' = versions, stored' = stored
    PROVE  UNCHANGED Settled!lvars
<1>1. req[r].todo = <<>> /\ req'[r].todo = <<>>
  BY DEF BaseInv, PhaseInv, PhaseAt
<1>2. SettledList' = SettledList /\ Doomed' = Doomed
  BY <1>1, SettledAround DEF LeftBy
<1> QED BY <1>2, Unseen

\* Neither does dropping the chunks of a version that was doomed, nor installing a list.
LEMMA UnseenDrop ==
    ASSUME BaseInv, BaseInv', Single, ~Overlap, NEW r \in Requests,
           DropChunks(r) \/ InstallList(r)
    PROVE  UNCHANGED Settled!lvars
<1>1. CASE DropChunks(r)
  <2>1. PICK todo : todo = Tail(req[r].todo)
    OBVIOUS
  <2>2. /\ Alone(r) /\ req[r].phase = "drop"
        /\ req'[r].phase = (IF todo = <<>> THEN "finish" ELSE "drop")
        /\ req'[r].keep = req[r].keep /\ req'[r].todo = todo
        /\ ToSet(req[r].todo) = ToSet(todo) \cup {Head(req[r].todo)}
        /\ stored' = stored \ {Head(req[r].todo).data}
    BY <1>1, <2>1, DropFacts DEF Moves
  <2>3. SettledList' = SettledList
    BY <2>2, SettledAround DEF LeftBy
  <2>4. DataOf(req[r].todo) = DataOf(todo) \cup {Head(req[r].todo).data}
    BY <2>2 DEF DataOf
  <2>5. Doomed = DataOf(req[r].todo) /\ Doomed' = DataOf(todo)
    BY <2>2, SettledAround
  <2>6. stored' \ Doomed' = stored \ Doomed
    BY <2>2, <2>4, <2>5
  <2> QED BY <2>3, <2>6, Unseen
<1>2. CASE InstallList(r)
  <2>1. /\ Alone(r) /\ req[r].phase = "finish" /\ req[r].todo = <<>>
        /\ req'[r].phase \in {"unsave", "saveFile"} /\ req'[r].todo = <<>>
        /\ versions' = req[r].keep /\ stored' = stored
    BY <1>2, InstallFacts DEF Moves
  <2>2. SettledList' = SettledList /\ Doomed' = Doomed
    BY <2>1, SettledAround DEF LeftBy
  <2> QED BY <2>1, <2>2, Unseen
<1> QED BY <1>1, <1>2

\* An upload stores chunks, while another request may be at work.
LEMMA SettledStore ==
    ASSUME BaseInv, BaseInv', Single, NEW r \in Requests, Upload(r)
    PROVE  Settled!Store
<1>1. /\ req[r].phase = "idle" /\ req'[r].phase = "uploaded" /\ req'[r].todo = <<>>
      /\ \A q \in Requests : q # r => req'[q] = req[q]
      /\ stored' = stored \cup {r} /\ versions' = versions
  BY UploadFacts DEF Moves
<1>2. PICK q \in Requests : \A p \in Requests : p # q => req[p].phase \notin InHandler
  BY DEF Single
<1>3. /\ req[r].todo = <<>>
      /\ \A p \in Requests : p # q => req'[p].phase \notin InHandler
  BY <1>1, <1>2 DEF BaseInv, PhaseInv, PhaseAt, InHandler
<1>4. LeftBy(q)' = LeftBy(q) /\ req'[q].todo = req[q].todo
  BY <1>1, <1>3 DEF LeftBy
<1>5. SettledList' = SettledList /\ Doomed' = Doomed
  BY <1>2, <1>3, <1>4, SettledIs, SettledIsNext DEF SettledFacts
<1> QED BY <1>1, <1>5 DEF Settled!Store

\* DeleteFile takes everything.
LEMMA SettledClear ==
    ASSUME BaseInv, BaseInv', Single, ~Overlap, NEW r \in Requests, DeleteFile(r)
    PROVE  Settled!Clear
<1>1. /\ Alone(r) /\ req[r].phase = "idle" /\ req'[r].phase \in {"drop", "finish"}
      /\ req'[r].todo = versions /\ req'[r].keep = <<>> /\ stored' = stored
  BY DeleteFileFacts DEF Moves
<1>2. req[r].todo = <<>>
  BY <1>1 DEF BaseInv, PhaseInv, PhaseAt
<1>3. /\ SettledList = versions /\ Doomed = {}
      /\ SettledList' = <<>> /\ Doomed' = DataOf(versions)
  BY <1>1, <1>2, SettledAround, NoneDoomed DEF LeftBy
<1>4. DataOf(versions) = UNION {DataList(versions)[i] : i \in DOMAIN DataList(versions)}
  BY DEF DataOf, DataList, ToSet
<1> QED BY <1>1, <1>3, <1>4 DEF Settled!Clear, DataList

\* DeleteVersion takes one version with its chunks.
LEMMA SettledRemove ==
    ASSUME BaseInv, BaseInv', Single, ~Overlap, NEW r \in Requests,
           NEW num \in 1..Cardinality(Requests), DeleteVersion(r, num)
    PROVE  Settled!Remove
<1>1. Alone(r) /\ req[r].phase = "idle" /\ stored' = stored
  BY DeleteVersionFacts
<1>2. PICK k \in 1..Len(versions) :
        Moves(r, "deleteVersion", "drop", NoVersion, <<versions[k]>>, RemoveAt(versions, k))
  BY DeleteVersionFacts
<1>3. PICK s \in Seq(Version) : s = versions
  BY DEF BaseInv, TypeOK
<1>4. req[r].todo = <<>>
  BY <1>1 DEF BaseInv, PhaseInv, PhaseAt
<1>5. DataOf(<<s[k]>>) = {s[k].data}
  BY DEF DataOf, ToSet
<1>6. /\ SettledList = s /\ Doomed = {}
      /\ SettledList' = RemoveAt(s, k) /\ Doomed' = {s[k].data}
  BY <1>1, <1>2, <1>3, <1>4, <1>5, SettledAround, NoneDoomed DEF LeftBy, Moves
<1>7. /\ k \in 1..Len(s) /\ Len(DataList(s)) = Len(s) /\ DOMAIN DataList(s) = 1..Len(s)
      /\ DataList(s)[k] = {s[k].data}
  BY <1>2, <1>3, DataListIs
<1>8. DataList(RemoveAt(s, k)) =
        SubSeq(DataList(s), 1, k - 1) \o SubSeq(DataList(s), k + 1, Len(DataList(s)))
  BY <1>7, DataListRemove
<1>9. stored' \ Doomed' = (stored \ Doomed) \ DataList(s)[k]
  BY <1>1, <1>6, <1>7
<1>10. /\ [i \in DOMAIN SettledList |-> {SettledList[i].data}] = DataList(s)
       /\ [i \in DOMAIN SettledList' |-> {SettledList'[i].data}] = DataList(RemoveAt(s, k))
  BY <1>6 DEF DataList
<1> QED BY <1>7, <1>8, <1>9, <1>10 DEF Settled!Remove

\* AppendVersion brings the version in and the oldest out.
LEMMA SettledEnter ==
    ASSUME BaseInv, BaseInv', Single, NumbersInv, CutInv, SourceInv, Orderly, ~Overlap,
           NEW r \in Requests, AppendVersion(r)
    PROVE  Settled!Publish \/ Settled!Rollback
<1>1. PICK drop : drop = Excess(req[r].kind, Len(versions) + 1)
  OBVIOUS
<1>2. PICK todo, keep : /\ todo = SubSeq(versions', 1, drop)
                        /\ keep = SubSeq(versions', drop + 1, Len(versions'))
  OBVIOUS
<1>3. Appends(r, drop, todo, keep)
  BY <1>1, <1>2, AppendCut
<1>4. PICK s \in Seq(Version) : s = versions
  BY DEF BaseInv, TypeOK
<1>5. PICK w \in Version : w = req[r].ver
  BY <1>3 DEF Appends
<1>6. PICK l \in Seq(Version) : l = Append(s, w)
  BY AppendList
<1>7. /\ Len(l) = Len(s) + 1 /\ Len(s) \in Nat /\ l[Len(s) + 1] = w /\ versions' = l
      /\ drop \in 0..Len(s) /\ drop \in 0..Len(l)
  <2>1. versions' = Append(versions, req[r].ver) /\ drop \in 0..Len(versions)
    BY <1>3, AppendInOrder DEF Appends
  <2>2. Len(l) = Len(s) + 1 /\ Len(s) \in Nat /\ l[Len(s) + 1] = w
    BY <1>6, AppendList, LenProperties
  <2> QED BY <1>4, <1>5, <1>6, <2>1, <2>2
<1>8. /\ Alone(r) /\ req[r].phase = "numbered" /\ stored' = stored
      /\ req[r].kind \in Makers /\ req[r].ver \notin ToSet(versions)
      /\ req'[r].phase = (IF drop > 0 THEN "drop" ELSE "saveFile")
      /\ req'[r].todo = todo /\ req'[r].keep = keep
  BY <1>3 DEF Appends, Moves
<1>9. drop = Settled!Over(Len(l))
  <2>1. MaxVersions \in Nat \ {0}
    BY MaxVersionsAssumption
  <2>2. CASE req[r].kind = "meta"
    <3>1. versions = <<>>
      BY <1>8, <2>2, CutBefore DEF CutAt
    <3>2. Len(l) = 1
      BY <1>4, <1>7, <3>1
    <3> QED BY <1>1, <2>1, <2>2, <3>2 DEF Settled!Over, Excess
  <2>3. CASE req[r].kind # "meta"
    BY <1>1, <1>4, <1>7, <2>1, <2>3 DEF Settled!Over, Excess
  <2> QED BY <2>2, <2>3
<1>10. /\ keep = SubSeq(l, drop + 1, Len(l)) /\ todo = SubSeq(l, 1, drop)
       /\ keep \in Seq(Version) /\ Len(keep) = Len(l) - drop
       /\ \A i \in 1..(Len(l) - drop) : keep[i] = l[drop + i]
  <2>1. keep = SubSeq(l, drop + 1, Len(l)) /\ todo = SubSeq(l, 1, drop)
    BY <1>2, <1>7
  <2> QED BY <1>7, <2>1, CutList
<1>11. SettledList = s /\ Doomed = {} /\ SettledList' = keep /\ Doomed' = DataOf(todo)
  <2>1. req[r].todo = <<>>
    BY <1>8 DEF BaseInv, PhaseInv, PhaseAt
  <2>2. SettledList = s /\ Doomed = {} /\ Doomed' = DataOf(todo)
    BY <1>4, <1>8, <2>1, SettledAround, NoneDoomed DEF LeftBy
  <2>3. CASE drop > 0
    BY <1>8, <2>2, <2>3, SettledAround DEF LeftBy
  <2>4. CASE drop = 0
    <3>1. Len(keep) = Len(l) /\ \A i \in 1..Len(keep) : keep[i] = l[i]
      BY <1>7, <1>10, <2>4
    <3>2. keep = l
      BY <1>10, <3>1, SeqEqual
    <3>3. SettledList' = versions'
      BY <1>8, <2>4, SettledAround DEF LeftBy
    <3> QED BY <1>7, <2>2, <3>2, <3>3
  <2>5. drop > 0 \/ drop = 0
    BY <1>7
  <2> QED BY <2>3, <2>2, <2>4, <2>5
<1>12. PICK v : v = {w.data}
  OBVIOUS
<1> DEFINE list == [i \in DOMAIN SettledList |-> {SettledList[i].data}]
           all == Append(list, v)
           over == Settled!Over(Len(all))
<1>13. list = DataList(s) /\ list' = DataList(keep) /\ DOMAIN list = 1..Len(s)
  BY <1>11, DataListIs DEF DataList
<1>14. all = DataList(l) /\ Len(all) = Len(l) /\ over = drop
  <2>1. all = DataList(l)
    BY <1>6, <1>12, <1>13, DataListAppend
  <2> HIDE DEF all
  <2> QED BY <1>9, <2>1, DataListIs
<1> HIDE DEF list, all, over
<1>15. list' = SubSeq(all, over + 1, Len(all))
  BY <1>7, <1>10, <1>13, <1>14, DataListCut
<1>16. UNION {all[i] : i \in 1..over} = DataOf(todo)
  <2>1. UNION {DataList(l)[i] : i \in 1..drop} = DataOf(todo)
    BY <1>7, <1>10, DataListCut
  <2> QED BY <1>14, <2>1
<1>17. Settled!Enter(v)
  <2>1. stored' \ Doomed' = (stored \ Doomed) \ UNION {all[i] : i \in 1..over}
    BY <1>8, <1>11, <1>16
  <2> QED BY <1>15, <2>1 DEF Settled!Enter, list, all, over
<1>18. CASE req[r].kind \in Uploaders
  <2>1. w.data = r /\ r \in stored /\ \A q \in Made : q # r => req[q].ver.data # r
    BY <1>5, <1>8, <1>18 DEF SourceInv, SourceAt
  <2>2. v \subseteq stored \ Doomed
    BY <1>11, <1>12, <2>1
  <2>3. \A i \in 1..Len(s) : DataList(s)[i] \cap v = {}
    <3>1. ASSUME NEW i \in 1..Len(s) PROVE s[i].data # r
      <4>1. s[i] \in ToSet(versions)
        BY <1>4, LenProperties DEF ToSet
      <4>2. PICK q \in Made : s[i] = req[q].ver
        BY <4>1 DEF BaseInv, ListsInv, MadeVersions
      <4> QED BY <1>8, <2>1, <4>1, <4>2
    <3> QED BY <1>12, <2>1, <3>1, DataListIs
  <2>4. v \in {DataList(keep)[i] : i \in DOMAIN DataList(keep)}
    <3>1. PICK n : n = Len(l) - drop
      OBVIOUS
    <3>2. n \in 1..Len(keep) /\ n \in 1..(Len(l) - drop) /\ drop + n = Len(s) + 1
      BY <1>7, <1>10, <3>1
    <3>3. keep[n] = w
      BY <1>7, <1>10, <3>2
    <3>4. DOMAIN DataList(keep) = 1..Len(keep) /\ DataList(keep)[n] = {keep[n].data}
      BY <1>10, <3>2, DataListIs
    <3> QED BY <1>12, <3>2, <3>3, <3>4
  <2>5. v \in {list'[i] : i \in DOMAIN list'} /\ \A i \in DOMAIN list : list[i] \cap v = {}
    BY <1>13, <2>3, <2>4
  <2>6. Settled!Publish
    BY <1>17, <2>2, <2>5 DEF Settled!Publish, list
  <2> QED BY <2>6
<1>19. CASE req[r].kind = "rollback"
  <2>1. PICK x \in ToSet(versions) : x.data = w.data
    BY <1>5, <1>8, <1>19 DEF SourceInv, SourceAt
  <2>2. PICK i \in 1..Len(s) : s[i] = x
    BY <1>4, <2>1, LenProperties DEF ToSet
  <2>3. i \in DOMAIN list /\ list[i] = v
    BY <1>12, <1>13, <2>1, <2>2, DataListIs
  <2> DEFINE longer == Append(list, list[i])
             excess == Settled!Over(Len(longer))
  <2>4. longer = all /\ excess = over
    BY <2>3 DEF all, over
  <2> HIDE DEF longer, excess
  <2>5. list' = SubSeq(longer, excess + 1, Len(longer))
    BY <1>15, <2>4
  <2>6. stored' \ Doomed' = (stored \ Doomed) \ UNION {longer[j] : j \in 1..excess}
    BY <1>8, <1>11, <1>16, <2>4
  <2>7. Settled!Rollback
    BY <2>3, <2>5, <2>6 DEF Settled!Rollback, Settled!Enter, list, longer, excess
  <2> QED BY <2>7
<1> QED BY <1>8, <1>18, <1>19 DEF Makers, Uploaders

\* Every step is one of the list, a restart, or one that changes nothing.
LEMMA SettledNext ==
    ASSUME BaseInv, BaseInv', SerialInv, SourceInv, ~Overlap, [Next]_vars
    PROVE  [Settled!Next \/ Restart \/ (restarted /\ Used("deleteFile"))]_(Settled!lvars)
<1>1. Single /\ NumbersInv /\ CutInv
  BY DEF SerialInv
<1>2. ASSUME NEW r \in Requests, Upload(r) PROVE Settled!Next
  BY <1>1, <1>2, SettledStore DEF Settled!Next
<1>3. ASSUME NEW r \in Requests, CreateVersion(r) \/ CreateFileMeta(r)
      PROVE  UNCHANGED Settled!lvars
  BY <1>1, <1>3, CreateFacts, MetaFacts, UnseenStep DEF Moves
<1>4. ASSUME NEW r \in Requests, NEW num \in 1..Cardinality(Requests), RollbackFile(r, num)
      PROVE  UNCHANGED Settled!lvars
  <2>1. /\ Alone(r) /\ req[r].phase = "idle" /\ versions' = versions /\ stored' = stored
        /\ req'[r].phase = "numbered"
    BY <1>1, <1>4, RollbackFacts DEF Moves
  <2> QED BY <2>1, UnseenStep
<1>5. ASSUME NEW r \in Requests, NEW num \in 1..Cardinality(Requests), DeleteVersion(r, num)
      PROVE  Settled!Next
  BY <1>1, <1>5, SettledRemove DEF Settled!Next
<1>6. ASSUME NEW r \in Requests, AppendVersion(r)
      PROVE  Settled!Next \/ (restarted /\ Used("deleteFile"))
  BY <1>1, <1>6, SettledEnter DEF Settled!Next, Orderly
<1>7. ASSUME NEW r \in Requests, DeleteFile(r) PROVE Settled!Next
  BY <1>1, <1>7, SettledClear DEF Settled!Next
<1>8. ASSUME NEW r \in Requests, DropChunks(r) \/ InstallList(r)
      PROVE  UNCHANGED Settled!lvars
  BY <1>1, <1>8, UnseenDrop
<1>9. ASSUME NEW r \in Requests, SaveFile(r) \/ SaveVersion(r) \/ UnsaveFile(r)
      PROVE  UNCHANGED Settled!lvars
  <2>1. /\ Alone(r) /\ req[r].phase \in {"saveFile", "saveVersion", "unsave"}
        /\ req'[r].phase \in {"saveVersion", "done"}
        /\ versions' = versions /\ stored' = stored
    BY <1>1, <1>9, SaveFileFacts, SaveVersionFacts, UnsaveFacts DEF Moves
  <2> QED BY <2>1, UnseenStep
<1>10. CASE UNCHANGED vars
  <2>1. SettledList' = SettledList /\ Doomed' = Doomed /\ stored' = stored
    BY <1>10 DEF vars, SettledList, Doomed
  <2> QED BY <2>1, Unseen
<1> QED
  BY <1>2, <1>3, <1>4, <1>5, <1>6, <1>7, <1>8, <1>9, <1>10, StepCases DEF HandlerStep

\* Requests that run one at a time take effect at once, as VersionList says: for any number
\* of requests, any limit, and a server that stops at any point, a version enters the list
\* whole and over its own chunks, the oldest leave beyond the limit, and versions leave
\* with their chunks.
THEOREM VersionsImplementList ==
    ASSUME ~Overlap
    PROVE  Spec => ImplementsVersionList
<1>1. Init => Settled!Init
  <2> SUFFICES ASSUME Init PROVE Settled!Init
    OBVIOUS
  <2>1. versions = <<>> /\ stored = {} /\ \A r \in Requests : req[r].phase = "idle"
    BY DEF Init, NoRequest
  <2>2. SettledList = <<>>
    BY <2>1 DEF SettledList
  <2> QED BY <2>1, <2>2 DEF Settled!Init
<1>2. /\ BaseInv /\ SerialInv /\ SourceInv /\ [Next]_vars
      /\ BaseInv'
      => [Settled!Next \/ Restart \/ (restarted /\ Used("deleteFile"))]_(Settled!lvars)
  BY SettledNext
<1> QED BY <1>1, <1>2, SourceInvariant, PTL DEF Spec, ImplementsVersionList
-----------------------------------------------------------------------------
(* What a client that got its answer may rely on.                            *)

NoDeletes == ~Used("deleteVersion") /\ ~Used("deleteFile")

\* A version under way is in the list that is to be, and in the bucket once answered.
AnsweredAt(r) ==
    req[r].kind \in Makers =>
      /\ req[r].phase = "done" => req[r].ver \in dbVersions
      /\ NoDeletes =>
           /\ req[r].phase \in {"drop", "finish"} => req[r].ver \in ToSet(req[r].keep)
           /\ req[r].phase \in {"saveFile", "saveVersion"} => req[r].ver \in ToSet(versions)

\* Saved versions that l lacks are older than the full list l.
Newest(l) ==
    \A v \in dbVersions :
      v \in ToSet(l) \/ (Len(l) = MaxVersions /\ \A w \in ToSet(l) : w.num > v.num)

AnsweredInv ==
    /\ \A r \in Requests : AnsweredAt(r)
    /\ NoDeletes =>
         \A r \in Requests :
           (\A q \in Requests : q # r => req[q].phase \notin InHandler) => Newest(LeftBy(r))

\* When r moves alone, r is the only request to look at.
LEMMA AnsweredAfter ==
    ASSUME NEW r \in Requests, Alone(r), AnsweredInv, dbVersions \subseteq dbVersions',
           AnsweredAt(r)', NoDeletes' => Newest(LeftBy(r))'
    PROVE  AnsweredInv'
<1>1. ASSUME NEW q \in Requests, q # r PROVE AnsweredAt(q)'
  BY <1>1 DEF Alone, InHandler, AnsweredAt, AnsweredInv
<1>2. ASSUME NEW q \in Requests, \A p \in Requests : p # q => req'[p].phase \notin InHandler
      PROVE  LeftBy(q)' = LeftBy(r)'
  BY <1>2 DEF Alone, LeftBy, InHandler
<1>3. ASSUME NoDeletes', NEW q \in Requests,
             \A p \in Requests : p # q => req'[p].phase \notin InHandler
      PROVE  Newest(LeftBy(q))'
  BY <1>2, <1>3 DEF Newest
<1> QED BY <1>1, <1>3 DEF AnsweredInv

\* What AnsweredInv says of the request that moves.
LEMMA AnsweredBefore ==
    ASSUME NEW r \in Requests, Alone(r), AnsweredInv
    PROVE  AnsweredAt(r) /\ (NoDeletes => Newest(LeftBy(r)))
  BY DEF Alone, AnsweredInv

\* Requests do not change what they are for.
LEMMA DeletesStay ==
    ASSUME NEW r \in Requests, \A q \in Requests : q # r => req'[q] = req[q],
           req[r].kind \in {"none", req'[r].kind}
    PROVE  /\ NoDeletes' => NoDeletes
           /\ NoDeletes' => req'[r].kind \notin {"deleteVersion", "deleteFile"}
<1>1. \A q \in Requests : req[q].kind # "none" => req'[q].kind = req[q].kind
  OBVIOUS
<1> QED BY <1>1 DEF NoDeletes, Used

\* A step that leaves the list that is to be, and what is saved, as they are.
LEMMA AnsweredStays ==
    ASSUME AnsweredInv, NEW r \in Requests, Alone(r), AnsweredAt(r)',
           req[r].kind \in {"none", req'[r].kind},
           LeftBy(r)' = LeftBy(r), dbVersions' = dbVersions
    PROVE  AnsweredInv'
<1>1. NoDeletes' => NoDeletes
  BY DeletesStay DEF Alone
<1>2. NoDeletes' => Newest(LeftBy(r))'
  BY <1>1, AnsweredBefore DEF Newest
<1> QED BY <1>2, AnsweredAfter

\* AppendVersion drops what is older than what it keeps.
LEMMA AnsweredAppend ==
    ASSUME BaseInv, Single, NumbersInv, SavedNumbersInv, CutInv, AnsweredInv, ~Overlap,
           NEW r \in Requests, AppendVersion(r)
    PROVE  AnsweredInv'
<1>1. PICK drop, todo, keep : Appends(r, drop, todo, keep)
  BY AppendFacts
<1>2. /\ Alone(r) /\ req[r].phase = "numbered" /\ req[r].kind \in Makers
      /\ req'[r].kind = req[r].kind /\ req'[r].ver = req[r].ver /\ req'[r].keep = keep
      /\ req'[r].phase = (IF drop > 0 THEN "drop" ELSE "saveFile")
      /\ \A q \in Requests : q # r => req'[q] = req[q]
      /\ dbVersions' = dbVersions
      /\ drop = Excess(req[r].kind, Len(versions) + 1) /\ drop \in 0..Len(versions)
      /\ Len(keep) = Len(versions) + 1 - drop /\ keep \in Seq(Version)
      /\ \A i \in 1..Len(keep) : keep[i] = versions'[drop + i]
      /\ ToSet(todo) \cup ToSet(keep) = ToSet(versions')
      /\ ToSet(versions') = ToSet(versions) \cup {req[r].ver}
      /\ versions' \in Seq(Version) /\ Len(versions') = Len(versions) + 1
  BY <1>1 DEF Appends, Moves
<1>3. /\ Len(versions) \in Nat /\ drop \in Nat /\ Len(keep) \in Nat /\ MaxVersions \in Nat \ {0}
      /\ DOMAIN versions' = 1..Len(versions') /\ DOMAIN keep = 1..Len(keep)
      /\ \A v \in ToSet(versions') : v.num \in Nat
      /\ \A v \in dbVersions : v.num \in Nat
      /\ drop > 0 \/ drop = 0
  <2>1. Len(versions) \in Nat /\ DOMAIN versions' = 1..Len(versions') /\ DOMAIN keep = 1..Len(keep)
    BY <1>2, LenProperties DEF BaseInv, TypeOK
  <2>2. ToSet(versions') \subseteq Version /\ dbVersions \subseteq Version
    BY <1>2, <2>1, ElementOfSeq DEF ToSet, BaseInv, TypeOK
  <2>3. (\A v \in ToSet(versions') : v.num \in Nat) /\ (\A v \in dbVersions : v.num \in Nat)
    BY <2>2 DEF Version
  <2>4. drop \in Nat /\ Len(keep) \in Nat /\ (drop > 0 \/ drop = 0)
    BY <1>2, <2>1
  <2> QED BY <2>1, <2>3, <2>4, MaxVersionsAssumption
<1>4. ToSet(keep) \subseteq ToSet(versions')
  BY <1>2
<1>5. LeftBy(r) = versions /\ LeftBy(r)' = (IF drop > 0 THEN keep ELSE versions')
  BY <1>2 DEF LeftBy
<1>6. req[r].kind = "meta" => versions = <<>>
  BY <1>2, CutBefore DEF CutAt
<1>7. drop > 0 => Len(keep) = MaxVersions
  BY <1>2, <1>3 DEF Excess
<1>8. ASSUME NoDeletes'
      PROVE  /\ Newest(LeftBy(r))'
             /\ versions' = Append(versions, req[r].ver)
  <2>1. NoDeletes /\ Orderly
    BY <1>2, <1>8, DeletesStay DEF NoDeletes, Orderly
  <2>2. /\ Increasing(versions) /\ UpToLatest(versions) /\ req[r].ver.num = file.latest + 1
        /\ \A v \in dbVersions : v.num <= file.latest
        /\ file.latest \in Nat /\ dbFile.latest \in Nat
    <3>1. file.latest \in Nat /\ dbFile.latest \in Nat
      BY DEF BaseInv, TypeOK, FileInfo
    <3>2. dbFile.latest <= file.latest /\ \A v \in dbVersions : v.num <= dbFile.latest
      BY <2>1, SavedBefore DEF NoDeletes, SavedOrder
    <3>3. \A v \in dbVersions : v.num <= file.latest
      BY <1>3, <3>1, <3>2
    <3> QED BY <1>2, <2>1, <3>1, <3>3, NumbersBefore DEF NumbersAt
  <2>3. versions' = Append(versions, req[r].ver) /\ Increasing(versions')
    BY <1>1, <2>1, <2>2, AppendInOrder, AppendIncreases
  <2>4. Newest(versions)
    BY <1>2, <1>5, <2>1, AnsweredBefore
  <2>5. ASSUME NEW v \in dbVersions
        PROVE  \/ v \in ToSet(LeftBy(r)')
               \/ /\ Len(LeftBy(r)') = MaxVersions
                  /\ \A w \in ToSet(LeftBy(r)') : w.num > v.num
    <3>1. CASE v \notin ToSet(versions)
      <4>1. Len(versions) = MaxVersions /\ \A w \in ToSet(versions) : w.num > v.num
        BY <2>4, <3>1 DEF Newest
      <4>2. req[r].kind # "meta"
        BY <1>3, <1>6, <4>1
      <4>3. drop > 0
        BY <1>2, <1>3, <4>1, <4>2 DEF Excess
      <4>4. req[r].ver.num > v.num
        BY <1>3, <2>2
      <4>5. \A w \in ToSet(keep) : w.num > v.num
        BY <1>2, <1>4, <4>1, <4>4
      <4> QED BY <1>5, <1>7, <4>3, <4>5
    <3>2. CASE v \in ToSet(versions) /\ drop = 0
      BY <1>2, <1>5, <3>2
    <3>3. CASE v \in ToSet(versions) /\ drop > 0 /\ v \notin ToSet(keep)
      <4>1. PICK j \in DOMAIN versions' : versions'[j] = v
        BY <1>2, <3>3 DEF ToSet
      <4>2. j \in Nat /\ j <= drop
        <5>1. j \in 1..(Len(versions) + 1)
          BY <1>2, <1>3, <4>1
        <5>2. ASSUME j > drop PROVE FALSE
          <6>1. j - drop \in 1..Len(keep) /\ drop + (j - drop) = j
            BY <1>2, <1>3, <5>1, <5>2
          <6>2. keep[j - drop] = v
            BY <1>2, <4>1, <6>1
          <6> QED BY <1>3, <3>3, <6>1, <6>2 DEF ToSet
        <5> QED BY <1>3, <5>1, <5>2
      <4>3. ASSUME NEW w \in ToSet(keep) PROVE w.num > v.num
        <5>1. PICK i \in 1..Len(keep) : keep[i] = w
          BY <1>3 DEF ToSet
        <5>2. drop + i \in DOMAIN versions' /\ j < drop + i
          BY <1>2, <1>3, <4>2
        <5>3. versions'[j].num < versions'[drop + i].num
          BY <2>3, <4>1, <5>2 DEF Increasing
        <5>4. w = versions'[drop + i] /\ w.num \in Nat /\ v.num \in Nat
          BY <1>2, <1>3, <1>4, <5>1
        <5> QED BY <4>1, <5>3, <5>4
      <4> QED BY <1>5, <1>7, <3>3, <4>3
    <3>4. CASE drop > 0 /\ v \in ToSet(keep)
      BY <1>5, <3>4
    <3> QED BY <1>3, <3>1, <3>2, <3>3, <3>4
  <2>6. Newest(LeftBy(r))'
    BY <1>2, <2>5 DEF Newest
  <2> QED BY <2>3, <2>6
<1>9. AnsweredAt(r)'
  <2>1. req[r].ver \in ToSet(versions')
    BY <1>2
  <2>2. ASSUME drop > 0, NoDeletes' PROVE req[r].ver \in ToSet(keep)
    <3>1. versions' = Append(versions, req[r].ver) /\ versions \in Seq(Version)
          /\ req[r].ver \in Version
      BY <1>1, <1>8, <2>2 DEF Appends, BaseInv, TypeOK
    <3>2. versions'[Len(versions) + 1] = req[r].ver
      BY <3>1, AppendList
    <3>3. Len(keep) \in 1..Len(keep) /\ drop + Len(keep) = Len(versions) + 1
      BY <1>2, <1>3
    <3>4. keep[Len(keep)] = req[r].ver
      BY <1>2, <3>2, <3>3
    <3> QED BY <1>3, <3>3, <3>4 DEF ToSet
  <2> QED BY <1>2, <1>3, <2>1, <2>2 DEF AnsweredAt
<1> QED BY <1>2, <1>8, <1>9, AnsweredAfter

\* Every step preserves AnsweredInv.
LEMMA AnsweredNext ==
    ASSUME BaseInv, Single, NumbersInv, SavedNumbersInv, CutInv, AnsweredInv, ~Overlap,
           [Next]_vars
    PROVE  AnsweredInv'
<1>1. ASSUME NEW r \in Requests, Upload(r) PROVE AnsweredInv'
  <2>1. /\ req[r].kind = "none" /\ req'[r].kind = "none"
        /\ req[r].phase = "idle" /\ req'[r].phase = "uploaded"
        /\ \A q \in Requests : q # r => req'[q] = req[q]
        /\ versions' = versions /\ dbVersions' = dbVersions
    BY <1>1, UploadFacts DEF Moves
  <2>2. \A q \in Requests :
          /\ req'[q].kind = req[q].kind
          /\ req'[q].phase \in InHandler <=> req[q].phase \in InHandler
          /\ LeftBy(q)' = LeftBy(q)
    BY <2>1 DEF InHandler, LeftBy
  <2>3. NoDeletes' <=> NoDeletes
    BY <2>2 DEF NoDeletes, Used
  <2>4. ASSUME NEW q \in Requests PROVE AnsweredAt(q)'
    BY <2>1, <2>3 DEF AnsweredInv, AnsweredAt, Makers
  <2>5. ASSUME NoDeletes', NEW q \in Requests,
               \A p \in Requests : p # q => req'[p].phase \notin InHandler
        PROVE  Newest(LeftBy(q))'
    BY <2>1, <2>2, <2>3, <2>5 DEF AnsweredInv, Newest
  <2> QED BY <2>4, <2>5 DEF AnsweredInv
<1>2. ASSUME NEW r \in Requests,
             \/ CreateVersion(r) \/ CreateFileMeta(r)
             \/ \E num \in 1..Cardinality(Requests) : RollbackFile(r, num)
      PROVE  AnsweredInv'
  <2>1. /\ Alone(r) /\ req[r].kind = "none" /\ req[r].phase \in {"idle", "uploaded"}
        /\ req'[r].phase = "numbered" /\ versions' = versions /\ dbVersions' = dbVersions
    BY <1>2, CreateFacts, MetaFacts, RollbackFacts DEF Moves
  <2>2. LeftBy(r)' = LeftBy(r) /\ AnsweredAt(r)'
    BY <2>1 DEF LeftBy, AnsweredAt
  <2> QED BY <2>1, <2>2, AnsweredStays
<1>3. ASSUME NEW r \in Requests,
             DeleteFile(r) \/ \E num \in 1..Cardinality(Requests) : DeleteVersion(r, num)
      PROVE  AnsweredInv'
  <2>1. /\ Alone(r) /\ req[r].kind = "none" /\ req'[r].kind \in {"deleteVersion", "deleteFile"}
        /\ dbVersions' = dbVersions
    BY <1>3, DeleteFileFacts, DeleteVersionFacts DEF Moves
  <2>2. ~NoDeletes' /\ AnsweredAt(r)'
    BY <2>1 DEF NoDeletes, Used, AnsweredAt, Makers
  <2> QED BY <2>1, <2>2, AnsweredAfter
<1>4. ASSUME NEW r \in Requests, AppendVersion(r) PROVE AnsweredInv'
  BY <1>4, AnsweredAppend
<1>5. ASSUME NEW r \in Requests, DropChunks(r) PROVE AnsweredInv'
  <2>1. PICK todo : todo = Tail(req[r].todo)
    OBVIOUS
  <2>2. /\ Alone(r) /\ req[r].phase = "drop" /\ req'[r].phase \in {"drop", "finish"}
        /\ req'[r].kind = req[r].kind /\ req'[r].ver = req[r].ver
        /\ req'[r].keep = req[r].keep /\ dbVersions' = dbVersions
    BY <1>5, <2>1, DropFacts DEF Moves
  <2>3. NoDeletes' => NoDeletes
    BY <2>2, DeletesStay DEF Alone
  <2>4. LeftBy(r)' = LeftBy(r) /\ AnsweredAt(r)'
    BY <2>2, <2>3, AnsweredBefore DEF LeftBy, AnsweredAt
  <2> QED BY <2>2, <2>4, AnsweredStays
<1>6. ASSUME NEW r \in Requests, InstallList(r) PROVE AnsweredInv'
  <2>1. /\ Alone(r) /\ req[r].phase = "finish" /\ req'[r].phase \in {"unsave", "saveFile"}
        /\ req'[r].kind = req[r].kind /\ req'[r].ver = req[r].ver
        /\ versions' = req[r].keep /\ dbVersions' = dbVersions
    BY <1>6, InstallFacts DEF Moves
  <2>2. NoDeletes' => NoDeletes
    BY <2>1, DeletesStay DEF Alone
  <2>3. LeftBy(r)' = LeftBy(r) /\ AnsweredAt(r)'
    BY <2>1, <2>2, AnsweredBefore DEF LeftBy, AnsweredAt
  <2> QED BY <2>1, <2>3, AnsweredStays
<1>7. ASSUME NEW r \in Requests, SaveFile(r) PROVE AnsweredInv'
  <2>1. /\ Alone(r) /\ req[r].phase = "saveFile"
        /\ req'[r].phase = (IF req[r].kind = "deleteVersion" THEN "done" ELSE "saveVersion")
        /\ req'[r].kind = req[r].kind /\ req'[r].ver = req[r].ver
        /\ versions' = versions /\ dbVersions' = dbVersions
    BY <1>7, SaveFileFacts DEF Moves
  <2>2. NoDeletes' => NoDeletes
    BY <2>1, DeletesStay DEF Alone
  <2>3. LeftBy(r)' = LeftBy(r) /\ AnsweredAt(r)'
    BY <2>1, <2>2, AnsweredBefore DEF LeftBy, AnsweredAt, Makers
  <2> QED BY <2>1, <2>3, AnsweredStays
<1>8. ASSUME NEW r \in Requests, SaveVersion(r) PROVE AnsweredInv'
  <2>1. /\ Alone(r) /\ req[r].phase = "saveVersion" /\ req'[r].phase = "done"
        /\ req[r].kind \in Makers
        /\ req'[r].kind = req[r].kind /\ req'[r].ver = req[r].ver
        /\ versions' = versions /\ dbVersions' = dbVersions \cup {req[r].ver}
    BY <1>8, SaveVersionFacts DEF Moves
  <2>2. NoDeletes' => NoDeletes
    BY <2>1, DeletesStay DEF Alone
  <2>3. LeftBy(r) = versions /\ LeftBy(r)' = versions
    BY <2>1 DEF LeftBy
  <2>4. NoDeletes' => Newest(LeftBy(r))'
    BY <2>1, <2>2, <2>3, AnsweredBefore DEF Newest, AnsweredAt
  <2>5. AnsweredAt(r)'
    BY <2>1 DEF AnsweredAt
  <2> QED BY <2>1, <2>4, <2>5, AnsweredAfter
<1>9. ASSUME NEW r \in Requests, UnsaveFile(r) PROVE AnsweredInv'
  <2>1. /\ Alone(r) /\ req'[r].kind = "deleteFile" /\ dbVersions' = dbVersions
    BY <1>9, UnsaveFacts DEF Moves
  <2>2. ~NoDeletes' /\ AnsweredAt(r)'
    BY <2>1 DEF NoDeletes, Used, AnsweredAt, Makers
  <2> QED BY <2>1, <2>2, AnsweredAfter
<1>10. CASE Restart
  <2>1. /\ \A q \in Requests : req'[q].kind = req[q].kind /\ req'[q].ver = req[q].ver
        /\ \A q \in Requests : req'[q].phase =
             IF req[q].phase \in InHandler THEN "aborted" ELSE req[q].phase
        /\ \A q \in Requests : req'[q].phase \notin InHandler
        /\ versions' = InOrder(dbVersions, ById(dbVersions)) /\ dbVersions' = dbVersions
    BY <1>10, RestartFacts
  <2>2. ToSet(versions') = dbVersions
    BY <2>1, RestartedList
  <2>3. \A q \in Requests : LeftBy(q)' = versions' /\ AnsweredAt(q)'
    BY <2>1 DEF LeftBy, AnsweredAt, AnsweredInv, InHandler
  <2>4. \A q \in Requests : Newest(LeftBy(q))'
    BY <2>1, <2>2, <2>3 DEF Newest
  <2> QED BY <2>3, <2>4 DEF AnsweredInv
<1>11. CASE UNCHANGED vars
  <2>1. /\ req' = req /\ versions' = versions /\ dbVersions' = dbVersions
        /\ (NoDeletes' <=> NoDeletes)
    BY <1>11 DEF vars, NoDeletes, Used
  <2> QED BY <2>1 DEF AnsweredInv, AnsweredAt, Newest, LeftBy
<1> QED BY <1>1, <1>2, <1>3, <1>4, <1>5, <1>6, <1>7, <1>8, <1>9, <1>10, <1>11, StepCases
        DEF HandlerStep

\* The invariant of what clients were told.
LEMMA AnsweredInvariant ==
    ASSUME ~Overlap
    PROVE  Spec => [](BaseInv /\ SerialInv /\ AnsweredInv)
<1>1. Init => AnsweredInv
  BY DEF Init, NoRequest, AnsweredInv, AnsweredAt, Newest, Makers
<1>2. BaseInv /\ SerialInv /\ AnsweredInv /\ [Next]_vars => AnsweredInv'
  BY AnsweredNext DEF SerialInv
<1> QED BY <1>1, <1>2, SerialInvariant, PTL DEF Spec

\* A number that a client was told names one version for ever, through deletions,
\* cleanup, and a stop between any two writes, until the file is deleted.
THEOREM AnsweredNumbersHold ==
    ASSUME ~Overlap
    PROVE  Spec => []AnsweredNumbersUnique
<1>1. ASSUME BaseInv, SerialInv, AnsweredInv
      PROVE  AnsweredNumbersUnique
  <2> SUFFICES ASSUME ~Used("deleteFile"), NEW p \in Requests, NEW q \in Requests,
                      Answered(p), Answered(q), req[p].ver.num = req[q].ver.num, p # q
               PROVE  FALSE
    BY DEF AnsweredNumbersUnique
  <2>1. p \in Made /\ q \in Made /\ req[p].kind \in Makers /\ req[q].kind \in Makers
    BY <1>1 DEF Answered, Made, BaseInv, PhaseInv, PhaseAt
  <2>2. req[p].ver \in dbVersions /\ req[q].ver \in dbVersions
    BY <1>1, <2>1 DEF Answered, AnsweredInv, AnsweredAt
  <2>3. req[p].ver.id # req[q].ver.id
    BY <1>1, <2>1 DEF BaseInv, IdsInv
  <2>4. /\ req[p].ver.id \in Int /\ req[q].ver.id \in Int
        /\ req[p].ver.num \in Int /\ req[q].ver.num \in Int
    <3>1. req[p].ver \in Version /\ req[q].ver \in Version
      BY <1>1, <2>2 DEF BaseInv, TypeOK
    <3> QED BY <3>1 DEF Version
  <2>5. \A v, w \in dbVersions : v.id < w.id => v.num < w.num
    BY <1>1, SavedBefore DEF SerialInv, SavedOrder
  <2>6. req[p].ver.id < req[q].ver.id \/ req[q].ver.id < req[p].ver.id
    BY <2>3, <2>4
  <2> QED BY <2>2, <2>4, <2>5, <2>6
<1> QED BY <1>1, AnsweredInvariant, PTL

\* Unless it is deleted, an answered version stays listed until newer ones fill the list.
THEOREM AnsweredListed ==
    ASSUME ~Overlap
    PROVE  Spec => []AnsweredIsListed
<1>1. ASSUME BaseInv, AnsweredInv
      PROVE  AnsweredIsListed
  <2> SUFFICES ASSUME Quiet, NoDeletes, NEW r \in Requests,
                      Answered(r), req[r].ver \notin Listed
               PROVE  /\ Len(versions) = MaxVersions
                      /\ \A v \in Listed : v.num > req[r].ver.num
    BY DEF AnsweredIsListed, NoDeletes
  <2>1. req[r].kind \in Makers
    BY <1>1 DEF Answered, BaseInv, PhaseInv, PhaseAt
  <2>2. req[r].ver \in dbVersions
    BY <1>1, <2>1 DEF Answered, AnsweredInv, AnsweredAt
  <2>3. LeftBy(r) = versions
    BY DEF Quiet, LeftBy, InHandler
  <2>4. Newest(versions)
    BY <1>1, <2>3 DEF AnsweredInv, Quiet
  <2>5. Listed = ToSet(versions)
    BY DEF Listed, ToSet
  <2> QED BY <2>2, <2>4, <2>5 DEF Newest
<1> QED BY <1>1, AnsweredInvariant, PTL

=============================================================================
