---------------------------- MODULE SearchProofs ----------------------------
(***************************************************************************)
(* Proofs about a search, for any number of documents, versions and        *)
(* profiles, any access lists and parameters, and ingestion and indexing   *)
(* at any moment.                                                          *)
(*                                                                         *)
(* Every phase makes its list of results of the entries of earlier lists   *)
(* and of what it reads itself.  So it is enough to say of each entry that *)
(* it may be read and was the latest version at some moment of the search  *)
(* (Fits), that its explanation is that of its access list once there is   *)
(* one (Told), and of the list that the first phase's page is still in it  *)
(* (Full).                                                                 *)
(*                                                                         *)
(* After them, about the baselines searches are evaluated against: what    *)
(* was promoted (kept) is what the registry names as long as promotions    *)
(* come one at a time (RegistryFits), what the store has as long as none   *)
(* overlaps with a clean-up (StoreFits), and what the files and manifests  *)
(* hold as long as nothing overlaps with one (FilesFit).                   *)
(***************************************************************************)
EXTENDS Retrieval, Baselines, FiniteSetTheorems, FunctionTheorems, SequenceTheorems,
        WellFoundedInduction, TLAPS

-----------------------------------------------------------------------------
(* Arranging entries.                                                      *)

\* Of two members of I one comes before the other.
Orders(upTo, I) ==
  /\ \A i \in I : i \in upTo[i] /\ upTo[i] \subseteq I
  /\ \A i, j \in I : i # j => \/ upTo[i] \subseteq upTo[j] /\ j \notin upTo[i]
                              \/ upTo[j] \subseteq upTo[i] /\ i \notin upTo[j]

\* The members of an ordered set are counted by those that come no later.
LEMMA Counting ==
  ASSUME NEW I, IsFiniteSet(I), NEW upTo, Orders(upTo, I)
  PROVE  \A n \in 1..Cardinality(I) : \E i \in I : Cardinality(upTo[i]) = n
<1> DEFINE k == Cardinality(I)
           F == [i \in I |-> Cardinality(upTo[i])]
<1>1. k \in Nat
  BY FS_CardinalityType
<1>2. \A i \in I : IsFiniteSet(upTo[i]) /\ Cardinality(upTo[i]) \in 1..k
  <2> TAKE i \in I
  <2>1. i \in upTo[i] /\ upTo[i] \in SUBSET I
    BY DEF Orders
  <2>2. IsFiniteSet(upTo[i]) /\ Cardinality(upTo[i]) <= k
    BY <2>1, FS_Subset
  <2>3. Cardinality(upTo[i]) \in Nat /\ Cardinality(upTo[i]) # 0
    BY <2>1, <2>2, FS_CardinalityType, FS_EmptySet
  <2> QED BY <1>1, <2>2, <2>3
<1>3. \A i, j \in I : i # j => Cardinality(upTo[i]) # Cardinality(upTo[j])
  <2> SUFFICES ASSUME NEW i \in I, NEW j \in I, upTo[i] \subseteq upTo[j], j \notin upTo[i]
               PROVE  Cardinality(upTo[i]) # Cardinality(upTo[j])
    BY DEF Orders
  <2>1. upTo[i] # upTo[j]
    BY DEF Orders
  <2> QED BY <2>1, <1>2, FS_Subset
<1>4. F \in [I -> 1..k] /\ \A i, j \in I : F[i] = F[j] => i = j
  BY <1>2, <1>3
<1> HIDE DEF F
<1>5. F \in Injection(I, 1..k)
  BY <1>4, Fun_IsInj
<1>6. IsFiniteSet(1..k) /\ Cardinality(1..k) = k
  BY <1>1, FS_Interval
<1>7. F \in Surjection(I, 1..k)
  BY <1>5, <1>6, FS_Injection
<1>8. \A n \in 1..k : \E i \in I : F[i] = n
  BY <1>7, Fun_SurjectionProperties
<1> QED BY <1>8 DEF F

\* t has one entry of s for every place in I.
Along(t, s, I) ==
  /\ IsFiniteSet(I) /\ Cardinality(I) \in Nat
  /\ \E g \in [1..Cardinality(I) -> I] :
       /\ \A m, n \in 1..Cardinality(I) : g[m] = g[n] => m = n
       /\ t = [n \in 1..Cardinality(I) |-> s[g[n]]]

LEMMA ArrangedAlong ==
  ASSUME NEW s, NEW I, IsFiniteSet(I), NEW upTo, Orders(upTo, I)
  PROVE  Along(Arranged(s, I, upTo), s, I)
<1> DEFINE At(n) == CHOOSE i \in I : Cardinality(upTo[i]) = n
           g == [n \in 1..Cardinality(I) |-> At(n)]
<1>1. Cardinality(I) \in Nat
  BY FS_CardinalityType
<1>2. \A n \in 1..Cardinality(I) : At(n) \in I /\ Cardinality(upTo[At(n)]) = n
  BY Counting
<1> HIDE DEF At
<1>3. g \in [1..Cardinality(I) -> I] /\ \A m, n \in 1..Cardinality(I) : g[m] = g[n] => m = n
  BY <1>2
<1>4. Arranged(s, I, upTo) = [n \in 1..Cardinality(I) |-> s[g[n]]]
  BY DEF Arranged, At
<1> QED BY <1>1, <1>3, <1>4 DEF Along

LEMMA PlacesFinite ==
  ASSUME NEW S, NEW s \in Seq(S)
  PROVE  /\ IsFiniteSet(DOMAIN s) /\ Cardinality(DOMAIN s) = Len(s)
         /\ \A I \in SUBSET (DOMAIN s) : IsFiniteSet(I) /\ I \subseteq Nat
<1>1. DOMAIN s = 1..Len(s) /\ Len(s) \in Nat
  OBVIOUS
<1>2. IsFiniteSet(DOMAIN s) /\ Cardinality(DOMAIN s) = Len(s)
  BY <1>1, FS_Interval
<1> QED BY <1>1, <1>2, FS_Subset

LEMMA PickedAlong ==
  ASSUME NEW S, NEW s \in Seq(S), NEW I \in SUBSET (DOMAIN s)
  PROVE  Along(Picked(s, I), s, I)
<1> DEFINE upTo == [i \in I |-> {j \in I : j <= i}]
<1>1. IsFiniteSet(I) /\ \A i \in I : i \in Nat
  BY PlacesFinite
<1>2. Orders(upTo, I)
  BY <1>1 DEF Orders
<1> QED BY <1>1, <1>2, ArrangedAlong DEF Picked

\* Ids of chunks and of summaries; entries of a list of results.
Id == [kind: {"chunk", "summary"}, doc: Document, version: Nat]
Reason ==
  {"no", "permitted", "unknown_visibility", "missing_principal", "explicit_deny",
   "no_matching_principal"}
Entry ==
  [id: Id, score: Nat, dated: BOOLEAN, explained: Reason, source: {"chunk", "summary"}, sim: Nat]

LEMMA RankedAlong ==
  ASSUME NEW s \in Seq(Entry)
  PROVE  Along(Ranked(s), s, DOMAIN s)
<1> DEFINE UpTo(i) == {j \in DOMAIN s : s[j].score > s[i].score \/ (s[j].score = s[i].score /\ j <= i)}
           upTo == [i \in DOMAIN s |-> UpTo(i)]
<1>1. IsFiniteSet(DOMAIN s) /\ \A i \in DOMAIN s : i \in Nat
  BY PlacesFinite
<1>2. \A i \in DOMAIN s : s[i].score \in Nat
  <2>1. \A r \in Entry : r.score \in Nat
    BY DEF Entry
  <2>2. \A i \in DOMAIN s : s[i] \in Entry
    OBVIOUS
  <2> QED BY <2>1, <2>2
<1>3. Orders(upTo, DOMAIN s)
  BY <1>1, <1>2 DEF Orders
<1> QED BY <1>1, <1>3, ArrangedAlong DEF Ranked

\* The entries of t are entries of s, which may have been scored again.
Of(t, s) ==
  /\ t \in Seq(Entry)
  /\ \A n \in DOMAIN t :
       \E i \in DOMAIN s : t[n].id = s[i].id /\ t[n].explained = s[i].explained

Distinct(s) == \A i, j \in DOMAIN s : s[i].id = s[j].id => i = j

LEMMA AlongOf ==
  ASSUME NEW s \in Seq(Entry), NEW I \in SUBSET (DOMAIN s), NEW t, Along(t, s, I)
  PROVE  /\ Of(t, s) /\ Len(t) = Cardinality(I)
         /\ Distinct(s) => Distinct(t)
         /\ \A n \in DOMAIN t : \E i \in I : t[n] = s[i]
<1> DEFINE k == Cardinality(I)
<1>1. PICK g \in [1..k -> I] :
        /\ \A m, n \in 1..k : g[m] = g[n] => m = n
        /\ t = [n \in 1..k |-> s[g[n]]]
  BY DEF Along
<1>2. k \in Nat
  BY DEF Along
<1>3. \A n \in 1..k : g[n] \in I /\ g[n] \in DOMAIN s /\ s[g[n]] \in Entry
  BY <1>1
<1>4. t \in Seq(Entry) /\ Len(t) = k /\ DOMAIN t = 1..k /\ \A n \in 1..k : t[n] = s[g[n]]
  BY <1>1, <1>2, <1>3
<1>5. Of(t, s)
  BY <1>3, <1>4 DEF Of
<1>6. ASSUME Distinct(s) PROVE Distinct(t)
  BY <1>1, <1>3, <1>4, <1>6 DEF Distinct
<1> QED BY <1>3, <1>4, <1>5, <1>6

LEMMA RankedOf ==
  ASSUME NEW s \in Seq(Entry)
  PROVE  /\ Of(Ranked(s), s) /\ Ranked(s) \in Seq(Entry) /\ Len(Ranked(s)) = Len(s)
         /\ Distinct(s) => Distinct(Ranked(s))
         /\ \A n \in DOMAIN Ranked(s) : \E i \in DOMAIN s : Ranked(s)[n] = s[i]
BY RankedAlong, AlongOf, PlacesFinite DEF Of

LEMMA PickedOf ==
  ASSUME NEW s \in Seq(Entry), NEW I \in SUBSET (DOMAIN s)
  PROVE  /\ Of(Picked(s, I), s) /\ Picked(s, I) \in Seq(Entry) /\ Len(Picked(s, I)) = Cardinality(I)
         /\ Distinct(s) => Distinct(Picked(s, I))
         /\ \A n \in DOMAIN Picked(s, I) : \E i \in I : Picked(s, I)[n] = s[i]
<1>1. Along(Picked(s, I), s, I)
  BY PickedAlong
<1> QED BY <1>1, AlongOf DEF Of

LEMMA CutOf ==
  ASSUME NEW s \in Seq(Entry), NEW k \in Nat
  PROVE  /\ Of(Cut(s, k), s) /\ Cut(s, k) \in Seq(Entry) /\ Len(Cut(s, k)) = Least(k, Len(s))
         /\ Distinct(s) => Distinct(Cut(s, k))
         /\ \A n \in DOMAIN Cut(s, k) : n \in DOMAIN s /\ Cut(s, k)[n] = s[n]
<1> DEFINE m == Least(k, Len(s))
<1>1. Len(s) \in Nat /\ m \in Nat /\ m <= Len(s)
  BY DEF Least
<1> HIDE DEF m
<1>2. SubSeq(s, 1, m) \in Seq(Entry) /\ Len(SubSeq(s, 1, m)) = m
      /\ \A n \in 1..m : SubSeq(s, 1, m)[n] = s[n] /\ n \in DOMAIN s
  BY <1>1
<1>3. Cut(s, k) = SubSeq(s, 1, m)
  BY DEF Cut, m
<1>4. DOMAIN Cut(s, k) = 1..m
  BY <1>1, <1>2, <1>3
<1> QED BY <1>2, <1>3, <1>4 DEF Of, Distinct, m

\* Entries changed one by one.
LEMMA ChangedOf ==
  ASSUME NEW s \in Seq(Entry), NEW t, t = [i \in DOMAIN s |-> t[i]],
         \A i \in DOMAIN s : t[i] \in Entry /\ t[i].id = s[i].id /\ t[i].explained = s[i].explained
  PROVE  /\ Of(t, s) /\ t \in Seq(Entry) /\ Len(t) = Len(s) /\ DOMAIN t = DOMAIN s
         /\ Distinct(s) => Distinct(t)
<1>1. DOMAIN t = DOMAIN s
  OBVIOUS
<1>2. t \in Seq(Entry) /\ Len(t) = Len(s)
  OBVIOUS
<1> QED BY <1>1, <1>2 DEF Of, Distinct

LEMMA OfTransitive ==
  ASSUME NEW s, NEW t, NEW u, Of(t, s), Of(u, t)
  PROVE  Of(u, s)
BY DEF Of

\* What the phases do to an entry.
LEMMA Scored ==
  ASSUME NEW r \in Entry, NEW x \in Nat
  PROVE  /\ [r EXCEPT !.score = x, !.dated = FALSE] \in Entry
         /\ [r EXCEPT !.score = x, !.dated = FALSE].id = r.id
         /\ [r EXCEPT !.score = x, !.dated = FALSE].explained = r.explained
         /\ [r EXCEPT !.score = x] \in Entry
         /\ [r EXCEPT !.score = x].id = r.id
         /\ [r EXCEPT !.score = x].explained = r.explained
         /\ [r EXCEPT !.dated = FALSE] \in Entry
         /\ [r EXCEPT !.dated = FALSE].id = r.id
         /\ [r EXCEPT !.dated = FALSE].explained = r.explained
BY DEF Entry

LEMMA RescoredOf ==
  ASSUME NEW s \in Seq(Entry), NEW f \in [DOMAIN s -> Score]
  PROVE  /\ Of(Rescored(s, f), s) /\ Rescored(s, f) \in Seq(Entry)
         /\ Len(Rescored(s, f)) = Len(s)
         /\ Distinct(s) => Distinct(Rescored(s, f))
<1> DEFINE t == [i \in DOMAIN s |-> [s[i] EXCEPT !.score = f[i], !.dated = FALSE]]
<1>1. \A i \in DOMAIN s : s[i] \in Entry /\ f[i] \in Nat
  <2>1. \A x \in Score : x \in Nat
    BY RetrievalAssumption
  <2> QED BY <2>1
<1>2. \A i \in DOMAIN s : t[i] \in Entry /\ t[i].id = s[i].id /\ t[i].explained = s[i].explained
  BY <1>1, Scored
<1>3. t = [i \in DOMAIN s |-> t[i]]
  OBVIOUS
<1> HIDE DEF t
<1>4. Of(t, s) /\ t \in Seq(Entry) /\ Len(t) = Len(s) /\ (Distinct(s) => Distinct(t))
  BY <1>2, <1>3, ChangedOf
<1>5. Rescored(s, f) = Ranked(t)
  BY DEF Rescored, t
<1> QED BY <1>4, <1>5, RankedOf, OfTransitive

LEMMA UndatedOf ==
  ASSUME NEW s \in Seq(Entry)
  PROVE  /\ Of(Undated(s), s) /\ Undated(s) \in Seq(Entry) /\ Len(Undated(s)) = Len(s)
         /\ Distinct(s) => Distinct(Undated(s))
<1>1. \A i \in DOMAIN s : Undated(s)[i] \in Entry /\ Undated(s)[i].id = s[i].id
                          /\ Undated(s)[i].explained = s[i].explained
  <2> TAKE i \in DOMAIN s
  <2>1. s[i] \in Entry /\ Undated(s)[i] = [s[i] EXCEPT !.dated = FALSE]
    BY DEF Undated
  <2> QED BY <2>1, Scored
<1>2. Undated(s) = [i \in DOMAIN s |-> Undated(s)[i]]
  BY DEF Undated
<1> QED BY <1>1, <1>2, ChangedOf

-----------------------------------------------------------------------------
(* Lists of results.                                                       *)

LEMMA AppendedOf ==
  ASSUME NEW r \in Seq(Entry), NEW s \in Seq(Entry), NEW t, NEW u, Of(t, r), Of(u, s)
  PROVE  /\ Of(t \o u, r \o s) /\ t \o u \in Seq(Entry) /\ r \o s \in Seq(Entry)
         /\ Len(t \o u) = Len(t) + Len(u)
<1>1. t \in Seq(Entry) /\ u \in Seq(Entry)
  BY DEF Of
<1>2. t \o u \in Seq(Entry) /\ r \o s \in Seq(Entry) /\ Len(t \o u) = Len(t) + Len(u)
  BY <1>1
<1>3. ASSUME NEW n \in DOMAIN (t \o u)
      PROVE  \E i \in DOMAIN (r \o s) :
               (t \o u)[n].id = (r \o s)[i].id /\ (t \o u)[n].explained = (r \o s)[i].explained
  <2>1. CASE n <= Len(t)
    <3>1. n \in DOMAIN t /\ (t \o u)[n] = t[n]
      BY <1>1, <1>3, <2>1
    <3>2. PICK i \in DOMAIN r : t[n].id = r[i].id /\ t[n].explained = r[i].explained
      BY <3>1 DEF Of
    <3>3. i \in DOMAIN (r \o s) /\ (r \o s)[i] = r[i]
      BY <3>2
    <3> QED BY <3>1, <3>2, <3>3
  <2>2. CASE n > Len(t)
    <3>1. n - Len(t) \in DOMAIN u /\ (t \o u)[n] = u[n - Len(t)]
      BY <1>1, <1>3, <2>2
    <3>2. PICK i \in DOMAIN s :
            u[n - Len(t)].id = s[i].id /\ u[n - Len(t)].explained = s[i].explained
      BY <3>1 DEF Of
    <3>3. Len(r) + i \in DOMAIN (r \o s) /\ (r \o s)[Len(r) + i] = s[i]
      BY <3>2
    <3> QED BY <3>1, <3>2, <3>3
  <2>3. n <= Len(t) \/ n > Len(t)
    BY <1>1, <1>2, <1>3
  <2> QED BY <2>1, <2>2, <2>3
<1> QED BY <1>2, <1>3 DEF Of

LEMMA AppendedDistinct ==
  ASSUME NEW t \in Seq(Entry), NEW u \in Seq(Entry), Distinct(t), Distinct(u),
         \A i \in DOMAIN t, n \in DOMAIN u : t[i].id # u[n].id
  PROVE  Distinct(t \o u)
<1> SUFFICES ASSUME NEW i \in DOMAIN (t \o u), NEW j \in DOMAIN (t \o u),
                    (t \o u)[i].id = (t \o u)[j].id
             PROVE  i = j
  BY DEF Distinct
<1>1. \A n \in DOMAIN (t \o u) :
        \/ n \in DOMAIN t /\ (t \o u)[n] = t[n]
        \/ n > Len(t) /\ n - Len(t) \in DOMAIN u /\ (t \o u)[n] = u[n - Len(t)]
  OBVIOUS
<1>2. CASE i \in DOMAIN t /\ j \in DOMAIN t /\ t[i].id = t[j].id
  BY <1>2 DEF Distinct
<1>3. CASE i - Len(t) \in DOMAIN u /\ j - Len(t) \in DOMAIN u /\ u[i - Len(t)].id = u[j - Len(t)].id
  <2>1. i - Len(t) = j - Len(t)
    BY <1>3 DEF Distinct
  <2>2. i \in Nat /\ j \in Nat /\ Len(t) \in Nat
    OBVIOUS
  <2> QED BY <2>1, <2>2
<1> QED BY <1>1, <1>2, <1>3

LEMMA MergeGraphOf ==
  ASSUME NEW rs \in Seq(Entry), NEW gs \in Seq(Entry)
  PROVE  /\ Of(MergeGraph(rs, gs), rs \o gs) /\ MergeGraph(rs, gs) \in Seq(Entry)
         /\ Len(MergeGraph(rs, gs)) >= Len(rs)
         /\ Distinct(rs) /\ Distinct(gs) => Distinct(MergeGraph(rs, gs))
<1> DEFINE Graph(r) == {j \in DOMAIN gs : gs[j].id = r.id /\ gs[j].score > r.score}
           Boost(i) == IF Graph(rs[i]) = {} THEN rs[i]
                       ELSE [rs[i] EXCEPT !.score = gs[CHOOSE j \in Graph(rs[i]) : TRUE].score]
           boosted == [i \in DOMAIN rs |-> Boost(i)]
           new == {j \in DOMAIN gs : \A i \in DOMAIN rs : rs[i].id # gs[j].id}
           added == Picked(gs, new)
<1>1. CASE gs = <<>>
  <2>1. MergeGraph(rs, gs) = rs /\ rs \o gs = rs
    BY <1>1 DEF MergeGraph
  <2> QED BY <2>1 DEF Of
<1>2. CASE gs # <<>>
  <2>1. \A i \in DOMAIN rs : Boost(i) \in Entry /\ Boost(i).id = rs[i].id
                             /\ Boost(i).explained = rs[i].explained
    <3> TAKE i \in DOMAIN rs
    <3>1. rs[i] \in Entry
      OBVIOUS
    <3>2. CASE Graph(rs[i]) = {}
      BY <3>1, <3>2
    <3>3. CASE Graph(rs[i]) # {}
      <4>1. PICK x : x = gs[CHOOSE j \in Graph(rs[i]) : TRUE].score
        OBVIOUS
      <4>2. \A r \in Entry : r.score \in Nat
        BY DEF Entry
      <4>3. x \in Nat
        BY <3>3, <4>1, <4>2
      <4>4. Boost(i) = [rs[i] EXCEPT !.score = x]
        BY <3>3, <4>1
      <4>5. /\ [rs[i] EXCEPT !.score = x] \in Entry
            /\ [rs[i] EXCEPT !.score = x].id = rs[i].id
            /\ [rs[i] EXCEPT !.score = x].explained = rs[i].explained
        BY <3>1, <4>3, Scored
      <4> HIDE DEF Boost
      <4> QED BY <4>4, <4>5
    <3> QED BY <3>2, <3>3
  <2>2. boosted = [i \in DOMAIN rs |-> boosted[i]] /\ \A i \in DOMAIN rs : boosted[i] = Boost(i)
    OBVIOUS
  <2>3. MergeGraph(rs, gs) = Ranked(boosted \o added)
    BY <1>2 DEF MergeGraph
  <2> HIDE DEF Boost, boosted
  <2>4. /\ Of(boosted, rs) /\ boosted \in Seq(Entry) /\ Len(boosted) = Len(rs)
        /\ DOMAIN boosted = DOMAIN rs /\ (Distinct(rs) => Distinct(boosted))
    BY <2>1, <2>2, ChangedOf
  <2>5. new \in SUBSET (DOMAIN gs)
    OBVIOUS
  <2>6. /\ Of(added, gs) /\ added \in Seq(Entry) /\ (Distinct(gs) => Distinct(added))
        /\ \A n \in DOMAIN added : \E j \in new : added[n] = gs[j]
    BY <2>5, PickedOf
  <2> HIDE DEF added, new
  <2>7. /\ Of(boosted \o added, rs \o gs) /\ boosted \o added \in Seq(Entry)
        /\ Len(boosted \o added) = Len(rs) + Len(added)
    <3>1. Of(boosted, rs) /\ Of(added, gs)
      BY <2>4, <2>6
    <3> QED BY <3>1, <2>4, AppendedOf
  <2>8. ASSUME Distinct(rs), Distinct(gs) PROVE Distinct(boosted \o added)
    <3>1. \A i \in DOMAIN boosted, n \in DOMAIN added : boosted[i].id # added[n].id
      BY <2>1, <2>2, <2>4, <2>6 DEF new
    <3>2. Distinct(boosted) /\ Distinct(added)
      BY <2>4, <2>6, <2>8
    <3> QED BY <2>4, <2>6, <3>1, <3>2, AppendedDistinct
  <2>9. Len(added) \in Nat /\ Len(rs) \in Nat
    BY <2>6
  <2> HIDE DEF boosted
  <2>10. /\ Of(Ranked(boosted \o added), boosted \o added)
         /\ Ranked(boosted \o added) \in Seq(Entry)
         /\ Len(Ranked(boosted \o added)) = Len(boosted \o added)
         /\ Distinct(boosted \o added) => Distinct(Ranked(boosted \o added))
    BY <2>7, RankedOf
  <2>11. Of(Ranked(boosted \o added), rs \o gs)
    BY <2>7, <2>10, OfTransitive
  <2> QED BY <2>3, <2>7, <2>8, <2>9, <2>10, <2>11
<1> QED BY <1>1, <1>2

\* The first entries of a list, distinct from each other, are kept by what keeps all
\* places but some after them.
LEMMA FirstPlaces ==
  ASSUME NEW s \in Seq(Entry), NEW k \in Nat, NEW I \in SUBSET (DOMAIN s), 1..k \subseteq I
  PROVE  Cardinality(I) >= k
<1>1. IsFiniteSet(I)
  BY PlacesFinite
<1>2. 1..k \in SUBSET I
  OBVIOUS
<1>3. Cardinality(1..k) = k
  BY FS_Interval
<1>4. Cardinality(1..k) <= Cardinality(I) /\ Cardinality(I) \in Nat
  BY <1>1, <1>2, FS_Subset, FS_CardinalityType
<1> QED BY <1>3, <1>4

LEMMA MergeQueriesOf ==
  ASSUME NEW rs \in Seq(Entry), NEW ps \in Seq(Entry)
  PROVE  /\ Of(MergeQueries(rs \o ps), rs \o ps) /\ MergeQueries(rs \o ps) \in Seq(Entry)
         /\ Distinct(rs) => Len(MergeQueries(rs \o ps)) >= Len(rs)
<1>1. PICK s : s = rs \o ps
  OBVIOUS
<1>2. s \in Seq(Entry) /\ Len(s) = Len(rs) + Len(ps) /\ \A i \in 1..Len(rs) : s[i] = rs[i]
  BY <1>1
<1> DEFINE firsts == {i \in DOMAIN s : \A j \in 1..(i - 1) : s[j].id # s[i].id}
           Same(i) == {j \in DOMAIN s : s[j].id = s[i].id}
           Best(i) == Ranked(Picked(s, Same(i)))[1]
           best == [i \in DOMAIN s |-> Best(i)]
<1>3. MergeQueries(s) = Ranked(Picked(best, firsts))
  BY DEF MergeQueries
<1>4. ASSUME NEW i \in DOMAIN s
      PROVE  \E j \in Same(i) : Best(i) = s[j]
  <2>1. Same(i) \in SUBSET (DOMAIN s) /\ i \in Same(i)
    OBVIOUS
  <2>2. PICK t : t = Picked(s, Same(i))
    OBVIOUS
  <2>3. /\ t \in Seq(Entry) /\ Len(t) = Cardinality(Same(i))
        /\ \A n \in DOMAIN t : \E j \in Same(i) : t[n] = s[j]
    BY <1>2, <2>1, <2>2, PickedOf
  <2>4. Cardinality(Same(i)) # 0
    BY <1>2, <2>1, PlacesFinite, FS_EmptySet
  <2>5. Ranked(t) \in Seq(Entry) /\ Len(Ranked(t)) = Len(t)
        /\ \A n \in DOMAIN Ranked(t) : \E m \in DOMAIN t : Ranked(t)[n] = t[m]
    BY <2>3, RankedOf
  <2>6. 1 \in DOMAIN Ranked(t)
    BY <2>3, <2>4, <2>5
  <2>7. PICK m \in DOMAIN t : Ranked(t)[1] = t[m]
    BY <2>5, <2>6
  <2> QED BY <2>2, <2>3, <2>7
<1> HIDE DEF Best
<1>5. /\ best \in Seq(Entry) /\ DOMAIN best = DOMAIN s
      /\ Of(best, s)
  <2>1. \A i \in DOMAIN s : Best(i) \in Entry
    BY <1>2, <1>4
  <2>2. best \in Seq(Entry) /\ DOMAIN best = DOMAIN s /\ \A i \in DOMAIN s : best[i] = Best(i)
    BY <1>2, <2>1
  <2> HIDE DEF best
  <2> QED BY <1>4, <2>2 DEF Of
<1>6. firsts \in SUBSET (DOMAIN s)
  OBVIOUS
<1> HIDE DEF best
<1>7. /\ Of(Picked(best, firsts), best) /\ Picked(best, firsts) \in Seq(Entry)
      /\ Len(Picked(best, firsts)) = Cardinality(firsts)
  BY <1>5, <1>6, PickedOf
<1>8. ASSUME Distinct(rs) PROVE Cardinality(firsts) >= Len(rs)
  <2>1. 1..Len(rs) \subseteq firsts
    <3>1. \A i \in 1..Len(rs), j \in 1..Len(rs) : i # j => s[j].id # s[i].id
      BY <1>2, <1>8 DEF Distinct
    <3>2. \A i \in 1..Len(rs) : i \in DOMAIN s /\ 1..(i - 1) \subseteq 1..Len(rs)
      BY <1>2
    <3>3. \A i \in 1..Len(rs) : i \notin 1..(i - 1)
      OBVIOUS
    <3> QED BY <3>1, <3>2, <3>3
  <2> HIDE DEF firsts
  <2> QED BY <1>2, <1>6, <2>1, FirstPlaces
<1> QED
  <2>1. /\ Of(Ranked(Picked(best, firsts)), Picked(best, firsts))
        /\ Ranked(Picked(best, firsts)) \in Seq(Entry)
        /\ Len(Ranked(Picked(best, firsts))) = Cardinality(firsts)
    BY <1>7, RankedOf
  <2>2. Of(MergeQueries(s), s)
    BY <1>3, <1>5, <1>7, <2>1, OfTransitive
  <2> QED BY <1>1, <1>3, <1>8, <2>1, <2>2

LEMMA MergeSummariesOf ==
  ASSUME NEW rs \in Seq(Entry), NEW ss \in Seq(Entry)
  PROVE  /\ Of(MergeSummaries(rs, ss), rs \o ss) /\ MergeSummaries(rs, ss) \in Seq(Entry)
         /\ Len(MergeSummaries(rs, ss)) >= Len(rs)
<1>1. PICK all : all = rs \o ss
  OBVIOUS
<1>2. all \in Seq(Entry) /\ Len(all) = Len(rs) + Len(ss)
  BY <1>1
<1> DEFINE Same(i, j) == all[i].id.doc = all[j].id.doc /\ all[i].id.version = all[j].id.version
           new == {i \in DOMAIN all : i > Len(rs) => \A j \in 1..(i - 1) : ~ Same(i, j)}
<1>3. MergeSummaries(rs, ss) = Ranked(Picked(all, new))
  BY <1>1 DEF MergeSummaries
<1>4. new \in SUBSET (DOMAIN all) /\ 1..Len(rs) \subseteq new
  BY <1>2
<1> HIDE DEF new
<1>5. Cardinality(new) >= Len(rs)
  BY <1>2, <1>4, FirstPlaces
<1>6. /\ Of(Picked(all, new), all) /\ Picked(all, new) \in Seq(Entry)
      /\ Len(Picked(all, new)) = Cardinality(new)
  BY <1>2, <1>4, PickedOf
<1>7. /\ Of(Ranked(Picked(all, new)), Picked(all, new)) /\ Ranked(Picked(all, new)) \in Seq(Entry)
      /\ Len(Ranked(Picked(all, new))) = Cardinality(new)
  BY <1>6, RankedOf
<1> QED BY <1>1, <1>3, <1>5, <1>6, <1>7, OfTransitive

\* What is read: each id once, with a score and without an explanation.
LEMMA ReadOnce ==
  ASSUME NEW ids \in SUBSET Id, IsFiniteSet(ids), NEW scores \in [Document -> Score],
         NEW order \in Lists(ids, scores)
  PROVE  /\ order \in Seq(Entry) /\ Distinct(order)
         /\ \A i \in DOMAIN order : order[i].id \in ids
<1>1. PICK f \in SetToSeqs(ids) : order = [i \in DOMAIN f |-> Found(f[i], scores[f[i].doc])]
  BY DEF Lists
<1>2. /\ Cardinality(ids) \in Nat
      /\ f \in [1..Cardinality(ids) -> ids]
      /\ \A i, j \in 1..Cardinality(ids) : i # j => f[i] # f[j]
  BY <1>1, FS_CardinalityType DEF SetToSeqs
<1>3. ASSUME NEW i \in 1..Cardinality(ids)
      PROVE  order[i] = Found(f[i], scores[f[i].doc]) /\ order[i] \in Entry /\ order[i].id = f[i]
  <2>1. f[i] \in Id /\ f[i].doc \in Document
    BY <1>2 DEF Id
  <2>2. PICK x : x = scores[f[i].doc]
    OBVIOUS
  <2>3. x \in Nat
    <3>1. \A y \in Score : y \in Nat
      BY RetrievalAssumption
    <3> QED BY <2>1, <2>2, <3>1
  <2>4. order[i] = Found(f[i], x)
    BY <1>1, <1>2, <2>2
  <2>5. Found(f[i], x) \in Entry /\ Found(f[i], x).id = f[i]
    BY <2>1, <2>3 DEF Found, Entry, Reason
  <2> QED BY <2>2, <2>4, <2>5
<1>4. order = [i \in 1..Cardinality(ids) |-> order[i]]
  BY <1>1, <1>2
<1>5. order \in Seq(Entry) /\ DOMAIN order = 1..Cardinality(ids)
  BY <1>2, <1>3, <1>4
<1> QED BY <1>2, <1>3, <1>5 DEF Distinct

LEMMA OffersAre ==
  ASSUME NEW order \in Seq(Entry)
  PROVE  /\ Offers(order) \in Seq(Entry) /\ (Distinct(order) => Distinct(Offers(order)))
         /\ \A n \in DOMAIN Offers(order) :
              \E i \in DOMAIN order : Readable(order[i]) /\ Offers(order)[n] = order[i]
<1> DEFINE I == {i \in DOMAIN order : Readable(order[i])}
<1>1. I \in SUBSET (DOMAIN order) /\ \A i \in I : i \in DOMAIN order /\ Readable(order[i])
  OBVIOUS
<1>2. Offers(order) = Picked(order, I)
  BY DEF Offers
<1> HIDE DEF I
<1> QED BY <1>1, <1>2, PickedOf

LEMMA PassingAre ==
  ASSUME NEW s \in Seq(Entry)
  PROVE  /\ Passing(s) \in Seq(Entry) /\ (Distinct(s) => Distinct(Passing(s)))
         /\ \A n \in DOMAIN Passing(s) : \E i \in DOMAIN s : Passes(s[i]) /\ Passing(s)[n] = s[i]
<1> DEFINE I == {i \in DOMAIN s : Passes(s[i])}
<1>1. I \in SUBSET (DOMAIN s) /\ \A i \in I : i \in DOMAIN s /\ Passes(s[i])
  OBVIOUS
<1>2. Passing(s) = Picked(s, I)
  BY DEF Passing
<1> HIDE DEF I
<1> QED BY <1>1, <1>2, PickedOf

LEMMA NearestAre ==
  ASSUME NEW order \in Seq(Entry), NEW k \in Nat
  PROVE  /\ Nearest(order, k) \in Seq(Entry)
         /\ Len(Nearest(order, k)) = Least(k, Len(Offers(order)))
         /\ Distinct(order) => Distinct(Nearest(order, k))
         /\ \A n \in DOMAIN Nearest(order, k) :
              \E i \in DOMAIN order : Readable(order[i]) /\ Nearest(order, k)[n] = order[i]
<1>1. PICK o : o = Offers(order)
  OBVIOUS
<1>2. /\ o \in Seq(Entry) /\ (Distinct(order) => Distinct(o))
      /\ \A n \in DOMAIN o : \E i \in DOMAIN order : Readable(order[i]) /\ o[n] = order[i]
  BY <1>1, OffersAre
<1>3. PICK r : r = Ranked(o)
  OBVIOUS
<1>4. /\ r \in Seq(Entry) /\ Len(r) = Len(o) /\ (Distinct(o) => Distinct(r))
      /\ \A n \in DOMAIN r : \E i \in DOMAIN o : r[n] = o[i]
  BY <1>2, <1>3, RankedOf
<1>5. Nearest(order, k) = Cut(r, k)
  BY <1>1, <1>3 DEF Nearest
<1>6. /\ Cut(r, k) \in Seq(Entry) /\ Len(Cut(r, k)) = Least(k, Len(r))
      /\ Distinct(r) => Distinct(Cut(r, k))
      /\ \A n \in DOMAIN Cut(r, k) : n \in DOMAIN r /\ Cut(r, k)[n] = r[n]
  BY <1>4, CutOf
<1>7. \A n \in DOMAIN Cut(r, k) :
        \E i \in DOMAIN order : Readable(order[i]) /\ Cut(r, k)[n] = order[i]
  BY <1>2, <1>4, <1>6
<1> QED BY <1>1, <1>2, <1>4, <1>5, <1>6, <1>7

LEMMA ExplanationIs ==
  ASSUME NEW a
  PROVE  Explanation(a) \in Reason
BY DEF Explanation, Reason

LEMMA ExplainedAre ==
  ASSUME NEW s \in Seq(Entry)
  PROVE  /\ Explained(s) \in Seq(Entry) /\ Len(Explained(s)) = Len(s)
         /\ DOMAIN Explained(s) = DOMAIN s
         /\ \A i \in DOMAIN s :
              /\ Explained(s)[i].id = s[i].id
              /\ Explained(s)[i].explained = Explanation(acl[s[i].id.doc])
         /\ Distinct(s) => Distinct(Explained(s))
<1>1. ASSUME NEW i \in DOMAIN s
      PROVE  /\ Explained(s)[i] \in Entry
             /\ Explained(s)[i].id = s[i].id
             /\ Explained(s)[i].explained = Explanation(acl[s[i].id.doc])
  <2>1. PICK x : x = Explanation(acl[s[i].id.doc])
    OBVIOUS
  <2>2. x \in Reason
    BY <2>1, ExplanationIs
  <2>3. s[i] \in Entry /\ Explained(s)[i] = [s[i] EXCEPT !.explained = x, !.dated = FALSE]
    BY <2>1 DEF Explained
  <2>4. \A r \in Entry : /\ [r EXCEPT !.explained = x, !.dated = FALSE] \in Entry
                         /\ [r EXCEPT !.explained = x, !.dated = FALSE].id = r.id
                         /\ [r EXCEPT !.explained = x, !.dated = FALSE].explained = x
    BY <2>2 DEF Entry
  <2> QED BY <2>1, <2>3, <2>4
<1>2. DOMAIN Explained(s) = DOMAIN s /\ Explained(s) = [i \in DOMAIN s |-> Explained(s)[i]]
  BY DEF Explained
<1>3. Explained(s) \in Seq(Entry) /\ Len(Explained(s)) = Len(s)
  BY <1>1, <1>2
<1> QED BY <1>1, <1>2, <1>3 DEF Distinct

-----------------------------------------------------------------------------
(* The phases.                                                             *)

LEMMA SmallestOf ==
  ASSUME NEW S \in SUBSET Nat, S # {}
  PROVE  \E n \in S : \A m \in S : n <= m
<1> DEFINE Less == {p \in Nat \X Nat : p[1] < p[2]}
<1>1. IsWellFoundedOn(Less, Nat)
  BY NatLessThanWellFounded DEF OpToRel
<1>2. \A m, n \in Nat : m < n => <<m, n>> \in Less
  OBVIOUS
<1> HIDE DEF Less
<1>3. PICK n \in S : \A m \in S : ~ (<<m, n>> \in Less)
  BY <1>1, WFMin
<1>4. \A m \in S : ~ (m < n)
  BY <1>2, <1>3
<1>5. \A m \in S : m \in Nat
  OBVIOUS
<1> QED BY <1>3, <1>4, <1>5

LEMMA PhasesAre ==
  /\ DOMAIN Phases = 1..12
  /\ Phases[1] = "resolve" /\ Phases[2] = "embed" /\ Phases[3] = "dense"
  /\ Phases[4] = "graph" /\ Phases[5] = "fuse" /\ Phases[6] = "rerank"
  /\ Phases[7] = "explain" /\ Phases[8] = "queries" /\ Phases[9] = "merge"
  /\ Phases[10] = "decay" /\ Phases[11] = "summaries" /\ Phases[12] = "finish"
BY DEF Phases

\* The next phase is the first of the later ones that applies.
LEMMA AfterIs ==
  ASSUME NEW k \in 1..11
  PROVE  \E n \in (k + 1)..12 :
           /\ After(Phases[k]) = Phases[n] /\ Applies(Phases[n])
           /\ \A m \in (k + 1)..(n - 1) : ~ Applies(Phases[m])
<1> DEFINE here == CHOOSE n \in DOMAIN Phases : Phases[n] = Phases[k]
           later == {n \in DOMAIN Phases : n > k /\ Applies(Phases[n])}
<1>1. \A m, n \in 1..12 : Phases[m] = Phases[n] => m = n
  BY PhasesAre
<1>2. k \in DOMAIN Phases
  BY PhasesAre
<1>3. here \in 1..12 /\ Phases[here] = Phases[k]
  BY <1>2, PhasesAre
<1> HIDE DEF here
<1>4. here = k
  BY <1>1, <1>3
<1>5. 12 \in later /\ later \in SUBSET Nat
  BY PhasesAre DEF Applies
<1> HIDE DEF later
<1> DEFINE n == CHOOSE x \in later : \A m \in later : x <= m
<1>6. n \in later /\ \A m \in later : n <= m
  <2>1. \E x \in later : \A m \in later : x <= m
    BY <1>5, SmallestOf
  <2> QED BY <2>1
<1>7. After(Phases[k]) = Phases[n]
  BY <1>4 DEF After, here, later
<1> HIDE DEF n
<1>8. n \in (k + 1)..12 /\ Applies(Phases[n])
  BY <1>6, PhasesAre DEF later
<1>9. ASSUME NEW m \in (k + 1)..(n - 1) PROVE ~ Applies(Phases[m])
  <2>1. m \in DOMAIN Phases /\ m > k /\ m < n
    BY <1>8, <1>9, PhasesAre
  <2>2. m \notin later
    BY <1>6, <1>8, <2>1
  <2> QED BY <2>1, <2>2 DEF later
<1> QED BY <1>7, <1>8, <1>9

\* Before there are results, before they are explained, and afterwards.
Early == {"resolve", "embed", "dense"}
Middle == {"graph", "fuse", "rerank", "explain"}
Late == {"queries", "merge", "decay", "summaries", "finish", "done"}

LEMMA AfterEarly == After("resolve") = "embed" /\ After("embed") = "dense"
<1>1. Applies("embed") /\ Applies("dense")
  BY DEF Applies
<1>2. PICK n \in 2..12 : /\ After(Phases[1]) = Phases[n]
                         /\ \A m \in 2..(n - 1) : ~ Applies(Phases[m])
  BY AfterIs
<1>3. n = 2
  BY <1>1, <1>2, PhasesAre
<1>4. PICK i \in 3..12 : /\ After(Phases[2]) = Phases[i]
                         /\ \A m \in 3..(i - 1) : ~ Applies(Phases[m])
  BY AfterIs
<1>5. i = 3
  BY <1>1, <1>4, PhasesAre
<1> QED BY <1>2, <1>3, <1>4, <1>5, PhasesAre

LEMMA AfterMiddle ==
  ASSUME NEW phase \in {"dense", "graph", "fuse", "rerank"}
  PROVE  After(phase) \in Middle /\ (After(phase) = "rerank" => "rerank" \in search.modes)
<1>1. Applies("explain")
  BY DEF Applies
<1>2. PICK k \in 3..6 : phase = Phases[k]
  BY PhasesAre
<1>3. PICK n \in (k + 1)..12 : /\ After(Phases[k]) = Phases[n] /\ Applies(Phases[n])
                               /\ \A m \in (k + 1)..(n - 1) : ~ Applies(Phases[m])
  BY <1>2, AfterIs
<1>4. n \in 4..7
  BY <1>1, <1>2, <1>3, PhasesAre
<1>5. Phases[n] = "rerank" => "rerank" \in search.modes
  BY <1>3 DEF Applies
<1> QED BY <1>2, <1>3, <1>4, <1>5, PhasesAre DEF Middle

LEMMA AfterLate ==
  ASSUME NEW phase \in {"explain", "queries", "merge", "decay", "summaries"}
  PROVE  /\ After(phase) \in Late
         /\ phase \notin {"explain", "queries"} => After(phase) \notin {"queries", "merge"}
<1>1. PICK k \in 7..11 : phase = Phases[k]
  BY PhasesAre
<1>2. PICK n \in (k + 1)..12 : After(Phases[k]) = Phases[n]
  BY <1>1, AfterIs
<1>3. n \in 8..12 /\ (phase \notin {"explain", "queries"} => n \in 10..12)
  BY <1>1, <1>2, PhasesAre
<1> QED BY <1>1, <1>2, <1>3, PhasesAre DEF Late

-----------------------------------------------------------------------------
(* The invariant.                                                          *)

\* A chunk among results may be read, and was the latest version during the search.
Fits(r) ==
  r.id.kind = "chunk" =>
    /\ Readable(r)
    /\ search.backend # "vector" => r.id.version \in base[r.id.doc]..latest[r.id.doc]

\* Its explanation is that of its access list.
Told(r) == r.id.kind = "chunk" => r.explained = Explanation(acl[r.id.doc])

\* A list that has lost nothing the page has room for.
Full(s) ==
  (/\ search.backend # "vector" /\ search.candidateK >= search.topK
   /\ ~ ("rerank" \in search.modes /\ search.reranker = "provider"))
    => Len(s) >= Least(search.topK, offered)

RetrievalInv ==
  /\ search \in Search /\ offered \in Nat
  /\ latest \in [Document -> Nat] /\ base \in [Document -> Nat]
  /\ \A d \in Document : base[d] <= latest[d]
  /\ pc \in Early \cup Middle \cup Late \cup {"failed"}
  /\ pc = "rerank" => "rerank" \in search.modes
  /\ results \in Seq(Entry) /\ pool \in Seq(Entry)
  /\ \A i \in DOMAIN results : Fits(results[i])
  /\ \A i \in DOMAIN pool : Fits(pool[i]) /\ Told(pool[i])
  /\ pc \in Late => \A i \in DOMAIN results : Told(results[i])
  /\ pc \in Middle \cup Late => Full(results)
  /\ pc \in Middle \cup {"queries", "merge"} => Distinct(results)

\* What is asked of a step of the search.
LEMMA SearchMoves ==
  ASSUME RetrievalInv, UNCHANGED <<latest, acl, search, base>>,
         pc' \in Early \cup Middle \cup Late \cup {"failed"},
         pc' = "rerank" => "rerank" \in search.modes,
         results' \in Seq(Entry), \A i \in DOMAIN results' : Fits(results'[i]),
         pc' \in Late => \A i \in DOMAIN results' : Told(results'[i]),
         pc' \in Middle \cup Late => Full(results)',
         pc' \in Middle \cup {"queries", "merge"} => Distinct(results'),
         pool' \in Seq(Entry), \A i \in DOMAIN pool' : Fits(pool'[i]) /\ Told(pool'[i]),
         offered' \in Nat
  PROVE  RetrievalInv'
<1>1. \A r : Fits(r)' = Fits(r) /\ Told(r)' = Told(r)
  BY DEF Fits, Told, Readable, Passes, Permits, Admits, Explanation
<1>2. Distinct(results)' = Distinct(results')
  BY DEF Distinct
<1>3. /\ (\A i \in DOMAIN results : Fits(results[i]))'
      /\ pc' \in Late => (\A i \in DOMAIN results : Told(results[i]))'
      /\ (\A i \in DOMAIN pool : Fits(pool[i]) /\ Told(pool[i]))'
  BY <1>1
<1>4. /\ search' \in Search /\ latest' \in [Document -> Nat] /\ base' \in [Document -> Nat]
      /\ \A d \in Document : base'[d] <= latest'[d]
  BY DEF RetrievalInv
<1> QED BY <1>2, <1>3, <1>4 DEF RetrievalInv

\* Lists made of entries that fit, fit.
LEMMA OfFits ==
  ASSUME NEW s \in Seq(Entry), \A i \in DOMAIN s : Fits(s[i]), NEW t, Of(t, s)
  PROVE  /\ \A n \in DOMAIN t : Fits(t[n])
         /\ (\A i \in DOMAIN s : Told(s[i])) => \A n \in DOMAIN t : Told(t[n])
<1>1. \A q, r : q.id = r.id => (Fits(q) <=> Fits(r))
  BY DEF Fits, Readable, Passes
<1>2. \A q, r : q.id = r.id /\ q.explained = r.explained => (Told(q) <=> Told(r))
  BY DEF Told
<1> QED BY <1>1, <1>2 DEF Of

LEMMA AppendedFits ==
  ASSUME NEW s \in Seq(Entry), NEW t \in Seq(Entry)
  PROVE  /\ (\A i \in DOMAIN s : Fits(s[i])) /\ (\A i \in DOMAIN t : Fits(t[i]))
              => \A i \in DOMAIN (s \o t) : Fits((s \o t)[i])
         /\ (\A i \in DOMAIN s : Told(s[i])) /\ (\A i \in DOMAIN t : Told(t[i]))
              => \A i \in DOMAIN (s \o t) : Told((s \o t)[i])
<1>1. \A i \in DOMAIN (s \o t) :
        \/ i \in DOMAIN s /\ (s \o t)[i] = s[i]
        \/ i - Len(s) \in DOMAIN t /\ (s \o t)[i] = t[i - Len(s)]
  OBVIOUS
<1> QED BY <1>1

\* A step that replaces the results by entries of them.
LEMMA GoesOn ==
  ASSUME RetrievalInv, NEW phase, NEW s, Go(phase, s), Of(s, results), Len(s) >= Len(results),
         Distinct(results) => Distinct(s),
         phase \in Middle \cup {"decay", "summaries"}, phase # "explain",
         UNCHANGED <<latest, acl, search, base, pool, offered>>
  PROVE  RetrievalInv'
<1>1. pc = phase /\ pc' = After(phase) /\ results' = s
  BY DEF Go
<1>2. pc' \in Middle \cup Late /\ (pc' \in Late => pc \in Late)
      /\ (pc' = "rerank" => "rerank" \in search.modes)
      /\ (pc' \in Middle \cup {"queries", "merge"} => pc \in Middle)
  BY <1>1, AfterMiddle, AfterLate DEF Middle, Late
<1>3. results' \in Seq(Entry)
  BY <1>1 DEF Of
<1>4. /\ \A i \in DOMAIN results' : Fits(results'[i])
      /\ pc' \in Late => \A i \in DOMAIN results' : Told(results'[i])
  BY <1>1, <1>2, OfFits DEF RetrievalInv
<1>5. Full(results)'
  <2>1. Full(results)
    BY <1>1 DEF RetrievalInv, Late
  <2>2. Len(results) \in Nat /\ Len(s) \in Nat
    BY DEF RetrievalInv, Of
  <2>3. search \in Parameters /\ search.topK \in Nat /\ Least(search.topK, offered) \in Nat
    BY RetrievalAssumption DEF RetrievalInv, Parameters, Least
  <2> QED BY <1>1, <2>1, <2>2, <2>3 DEF Full
<1>6. pc' \in Middle \cup {"queries", "merge"} => Distinct(results')
  BY <1>1, <1>2 DEF RetrievalInv
<1>7. pool' \in Seq(Entry) /\ offered' \in Nat /\ \A i \in DOMAIN pool' : Fits(pool'[i]) /\ Told(pool'[i])
  BY DEF RetrievalInv
<1>8. pc' \in Early \cup Middle \cup Late \cup {"failed"}
  BY <1>2
<1> QED BY <1>2, <1>3, <1>4, <1>5, <1>6, <1>7, <1>8, SearchMoves

-----------------------------------------------------------------------------
(* The steps of a search.                                                  *)

\* What the search was asked for, in numbers.
LEMMA Asked ==
  ASSUME RetrievalInv
  PROVE  /\ search \in Parameters /\ search.topK \in Nat /\ search.candidateK \in Nat
         /\ DenseK \in Nat /\ (search.candidateK >= search.topK => DenseK >= search.topK)
<1>1. search \in Parameters
  BY RetrievalAssumption DEF RetrievalInv
<1> QED BY <1>1 DEF Parameters, DenseK

LEMMA PassesReadable ==
  ASSUME NEW r, Passes(r)
  PROVE  Readable(r)
BY DEF Passes, Readable, Permits, Admits

\* A permitted chunk is explained as such, but for PostgreSQL's reading of lists.
LEMMA ReadableExplained ==
  ASSUME NEW r, Readable(r), search.enforce
  PROVE  \/ Explanation(acl[r.id.doc]) = "permitted"
         \/ search.backend = "sql" /\ acl[r.id.doc].visibility = "unknown"
BY DEF Readable, Passes, Permits, Admits, Explanation

LEMMA RowsFit ==
  ASSUME RetrievalInv, NEW p
  PROVE  /\ Rows(p) \in SUBSET Id /\ IsFiniteSet(Rows(p))
         /\ \A r : r.id \in Rows(p) /\ Readable(r) => Fits(r)
<1> DEFINE D == {e \in Document : indexed[e] = [version |-> latest[e], profile |-> p]}
           f == [d \in D |-> Chunk(d, latest[d])]
<1>1. D \in SUBSET Document /\ IsFiniteSet(D)
  BY RetrievalAssumption, FS_Subset
<1>2. Rows(p) = {Chunk(d, latest[d]) : d \in D}
  BY DEF Rows
<1> HIDE DEF D
<1>3. \A d \in D : Chunk(d, latest[d]) \in Id /\ latest[d] \in base[d]..latest[d]
                   /\ Chunk(d, latest[d]).doc = d /\ Chunk(d, latest[d]).version = latest[d]
  <2> TAKE d \in D
  <2>1. d \in Document /\ latest[d] \in Nat /\ base[d] \in Nat /\ base[d] <= latest[d]
    BY <1>1 DEF RetrievalInv
  <2> QED BY <2>1 DEF Chunk, Id
<1>4. f \in [D -> Rows(p)] /\ \A x \in Rows(p) : \E d \in D : f[d] = x
  BY <1>2
<1>5. IsFiniteSet(Rows(p))
  <2> HIDE DEF f
  <2>1. f \in Surjection(D, Rows(p))
    BY <1>4, Fun_IsSurj
  <2> QED BY <1>1, <2>1, FS_Surjection
<1>6. \A x \in Rows(p) : x \in Id /\ x.version \in base[x.doc]..latest[x.doc]
  BY <1>2, <1>3
<1> QED BY <1>5, <1>6 DEF Fits

LEMMA ResolveKeeps ==
  ASSUME RetrievalInv, Resolve
  PROVE  RetrievalInv'
<1>1. pc' \in Early \cup {"failed"}
  BY AfterEarly DEF Resolve, Early
<1>2. UNCHANGED <<latest, acl, search, base, results, pool, offered>>
  BY DEF Resolve, content
<1>3. /\ results' \in Seq(Entry) /\ \A i \in DOMAIN results' : Fits(results'[i])
      /\ pool' \in Seq(Entry) /\ offered' \in Nat
      /\ \A i \in DOMAIN pool' : Fits(pool'[i]) /\ Told(pool'[i])
  BY <1>2 DEF RetrievalInv
<1>4. pc' \notin Middle \cup Late /\ pc' # "rerank"
  BY <1>1 DEF Early, Middle, Late
<1> QED BY <1>1, <1>2, <1>3, <1>4, SearchMoves DEF Late

LEMMA EmbedKeeps ==
  ASSUME RetrievalInv, Embed
  PROVE  RetrievalInv'
<1>1. pc' \in Early \cup {"failed"}
  BY AfterEarly DEF Embed, Early
<1>2. UNCHANGED <<latest, acl, search, base, results, pool, offered>>
  BY DEF Embed, content, Kept
<1>3. /\ results' \in Seq(Entry) /\ \A i \in DOMAIN results' : Fits(results'[i])
      /\ pool' \in Seq(Entry) /\ offered' \in Nat
      /\ \A i \in DOMAIN pool' : Fits(pool'[i]) /\ Told(pool'[i])
  BY <1>2 DEF RetrievalInv
<1>4. pc' \notin Middle \cup Late /\ pc' # "rerank"
  BY <1>1 DEF Early, Middle, Late
<1> QED BY <1>1, <1>2, <1>3, <1>4, SearchMoves DEF Late

\* The end of the first phase.
LEMMA DenseMoves ==
  ASSUME RetrievalInv, NEW s \in Seq(Entry), Go("dense", s), \A i \in DOMAIN s : Fits(s[i]),
         Distinct(s), UNCHANGED <<latest, acl, search, base, pool>>, offered' \in Nat,
         Full(s)'
  PROVE  RetrievalInv'
<1>1. results' = s /\ pc' \in Middle /\ (pc' = "rerank" => "rerank" \in search.modes)
  BY AfterMiddle DEF Go
<1>2. pc' \notin Late
  BY <1>1 DEF Middle, Late
<1>3. Full(results)'
  BY <1>1 DEF Full
<1>4. pool' \in Seq(Entry) /\ \A i \in DOMAIN pool' : Fits(pool'[i]) /\ Told(pool'[i])
  BY DEF RetrievalInv
<1> QED BY <1>1, <1>2, <1>3, <1>4, SearchMoves

LEMMA DenseDatabaseKeeps ==
  ASSUME RetrievalInv, DenseDatabase
  PROVE  RetrievalInv'
<1>1. PICK scores \in [Document -> Score] : \E order \in Lists(Rows(profile), scores) :
        /\ Go("dense", Nearest(order, DenseK))
        /\ offered' = Len(Offers(order))
  BY DEF DenseDatabase
<1>2. PICK order \in Lists(Rows(profile), scores) :
        /\ Go("dense", Nearest(order, DenseK))
        /\ offered' = Len(Offers(order))
  BY <1>1
<1>3. /\ order \in Seq(Entry) /\ Distinct(order)
      /\ \A i \in DOMAIN order : order[i].id \in Rows(profile)
  BY <1>2, RowsFit, ReadOnce
<1>4. PICK s : s = Nearest(order, DenseK)
  OBVIOUS
<1>5. /\ s \in Seq(Entry) /\ Len(s) = Least(DenseK, Len(Offers(order))) /\ Distinct(s)
      /\ \A n \in DOMAIN s : \E i \in DOMAIN order : Readable(order[i]) /\ s[n] = order[i]
  BY <1>3, <1>4, Asked, NearestAre
<1>6. \A n \in DOMAIN s : Fits(s[n])
  BY <1>3, <1>5, RowsFit
<1>7. offered' \in Nat
  BY <1>2, <1>3, OffersAre
<1>8. UNCHANGED <<latest, acl, search, base, pool>>
  BY DEF DenseDatabase, content
<1>9. Full(s)'
  <2>1. Len(s) = Least(DenseK, offered')
    BY <1>2, <1>5
  <2> QED BY <1>7, <1>8, <2>1, Asked DEF Full, Least
<1> QED BY <1>2, <1>4, <1>5, <1>6, <1>7, <1>8, <1>9, DenseMoves

Points == {Chunk(d, v) : d \in Document, v \in 1..Versions}

LEMMA PointsFinite ==
  ASSUME NEW stored \in SUBSET Points
  PROVE  IsFiniteSet(stored) /\ stored \in SUBSET Id
<1> DEFINE pairs == Document \X (1..Versions)
           f == [p \in pairs |-> Chunk(p[1], p[2])]
<1>1. IsFiniteSet(1..Versions) /\ IsFiniteSet(Document)
  BY RetrievalAssumption, FS_Interval
<1>2. IsFiniteSet(pairs)
  <2>1. PICK V : V = 1..Versions
    OBVIOUS
  <2>2. IsFiniteSet(Document \X V)
    BY <1>1, <2>1, FS_Product
  <2> QED BY <2>1, <2>2
<1>3. f \in [pairs -> Points] /\ \A x \in Points : \E p \in pairs : f[p] = x
  <2>1. f \in [pairs -> Points]
    BY DEF Points
  <2>2. ASSUME NEW x \in Points PROVE \E p \in pairs : f[p] = x
    <3>1. PICK d \in Document, v \in 1..Versions : x = Chunk(d, v)
      BY DEF Points
    <3>2. <<d, v>> \in pairs /\ f[<<d, v>>] = x
      BY <3>1
    <3> QED BY <3>2
  <2> QED BY <2>1, <2>2
<1>4. Points \in SUBSET Id
  BY DEF Points, Chunk, Id
<1> HIDE DEF f, pairs
<1>5. f \in Surjection(pairs, Points)
  BY <1>3, Fun_IsSurj
<1>6. IsFiniteSet(Points)
  BY <1>2, <1>5, FS_Surjection
<1> QED BY <1>4, <1>6, FS_Subset

LEMMA DenseVectorKeeps ==
  ASSUME RetrievalInv, DenseVector
  PROVE  RetrievalInv'
<1> DEFINE k == IF search.enforce /\ search.principals THEN 3 * DenseK ELSE DenseK
<1>1. PICK stored \in SUBSET Points, scores \in [Document -> Score] :
        \E order \in Lists(stored, scores) :
          Go("dense", Undated(Cut(Passing(Cut(Ranked(order), k)), search.candidateK)))
  BY DEF DenseVector, Points
<1>2. PICK order \in Lists(stored, scores) :
        Go("dense", Undated(Cut(Passing(Cut(Ranked(order), k)), search.candidateK)))
  BY <1>1
<1>3. order \in Seq(Entry) /\ Distinct(order)
  <2>1. IsFiniteSet(stored) /\ stored \in SUBSET Id
    BY PointsFinite
  <2> QED BY <2>1, ReadOnce
<1>4. k \in Nat /\ search.candidateK \in Nat
  BY Asked
<1> HIDE DEF k
<1>5. Ranked(order) \in Seq(Entry) /\ Distinct(Ranked(order))
  BY <1>3, RankedOf
<1>6. PICK c : c = Cut(Ranked(order), k)
  OBVIOUS
<1>7. c \in Seq(Entry) /\ Distinct(c)
  BY <1>4, <1>5, <1>6, CutOf
<1>8. PICK p : p = Passing(c)
  OBVIOUS
<1>9. p \in Seq(Entry) /\ Distinct(p) /\ \A n \in DOMAIN p : \E i \in DOMAIN c : Passes(c[i]) /\ p[n] = c[i]
  BY <1>7, <1>8, PassingAre
<1>10. PICK s : s = Undated(Cut(p, search.candidateK))
  OBVIOUS
<1>11. s \in Seq(Entry) /\ Distinct(s) /\ Of(s, p)
  BY <1>4, <1>9, <1>10, CutOf, UndatedOf, OfTransitive
<1>12. search.backend = "vector" /\ UNCHANGED <<latest, acl, search, base, pool, offered>>
  BY DEF DenseVector, content
<1>13. \A n \in DOMAIN p : Fits(p[n])
  BY <1>9, <1>12, PassesReadable DEF Fits
<1>14. \A n \in DOMAIN s : Fits(s[n])
  BY <1>9, <1>11, <1>13, OfFits
<1>15. Full(s)' /\ offered' \in Nat
  BY <1>12 DEF Full, RetrievalInv
<1>16. Go("dense", s)
  BY <1>2, <1>6, <1>8, <1>10
<1> QED BY <1>11, <1>12, <1>14, <1>15, <1>16, DenseMoves

\* A step of a phase that adds to the results or takes some of them away.
LEMMA MiddleMoves ==
  ASSUME RetrievalInv, NEW phase \in {"graph", "fuse", "rerank"}, NEW s \in Seq(Entry),
         Go(phase, s), \A i \in DOMAIN s : Fits(s[i]), Distinct(results) => Distinct(s),
         Full(s), UNCHANGED <<latest, acl, search, base, pool, offered>>
  PROVE  RetrievalInv'
<1>1. results' = s /\ pc' \in Middle /\ pc \in Middle
      /\ (pc' = "rerank" => "rerank" \in search.modes)
  BY AfterMiddle DEF Go, Middle
<1>2. pc' \notin Late
  BY <1>1 DEF Middle, Late
<1>3. Full(results)'
  BY <1>1 DEF Full
<1>4. Distinct(results')
  BY <1>1 DEF RetrievalInv
<1>5. /\ pool' \in Seq(Entry) /\ \A i \in DOMAIN pool' : Fits(pool'[i]) /\ Told(pool'[i])
      /\ offered' \in Nat
  BY DEF RetrievalInv
<1> QED BY <1>1, <1>2, <1>3, <1>4, <1>5, SearchMoves

LEMMA GraphExpandKeeps ==
  ASSUME RetrievalInv, GraphExpand
  PROVE  RetrievalInv'
<1>1. UNCHANGED <<latest, acl, search, base, pool, offered>>
  BY DEF GraphExpand, content, Kept
<1>2. ASSUME NEW proposed \in SUBSET Document, NEW scores \in [Document -> Score],
             NEW order \in Lists({c \in Rows(profile) : c.doc \in proposed}, scores),
             Go("graph", MergeGraph(results, Ranked(Passing(order))))
      PROVE  RetrievalInv'
  <2>1. PICK ids \in SUBSET Rows(profile) : ids = {c \in Rows(profile) : c.doc \in proposed}
    OBVIOUS
  <2>2. ids \in SUBSET Id /\ IsFiniteSet(ids)
    BY RowsFit, FS_Subset
  <2>3. /\ order \in Seq(Entry) /\ Distinct(order)
        /\ \A i \in DOMAIN order : order[i].id \in Rows(profile)
    BY <1>2, <2>1, <2>2, ReadOnce
  <2>4. PICK p : p = Passing(order)
    OBVIOUS
  <2>5. /\ p \in Seq(Entry) /\ Distinct(p)
        /\ \A n \in DOMAIN p : \E i \in DOMAIN order : Passes(order[i]) /\ p[n] = order[i]
    BY <2>3, <2>4, PassingAre
  <2>6. \A n \in DOMAIN p : Fits(p[n])
    BY <2>3, <2>5, PassesReadable, RowsFit
  <2>7. PICK g : g = Ranked(p)
    OBVIOUS
  <2>8. g \in Seq(Entry) /\ Distinct(g) /\ Of(g, p)
    BY <2>5, <2>7, RankedOf
  <2>9. \A n \in DOMAIN g : Fits(g[n])
    BY <2>5, <2>6, <2>8, OfFits
  <2>10. results \in Seq(Entry) /\ \A i \in DOMAIN results : Fits(results[i])
    BY DEF RetrievalInv
  <2>11. PICK s : s = MergeGraph(results, g)
    OBVIOUS
  <2>12. /\ s \in Seq(Entry) /\ Of(s, results \o g) /\ Len(s) >= Len(results)
         /\ Distinct(results) => Distinct(s)
    BY <2>8, <2>10, <2>11, MergeGraphOf
  <2>13. \A n \in DOMAIN s : Fits(s[n])
    <3>1. results \o g \in Seq(Entry) /\ \A i \in DOMAIN (results \o g) : Fits((results \o g)[i])
      BY <2>8, <2>9, <2>10, AppendedFits
    <3> QED BY <2>12, <3>1, OfFits
  <2>14. Full(s)
    <3>1. Full(results)
      BY <1>2 DEF RetrievalInv, Go, Middle
    <3>2. Len(results) \in Nat /\ Len(s) \in Nat /\ Least(search.topK, offered) \in Nat
      BY <2>10, <2>12, Asked DEF Least, RetrievalInv
    <3> QED BY <2>12, <3>1, <3>2 DEF Full
  <2>15. Go("graph", s)
    BY <1>2, <2>4, <2>7, <2>11
  <2> QED BY <1>1, <2>12, <2>13, <2>14, <2>15, MiddleMoves
<1>3. ASSUME Go("graph", results) PROVE RetrievalInv'
  <2>1. results \in Seq(Entry) /\ \A i \in DOMAIN results : Fits(results[i])
    BY DEF RetrievalInv
  <2>2. Full(results)
    BY <1>3 DEF RetrievalInv, Go, Middle
  <2> QED BY <1>1, <1>3, <2>1, <2>2, MiddleMoves
<1> QED BY <1>2, <1>3 DEF GraphExpand

LEMMA RescoredKeeps ==
  ASSUME RetrievalInv, NEW phase \in {"fuse", "rerank"}, NEW f \in [DOMAIN results -> Score],
         Go(phase, Rescored(results, f)), UNCHANGED <<content, degraded, Kept>>
  PROVE  RetrievalInv'
<1>1. results \in Seq(Entry)
  BY DEF RetrievalInv
<1>2. /\ Of(Rescored(results, f), results) /\ Len(Rescored(results, f)) = Len(results)
      /\ Distinct(results) => Distinct(Rescored(results, f))
  BY <1>1, RescoredOf
<1>3. phase \in Middle \cup {"decay", "summaries"} /\ phase # "explain"
  BY DEF Middle
<1>4. UNCHANGED <<latest, acl, search, base, pool, offered>>
  BY DEF content, Kept
<1>5. Len(Rescored(results, f)) >= Len(results)
  BY <1>1, <1>2
<1> QED BY <1>2, <1>3, <1>4, <1>5, GoesOn

LEMMA RerankProviderKeeps ==
  ASSUME RetrievalInv, RerankProvider
  PROVE  RetrievalInv'
<1>1. PICK chosen \in (SUBSET DOMAIN results) \ {{}}, f \in [DOMAIN results -> Score] :
        \E order \in SetToSeqs(chosen) :
          Go("rerank", Rescored([i \in DOMAIN order |-> results[order[i]]],
                                [i \in DOMAIN order |-> f[order[i]]]))
  BY DEF RerankProvider
<1>2. PICK order \in SetToSeqs(chosen) :
        Go("rerank", Rescored([i \in DOMAIN order |-> results[order[i]]],
                              [i \in DOMAIN order |-> f[order[i]]]))
  BY <1>1
<1>3. results \in Seq(Entry) /\ \A i \in DOMAIN results : Fits(results[i])
  BY DEF RetrievalInv
<1>4. IsFiniteSet(chosen) /\ Cardinality(chosen) \in Nat
  BY <1>3, PlacesFinite, FS_CardinalityType
<1>5. /\ order \in [1..Cardinality(chosen) -> chosen]
      /\ \A m, n \in 1..Cardinality(chosen) : order[m] = order[n] => m = n
  BY <1>2 DEF SetToSeqs
<1>6. PICK picked : picked = [i \in DOMAIN order |-> results[order[i]]]
  OBVIOUS
<1>7. Along(picked, results, chosen)
  BY <1>4, <1>5, <1>6 DEF Along
<1>8. /\ Of(picked, results) /\ picked \in Seq(Entry) /\ (Distinct(results) => Distinct(picked))
      /\ DOMAIN picked = DOMAIN order
  <2>1. DOMAIN picked = DOMAIN order
    BY <1>6
  <2>2. chosen \in SUBSET (DOMAIN results)
    OBVIOUS
  <2>3. Of(picked, results) /\ (Distinct(results) => Distinct(picked))
    BY <1>3, <1>7, <2>2, AlongOf
  <2> QED BY <2>1, <2>3 DEF Of
<1>9. PICK h : h = [i \in DOMAIN order |-> f[order[i]]]
  OBVIOUS
<1>10. h \in [DOMAIN picked -> Score]
  BY <1>5, <1>8, <1>9
<1>11. PICK s : s = Rescored(picked, h)
  OBVIOUS
<1>12. /\ Of(s, picked) /\ s \in Seq(Entry) /\ (Distinct(results) => Distinct(s))
  BY <1>8, <1>10, <1>11, RescoredOf
<1>13. \A n \in DOMAIN s : Fits(s[n])
  <2>1. Of(s, results)
    BY <1>8, <1>12, OfTransitive
  <2> QED BY <1>3, <2>1, OfFits
<1>14. Go("rerank", s)
  BY <1>2, <1>6, <1>9, <1>11

<1>15. Full(s)
  <2>1. pc = "rerank" /\ search.reranker = "provider"
    BY <1>14 DEF RerankProvider, Go
  <2> QED BY <2>1 DEF Full, RetrievalInv
<1>16. UNCHANGED <<latest, acl, search, base, pool, offered>>
  BY DEF RerankProvider, content, Kept
<1> QED BY <1>8, <1>12, <1>13, <1>14, <1>15, <1>16, MiddleMoves

LEMMA RerankUnavailableKeeps ==
  ASSUME RetrievalInv, RerankUnavailable
  PROVE  RetrievalInv'
<1>1. results \in Seq(Entry)
  BY DEF RetrievalInv
<1>2. /\ Of(Undated(results), results) /\ Len(Undated(results)) = Len(results)
      /\ Distinct(results) => Distinct(Undated(results))
  BY <1>1, UndatedOf
<1>3. Go("rerank", Undated(results)) /\ UNCHANGED <<latest, acl, search, base, pool, offered>>
  BY DEF RerankUnavailable, content, Kept
<1>4. Len(Undated(results)) >= Len(results)
  BY <1>1, <1>2
<1> QED BY <1>2, <1>3, <1>4, GoesOn DEF Middle

LEMMA RerankFailsKeeps ==
  ASSUME RetrievalInv, RerankFails
  PROVE  RetrievalInv'
<1>1. pc' = "failed" /\ UNCHANGED <<latest, acl, search, base, pool, offered, results>>
  BY DEF RerankFails, content, Kept
<1>2. pc' \notin Middle \cup Late
  BY <1>1 DEF Middle, Late
<1>3. /\ results' \in Seq(Entry) /\ \A i \in DOMAIN results' : Fits(results'[i])
      /\ pool' \in Seq(Entry) /\ offered' \in Nat
      /\ \A i \in DOMAIN pool' : Fits(pool'[i]) /\ Told(pool'[i])
  BY <1>1 DEF RetrievalInv
<1> QED BY <1>1, <1>2, <1>3, SearchMoves

\* A step after the results have been explained.
LEMMA LateMoves ==
  ASSUME RetrievalInv, NEW s \in Seq(Entry), results' = s, pc' \in Late,
         pc' \in {"queries", "merge"} => Distinct(s),
         \A i \in DOMAIN s : Fits(s[i]) /\ Told(s[i]), Full(s),
         pool' \in Seq(Entry), \A i \in DOMAIN pool' : Fits(pool'[i]) /\ Told(pool'[i]),
         UNCHANGED <<latest, acl, search, base, offered>>
  PROVE  RetrievalInv'
<1>1. Full(results)'
  BY DEF Full
<1>2. pc' \notin Middle /\ pc' # "rerank"
  BY DEF Late, Middle
<1>3. offered' \in Nat
  BY DEF RetrievalInv
<1> QED BY <1>1, <1>2, <1>3, SearchMoves

\* What is known of the results then.
LEMMA LateKnows ==
  ASSUME RetrievalInv, pc \in Late
  PROVE  /\ results \in Seq(Entry) /\ Full(results)
         /\ \A i \in DOMAIN results : Fits(results[i]) /\ Told(results[i])
         /\ pool \in Seq(Entry) /\ \A i \in DOMAIN pool : Fits(pool[i]) /\ Told(pool[i])
         /\ pc \in {"queries", "merge"} => Distinct(results)
BY DEF RetrievalInv

LEMMA ExplainedFits ==
  ASSUME NEW s \in Seq(Entry), \A i \in DOMAIN s : Fits(s[i])
  PROVE  \A i \in DOMAIN Explained(s) : Fits(Explained(s)[i]) /\ Told(Explained(s)[i])
<1>1. \A q, r : q.id = r.id => (Fits(q) <=> Fits(r))
  BY DEF Fits, Readable, Passes
<1>2. PICK e : e = Explained(s)
  OBVIOUS
<1>3. /\ DOMAIN e = DOMAIN s
      /\ \A i \in DOMAIN s : e[i].id = s[i].id /\ e[i].explained = Explanation(acl[s[i].id.doc])
  BY <1>2, ExplainedAre
<1>4. \A i \in DOMAIN e : Fits(e[i])
  BY <1>1, <1>3
<1>5. \A i \in DOMAIN e : Told(e[i])
  BY <1>3 DEF Told
<1> QED BY <1>2, <1>4, <1>5

\* A list no shorter than one that is full.
LEMMA StaysFull ==
  ASSUME RetrievalInv, NEW s \in Seq(Entry), NEW t \in Seq(Entry), Full(s), Len(t) >= Len(s)
  PROVE  Full(t)
<1>1. Len(s) \in Nat /\ Len(t) \in Nat /\ Least(search.topK, offered) \in Nat
  BY Asked DEF Least, RetrievalInv
<1> QED BY <1>1 DEF Full

LEMMA ExplainKeeps ==
  ASSUME RetrievalInv, Explain
  PROVE  RetrievalInv'
<1>1. Go("explain", Explained(results)) /\ UNCHANGED <<latest, acl, search, base, pool, offered>>
  BY DEF Explain, content, Kept
<1>2. PICK e : e = Explained(results)
  OBVIOUS
<1>3. /\ results \in Seq(Entry) /\ \A i \in DOMAIN results : Fits(results[i])
      /\ pc = "explain" => Full(results) /\ Distinct(results)
  BY DEF RetrievalInv, Middle
<1>4. results' = e /\ pc = "explain" /\ pc' = After("explain")
  BY <1>1, <1>2 DEF Go
<1>5. /\ e \in Seq(Entry) /\ Len(e) = Len(results) /\ Distinct(e)
      /\ \A i \in DOMAIN e : Fits(e[i]) /\ Told(e[i])
  BY <1>2, <1>3, <1>4, ExplainedAre, ExplainedFits
<1>6. Full(e)
  <2>1. Len(e) >= Len(results)
    BY <1>3, <1>5
  <2> QED BY <1>3, <1>4, <1>5, <2>1, StaysFull
<1>7. pc' \in Late
  BY <1>4, AfterLate
<1>8. pool' \in Seq(Entry) /\ \A i \in DOMAIN pool' : Fits(pool'[i]) /\ Told(pool'[i])
  BY <1>1 DEF RetrievalInv
<1> QED BY <1>1, <1>4, <1>5, <1>6, <1>7, <1>8, LateMoves

LEMMA AskQueryKeeps ==
  ASSUME RetrievalInv, AskQuery
  PROVE  RetrievalInv'
<1>1. pc = "queries" /\ pc' \in {"queries", After("queries")} /\ results' = results
      /\ UNCHANGED <<latest, acl, search, base, offered>>
  BY DEF AskQuery, content
<1>2. pc \in Late /\ pc' \in Late
  BY <1>1, AfterLate DEF Late
<1>3. pool' \in Seq(Entry) /\ \A i \in DOMAIN pool' : Fits(pool'[i]) /\ Told(pool'[i])
  <2>1. CASE pool' = pool
    BY <2>1 DEF RetrievalInv
  <2>2. ASSUME NEW scores \in [Document -> Score], NEW order \in Lists(Rows(profile), scores),
               pool' = pool \o Explained(Nearest(order, search.candidateK))
        PROVE  pool' \in Seq(Entry) /\ \A i \in DOMAIN pool' : Fits(pool'[i]) /\ Told(pool'[i])
    <3>1. order \in Seq(Entry) /\ \A i \in DOMAIN order : order[i].id \in Rows(profile)
      BY RowsFit, ReadOnce
    <3>2. PICK n : n = Nearest(order, search.candidateK)
      OBVIOUS
    <3>3. /\ n \in Seq(Entry)
          /\ \A k \in DOMAIN n : \E i \in DOMAIN order : Readable(order[i]) /\ n[k] = order[i]
      BY <3>1, <3>2, Asked, NearestAre
    <3>4. \A k \in DOMAIN n : Fits(n[k])
      BY <3>1, <3>3, RowsFit
    <3>5. PICK e : e = Explained(n)
      OBVIOUS
    <3>6. e \in Seq(Entry) /\ \A i \in DOMAIN e : Fits(e[i]) /\ Told(e[i])
      BY <3>3, <3>4, <3>5, ExplainedAre, ExplainedFits
    <3>7. pool \in Seq(Entry) /\ \A i \in DOMAIN pool : Fits(pool[i]) /\ Told(pool[i])
      BY DEF RetrievalInv
    <3>8. pool' = pool \o e
      BY <2>2, <3>2, <3>5
    <3> QED BY <3>6, <3>7, <3>8, AppendedFits
  <2> QED BY <2>1, <2>2 DEF AskQuery
<1>4. /\ results \in Seq(Entry) /\ Full(results) /\ Distinct(results)
      /\ \A i \in DOMAIN results : Fits(results[i]) /\ Told(results[i])
  BY <1>1, <1>2, LateKnows
<1> QED BY <1>1, <1>2, <1>3, <1>4, LateMoves

LEMMA MergeKeeps ==
  ASSUME RetrievalInv, Merge
  PROVE  RetrievalInv'
<1>1. PICK m : m = MergeQueries(results \o pool)
  OBVIOUS
<1>2. /\ Go("merge", Cut(m, search.candidateK)) /\ pool' = <<>>
      /\ UNCHANGED <<latest, acl, search, base, offered>>
  BY <1>1 DEF Merge, content
<1>3. pc = "merge" /\ pc \in Late
  BY <1>2 DEF Go, Late
<1>4. /\ results \in Seq(Entry) /\ Full(results) /\ Distinct(results) /\ pool \in Seq(Entry)
      /\ \A i \in DOMAIN results : Fits(results[i]) /\ Told(results[i])
      /\ \A i \in DOMAIN pool : Fits(pool[i]) /\ Told(pool[i])
  BY <1>3, LateKnows
<1>5. /\ results \o pool \in Seq(Entry)
      /\ \A i \in DOMAIN (results \o pool) : Fits((results \o pool)[i]) /\ Told((results \o pool)[i])
  BY <1>4, AppendedFits
<1>6. Of(m, results \o pool) /\ m \in Seq(Entry) /\ Len(m) >= Len(results)
  BY <1>1, <1>4, MergeQueriesOf
<1>7. \A i \in DOMAIN m : Fits(m[i]) /\ Told(m[i])
  BY <1>5, <1>6, OfFits
<1>8. Full(m)
  BY <1>4, <1>6, StaysFull
<1>9. PICK s : s = Cut(m, search.candidateK)
  OBVIOUS
<1>10. s \in Seq(Entry) /\ Of(s, m) /\ Len(s) = Least(search.candidateK, Len(m))
  BY <1>6, <1>9, Asked, CutOf
<1>11. \A i \in DOMAIN s : Fits(s[i]) /\ Told(s[i])
  BY <1>6, <1>7, <1>10, OfFits
<1>12. Full(s)
  <2>1. Len(m) \in Nat /\ Len(s) \in Nat /\ offered \in Nat
    BY <1>6, <1>10 DEF RetrievalInv
  <2> QED BY <1>8, <1>10, <2>1, Asked DEF Full, Least
<1>13. results' = s /\ pc' \in Late /\ pc' \notin {"queries", "merge"}
  BY <1>2, <1>9, AfterLate DEF Go
<1>14. pool' \in Seq(Entry) /\ \A i \in DOMAIN pool' : Fits(pool'[i]) /\ Told(pool'[i])
  BY <1>2
<1> QED BY <1>2, <1>10, <1>11, <1>12, <1>13, <1>14, LateMoves

LEMMA DecayKeeps ==
  ASSUME RetrievalInv, Decay
  PROVE  RetrievalInv'
<1> DEFINE Gain(r) == IF r.dated THEN r.id.version ELSE 0
           t == [i \in DOMAIN results |->
                   [results[i] EXCEPT !.sim = results[i].score, !.score = @ + Gain(results[i])]]
<1>1. results \in Seq(Entry)
  BY DEF RetrievalInv
<1>2. ASSUME NEW i \in DOMAIN results
      PROVE  t[i] \in Entry /\ t[i].id = results[i].id /\ t[i].explained = results[i].explained
  <2>1. PICK r \in Entry : r = results[i]
    BY <1>1
  <2>2. r.score \in Nat /\ r.id.version \in Nat
    BY DEF Entry, Id
  <2>3. PICK x \in Nat : x = r.score + Gain(r)
    BY <2>2
  <2>4. t[i] = [r EXCEPT !.sim = r.score, !.score = x]
    BY <2>1, <2>3
  <2>5. /\ [r EXCEPT !.sim = r.score, !.score = x] \in Entry
        /\ [r EXCEPT !.sim = r.score, !.score = x].id = r.id
        /\ [r EXCEPT !.sim = r.score, !.score = x].explained = r.explained
    BY <2>2 DEF Entry
  <2> HIDE DEF t
  <2> QED BY <2>1, <2>4, <2>5
<1>3. t = [i \in DOMAIN results |-> t[i]]
  OBVIOUS
<1>4. Go("decay", Ranked(t)) /\ UNCHANGED <<latest, acl, search, base, pool, offered>>
  BY DEF Decay, content, Kept
<1> HIDE DEF t
<1>5. Of(t, results) /\ t \in Seq(Entry) /\ Len(t) = Len(results) /\ (Distinct(results) => Distinct(t))
  BY <1>1, <1>2, <1>3, ChangedOf
<1>6. Of(Ranked(t), t) /\ Len(Ranked(t)) = Len(t) /\ (Distinct(t) => Distinct(Ranked(t)))
  BY <1>5, RankedOf
<1>7. Of(Ranked(t), results) /\ Len(Ranked(t)) >= Len(results)
      /\ (Distinct(results) => Distinct(Ranked(t)))
  BY <1>1, <1>5, <1>6, OfTransitive
<1> QED BY <1>4, <1>7, GoesOn

SummaryIds(S, v) == {Summary(d, v) : d \in S}

LEMMA SummaryIdsAre ==
  ASSUME NEW S \in SUBSET Document, NEW v \in Nat
  PROVE  /\ IsFiniteSet(SummaryIds(S, v)) /\ SummaryIds(S, v) \in SUBSET Id
         /\ \A id \in SummaryIds(S, v) : id.kind = "summary"
<1> DEFINE f == [d \in S |-> Summary(d, v)]
<1>1. IsFiniteSet(S)
  BY RetrievalAssumption, FS_Subset
<1>2. f \in [S -> SummaryIds(S, v)] /\ \A x \in SummaryIds(S, v) : \E d \in S : f[d] = x
  BY DEF SummaryIds
<1>3. SummaryIds(S, v) \in SUBSET Id /\ \A id \in SummaryIds(S, v) : id.kind = "summary"
  BY DEF SummaryIds, Summary, Id
<1> HIDE DEF f
<1>4. f \in Surjection(S, SummaryIds(S, v))
  BY <1>2, Fun_IsSurj
<1> QED BY <1>1, <1>3, <1>4, FS_Surjection

LEMMA SummariesKeeps ==
  ASSUME RetrievalInv, Summaries
  PROVE  RetrievalInv'
<1> DEFINE Marked(n) == [i \in DOMAIN n |-> [n[i] EXCEPT !.source = "summary", !.dated = FALSE]]
<1>1. PICK of \in SUBSET Document, v \in 1..Versions, scores \in [Document -> Score] :
        \E order \in Lists(SummaryIds({e \in of : v <= latest[e]}, v), scores) :
          Go("summaries", MergeSummaries(results, Marked(Nearest(order, search.topK))))
  BY DEF Summaries, SummaryIds
<1>2. PICK S \in SUBSET Document : S = {e \in of : v <= latest[e]}
  OBVIOUS
<1>3. PICK order \in Lists(SummaryIds(S, v), scores) :
        Go("summaries", MergeSummaries(results, Marked(Nearest(order, search.topK))))
  BY <1>1, <1>2
<1>4. v \in Nat
  OBVIOUS
<1>5. order \in Seq(Entry) /\ \A i \in DOMAIN order : order[i].id.kind = "summary"
  BY <1>4, SummaryIdsAre, ReadOnce
<1>6. PICK n : n = Nearest(order, search.topK)
  OBVIOUS
<1>7. n \in Seq(Entry) /\ \A i \in DOMAIN n : n[i].id.kind = "summary"
  <2>1. /\ n \in Seq(Entry)
        /\ \A k \in DOMAIN n : \E i \in DOMAIN order : Readable(order[i]) /\ n[k] = order[i]
    BY <1>5, <1>6, Asked, NearestAre
  <2> QED BY <1>5, <2>1
<1>8. PICK m : m = Marked(n)
  OBVIOUS
<1>9. m \in Seq(Entry) /\ \A i \in DOMAIN m : m[i].id.kind = "summary"
  <2>1. \A r \in Entry : /\ [r EXCEPT !.source = "summary", !.dated = FALSE] \in Entry
                         /\ [r EXCEPT !.source = "summary", !.dated = FALSE].id = r.id
    BY DEF Entry
  <2>2. \A i \in DOMAIN n : m[i] \in Entry /\ m[i].id = n[i].id
    <3> TAKE i \in DOMAIN n
    <3>1. n[i] \in Entry
      BY <1>7
    <3>2. m[i] = [n[i] EXCEPT !.source = "summary", !.dated = FALSE]
      BY <1>8
    <3> QED BY <2>1, <3>1, <3>2
  <2>3. m = [i \in DOMAIN n |-> m[i]] /\ DOMAIN m = DOMAIN n
    BY <1>8
  <2> HIDE DEF Marked
  <2>4. m \in Seq(Entry)
    BY <1>7, <2>2, <2>3
  <2> QED BY <1>7, <2>2, <2>3, <2>4
<1>10. \A i \in DOMAIN m : Fits(m[i]) /\ Told(m[i])
  BY <1>9 DEF Fits, Told
<1>11. PICK s : s = MergeSummaries(results, m)
  OBVIOUS
<1>12. Go("summaries", s)
  BY <1>3, <1>6, <1>8, <1>11
<1>13. pc \in Late
  BY <1>12 DEF Go, Late
<1>14. /\ results \in Seq(Entry) /\ Full(results)
       /\ \A i \in DOMAIN results : Fits(results[i]) /\ Told(results[i])
  BY <1>13, LateKnows
<1>15. /\ results \o m \in Seq(Entry)
       /\ \A i \in DOMAIN (results \o m) : Fits((results \o m)[i]) /\ Told((results \o m)[i])
  BY <1>9, <1>10, <1>14, AppendedFits
<1>16. Of(s, results \o m) /\ s \in Seq(Entry) /\ Len(s) >= Len(results)
  BY <1>9, <1>11, <1>14, MergeSummariesOf
<1>17. \A i \in DOMAIN s : Fits(s[i]) /\ Told(s[i])
  BY <1>15, <1>16, OfFits
<1>18. Full(s)
  BY <1>14, <1>16, StaysFull
<1>19. results' = s /\ pc' \in Late /\ pc' \notin {"queries", "merge"}
  BY <1>12, AfterLate DEF Go
<1>20. UNCHANGED <<latest, acl, search, base, pool, offered>>
  BY DEF Summaries, content, Kept
<1>21. pool' \in Seq(Entry) /\ \A i \in DOMAIN pool' : Fits(pool'[i]) /\ Told(pool'[i])
  BY <1>20 DEF RetrievalInv
<1> QED BY <1>16, <1>17, <1>18, <1>19, <1>20, <1>21, LateMoves

LEMMA FinishKeeps ==
  ASSUME RetrievalInv, Finish
  PROVE  RetrievalInv'
<1> DEFINE hydrated == [i \in DOMAIN results |-> [results[i] EXCEPT !.source = "chunk"]]
<1>1. /\ pc = "finish" /\ pc' = "done" /\ UNCHANGED <<latest, acl, search, base, pool, offered>>
      /\ results' = Cut(results, search.topK) \/ results' = Cut(hydrated, search.topK)
  BY DEF Finish, content
<1>2. pc \in Late /\ pc' \in Late
  BY <1>1 DEF Late
<1>3. /\ results \in Seq(Entry) /\ Full(results)
      /\ \A i \in DOMAIN results : Fits(results[i]) /\ Told(results[i])
  BY <1>2, LateKnows
<1>4. Of(hydrated, results) /\ hydrated \in Seq(Entry) /\ Len(hydrated) = Len(results)
  <2>1. \A r \in Entry : /\ [r EXCEPT !.source = "chunk"] \in Entry
                         /\ [r EXCEPT !.source = "chunk"].id = r.id
                         /\ [r EXCEPT !.source = "chunk"].explained = r.explained
    BY DEF Entry
  <2>2. \A i \in DOMAIN results : /\ hydrated[i] \in Entry /\ hydrated[i].id = results[i].id
                                  /\ hydrated[i].explained = results[i].explained
    <3> TAKE i \in DOMAIN results
    <3>1. results[i] \in Entry /\ hydrated[i] = [results[i] EXCEPT !.source = "chunk"]
      BY <1>3
    <3> HIDE DEF hydrated
    <3> QED BY <2>1, <3>1
  <2>3. hydrated = [i \in DOMAIN results |-> hydrated[i]]
    OBVIOUS
  <2> HIDE DEF hydrated
  <2> QED BY <1>3, <2>2, <2>3, ChangedOf
<1> HIDE DEF hydrated
<1>5. PICK t \in Seq(Entry) : /\ results' = Cut(t, search.topK) /\ Len(t) = Len(results)
                              /\ \A i \in DOMAIN t : Fits(t[i]) /\ Told(t[i])
  BY <1>1, <1>3, <1>4, OfFits
<1>6. PICK s : s = Cut(t, search.topK)
  OBVIOUS
<1>7. s \in Seq(Entry) /\ Of(s, t) /\ Len(s) = Least(search.topK, Len(t))
  BY <1>5, <1>6, Asked, CutOf
<1>8. \A i \in DOMAIN s : Fits(s[i]) /\ Told(s[i])
  BY <1>5, <1>7, OfFits
<1>9. Full(s)
  <2>1. Len(t) \in Nat /\ Len(s) \in Nat /\ offered \in Nat
    BY <1>5, <1>7 DEF RetrievalInv
  <2> QED BY <1>3, <1>5, <1>7, <2>1, Asked DEF Full, Least
<1>10. pool' \in Seq(Entry) /\ \A i \in DOMAIN pool' : Fits(pool'[i]) /\ Told(pool'[i])
  BY <1>1 DEF RetrievalInv
<1> QED BY <1>1, <1>2, <1>5, <1>6, <1>7, <1>8, <1>9, <1>10, LateMoves

\* What is ingested or indexed meanwhile makes no result too old.
LEMMA MeanwhileKeeps ==
  ASSUME RetrievalInv, NEW d \in Document, Ingest(d) \/ \E p \in 1..Profiles : Index(d, p)
  PROVE  RetrievalInv'
<1>1. UNCHANGED Others /\ latest' \in [Document -> Nat] /\ \A e \in Document : latest[e] <= latest'[e]
  <2>1. latest \in [Document -> Nat] /\ \A e \in Document : latest[e] \in Nat
    BY DEF RetrievalInv
  <2>2. CASE Ingest(d)
    BY <2>1, <2>2 DEF Ingest
  <2>3. CASE \E p \in 1..Profiles : Index(d, p)
    BY <2>1, <2>3 DEF Index
  <2> QED BY <2>2, <2>3
<1>2. \A e \in Document : latest[e] \in Nat /\ base[e] \in Nat /\ latest'[e] \in Nat /\ base'[e] = base[e]
  BY <1>1 DEF RetrievalInv, Others
<1>3. \A r \in Entry : /\ Fits(r) => Fits(r)'
                       /\ Told(r) => Told(r)'
  <2> TAKE r \in Entry
  <2>1. r.id.doc \in Document /\ r.id.version \in Nat
    BY DEF Entry, Id
  <2>2. r.id.version \in base[r.id.doc]..latest[r.id.doc]
          => r.id.version \in base'[r.id.doc]..latest'[r.id.doc]
    BY <1>1, <1>2, <2>1
  <2>3. Readable(r)' = Readable(r) /\ search' = search /\ acl' = acl
    BY <1>1 DEF Others, Readable, Passes, Permits, Admits
  <2> QED BY <2>2, <2>3 DEF Fits, Told, Explanation
<1>4. /\ (\A i \in DOMAIN results : Fits(results[i]))'
      /\ (\A i \in DOMAIN pool : Fits(pool[i]) /\ Told(pool[i]))'
      /\ (pc \in Late => \A i \in DOMAIN results : Told(results[i]))'
  <2>1. results' = results /\ pool' = pool /\ pc' = pc
    BY <1>1 DEF Others
  <2> QED BY <1>3, <2>1 DEF RetrievalInv
<1>5. Full(results)' = Full(results) /\ Distinct(results)' = Distinct(results)
  BY <1>1 DEF Full, Distinct, Others
<1>6. \A e \in Document : base'[e] <= latest'[e]
  BY <1>1, <1>2 DEF RetrievalInv
<1> QED BY <1>1, <1>4, <1>5, <1>6 DEF RetrievalInv, Others

LEMMA RetrievalInitially == RetrievalInit => RetrievalInv
<1> SUFFICES ASSUME RetrievalInit PROVE RetrievalInv
  OBVIOUS
<1>1. latest \in [Document -> Nat] /\ base = latest /\ \A d \in Document : latest[d] \in Nat
  BY DEF RetrievalInit
<1>2. results = <<>> /\ pool = <<>> /\ pc = "resolve" /\ offered = 0 /\ search \in Search
  BY DEF RetrievalInit
<1>3. pc \in Early /\ pc \notin Middle \cup Late /\ pc \notin {"queries", "merge", "rerank"}
  BY <1>2 DEF Early, Middle, Late
<1> QED BY <1>1, <1>2, <1>3 DEF RetrievalInv

LEMMA RetrievalStep ==
  ASSUME RetrievalInv, [RetrievalNext]_retrievalVars
  PROVE  RetrievalInv'
<1>1. CASE UNCHANGED retrievalVars
  <2>1. UNCHANGED <<latest, acl, search, base, pc, results, pool, offered>>
    BY <1>1 DEF retrievalVars
  <2> QED BY <2>1 DEF RetrievalInv, Fits, Told, Full, Distinct, Readable, Passes, Permits, Admits,
                      Explanation
<1>2. CASE Fuse \/ RerankFake
  BY <1>2, RescoredKeeps DEF Fuse, RerankFake
<1> QED
  BY <1>1, <1>2, ResolveKeeps, EmbedKeeps, DenseDatabaseKeeps, DenseVectorKeeps, GraphExpandKeeps,
     RerankProviderKeeps, RerankUnavailableKeeps, RerankFailsKeeps, ExplainKeeps, AskQueryKeeps,
     MergeKeeps, DecayKeeps, SummariesKeeps, FinishKeeps, MeanwhileKeeps DEF RetrievalNext

LEMMA RetrievalInvariant == RetrievalSpec => []RetrievalInv
BY RetrievalInitially, RetrievalStep, PTL DEF RetrievalSpec

\* Whatever the documents, access lists, back end and phases of a search, a chunk it
\* returns was permitted by the list that its explanation is about.
THEOREM ResultsArePermitted == RetrievalSpec => []OnlyPermitted
<1>1. RetrievalInv => OnlyPermitted
  BY ReadableExplained DEF RetrievalInv, OnlyPermitted, ChunkResults, Fits, Told, Late
<1> QED BY <1>1, RetrievalInvariant, PTL

\* However documents are ingested and indexed between the phases of a search of a
\* database, a chunk it returns was the latest version at some moment of it.
THEOREM ResultsAreCurrent == RetrievalSpec => []NoStaleChunk
<1>1. RetrievalInv => NoStaleChunk
  BY DEF RetrievalInv, NoStaleChunk, ChunkResults, Fits
<1> QED BY <1>1, RetrievalInvariant, PTL

\* For any sizes of the page and of the candidates: what the filter lets through is
\* lost to no cut before the last, and to no phase but a provider's reranking.
THEOREM PagesAreFull == RetrievalSpec => []PageIsFull
<1>1. RetrievalInv => PageIsFull
  BY DEF RetrievalInv, PageIsFull, Full, Late
<1> QED BY <1>1, RetrievalInvariant, PTL

-----------------------------------------------------------------------------
(* Baselines.                                                              *)

IsPromotion(s) ==
  s = [pc |-> s.pc, run |-> s.run, base |-> s.base, copy |-> s.copy, handle |-> s.handle]
IsListing(s) == s = [pc |-> s.pc, base |-> s.base, source |-> s.source, hash |-> s.hash]
IsCleaning(s) == s = [pc |-> s.pc, doomed |-> s.doomed]

Busy(p) == promotion[p].pc # "idle"

ProcessesFit ==
  /\ promotion = [p \in Promoter |-> promotion[p]]
  /\ \A p \in Promoter : IsPromotion(promotion[p]) /\ (Busy(p) \/ promotion[p] = NoPromotion)
  /\ listing = [l \in Lister |-> listing[l]] 
  /\ \A l \in Lister : IsListing(listing[l]) /\ (listing[l].pc # "idle" \/ listing[l] = NoListing)
  /\ cleaning = [c \in Cleaner |-> cleaning[c]] /\ \A c \in Cleaner : IsCleaning(cleaning[c])
  /\ disk = [n \in File |-> disk[n]]
  /\ evaluated \in Nat /\ evalStore \subseteq 1..evaluated

\* While promotions come one at a time: the registry is what was promoted, and the
\* temporary file is another one, and the promoter's.
RegistryFits ==
  /\ \A p, q \in Promoter : p # q => ~ Busy(p) \/ ~ Busy(q)
  /\ registry \in File \cup {0} /\ tmp \in File \cup {0} /\ (tmp # 0 => tmp # registry)
  /\ registry = 0 => kept = Nothing
  /\ registry # 0 => disk[registry] = Written(kept)
  /\ \A p \in Promoter :
       LET s == promotion[p] IN
       /\ s.pc \in {"file", "manifest", "load", "open"} => s.handle = 0
       /\ s.pc \in {"open", "fill", "rename"} => s.copy = Updated(kept, s.base, s.run)
       /\ s.pc \in {"fill", "rename"} => s.handle = tmp /\ tmp # 0
       /\ s.pc = "fill" => disk[tmp].state = "empty"
       /\ s.pc = "rename" => disk[tmp] = Written(s.copy)

\* While no clean-up overlaps with a promotion: what was promoted, or is about to
\* be, is in the store, and nothing of it is to be deleted.
StoreFits ==
  /\ \A b \in DOMAIN kept : kept[b] \in evalStore
  /\ \A p \in Promoter : Busy(p) => promotion[p].run \in evalStore
  /\ \A c \in Cleaner : cleaning[c].pc # "idle" =>
       ~ Promoting /\ \A b \in DOMAIN kept : kept[b] \notin cleaning[c].doomed

Settled(b) == b \in DOMAIN kept \ broken /\ \A p \in Promoter : Busy(p) => promotion[p].base # b

\* While nothing overlaps with a promotion: what no promoter is writing and none was
\* killed over is what was promoted, and a promoter has written all before its place.
FilesFit ==
  /\ \A b : Settled(b) => /\ b \in DOMAIN file /\ file[b] = kept[b]
                          /\ b \in DOMAIN manifest => manifest[b] = Manifest(kept[b], kept[b])
  /\ \A p \in Promoter :
       LET s == promotion[p] IN
       /\ s.pc \in {"manifest", "load", "open", "fill", "rename"} =>
            s.base \in DOMAIN file /\ file[s.base] = s.run
       /\ s.pc \in {"load", "open", "fill", "rename"} => manifest[s.base] = Manifest(s.run, s.run)
  /\ \A l \in Lister : listing[l].pc # "idle" =>
       /\ ~ Promoting
       /\ listing[l].base \in DOMAIN kept \ broken =>
            LET run == kept[listing[l].base] IN
            /\ listing[l].source \in {0, run}
            /\ listing[l].pc = "backfill" => listing[l].hash = run /\ listing[l].source = run

BaselinesInv ==
  /\ ProcessesFit
  /\ "promotion" \notin met => RegistryFits
  /\ met \cap {"promotion", "cleaning"} = {} => StoreFits
  /\ met = {} => FilesFit

-----------------------------------------------------------------------------
LEMMA FilesAre == Cardinality(Promoter) \in Nat /\ File = 1..(Cardinality(Promoter) + 1) /\ 0 \notin File
BY BaselineBounds, FS_CardinalityType DEF File

LEMMA NamesAreKept ==
  ASSUME RegistryFits
  PROVE  RegistryReadable /\ Names = kept
BY DEF RegistryFits, RegistryReadable, Names, Written

\* A step of a promoter.
LEMMA PromoterMoves ==
  ASSUME ProcessesFit, NEW p \in Promoter, NEW s, promotion' = [promotion EXCEPT ![p] = s],
         IsPromotion(s), s.pc # "idle" \/ s = NoPromotion,
         UNCHANGED <<listing, cleaning, evaluated, evalStore>>, disk' = [n \in File |-> disk'[n]]
  PROVE  /\ ProcessesFit' /\ promotion'[p] = s
         /\ \A q \in Promoter \ {p} : promotion'[q] = promotion[q]
<1>1. promotion'[p] = s /\ \A q \in Promoter \ {p} : promotion'[q] = promotion[q]
  BY DEF ProcessesFit
<1>2. promotion' = [q \in Promoter |-> promotion'[q]]
  BY DEF ProcessesFit
<1>3. \A q \in Promoter : IsPromotion(promotion'[q]) /\ (promotion'[q].pc # "idle" \/ promotion'[q] = NoPromotion)
  BY <1>1 DEF ProcessesFit, Busy
<1> QED BY <1>1, <1>2, <1>3 DEF ProcessesFit, Busy, File

LEMMA BaselinesInitially == BaselinesInit => BaselinesInv
<1> SUFFICES ASSUME BaselinesInit PROVE BaselinesInv
  OBVIOUS
<1>1. PICK old \in {Nothing} \cup {[x \in {b} |-> 1] : b \in Baseline} :
        /\ file = old /\ kept = old
        /\ evaluated = Cardinality(DOMAIN old) /\ evalStore = 1..evaluated
        /\ disk = [n \in File |-> IF n = 1 THEN Written(old) ELSE Unwritten]
        /\ registry = evaluated
  BY DEF BaselinesInit
<1>2. /\ manifest = Nothing /\ tmp = 0
      /\ promotion = [p \in Promoter |-> NoPromotion]
      /\ listing = [l \in Lister |-> NoListing]
      /\ cleaning = [c \in Cleaner |-> NoCleaning]
  BY DEF BaselinesInit
<1>3. \/ old = Nothing /\ evaluated = 0
      \/ (\A b \in DOMAIN old : old[b] = 1) /\ evaluated = 1
  <2>1. CASE old = Nothing
    BY <1>1, <2>1, FS_EmptySet DEF Nothing
  <2>2. CASE old # Nothing
    <3>1. PICK b \in Baseline : old = [x \in {b} |-> 1]
      BY <2>2
    <3>2. DOMAIN old = {b} /\ Cardinality({b}) = 1
      BY <3>1, FS_Singleton
    <3> QED BY <1>1, <3>1, <3>2
  <2> QED BY <2>1, <2>2
<1>4. 1 \in File /\ 0 \notin File
  BY FilesAre
<1>5. NoPromotion.pc = "idle" /\ NoListing.pc = "idle" /\ NoCleaning.pc = "idle"
      /\ IsPromotion(NoPromotion) /\ IsListing(NoListing) /\ IsCleaning(NoCleaning)
  BY DEF NoPromotion, NoListing, NoCleaning, IsPromotion, IsListing, IsCleaning
<1>6. ProcessesFit
  BY <1>1, <1>2, <1>3, <1>5 DEF ProcessesFit
<1>7. \A p \in Promoter : promotion[p].pc = "idle"
  BY <1>2, <1>5
<1>8. RegistryFits
  BY <1>1, <1>2, <1>3, <1>4, <1>7 DEF RegistryFits, Busy
<1>9. StoreFits
  <2>1. \A b \in DOMAIN kept : kept[b] \in evalStore
    BY <1>1, <1>3 DEF Nothing
  <2> QED BY <1>2, <1>5, <1>7, <2>1 DEF StoreFits, Busy
<1>10. FilesFit
  BY <1>1, <1>2, <1>5, <1>7 DEF FilesFit, Settled, Busy, Nothing
<1> QED BY <1>6, <1>8, <1>9, <1>10 DEF BaselinesInv

\* A step of a promoter between its first and its last.
LEMMA PromoterGoesOn ==
  ASSUME BaselinesInv, NEW p \in Promoter, Busy(p), NEW s, IsPromotion(s), s.pc # "idle",
         s.run = promotion[p].run, s.base = promotion[p].base,
         promotion' = [promotion EXCEPT ![p] = s], disk' = [n \in File |-> disk'[n]],
         UNCHANGED <<listing, cleaning, evaluated, evalStore, kept, broken, met>>
  PROVE  /\ ProcessesFit' /\ promotion'[p] = s
         /\ \A q \in Promoter \ {p} : promotion'[q] = promotion[q]
         /\ "promotion" \notin met => \A q \in Promoter \ {p} : promotion[q] = NoPromotion
         /\ met \cap {"promotion", "cleaning"} = {} => StoreFits'
         /\ \A b : Settled(b)' <=> Settled(b)
         /\ met = {} => (\A l \in Lister : listing[l].pc = "idle") /\ ~ Settled(s.base)
<1>1. /\ ProcessesFit' /\ promotion'[p] = s
      /\ \A q \in Promoter \ {p} : promotion'[q] = promotion[q]
  BY PromoterMoves DEF BaselinesInv
<1>2. "promotion" \notin met => \A q \in Promoter \ {p} : promotion[q] = NoPromotion
  BY DEF BaselinesInv, RegistryFits, ProcessesFit
<1>3. Promoting /\ Promoting'
  BY <1>1 DEF Promoting, Busy
<1>4. ASSUME met \cap {"promotion", "cleaning"} = {} PROVE StoreFits'
  <2>1. StoreFits
    BY <1>4 DEF BaselinesInv
  <2>2. \A q \in Promoter : promotion'[q].pc # "idle" => promotion'[q].run \in evalStore
    BY <1>1, <2>1 DEF StoreFits, Busy
  <2>3. \A c \in Cleaner : cleaning[c].pc = "idle"
    BY <1>3, <2>1 DEF StoreFits
  <2> QED BY <2>1, <2>2, <2>3 DEF StoreFits, Busy
<1>5. \A b : Settled(b)' <=> Settled(b)
  BY <1>1 DEF Settled, Busy
<1>6. ASSUME met = {} PROVE (\A l \in Lister : listing[l].pc = "idle") /\ ~ Settled(s.base)
  BY <1>3, <1>6 DEF BaselinesInv, FilesFit, Settled
<1> QED BY <1>1, <1>2, <1>4, <1>5, <1>6

LEMMA PromoteRunKeeps ==
  ASSUME BaselinesInv, NEW p \in Promoter, NEW r \in evalStore, NEW b \in Baseline,
         PromoteRun(p, r, b)
  PROVE  BaselinesInv'
<1>1. PICK s : s = [promotion[p] EXCEPT !.pc = "file", !.run = r, !.base = b]
  OBVIOUS
<1>2. IsPromotion(promotion[p])
  BY DEF BaselinesInv, ProcessesFit
<1>3. s.pc = "file" /\ s.run = r /\ s.base = b /\ IsPromotion(s) /\ s.handle = 0
  <2>1. promotion[p] = NoPromotion
    BY DEF PromoteRun, BaselinesInv, ProcessesFit, Busy
  <2>2. promotion[p].handle = 0
    BY <2>1 DEF NoPromotion
  <2> QED BY <1>1, <1>2, <2>2 DEF IsPromotion
<1>4. /\ promotion' = [promotion EXCEPT ![p] = s]
      /\ UNCHANGED <<listing, cleaning, evaluated, evalStore, disk, file, manifest, tmp, registry,
                     kept, broken>>
  BY <1>1 DEF PromoteRun
<1>5. disk' = [n \in File |-> disk'[n]]
  BY <1>4 DEF BaselinesInv, ProcessesFit
<1>6. /\ ProcessesFit' /\ promotion'[p] = s
      /\ \A q \in Promoter \ {p} : promotion'[q] = promotion[q]
  BY <1>3, <1>4, <1>5, PromoterMoves DEF BaselinesInv
<1>7. /\ met \subseteq met'
      /\ "promotion" \notin met' => ~ Promoting
      /\ "listing" \notin met' => \A l \in Lister : listing[l].pc = "idle"
      /\ "cleaning" \notin met' => \A c \in Cleaner : cleaning[c].pc = "idle"
  BY DEF PromoteRun
<1>8. ASSUME "promotion" \notin met' PROVE RegistryFits'
  <2>1. RegistryFits /\ \A q \in Promoter \ {p} : promotion'[q].pc = "idle"
    BY <1>6, <1>7, <1>8 DEF BaselinesInv, Promoting
  <2> QED BY <1>3, <1>4, <1>6, <2>1 DEF RegistryFits, Busy
<1>9. ASSUME met' \cap {"promotion", "cleaning"} = {} PROVE StoreFits'
  <2>1. StoreFits /\ \A c \in Cleaner : cleaning[c].pc = "idle"
    BY <1>7, <1>9 DEF BaselinesInv
  <2>2. \A q \in Promoter : promotion'[q].pc # "idle" => promotion'[q].run \in evalStore
    BY <1>3, <1>6, <2>1 DEF StoreFits, Busy
  <2> QED BY <1>4, <2>1, <2>2 DEF StoreFits, Busy
<1>10. ASSUME met' = {} PROVE FilesFit'
  <2>1. FilesFit /\ (\A l \in Lister : listing[l].pc = "idle")
        /\ \A q \in Promoter \ {p} : promotion'[q].pc = "idle"
    BY <1>6, <1>7, <1>10 DEF BaselinesInv, Promoting
  <2>2. \A c : Settled(c)' => Settled(c)
    BY <1>4, <1>6, <1>7, <1>10 DEF Settled, Busy, Promoting
  <2> QED BY <1>3, <1>4, <1>6, <2>1, <2>2 DEF FilesFit, Busy
<1> QED BY <1>6, <1>8, <1>9, <1>10 DEF BaselinesInv

\* What Step leaves of a promoter.
LEMMA Stepped ==
  ASSUME BaselinesInv, NEW p \in Promoter, NEW from, NEW to, Step(p, from, to)
  PROVE  /\ IsPromotion([promotion[p] EXCEPT !.pc = to])
         /\ [promotion[p] EXCEPT !.pc = to].pc = to
         /\ [promotion[p] EXCEPT !.pc = to].run = promotion[p].run
         /\ [promotion[p] EXCEPT !.pc = to].base = promotion[p].base
         /\ [promotion[p] EXCEPT !.pc = to].copy = promotion[p].copy
         /\ [promotion[p] EXCEPT !.pc = to].handle = promotion[p].handle
         /\ promotion' = [promotion EXCEPT ![p] = [promotion[p] EXCEPT !.pc = to]]
<1>1. IsPromotion(promotion[p])
  BY DEF BaselinesInv, ProcessesFit
<1>2. promotion' = [promotion EXCEPT ![p] = [promotion[p] EXCEPT !.pc = to]]
  BY DEF Step
<1> QED BY <1>1, <1>2 DEF IsPromotion

LEMMA CopyRunKeeps ==
  ASSUME BaselinesInv, NEW p \in Promoter, CopyRun(p)
  PROVE  BaselinesInv'
<1>1. PICK s : s = [promotion[p] EXCEPT !.pc = "manifest"]
  OBVIOUS
<1>2. /\ IsPromotion(s) /\ s.pc = "manifest" /\ s.run = promotion[p].run /\ s.base = promotion[p].base
      /\ s.handle = promotion[p].handle /\ promotion' = [promotion EXCEPT ![p] = s]
  BY <1>1, Stepped DEF CopyRun
<1>3. /\ Busy(p) /\ promotion[p].pc = "file" /\ file' = Updated(file, s.base, s.run)
      /\ UNCHANGED <<listing, cleaning, evaluated, evalStore, kept, broken, met, manifest, disk,
                     tmp, registry>>
  BY <1>2 DEF CopyRun, Step, Busy
<1>4. disk' = [n \in File |-> disk'[n]]
  BY <1>3 DEF BaselinesInv, ProcessesFit
<1>5. /\ ProcessesFit' /\ promotion'[p] = s
      /\ \A q \in Promoter \ {p} : promotion'[q] = promotion[q]
      /\ "promotion" \notin met => \A q \in Promoter \ {p} : promotion[q] = NoPromotion
      /\ met \cap {"promotion", "cleaning"} = {} => StoreFits'
      /\ \A b : Settled(b)' <=> Settled(b)
      /\ met = {} => (\A l \in Lister : listing[l].pc = "idle") /\ ~ Settled(s.base)
  BY <1>2, <1>3, <1>4, PromoterGoesOn
<1>6. ASSUME "promotion" \notin met' PROVE RegistryFits'
  <2>1. RegistryFits
    BY <1>3, <1>6 DEF BaselinesInv
  <2> QED BY <1>2, <1>3, <1>5, <1>6, <2>1 DEF RegistryFits, Busy, NoPromotion
<1>7. ASSUME met' = {} PROVE FilesFit'
  <2>1. FilesFit /\ (\A l \in Lister : listing[l].pc = "idle") /\ ~ Settled(s.base)
        /\ \A q \in Promoter \ {p} : promotion'[q].pc = "idle"
    BY <1>3, <1>5, <1>7 DEF BaselinesInv, NoPromotion
  <2>2. /\ DOMAIN file' = DOMAIN file \cup {s.base} /\ file'[s.base] = s.run
        /\ \A b \in DOMAIN file : b # s.base => file'[b] = file[b]
    BY <1>3 DEF Updated
  <2>3. \A b : Settled(b) => file'[b] = file[b] /\ b \in DOMAIN file'
    BY <2>1, <2>2 DEF FilesFit
  <2> QED BY <1>2, <1>3, <1>5, <2>1, <2>2, <2>3 DEF FilesFit
<1> QED BY <1>3, <1>5, <1>6, <1>7 DEF BaselinesInv

LEMMA WriteManifestKeeps ==
  ASSUME BaselinesInv, NEW p \in Promoter, WriteManifest(p)
  PROVE  BaselinesInv'
<1>1. PICK s : s = [promotion[p] EXCEPT !.pc = "load"]
  OBVIOUS
<1>2. /\ IsPromotion(s) /\ s.pc = "load" /\ s.run = promotion[p].run /\ s.base = promotion[p].base
      /\ s.handle = promotion[p].handle /\ promotion' = [promotion EXCEPT ![p] = s]
  BY <1>1, Stepped DEF WriteManifest
<1>3. /\ Busy(p) /\ promotion[p].pc = "manifest"
      /\ manifest' = Updated(manifest, s.base, Manifest(s.run, s.run))
      /\ UNCHANGED <<listing, cleaning, evaluated, evalStore, kept, broken, met, file, disk,
                     tmp, registry>>
  BY <1>2 DEF WriteManifest, Step, Busy
<1>4. disk' = [n \in File |-> disk'[n]]
  BY <1>3 DEF BaselinesInv, ProcessesFit
<1>5. /\ ProcessesFit' /\ promotion'[p] = s
      /\ \A q \in Promoter \ {p} : promotion'[q] = promotion[q]
      /\ "promotion" \notin met => \A q \in Promoter \ {p} : promotion[q] = NoPromotion
      /\ met \cap {"promotion", "cleaning"} = {} => StoreFits'
      /\ \A b : Settled(b)' <=> Settled(b)
      /\ met = {} => (\A l \in Lister : listing[l].pc = "idle") /\ ~ Settled(s.base)
  BY <1>2, <1>3, <1>4, PromoterGoesOn
<1>6. ASSUME "promotion" \notin met' PROVE RegistryFits'
  <2>1. RegistryFits
    BY <1>3, <1>6 DEF BaselinesInv
  <2> QED BY <1>2, <1>3, <1>5, <1>6, <2>1 DEF RegistryFits, Busy, NoPromotion
<1>7. ASSUME met' = {} PROVE FilesFit'
  <2>1. FilesFit /\ (\A l \in Lister : listing[l].pc = "idle") /\ ~ Settled(s.base)
        /\ \A q \in Promoter \ {p} : promotion'[q].pc = "idle"
    BY <1>3, <1>5, <1>7 DEF BaselinesInv, NoPromotion
  <2>2. /\ DOMAIN manifest' = DOMAIN manifest \cup {s.base}
        /\ manifest'[s.base] = Manifest(s.run, s.run)
        /\ \A b \in DOMAIN manifest : b # s.base => manifest'[b] = manifest[b]
    BY <1>3 DEF Updated
  <2>3. /\ \A b : Settled(b) /\ b \in DOMAIN manifest' => b \in DOMAIN manifest /\ manifest'[b] = manifest[b]
        /\ file[s.base] = s.run
    BY <1>2, <1>3, <2>1, <2>2 DEF FilesFit
  <2> QED BY <1>2, <1>3, <1>5, <2>1, <2>2, <2>3 DEF FilesFit
<1> QED BY <1>3, <1>5, <1>6, <1>7 DEF BaselinesInv


LEMMA LoadRegistryKeeps ==
  ASSUME BaselinesInv, NEW p \in Promoter, LoadRegistry(p)
  PROVE  BaselinesInv'
<1>0. /\ Busy(p) /\ promotion[p].pc = "load"
      /\ UNCHANGED <<listing, cleaning, evaluated, evalStore, kept, broken, met, file, manifest, disk,
                     tmp, registry>>
  BY DEF LoadRegistry, Busy
<1>1. disk' = [n \in File |-> disk'[n]]
  BY <1>0 DEF BaselinesInv, ProcessesFit
<1>2. CASE ~ RegistryReadable
  <2>1. IsPromotion(NoPromotion)
    BY DEF NoPromotion, IsPromotion
  <2>2. "promotion" \in met
    BY <1>2, NamesAreKept DEF BaselinesInv
  <2>3. promotion' = [promotion EXCEPT ![p] = NoPromotion]
    BY <1>2 DEF LoadRegistry
  <2>4. ProcessesFit'
    BY <1>0, <1>1, <2>1, <2>3, PromoterMoves DEF BaselinesInv
  <2> QED BY <1>0, <2>2, <2>4 DEF BaselinesInv
<1>3. CASE RegistryReadable
  <2>1. PICK s : s = [promotion[p] EXCEPT !.pc = "open",
                                          !.copy = Updated(Names, promotion[p].base, promotion[p].run)]
    OBVIOUS
  <2>2. promotion' = [promotion EXCEPT ![p] = s]
    BY <1>3, <2>1 DEF LoadRegistry
  <2>3. IsPromotion(promotion[p])
    BY DEF BaselinesInv, ProcessesFit
  <2>4. /\ IsPromotion(s) /\ s.pc = "open" /\ s.run = promotion[p].run /\ s.base = promotion[p].base
        /\ s.copy = Updated(Names, s.base, s.run) /\ s.handle = promotion[p].handle
    BY <2>1, <2>3 DEF IsPromotion
  <2>5. /\ ProcessesFit' /\ promotion'[p] = s
        /\ \A q \in Promoter \ {p} : promotion'[q] = promotion[q]
        /\ "promotion" \notin met => \A q \in Promoter \ {p} : promotion[q] = NoPromotion
        /\ met \cap {"promotion", "cleaning"} = {} => StoreFits'
        /\ \A b : Settled(b)' <=> Settled(b)
        /\ met = {} => (\A l \in Lister : listing[l].pc = "idle") /\ ~ Settled(s.base)
    BY <1>0, <1>1, <2>2, <2>4, PromoterGoesOn
  <2>6. ASSUME "promotion" \notin met' PROVE RegistryFits'
    <3>1. RegistryFits
      BY <1>0, <2>6 DEF BaselinesInv
    <3>2. s.copy = Updated(kept, s.base, s.run) /\ s.handle = 0
      BY <1>0, <2>4, <3>1, NamesAreKept DEF RegistryFits
    <3> QED BY <1>0, <2>4, <2>5, <2>6, <3>1, <3>2 DEF RegistryFits, Busy, NoPromotion
  <2>7. ASSUME met' = {} PROVE FilesFit'
    <3>1. FilesFit
      BY <1>0, <2>7 DEF BaselinesInv
    <3> QED BY <1>0, <2>4, <2>5, <2>7, <3>1 DEF FilesFit, NoPromotion
  <2> QED BY <1>0, <2>5, <2>6, <2>7 DEF BaselinesInv
<1> QED BY <1>2, <1>3

\* There is a name no registry has, for a promoter that is alone.
LEMMA AnUnusedFile ==
  ASSUME NEW p \in Promoter, tmp = 0, \A q \in Promoter : promotion[q].handle = 0
  PROVE  (CHOOSE f \in Unused : TRUE) \in File \ {registry}
<1>1. Cardinality(Promoter) # 0
  BY BaselineBounds, FS_EmptySet
<1>2. 1 \in File /\ 2 \in File
  BY <1>1, FilesAre
<1>3. File \ {0, registry} \subseteq Unused /\ Unused \subseteq File \ {registry}
  BY DEF Unused
<1>4. \E f : f \in Unused
  BY <1>2, <1>3
<1> QED BY <1>3, <1>4

LEMMA OpenRegistryKeeps ==
  ASSUME BaselinesInv, NEW p \in Promoter, OpenRegistry(p)
  PROVE  BaselinesInv'
<1>0. /\ Busy(p) /\ promotion[p].pc = "open"
      /\ UNCHANGED <<listing, cleaning, evaluated, evalStore, kept, broken, met, file, manifest>>
  BY DEF OpenRegistry, Busy
<1>1. PICK n \in (IF tmp # 0 THEN {tmp} ELSE {CHOOSE f \in Unused : TRUE}) :
        /\ disk' = [disk EXCEPT ![n] = Unwritten]
        /\ tmp' = n /\ UNCHANGED registry
        /\ promotion' = [promotion EXCEPT ![p].pc = "fill", ![p].handle = n]
  BY DEF OpenRegistry, Opened
<1>2. PICK s : s = [promotion[p] EXCEPT !.pc = "fill", !.handle = n]
  OBVIOUS
<1>3. IsPromotion(promotion[p])
  BY DEF BaselinesInv, ProcessesFit
<1>4. /\ IsPromotion(s) /\ s.pc = "fill" /\ s.run = promotion[p].run /\ s.base = promotion[p].base
      /\ s.copy = promotion[p].copy /\ s.handle = n
  BY <1>2, <1>3 DEF IsPromotion
<1>5. promotion' = [promotion EXCEPT ![p] = s]
  BY <1>1, <1>2
<1>6. disk' = [m \in File |-> disk'[m]] /\ (n \in File => disk'[n] = Unwritten)
      /\ \A m \in File \ {n} : disk'[m] = disk[m]
  BY <1>1 DEF BaselinesInv, ProcessesFit
<1>7. /\ ProcessesFit' /\ promotion'[p] = s
      /\ \A q \in Promoter \ {p} : promotion'[q] = promotion[q]
      /\ "promotion" \notin met => \A q \in Promoter \ {p} : promotion[q] = NoPromotion
      /\ met \cap {"promotion", "cleaning"} = {} => StoreFits'
      /\ \A b : Settled(b)' <=> Settled(b)
      /\ met = {} => (\A l \in Lister : listing[l].pc = "idle") /\ ~ Settled(s.base)
  BY <1>0, <1>4, <1>5, <1>6, PromoterGoesOn
<1>8. ASSUME "promotion" \notin met' PROVE RegistryFits'
  <2>1. RegistryFits
    BY <1>0, <1>8 DEF BaselinesInv
  <2>2. \A q \in Promoter : promotion[q].handle = 0
    BY <1>0, <1>7, <1>8, <2>1 DEF RegistryFits, NoPromotion
  <2>3. n \in File \ {registry}
    <3>1. CASE tmp # 0
      BY <1>1, <2>1, <3>1 DEF RegistryFits
    <3>2. CASE tmp = 0
      BY <1>1, <2>2, <3>2, AnUnusedFile
    <3> QED BY <3>1, <3>2
  <2>4. n # 0 /\ disk'[n] = Unwritten /\ (registry # 0 => disk'[registry] = disk[registry])
    BY <1>6, <2>1, <2>3, FilesAre DEF RegistryFits
  <2>5. Unwritten.state = "empty" /\ s.copy = Updated(kept, s.base, s.run)
    BY <1>0, <1>4, <2>1 DEF Unwritten, RegistryFits
  <2>6. tmp' = n /\ registry' = registry
    BY <1>1
  <2>7. \A q \in Promoter \ {p} : promotion'[q].pc = "idle"
    BY <1>0, <1>7, <1>8 DEF NoPromotion
  <2> QED BY <1>0, <1>4, <1>7, <2>1, <2>3, <2>4, <2>5, <2>6, <2>7 DEF RegistryFits, Busy
<1>9. ASSUME met' = {} PROVE FilesFit'
  <2>1. FilesFit
    BY <1>0, <1>9 DEF BaselinesInv
  <2> QED BY <1>0, <1>4, <1>7, <1>9, <2>1 DEF FilesFit, NoPromotion
<1> QED BY <1>0, <1>7, <1>8, <1>9 DEF BaselinesInv

LEMMA FillRegistryKeeps ==
  ASSUME BaselinesInv, NEW p \in Promoter, FillRegistry(p)
  PROVE  BaselinesInv'
<1>1. PICK s : s = [promotion[p] EXCEPT !.pc = "rename"]
  OBVIOUS
<1>2. /\ IsPromotion(s) /\ s.pc = "rename" /\ s.run = promotion[p].run /\ s.base = promotion[p].base
      /\ s.handle = promotion[p].handle /\ s.copy = promotion[p].copy
      /\ promotion' = [promotion EXCEPT ![p] = s]
  BY <1>1, Stepped DEF FillRegistry
<1>3. /\ Busy(p) /\ promotion[p].pc = "fill"
      /\ UNCHANGED <<listing, cleaning, evaluated, evalStore, kept, broken, met, file, manifest,
                     tmp, registry>>
  BY DEF FillRegistry, Step, Busy
<1>4. PICK text \in {Written(promotion[p].copy)}
                    \cup (IF disk[promotion[p].handle].state = "empty" THEN {} ELSE {Mixed}) :
        disk' = [disk EXCEPT ![promotion[p].handle] = text]
  BY DEF FillRegistry
<1>5. disk' = [m \in File |-> disk'[m]] /\ (s.handle \in File => disk'[s.handle] = text)
      /\ \A m \in File \ {s.handle} : disk'[m] = disk[m]
  BY <1>2, <1>4 DEF BaselinesInv, ProcessesFit
<1>6. /\ ProcessesFit' /\ promotion'[p] = s
      /\ \A q \in Promoter \ {p} : promotion'[q] = promotion[q]
      /\ "promotion" \notin met => \A q \in Promoter \ {p} : promotion[q] = NoPromotion
      /\ met \cap {"promotion", "cleaning"} = {} => StoreFits'
      /\ \A b : Settled(b)' <=> Settled(b)
      /\ met = {} => (\A l \in Lister : listing[l].pc = "idle") /\ ~ Settled(s.base)
  BY <1>2, <1>3, <1>5, PromoterGoesOn
<1>7. ASSUME "promotion" \notin met' PROVE RegistryFits'
  <2>1. RegistryFits
    BY <1>3, <1>7 DEF BaselinesInv
  <2>2. /\ s.handle = tmp /\ tmp # 0 /\ tmp \in File /\ tmp # registry
        /\ disk[promotion[p].handle].state = "empty" /\ s.copy = Updated(kept, s.base, s.run)
    BY <1>2, <1>3, <2>1 DEF RegistryFits
  <2>3. disk'[tmp] = Written(s.copy)
    BY <1>2, <1>4, <1>5, <2>2
  <2>4. registry # 0 => disk'[registry] = disk[registry]
    BY <1>5, <2>1, <2>2 DEF RegistryFits
  <2>5. \A q \in Promoter \ {p} : promotion'[q].pc = "idle"
    BY <1>3, <1>6, <1>7 DEF NoPromotion
  <2> QED BY <1>2, <1>3, <1>6, <2>1, <2>2, <2>3, <2>4, <2>5 DEF RegistryFits, Busy
<1>8. ASSUME met' = {} PROVE FilesFit'
  <2>1. FilesFit
    BY <1>3, <1>8 DEF BaselinesInv
  <2> QED BY <1>2, <1>3, <1>6, <1>8, <2>1 DEF FilesFit, NoPromotion
<1> QED BY <1>3, <1>6, <1>7, <1>8 DEF BaselinesInv

LEMMA RenameRegistryKeeps ==
  ASSUME BaselinesInv, NEW p \in Promoter, RenameRegistry(p)
  PROVE  BaselinesInv'
<1>1. /\ Busy(p) /\ promotion[p].pc = "rename"
      /\ promotion' = [promotion EXCEPT ![p] = NoPromotion]
      /\ UNCHANGED <<listing, cleaning, evaluated, evalStore, met, file, manifest, disk>>
  BY DEF RenameRegistry, Busy
<1>2. IsPromotion(NoPromotion) /\ NoPromotion.pc = "idle"
  BY DEF NoPromotion, IsPromotion
<1>3. disk' = [m \in File |-> disk'[m]]
  BY <1>1 DEF BaselinesInv, ProcessesFit
<1>4. /\ ProcessesFit' /\ promotion'[p] = NoPromotion
      /\ \A q \in Promoter \ {p} : promotion'[q] = promotion[q]
  BY <1>1, <1>2, <1>3, PromoterMoves DEF BaselinesInv
<1>5. PICK s : s = promotion[p]
  OBVIOUS
<1>6. ASSUME "promotion" \notin met
      PROVE  /\ RegistryFits /\ RegistryFits'
             /\ kept' = Updated(kept, s.base, s.run) /\ broken' = broken \ {s.base}
             /\ \A q \in Promoter : promotion'[q].pc = "idle"
  <2>1. RegistryFits
    BY <1>6 DEF BaselinesInv
  <2>2. tmp # 0 /\ tmp \in File /\ s.copy = Updated(kept, s.base, s.run) /\ disk[tmp] = Written(s.copy)
    BY <1>1, <1>5, <2>1 DEF RegistryFits
  <2>3. tmp' = 0 /\ registry' = tmp /\ kept' = Updated(kept, s.base, s.run) /\ broken' = broken \ {s.base}
    BY <1>5, <2>2 DEF RenameRegistry
  <2>4. \A q \in Promoter : promotion'[q].pc = "idle"
    BY <1>1, <1>2, <1>4, <2>1 DEF RegistryFits, Busy
  <2>5. RegistryFits'
    BY <1>1, <2>2, <2>3, <2>4 DEF RegistryFits, Busy
  <2> QED BY <2>1, <2>3, <2>4, <2>5
<1>7. ASSUME "promotion" \notin met
      PROVE  /\ DOMAIN kept' = DOMAIN kept \cup {s.base} /\ kept'[s.base] = s.run
             /\ \A b \in DOMAIN kept : b # s.base => kept'[b] = kept[b]
  <2>1. kept' = Updated(kept, s.base, s.run)
    BY <1>6, <1>7
  <2> QED BY <2>1 DEF Updated
<1>8. ASSUME met' \cap {"promotion", "cleaning"} = {} PROVE StoreFits'
  <2>1. StoreFits /\ "promotion" \notin met
    BY <1>1, <1>8 DEF BaselinesInv
  <2>2. s.run \in evalStore /\ \A c \in Cleaner : cleaning[c].pc = "idle"
    BY <1>1, <1>5, <2>1 DEF StoreFits, Promoting, Busy
  <2>3. \A b \in DOMAIN kept' : kept'[b] \in evalStore
    BY <1>7, <2>1, <2>2 DEF StoreFits
  <2> QED BY <1>1, <1>6, <2>1, <2>2, <2>3 DEF StoreFits, Busy
<1>9. ASSUME met' = {} PROVE FilesFit'
  <2>1. FilesFit /\ "promotion" \notin met
    BY <1>1, <1>9 DEF BaselinesInv
  <2>2. s.base \in DOMAIN file /\ file[s.base] = s.run /\ manifest[s.base] = Manifest(s.run, s.run)
        /\ \A l \in Lister : listing[l].pc = "idle"
    BY <1>1, <1>5, <2>1 DEF FilesFit, Promoting, Busy
  <2>3. \A b : Settled(b)' /\ b # s.base => Settled(b) /\ kept'[b] = kept[b]
    <3>1. \A q \in Promoter \ {p} : ~ Busy(q)
      BY <1>1, <1>6, <2>1 DEF RegistryFits
    <3>2. broken' = broken \ {s.base}
      BY <1>6, <2>1
    <3> QED BY <1>5, <1>7, <2>1, <3>1, <3>2 DEF Settled
  <2> QED BY <1>1, <1>6, <1>7, <2>1, <2>2, <2>3 DEF FilesFit
<1> QED BY <1>1, <1>4, <1>6, <1>8, <1>9 DEF BaselinesInv


LEMMA KillPromoterKeeps ==
  ASSUME BaselinesInv, NEW p \in Promoter, KillPromoter(p)
  PROVE  BaselinesInv'
<1>1. PICK b : b = promotion[p].base
  OBVIOUS
<1>2. /\ Busy(p) /\ promotion' = [promotion EXCEPT ![p] = NoPromotion]
      /\ broken' = broken \cup {b}
      /\ UNCHANGED <<listing, cleaning, evaluated, evalStore, met, kept, disk, tmp, registry>>
  BY <1>1 DEF KillPromoter, Busy
<1>3. \/ UNCHANGED <<file, manifest>>
      \/ UNCHANGED manifest /\ file' = Updated(file, b, Torn)
      \/ UNCHANGED file /\ manifest' = Updated(manifest, b, Manifest(Torn, Torn))
  BY <1>1 DEF KillPromoter
<1>4. /\ \A z \in DOMAIN file : z # b => z \in DOMAIN file' /\ file'[z] = file[z]
      /\ \A z \in DOMAIN manifest' : z # b => z \in DOMAIN manifest /\ manifest'[z] = manifest[z]
  <2>1. CASE UNCHANGED <<file, manifest>>
    BY <2>1
  <2>2. CASE UNCHANGED manifest /\ file' = Updated(file, b, Torn)
    BY <2>2 DEF Updated
  <2>3. CASE UNCHANGED file /\ manifest' = Updated(manifest, b, Manifest(Torn, Torn))
    BY <2>3 DEF Updated
  <2> QED BY <1>3, <2>1, <2>2, <2>3
<1>5. IsPromotion(NoPromotion) /\ NoPromotion.pc = "idle" /\ disk' = [m \in File |-> disk'[m]]
  BY <1>2 DEF NoPromotion, IsPromotion, BaselinesInv, ProcessesFit
<1>6. /\ ProcessesFit' /\ promotion'[p] = NoPromotion
      /\ \A q \in Promoter \ {p} : promotion'[q] = promotion[q]
  BY <1>2, <1>5, PromoterMoves DEF BaselinesInv
<1>7. ASSUME "promotion" \notin met'
      PROVE  RegistryFits' /\ \A q \in Promoter : promotion'[q].pc = "idle"
  <2>1. RegistryFits
    BY <1>2, <1>7 DEF BaselinesInv
  <2>2. \A q \in Promoter : promotion'[q].pc = "idle"
    BY <1>2, <1>5, <1>6, <2>1 DEF RegistryFits, Busy
  <2> QED BY <1>2, <2>1, <2>2 DEF RegistryFits, Busy
<1>8. ASSUME met' \cap {"promotion", "cleaning"} = {} PROVE StoreFits'
  <2>1. StoreFits /\ \A q \in Promoter : promotion'[q].pc = "idle"
    BY <1>2, <1>7, <1>8 DEF BaselinesInv
  <2> QED BY <1>2, <2>1 DEF StoreFits, Busy, Promoting
<1>9. ASSUME met' = {} PROVE FilesFit'
  <2>1. FilesFit /\ (\A q \in Promoter : promotion'[q].pc = "idle")
        /\ \A l \in Lister : listing[l].pc = "idle"
    BY <1>2, <1>7, <1>9 DEF BaselinesInv, FilesFit, Promoting, Busy
  <2>2. \A c : Settled(c)' => c # b /\ Settled(c)
    <3>1. \A q \in Promoter : Busy(q) => q = p
      BY <1>2, <1>9 DEF BaselinesInv, RegistryFits
    <3> QED BY <1>1, <1>2, <3>1 DEF Settled
  <2> QED BY <1>2, <1>4, <2>1, <2>2 DEF FilesFit
<1> QED BY <1>2, <1>6, <1>7, <1>8, <1>9 DEF BaselinesInv

LEMMA EvaluateKeeps ==
  ASSUME BaselinesInv, Evaluate
  PROVE  BaselinesInv'
<1>1. /\ evaluated' = evaluated + 1 /\ evalStore' = evalStore \cup {evaluated'}
      /\ UNCHANGED <<file, manifest, disk, tmp, registry, promotion, listing, cleaning, kept, broken,
                     met>>
  BY DEF Evaluate, actors
<1>2. evaluated' \in Nat /\ evalStore' \subseteq 1..evaluated'
  BY <1>1 DEF BaselinesInv, ProcessesFit
<1>3. ProcessesFit'
  BY <1>1, <1>2 DEF BaselinesInv, ProcessesFit, Busy, File
<1>4. RegistryFits => RegistryFits'
  BY <1>1 DEF RegistryFits, Busy
<1>5. StoreFits => StoreFits'
  BY <1>1 DEF StoreFits, Busy, Promoting
<1>6. FilesFit => FilesFit'
  BY <1>1 DEF FilesFit, Settled, Busy, Promoting
<1> QED BY <1>1, <1>3, <1>4, <1>5, <1>6 DEF BaselinesInv

\* A step of a lister: what it knows is what was promoted, and so is what it writes.
LEMMA ListerMoves ==
  ASSUME BaselinesInv, NEW l \in Lister, NEW s, listing' = [listing EXCEPT ![l] = s], IsListing(s),
         s.pc # "idle" \/ s = NoListing,
         UNCHANGED <<evaluated, evalStore, file, disk, tmp, registry, promotion, cleaning, kept>>,
         met \subseteq met', met' \subseteq met \cup {"listing"}, broken \subseteq broken',
         met' = {} =>
           /\ UNCHANGED manifest \/ ~ Promoting
           /\ \A b \in DOMAIN manifest' : Settled(b)' =>
                \/ b \in DOMAIN manifest /\ manifest'[b] = manifest[b]
                \/ manifest'[b] = Manifest(kept[b], kept[b])
           /\ s.pc # "idle" =>
                /\ ~ Promoting
                /\ s.base \in DOMAIN kept \ broken' =>
                     /\ s.source \in {0, kept[s.base]}
                     /\ s.pc = "backfill" => s.hash = kept[s.base] /\ s.source = kept[s.base]
  PROVE  BaselinesInv'
<1>1. listing'[l] = s /\ \A k \in Lister \ {l} : listing'[k] = listing[k]
  BY DEF BaselinesInv, ProcessesFit
<1>2. listing' = [k \in Lister |-> listing'[k]]
  BY DEF BaselinesInv, ProcessesFit
<1>3. ProcessesFit'
  <2>1. \A k \in Lister : IsListing(listing'[k]) /\ (listing'[k].pc # "idle" \/ listing'[k] = NoListing)
    BY <1>1 DEF BaselinesInv, ProcessesFit
  <2> QED BY <1>2, <2>1 DEF BaselinesInv, ProcessesFit, Busy, File
<1>4. RegistryFits => RegistryFits'
  BY DEF RegistryFits, Busy
<1>5. StoreFits => StoreFits'
  BY DEF StoreFits, Busy, Promoting
<1>6. ASSUME met' = {} PROVE FilesFit'
  <2>1. FilesFit
    BY <1>6 DEF BaselinesInv
  <2>2. \A b : Settled(b)' => Settled(b)
    BY DEF Settled, Busy
  <2>3. \A b : Settled(b)' => /\ b \in DOMAIN file' /\ file'[b] = kept'[b]
                              /\ b \in DOMAIN manifest' => manifest'[b] = Manifest(kept'[b], kept'[b])
    BY <1>6, <2>1, <2>2 DEF FilesFit
  <2>4. \A p \in Promoter :
          LET t == promotion'[p] IN
          /\ t.pc \in {"manifest", "load", "open", "fill", "rename"} =>
               t.base \in DOMAIN file' /\ file'[t.base] = t.run
          /\ t.pc \in {"load", "open", "fill", "rename"} => manifest'[t.base] = Manifest(t.run, t.run)
    BY <1>6, <2>1 DEF FilesFit, Promoting
  <2>5. ASSUME NEW k \in Lister, listing'[k].pc # "idle"
        PROVE  /\ ~ Promoting'
               /\ listing'[k].base \in DOMAIN kept' \ broken' =>
                    LET run == kept'[listing'[k].base] IN
                    /\ listing'[k].source \in {0, run}
                    /\ listing'[k].pc = "backfill" => listing'[k].hash = run /\ listing'[k].source = run
    <3>1. Promoting' <=> Promoting
      BY DEF Promoting
    <3>2. CASE k = l
      BY <1>1, <1>6, <2>5, <3>1, <3>2
    <3>3. CASE k # l
      BY <1>1, <2>1, <2>5, <3>1, <3>3 DEF FilesFit
    <3> QED BY <3>2, <3>3
  <2> QED BY <2>3, <2>4, <2>5 DEF FilesFit
<1>7. /\ "promotion" \notin met' => "promotion" \notin met
      /\ met' \cap {"promotion", "cleaning"} = {} => met \cap {"promotion", "cleaning"} = {}
  OBVIOUS
<1> QED BY <1>3, <1>4, <1>5, <1>6, <1>7 DEF BaselinesInv

LEMMA ListBaselinesKeeps ==
  ASSUME BaselinesInv, NEW l \in Lister, NEW b \in Baseline, ListBaselines(l, b)
  PROVE  BaselinesInv'
<1>1. PICK s : s = [listing[l] EXCEPT !.pc = "listed", !.base = b, !.source = Names[b]]
  OBVIOUS
<1>2. IsListing(listing[l])
  BY DEF BaselinesInv, ProcessesFit
<1>3. IsListing(s) /\ s.pc = "listed" /\ s.base = b /\ s.source = Names[b]
  BY <1>1, <1>2 DEF IsListing
<1>4. /\ listing' = [listing EXCEPT ![l] = s] /\ b \in DOMAIN Names
      /\ UNCHANGED <<evaluated, evalStore, file, manifest, disk, tmp, registry, promotion, cleaning,
                     kept, broken>>
      /\ met \subseteq met' /\ met' \subseteq met \cup {"listing"} /\ (met' = {} => ~ Promoting)
  BY <1>1 DEF ListBaselines, Meets
<1>5. met' = {} => s.source = kept[b]
  BY <1>3, <1>4, NamesAreKept DEF BaselinesInv
<1> QED BY <1>3, <1>4, <1>5, ListerMoves

LEMMA CompareWithKeeps ==
  ASSUME BaselinesInv, NEW l \in Lister, NEW b \in Baseline, CompareWith(l, b)
  PROVE  BaselinesInv'
<1>1. PICK s : s = [listing[l] EXCEPT !.pc = "listed", !.base = b]
  OBVIOUS
<1>2. IsListing(listing[l]) /\ listing[l] = NoListing
  BY DEF BaselinesInv, ProcessesFit, CompareWith
<1>3. IsListing(s) /\ s.pc = "listed" /\ s.base = b /\ s.source = 0
  <2>1. listing[l].source = 0
    BY <1>2 DEF NoListing
  <2> QED BY <1>1, <1>2, <2>1 DEF IsListing
<1>4. /\ listing' = [listing EXCEPT ![l] = s]
      /\ UNCHANGED <<evaluated, evalStore, file, manifest, disk, tmp, registry, promotion, cleaning,
                     kept, broken>>
      /\ met \subseteq met' /\ met' \subseteq met \cup {"listing"} /\ (met' = {} => ~ Promoting)
  BY <1>1 DEF CompareWith, Meets
<1> QED BY <1>3, <1>4, ListerMoves

\* What a lister finds while nothing overlaps with a promotion.
LEMMA ListedIsSettled ==
  ASSUME BaselinesInv, met = {}, NEW l \in Lister, listing[l].pc # "idle",
         listing[l].base \in DOMAIN kept \ broken
  PROVE  Settled(listing[l].base) /\ file[listing[l].base] = kept[listing[l].base]
<1>1. FilesFit
  BY DEF BaselinesInv
<1>2. Settled(listing[l].base)
  BY <1>1 DEF FilesFit, Settled, Promoting, Busy
<1> QED BY <1>1, <1>2 DEF FilesFit

LEMMA ValidateKeeps ==
  ASSUME BaselinesInv, NEW l \in Lister, Validate(l)
  PROVE  BaselinesInv'
<1>1. PICK o : o = listing[l]
  OBVIOUS
<1>2. IsListing(o) /\ o.pc = "listed"
  BY <1>1 DEF BaselinesInv, ProcessesFit, Validate
<1>3. UNCHANGED <<evaluated, evalStore, file, manifest, disk, tmp, registry, promotion, cleaning,
                  kept, broken, met>>
  BY DEF Validate
<1>4. CASE listing' = [listing EXCEPT ![l] = NoListing]
  <2>1. IsListing(NoListing) /\ NoListing.pc = "idle"
    BY DEF IsListing, NoListing
  <2> QED BY <1>3, <1>4, <2>1, ListerMoves
<1>5. CASE ~ (o.base \in DOMAIN manifest \/ (file[o.base] = Torn /\ o.source = 0))
  <2>1. PICK s : s = [o EXCEPT !.pc = "backfill", !.hash = file[o.base],
                               !.source = IF @ = 0 THEN file[o.base] ELSE @]
    OBVIOUS
  <2>2. /\ IsListing(s) /\ s.pc = "backfill" /\ s.hash = file[o.base] /\ s.base = o.base
        /\ s.source = IF o.source = 0 THEN file[o.base] ELSE o.source
    BY <1>2, <2>1 DEF IsListing
  <2>3. listing' = [listing EXCEPT ![l] = s]
    BY <1>1, <1>5, <2>1 DEF Validate
  <2>4. ASSUME met = {}
        PROVE  /\ ~ Promoting
               /\ s.base \in DOMAIN kept \ broken => s.hash = kept[s.base] /\ s.source = kept[s.base]
    <3>1. FilesFit
      BY <2>4 DEF BaselinesInv
    <3>2. ~ Promoting /\ (o.base \in DOMAIN kept \ broken => o.source \in {0, kept[o.base]})
      BY <1>1, <1>2, <3>1 DEF FilesFit
    <3>3. o.base \in DOMAIN kept \ broken => file[o.base] = kept[o.base]
      BY <1>1, <1>2, <2>4, ListedIsSettled
    <3> QED BY <2>2, <3>2, <3>3
  <2> QED BY <1>3, <2>2, <2>3, <2>4, ListerMoves
<1> QED BY <1>1, <1>4, <1>5 DEF Validate

LEMMA BackfillKeeps ==
  ASSUME BaselinesInv, NEW l \in Lister, NEW killed \in BOOLEAN, Backfill(l, killed)
  PROVE  BaselinesInv'
<1>1. PICK o, m : o = listing[l] /\ m = IF killed THEN Manifest(Torn, Torn) ELSE Manifest(o.hash, o.source)
  OBVIOUS
<1>2. /\ o.pc = "backfill" /\ listing' = [listing EXCEPT ![l] = NoListing]
      /\ manifest' = Updated(manifest, o.base, m)
      /\ broken' = IF killed THEN broken \cup {o.base} ELSE broken
      /\ UNCHANGED <<evaluated, evalStore, file, disk, tmp, registry, promotion, cleaning, kept, met>>
  BY <1>1 DEF Backfill
<1>3. \A z \in DOMAIN manifest' :
        IF z = o.base THEN manifest'[z] = m ELSE z \in DOMAIN manifest /\ manifest'[z] = manifest[z]
  BY <1>2 DEF Updated
<1>4. IsListing(NoListing) /\ NoListing.pc = "idle"
  BY DEF IsListing, NoListing
<1>5. ASSUME met = {}
      PROVE  ~ Promoting /\ (Settled(o.base)' => m = Manifest(kept[o.base], kept[o.base]))
  <2>1. FilesFit
    BY <1>5 DEF BaselinesInv
  <2>2. /\ ~ Promoting
        /\ o.base \in DOMAIN kept \ broken => o.hash = kept[o.base] /\ o.source = kept[o.base]
    BY <1>1, <1>2, <2>1 DEF FilesFit
  <2>3. Settled(o.base)' => ~ killed /\ o.base \in DOMAIN kept \ broken
    BY <1>2 DEF Settled
  <2> QED BY <1>1, <2>2, <2>3
<1> QED BY <1>2, <1>3, <1>4, <1>5, ListerMoves

\* A step of a clean-up.
LEMMA CleanerMoves ==
  ASSUME BaselinesInv, NEW c \in Cleaner, NEW s, cleaning' = [cleaning EXCEPT ![c] = s], IsCleaning(s),
         UNCHANGED <<evaluated, file, manifest, disk, tmp, registry, promotion, listing, kept, broken>>,
         evalStore' \subseteq evalStore, met \subseteq met', met' \subseteq met \cup {"cleaning"},
         met' \cap {"promotion", "cleaning"} = {} => StoreFits'
  PROVE  BaselinesInv'
<1>1. cleaning' = [d \in Cleaner |-> cleaning'[d]] /\ \A d \in Cleaner : IsCleaning(cleaning'[d])
  BY DEF BaselinesInv, ProcessesFit
<1>2. ProcessesFit'
  BY <1>1 DEF BaselinesInv, ProcessesFit, Busy, File
<1>3. RegistryFits => RegistryFits'
  BY DEF RegistryFits, Busy
<1>4. FilesFit => FilesFit'
  BY DEF FilesFit, Settled, Busy, Promoting
<1>5. ("promotion" \notin met' => "promotion" \notin met) /\ (met' = {} => met = {})
  OBVIOUS
<1> QED BY <1>2, <1>3, <1>4, <1>5 DEF BaselinesInv

LEMMA StartCleaningKeeps ==
  ASSUME BaselinesInv, NEW c \in Cleaner, NEW keep, StartCleaning(c, keep)
  PROVE  BaselinesInv'
<1>1. PICK s : s = [pc |-> "delete", doomed |-> Doomed(keep)]
  OBVIOUS
<1>2. IsCleaning(s) /\ s.doomed = Doomed(keep)
  BY <1>1 DEF IsCleaning
<1>3. /\ cleaning' = [cleaning EXCEPT ![c] = s]
      /\ UNCHANGED <<evaluated, evalStore, file, manifest, disk, tmp, registry, promotion, listing, kept,
                     broken>>
      /\ met \subseteq met' /\ met' \subseteq met \cup {"cleaning"}
      /\ "cleaning" \notin met' => ~ Promoting
  BY <1>1 DEF StartCleaning, Meets
<1>4. ASSUME met' \cap {"promotion", "cleaning"} = {} PROVE StoreFits'
  <2>1. StoreFits /\ Names = kept /\ ~ Promoting
    BY <1>3, <1>4, NamesAreKept DEF BaselinesInv
  <2>2. \A b \in DOMAIN kept : kept[b] \notin s.doomed
    BY <1>2, <2>1 DEF Doomed
  <2>3. cleaning'[c] = s /\ \A d \in Cleaner \ {c} : cleaning'[d] = cleaning[d]
    BY <1>3 DEF BaselinesInv, ProcessesFit
  <2> QED BY <1>3, <2>1, <2>2, <2>3 DEF StoreFits, Busy, Promoting
<1> QED BY <1>2, <1>3, <1>4, CleanerMoves

LEMMA DeleteRunsKeeps ==
  ASSUME BaselinesInv, NEW c \in Cleaner, DeleteRuns(c)
  PROVE  BaselinesInv'
<1>1. /\ cleaning[c].pc = "delete" /\ evalStore' = evalStore \ cleaning[c].doomed
      /\ cleaning' = [cleaning EXCEPT ![c] = NoCleaning]
      /\ UNCHANGED <<evaluated, file, manifest, disk, tmp, registry, promotion, listing, kept, broken,
                     met>>
  BY DEF DeleteRuns
<1>2. IsCleaning(NoCleaning) /\ NoCleaning.pc = "idle"
  BY DEF IsCleaning, NoCleaning
<1>3. ASSUME met' \cap {"promotion", "cleaning"} = {} PROVE StoreFits'
  <2>1. StoreFits
    BY <1>1, <1>3 DEF BaselinesInv
  <2>2. ~ Promoting /\ \A b \in DOMAIN kept : kept[b] \notin cleaning[c].doomed
    BY <1>1, <2>1 DEF StoreFits
  <2>3. cleaning'[c] = NoCleaning /\ \A d \in Cleaner \ {c} : cleaning'[d] = cleaning[d]
    BY <1>1 DEF BaselinesInv, ProcessesFit
  <2> QED BY <1>1, <1>2, <2>1, <2>2, <2>3 DEF StoreFits, Busy, Promoting
<1> QED BY <1>1, <1>2, <1>3, CleanerMoves

LEMMA BaselinesKept == BaselinesInv /\ [BaselinesNext]_baselineVars => BaselinesInv'
<1> SUFFICES ASSUME BaselinesInv, [BaselinesNext]_baselineVars PROVE BaselinesInv'
  OBVIOUS
<1>1. CASE Evaluate
  BY <1>1, EvaluateKeeps
<1>2. ASSUME NEW p \in Promoter, NEW r \in evalStore, NEW b \in Baseline, PromoteRun(p, r, b)
      PROVE  BaselinesInv'
  BY <1>2, PromoteRunKeeps
<1>3. ASSUME NEW p \in Promoter,
             CopyRun(p) \/ WriteManifest(p) \/ LoadRegistry(p) \/ OpenRegistry(p) \/ FillRegistry(p)
             \/ RenameRegistry(p) \/ KillPromoter(p)
      PROVE  BaselinesInv'
  BY <1>3, CopyRunKeeps, WriteManifestKeeps, LoadRegistryKeeps, OpenRegistryKeeps, FillRegistryKeeps,
     RenameRegistryKeeps, KillPromoterKeeps
<1>4. ASSUME NEW l \in Lister, NEW b \in Baseline, ListBaselines(l, b) \/ CompareWith(l, b)
      PROVE  BaselinesInv'
  BY <1>4, ListBaselinesKeeps, CompareWithKeeps
<1>5. ASSUME NEW l \in Lister, Validate(l) \/ \E killed \in BOOLEAN : Backfill(l, killed)
      PROVE  BaselinesInv'
  BY <1>5, ValidateKeeps, BackfillKeeps
<1>6. ASSUME NEW c \in Cleaner, DeleteRuns(c) \/ \E keep \in 0..1 : StartCleaning(c, keep)
      PROVE  BaselinesInv'
  BY <1>6, DeleteRunsKeeps, StartCleaningKeeps
<1>7. CASE UNCHANGED baselineVars
  BY <1>7 DEF baselineVars, BaselinesInv, ProcessesFit, RegistryFits, StoreFits, FilesFit, Settled,
              Busy, Promoting, File
<1> QED BY <1>1, <1>2, <1>3, <1>4, <1>5, <1>6, <1>7 DEF BaselinesNext

LEMMA KeptMeansKept == BaselinesInv => PromotionsKept
<1> SUFFICES ASSUME BaselinesInv PROVE PromotionsKept
  OBVIOUS
<1>1. "promotion" \notin met => RegistryReadable /\ Names = kept
  BY NamesAreKept DEF BaselinesInv
<1>2. SourcesStay
  BY <1>1 DEF SourcesStay, BaselinesInv, StoreFits
<1>3. ASSUME met = {}, NEW b \in DOMAIN Names \ broken, \A p \in Promoter : promotion[p].base # b
      PROVE  /\ file[b] = Names[b]
             /\ b \in DOMAIN manifest => Valid(b) /\ manifest[b].source = Names[b]
  <2>1. Names = kept /\ FilesFit /\ StoreFits
    BY <1>1, <1>3 DEF BaselinesInv
  <2>2. Settled(b)
    BY <1>3, <2>1 DEF Settled
  <2>3. file[b] = kept[b] /\ (b \in DOMAIN manifest => manifest[b] = Manifest(kept[b], kept[b]))
    BY <2>1, <2>2 DEF FilesFit
  <2>4. kept[b] \in 1..evaluated /\ evaluated \in Nat
    BY <1>3, <2>1 DEF StoreFits, BaselinesInv, ProcessesFit
  <2>5. kept[b] # Torn
    BY <2>4 DEF Torn
  <2> QED BY <2>1, <2>3, <2>5 DEF Valid, Manifest
<1>4. ValidIsPromoted
  BY <1>3 DEF ValidIsPromoted
<1> QED BY <1>1, <1>2, <1>4 DEF PromotionsKept, RegistryWhole

\* Promotions, listings, clean-ups and kills of any number of processes: a registry that
\* was written by one promoter at a time names what was promoted, a clean-up that met no
\* promotion spares the runs it names, and where nothing met a promotion a baseline
\* that validates is the run it is said to be.
THEOREM PromotionsAreKept == BaselinesSpec => []PromotionsKept
<1>1. BaselinesSpec => []BaselinesInv
  BY BaselinesInitially, BaselinesKept, PTL DEF BaselinesSpec
<1> QED BY <1>1, KeptMeansKept, PTL
=============================================================================
