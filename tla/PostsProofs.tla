----------------------------- MODULE PostsProofs -----------------------------
(***************************************************************************)
(* Proofs about Channel and Posts: what the operations on the vector of    *)
(* posts return, and the invariants of any number of processes that need   *)
(* not be quiet: sorted vectors, archived posts, views counted once.       *)
(***************************************************************************)
EXTENDS Posts, Ordering

\* What Sorted says of one vector.
ById(ps) == \A i, j \in DOMAIN ps : i < j => ps[i].id <= ps[j].id

LEMMA IdsAreNumbers == Id \subseteq Nat
  BY PostsAssumption

LEMMA PlaceTypes ==
  ASSUME NEW c \in Seq(Post)
  PROVE  /\ Len(c) \in Nat /\ DOMAIN c = 1 .. Len(c)
         /\ \A i \in DOMAIN c : c[i] \in Post /\ c[i].id \in Nat /\ i \in Nat
<1>1. Len(c) \in Nat /\ DOMAIN c = 1 .. Len(c)
  OBVIOUS
<1>2. \A i \in DOMAIN c : c[i] \in Post
  OBVIOUS
<1>3. \A p \in Post : p.id \in Nat
  BY IdsAreNumbers DEF Post
<1> QED BY <1>1, <1>2, <1>3

-----------------------------------------------------------------------------
(* add_post() sorts and loses nothing.                                     *)

\* The place i of c comes before the place j in the order by id and place.
Precedes(c, i, j) == c[i].id < c[j].id \/ (c[i].id = c[j].id /\ i < j)
UpTo(c, i) ==
  {j \in DOMAIN c : c[j].id < c[i].id \/ (c[j].id = c[i].id /\ j <= i)}

LEMMA UpToFinite ==
  ASSUME NEW c \in Seq(Post), NEW i \in DOMAIN c
  PROVE  /\ IsFiniteSet(UpTo(c, i)) /\ UpTo(c, i) \in SUBSET (1 .. Len(c))
         /\ Rank(c, i) = Cardinality(UpTo(c, i)) /\ Rank(c, i) \in 1 .. Len(c)
<1>1. Len(c) \in Nat /\ DOMAIN c = 1 .. Len(c)
  OBVIOUS
<1>2. UpTo(c, i) \in SUBSET (1 .. Len(c)) /\ i \in UpTo(c, i)
  BY PlaceTypes DEF UpTo
<1>3. IsFiniteSet(1 .. Len(c)) /\ Cardinality(1 .. Len(c)) = Len(c)
  <2>1. 1 \in Int /\ Len(c) \in Int
    BY <1>1
  <2>2. /\ IsFiniteSet(1 .. Len(c))
        /\ Cardinality(1 .. Len(c)) = IF 1 > Len(c) THEN 0 ELSE Len(c) - 1 + 1
    BY <2>1, FS_Interval
  <2> QED BY <1>1, <2>2
<1>4. IsFiniteSet(UpTo(c, i)) /\ Cardinality(UpTo(c, i)) <= Len(c)
  BY <1>2, <1>3, FS_Subset
<1>5. Cardinality(UpTo(c, i)) \in Nat /\ Cardinality(UpTo(c, i)) # 0
  BY <1>2, <1>4, FS_CardinalityType, FS_EmptySet
<1>6. Rank(c, i) = Cardinality(UpTo(c, i))
  BY DEF Rank, UpTo
<1> QED BY <1>1, <1>2, <1>4, <1>5, <1>6

LEMMA RankFollowsOrder ==
  ASSUME NEW c \in Seq(Post), NEW i \in DOMAIN c, NEW j \in DOMAIN c,
         Precedes(c, i, j)
  PROVE  Rank(c, i) < Rank(c, j)
<1>1. Len(c) \in Nat /\ DOMAIN c = 1 .. Len(c)
  BY PlaceTypes
<1>2. \A k \in DOMAIN c : c[k].id \in Nat /\ k \in Nat
  BY PlaceTypes
<1>3. UpTo(c, i) \in SUBSET UpTo(c, j)
  BY <1>2 DEF UpTo, Precedes
<1>4. j \in UpTo(c, j) /\ j \notin UpTo(c, i)
  BY <1>2 DEF UpTo, Precedes
<1>5. IsFiniteSet(UpTo(c, i)) /\ IsFiniteSet(UpTo(c, j))
  BY UpToFinite
<1>6. /\ Cardinality(UpTo(c, i)) <= Cardinality(UpTo(c, j))
      /\ Cardinality(UpTo(c, i)) # Cardinality(UpTo(c, j))
  BY <1>3, <1>4, <1>5, FS_Subset
<1>7. Rank(c, i) \in Nat /\ Rank(c, j) \in Nat
  BY <1>1, UpToFinite
<1> QED BY <1>6, <1>7, UpToFinite

LEMMA OrderTotal ==
  ASSUME NEW c \in Seq(Post), NEW i \in DOMAIN c, NEW j \in DOMAIN c, i # j
  PROVE  Precedes(c, i, j) \/ Precedes(c, j, i)
<1>1. c[i].id \in Nat /\ c[j].id \in Nat /\ i \in Nat /\ j \in Nat
  BY PlaceTypes
<1> QED BY <1>1 DEF Precedes

\* Every place of the sorted vector is the rank of exactly one post.
LEMMA RankIsBijection ==
  ASSUME NEW c \in Seq(Post)
  PROVE  LET f == [i \in DOMAIN c |-> Rank(c, i)]
         IN  f \in Bijection(DOMAIN c, DOMAIN c)
<1> DEFINE f == [i \in DOMAIN c |-> Rank(c, i)]
<1>1. Len(c) \in Nat /\ DOMAIN c = 1 .. Len(c)
  OBVIOUS
<1>2. f \in [DOMAIN c -> DOMAIN c]
  BY <1>1, UpToFinite
<1>3. \A i, j \in DOMAIN c : i # j => f[i] # f[j]
  <2>1. TAKE i, j \in DOMAIN c
  <2>2. HAVE i # j
  <2>3. Rank(c, i) < Rank(c, j) \/ Rank(c, j) < Rank(c, i)
    BY <2>2, OrderTotal, RankFollowsOrder
  <2>4. Rank(c, i) \in Int /\ Rank(c, j) \in Int
    BY <1>1, UpToFinite
  <2> QED BY <2>3, <2>4
<1> HIDE DEF f
<1>4. f \in Injection(DOMAIN c, DOMAIN c)
  BY <1>2, <1>3 DEF Injection, IsInjective
<1>5. IsFiniteSet(DOMAIN c)
  BY <1>1, FS_Interval
<1>6. f \in Surjection(DOMAIN c, DOMAIN c)
  BY <1>4, <1>5, FS_Injection
<1>7. f \in Bijection(DOMAIN c, DOMAIN c)
  BY <1>4, <1>6 DEF Bijection
<1> QED BY <1>7 DEF f

\* add_post(): whatever is added in whatever order to a vector, the result holds
\* each post of both exactly once, and it is sorted by id.
THEOREM AddPostsSorts ==
  ASSUME NEW ps \in Seq(Post), NEW new \in Seq(Post)
  PROVE  LET c == ps \o new
             d == AddPosts(ps, new)
         IN  /\ d \in Seq(Post) /\ ById(d)
             /\ \E f \in Bijection(DOMAIN c, DOMAIN d) :
                  \A i \in DOMAIN c : d[f[i]] = c[i]
<1> DEFINE c == ps \o new
           d == AddPosts(ps, new)
           f == [i \in DOMAIN c |-> Rank(c, i)]
           at(k) == CHOOSE i \in DOMAIN c : Rank(c, i) = k
<1>1. c \in Seq(Post)
  OBVIOUS
<1>2. d = [k \in DOMAIN c |-> c[at(k)]]
  BY DEF AddPosts
<1> HIDE DEF c, d
<1>3. Len(c) \in Nat /\ DOMAIN c = 1 .. Len(c)
  BY <1>1, PlaceTypes
<1>4. f \in Bijection(DOMAIN c, DOMAIN c)
  BY <1>1, RankIsBijection
<1>5. ASSUME NEW k \in DOMAIN c PROVE at(k) \in DOMAIN c /\ Rank(c, at(k)) = k
  <2>1. \E i \in DOMAIN c : f[i] = k
    BY <1>4 DEF Bijection, Surjection
  <2>2. \E i \in DOMAIN c : Rank(c, i) = k
    BY <2>1
  <2> QED BY <2>2
<1>6. ASSUME NEW i \in DOMAIN c PROVE Rank(c, i) \in DOMAIN c /\ at(Rank(c, i)) = i
  <2>1. f \in Injection(DOMAIN c, DOMAIN c)
    BY <1>4 DEF Bijection
  <2>2. \A a, b \in DOMAIN c : f[a] = f[b] => a = b
    BY <2>1 DEF Injection, IsInjective
  <2>3. f[i] \in DOMAIN c /\ f[i] = Rank(c, i)
    BY <2>1 DEF Injection
  <2>4. at(f[i]) \in DOMAIN c /\ f[at(f[i])] = f[i]
    BY <1>5, <2>3
  <2> HIDE DEF at
  <2>5. at(f[i]) = i
    BY <2>2, <2>4
  <2> QED BY <2>3, <2>5
<1> HIDE DEF at
<1>7. d \in Seq(Post) /\ DOMAIN d = DOMAIN c
  <2>1. \A k \in DOMAIN c : c[at(k)] \in Post
    BY <1>1, <1>5, PlaceTypes
  <2>2. d \in [1 .. Len(c) -> Post]
    BY <1>2, <1>3, <2>1
  <2> QED BY <1>3, <2>2
<1>8. ById(d)
  <2>1. SUFFICES ASSUME NEW k \in DOMAIN c, NEW l \in DOMAIN c, k < l
                 PROVE  d[k].id <= d[l].id
    BY <1>7 DEF ById
  <2>2. /\ at(k) \in DOMAIN c /\ at(l) \in DOMAIN c
        /\ Rank(c, at(k)) = k /\ Rank(c, at(l)) = l
    BY <1>5
  <2>3. ~ Precedes(c, at(l), at(k))
    <3>1. ~(l < k)
      BY <1>3, <2>1
    <3> QED BY <1>1, <2>2, <3>1, RankFollowsOrder
  <2>4. c[at(k)].id \in Nat /\ c[at(l)].id \in Nat
    BY <1>1, <2>2, PlaceTypes
  <2>5. c[at(k)].id <= c[at(l)].id
    BY <2>3, <2>4 DEF Precedes
  <2> QED BY <1>2, <2>5
<1>9. \A i \in DOMAIN c : d[f[i]] = c[i]
  BY <1>2, <1>6
<1> HIDE DEF f
<1>10. /\ d \in Seq(Post) /\ ById(d)
       /\ \E g \in Bijection(DOMAIN c, DOMAIN d) : \A i \in DOMAIN c : d[g[i]] = c[i]
  BY <1>4, <1>7, <1>8, <1>9
<1> QED BY <1>10 DEF c, d

-----------------------------------------------------------------------------
(* The operations that look a post up.                                     *)

\* find_if(): the first place with the id, or 0.
LEMMA PlaceFinds ==
  ASSUME NEW ps \in Seq(Post), NEW id
  PROVE  /\ Place(ps, id) # 0 =>
              Place(ps, id) \in DOMAIN ps /\ ps[Place(ps, id)].id = id
         /\ Place(ps, id) = 0 => \A i \in DOMAIN ps : ps[i].id # id
<1> DEFINE I == {i \in 1 .. Len(ps) : ps[i].id = id}
<1>1. Len(ps) \in Nat /\ DOMAIN ps = 1 .. Len(ps) /\ I \in SUBSET Nat
  OBVIOUS
<1>2. Place(ps, id) = IF I # {} THEN Min(I) ELSE 0
  BY DEF Place, SelectInSeq
<1>3. ASSUME I # {} PROVE Min(I) \in I
  <2>1. PICK m \in I : \A k \in I : <<k, m>> \notin OpToRel(<, Nat)
    BY <1>1, <1>3, WFMin, NatLessThanWellFounded, Zenon
  <2>2. \A k \in I : m <= k
    <3>1. \A k \in I : ~(k < m)
      BY <1>1, <2>1, Zenon DEF OpToRel
    <3> QED BY <1>1, <3>1
  <2> QED BY <2>2 DEF Min
<1>4. 0 \notin I
  OBVIOUS
<1>5. CASE I # {}
  BY <1>2, <1>3, <1>4, <1>5
<1>6. CASE I = {}
  BY <1>1, <1>2, <1>6
<1> QED BY <1>5, <1>6

LEMMA RemoveAtPlaces ==
  ASSUME NEW ps \in Seq(Post), NEW i \in DOMAIN ps
  PROVE  LET d == RemoveAt(ps, i)
         IN  /\ d \in Seq(Post) /\ Len(d) = Len(ps) - 1
             /\ \A k \in 1 .. Len(d) : d[k] = IF k < i THEN ps[k] ELSE ps[k + 1]
<1> DEFINE d == RemoveAt(ps, i)
<1>1. Len(ps) \in Nat /\ DOMAIN ps = 1 .. Len(ps) /\ i \in 1 .. Len(ps)
  OBVIOUS
<1>2. d = SubSeq(ps, 1, i - 1) \o SubSeq(ps, i + 1, Len(ps))
  BY DEF RemoveAt
<1> HIDE DEF d
<1> DEFINE front == SubSeq(ps, 1, i - 1)
           back == SubSeq(ps, i + 1, Len(ps))
<1>3. /\ front \in Seq(Post) /\ Len(front) = i - 1
      /\ \A k \in 1 .. i - 1 : front[k] = ps[k]
  <2>1. /\ front \in Seq(Post)
        /\ Len(front) = IF 1 <= i - 1 THEN i - 1 - 1 + 1 ELSE 0
        /\ \A k \in 1 .. i - 1 - 1 + 1 : front[k] = ps[1 + k - 1]
    <3>1. 1 \in Int /\ i - 1 \in Int /\ \A k \in 1 .. i - 1 : ps[k] \in Post
      BY <1>1
    <3> QED BY <3>1, SubSeqProperties
  <2> HIDE DEF front
  <2> QED BY <1>1, <2>1
<1>4. /\ back \in Seq(Post) /\ Len(back) = Len(ps) - i
      /\ \A k \in 1 .. Len(ps) - i : back[k] = ps[i + k]
  <2>1. /\ back \in Seq(Post)
        /\ Len(back) = IF i + 1 <= Len(ps) THEN Len(ps) - (i + 1) + 1 ELSE 0
        /\ \A k \in 1 .. Len(ps) - (i + 1) + 1 : back[k] = ps[i + 1 + k - 1]
    <3>1. i + 1 \in Int /\ Len(ps) \in Int /\ \A k \in i + 1 .. Len(ps) : ps[k] \in Post
      BY <1>1
    <3> QED BY <3>1, SubSeqProperties
  <2> HIDE DEF back
  <2>2. \A k \in 1 .. Len(ps) - i : back[k] = ps[i + k]
    <3>1. TAKE k \in 1 .. Len(ps) - i
    <3>2. i + 1 + k - 1 = i + k /\ k \in 1 .. Len(ps) - (i + 1) + 1
      BY <1>1
    <3> QED BY <2>1, <3>2
  <2>3. Len(back) = Len(ps) - i
    <3>1. CASE i + 1 <= Len(ps)
      <4>1. Len(back) = Len(ps) - (i + 1) + 1
        BY <2>1, <3>1
      <4> QED BY <1>1, <4>1
    <3>2. CASE ~(i + 1 <= Len(ps))
      <4>1. Len(back) = 0
        BY <2>1, <3>2
      <4>2. i = Len(ps)
        <5>1. i \in Int /\ Len(ps) \in Int /\ i <= Len(ps)
          BY <1>1
        <5> QED BY <3>2, <5>1
      <4>3. Len(ps) - i = 0
        BY <1>1, <4>2
      <4> QED BY <4>1, <4>3
    <3> QED BY <3>1, <3>2
  <2> QED BY <2>1, <2>2, <2>3
<1> HIDE DEF front, back
<1>5. /\ d \in Seq(Post) /\ Len(d) = Len(ps) - 1
      /\ \A k \in 1 .. Len(d) : d[k] = IF k < i THEN ps[k] ELSE ps[k + 1]
  <2>0. d = front \o back
    BY <1>2 DEF front, back
  <2>1. /\ d \in Seq(Post) /\ Len(d) = (i - 1) + (Len(ps) - i)
        /\ \A k \in 1 .. (i - 1) + (Len(ps) - i) :
             d[k] = IF k <= i - 1 THEN front[k] ELSE back[k - (i - 1)]
    <3>1. /\ front \o back \in Seq(Post)
          /\ Len(front \o back) = Len(front) + Len(back)
          /\ \A k \in 1 .. Len(front) + Len(back) :
               (front \o back)[k] =
                  IF k <= Len(front) THEN front[k] ELSE back[k - Len(front)]
      BY <1>3, <1>4, ConcatProperties
    <3>2. Len(front) = i - 1 /\ Len(back) = Len(ps) - i
      BY <1>3, <1>4
    <3> QED BY <2>0, <3>1, <3>2, Zenon
  <2>2. Len(d) = Len(ps) - 1
    BY <1>1, <2>1
  <2>3. ASSUME NEW k \in 1 .. Len(d), k < i PROVE d[k] = ps[k]
    BY <1>1, <1>3, <2>1, <2>2, <2>3
  <2>4. ASSUME NEW k \in 1 .. Len(d), ~(k < i) PROVE d[k] = ps[k + 1]
    <3>1. k - (i - 1) \in 1 .. Len(ps) - i
      BY <1>1, <2>2, <2>4
    <3>2. d[k] = back[k - (i - 1)]
      BY <1>1, <2>1, <2>2, <2>4
    <3>3. d[k] = ps[i + (k - (i - 1))]
      BY <1>4, <3>1, <3>2
    <3>4. i + (k - (i - 1)) = k + 1
      BY <1>1, <2>2
    <3> QED BY <3>3, <3>4
  <2> QED BY <2>1, <2>2, <2>3, <2>4
<1> QED BY <1>5 DEF d

LEMMA RemovePostKeeps ==
  ASSUME NEW ps \in Seq(Post), ById(ps), NEW id, NEW from,
         NEW ignore_owner \in BOOLEAN
  PROVE  LET d == RemovePost(ps, id, from, ignore_owner)
         IN  /\ d \in Seq(Post) /\ ById(d)
             /\ \A k \in DOMAIN d : \E j \in DOMAIN ps : d[k] = ps[j]
<1> DEFINE i == Place(ps, id)
           d == RemovePost(ps, id, from, ignore_owner)
<1>1. CASE i # 0 /\ (ps[i].from = from \/ ignore_owner)
  <2>1. Len(ps) \in Nat /\ DOMAIN ps = 1 .. Len(ps) /\ i \in 1 .. Len(ps)
    BY <1>1, PlaceFinds
  <2>2. d = RemoveAt(ps, i)
    BY <1>1 DEF RemovePost
  <2> HIDE DEF i, d
  <2>3. /\ d \in Seq(Post) /\ Len(d) = Len(ps) - 1
        /\ \A k \in 1 .. Len(d) : d[k] = IF k < i THEN ps[k] ELSE ps[k + 1]
    BY <2>1, <2>2, RemoveAtPlaces
  <2>4. ById(d)
    <3>1. SUFFICES ASSUME NEW k \in 1 .. Len(d), NEW l \in 1 .. Len(d), k < l
                   PROVE  d[k].id <= d[l].id
      BY <2>3 DEF ById
    <3> DEFINE a == IF k < i THEN k ELSE k + 1
               b == IF l < i THEN l ELSE l + 1
    <3>2. a \in DOMAIN ps /\ b \in DOMAIN ps /\ a < b
      BY <2>1, <2>3, <3>1
    <3>3. d[k] = ps[a] /\ d[l] = ps[b]
      BY <2>3
    <3> QED BY <3>2, <3>3 DEF ById
  <2>5. \A k \in DOMAIN d : \E j \in DOMAIN ps : d[k] = ps[j]
    <3>1. ASSUME NEW k \in DOMAIN d PROVE \E j \in DOMAIN ps : d[k] = ps[j]
      <4>1. k \in 1 .. Len(d)
        BY <2>3
      <4>2. k \in DOMAIN ps /\ k + 1 \in DOMAIN ps
        BY <2>1, <2>3, <4>1
      <4> QED BY <2>3, <4>1, <4>2
    <3> QED BY <3>1
  <2> QED BY <2>3, <2>4, <2>5 DEF d
<1>2. CASE ~(i # 0 /\ (ps[i].from = from \/ ignore_owner))
  BY <1>2 DEF RemovePost
<1> QED BY <1>1, <1>2

\* The counters change, the posts stay where they are.
SameIds(ps, d) == DOMAIN d = DOMAIN ps /\ \A k \in DOMAIN ps : d[k].id = ps[k].id

LEMMA SamePlacesSorted ==
  ASSUME NEW ps \in Seq(Post), ById(ps), NEW d, SameIds(ps, d)
  PROVE  ById(d)
  BY DEF ById, SameIds

LEMMA OnVisualizationKeeps ==
  ASSUME NEW ps \in Seq(Post), ById(ps), NEW id
  PROVE  LET d == OnVisualization(ps, id)
         IN  d \in Seq(Post) /\ ById(d) /\ SameIds(ps, d)
<1> DEFINE i == Place(ps, id)
           d == OnVisualization(ps, id)
<1>1. CASE i = 0
  BY <1>1 DEF OnVisualization, SameIds
<1>2. CASE i # 0
  <2>1. i \in DOMAIN ps /\ Len(ps) \in Nat /\ DOMAIN ps = 1 .. Len(ps)
    BY <1>2, PlaceFinds
  <2>2. d = [ps EXCEPT ![i].visualizations = @ + 1]
    BY <1>2 DEF OnVisualization
  <2> HIDE DEF i, d
  <2>3. ps[i] \in Post
    BY <2>1
  <2>4. d = [ps EXCEPT ![i] = [ps[i] EXCEPT !.visualizations = @ + 1]]
    BY <2>2
  <2> DEFINE p == [ps[i] EXCEPT !.visualizations = @ + 1]
  <2>5. p \in Post /\ p.id = ps[i].id
    <3>1. ps[i].visualizations + 1 \in Nat
      BY <2>3 DEF Post
    <3> QED BY <2>3, <3>1 DEF Post
  <2> HIDE DEF p
  <2>6. d = [ps EXCEPT ![i] = p]
    BY <2>4 DEF p
  <2>7. d \in Seq(Post) /\ DOMAIN d = DOMAIN ps
    BY <2>1, <2>5, <2>6
  <2>8. \A k \in DOMAIN ps : d[k].id = ps[k].id
    BY <2>1, <2>5, <2>6
  <2>9. ById(d) /\ SameIds(ps, d)
    BY <2>7, <2>8, SamePlacesSorted DEF SameIds
  <2> QED BY <2>7, <2>9 DEF d
<1> QED BY <1>1, <1>2

LEMMA LoadVisualizationsKeeps ==
  ASSUME NEW ps \in Seq(Post), ById(ps), NEW v \in Seq(Visual)
  PROVE  LET d == LoadVisualizations(ps, v)
         IN  d \in Seq(Post) /\ ById(d) /\ SameIds(ps, d)
<1> DEFINE d == LoadVisualizations(ps, v)
           n(k) == v[CHOOSE i \in Loads(ps, v, k) : TRUE].n
           load(k) == [ps[k] EXCEPT !.visualizations = n(k)]
<1>1. Len(ps) \in Nat /\ DOMAIN ps = 1 .. Len(ps)
  OBVIOUS
<1>2. ASSUME NEW k \in DOMAIN ps, Loads(ps, v, k) # {} PROVE n(k) \in Nat
  <2>1. PICK i \in Loads(ps, v, k) : i = CHOOSE j \in Loads(ps, v, k) : TRUE
    BY <1>2
  <2>2. i \in DOMAIN v
    BY <2>1 DEF Loads
  <2>3. v[i] \in Visual
    BY <2>2
  <2> QED BY <2>1, <2>3 DEF Visual
<1> HIDE DEF n
<1>3. ASSUME NEW k \in DOMAIN ps
      PROVE  /\ ps[k] \in Post
             /\ Loads(ps, v, k) # {} => load(k) \in Post /\ load(k).id = ps[k].id
  <2>1. ps[k] \in Post
    OBVIOUS
  <2> QED BY <1>2, <2>1 DEF Post
<1>4. d = [k \in DOMAIN ps |-> IF Loads(ps, v, k) = {} THEN ps[k] ELSE load(k)]
  BY DEF LoadVisualizations, n
<1> HIDE DEF d, load
<1>5. d \in [1 .. Len(ps) -> Post] /\ \A k \in DOMAIN ps : d[k].id = ps[k].id
  BY <1>1, <1>3, <1>4
<1>6. d \in Seq(Post) /\ DOMAIN d = DOMAIN ps
  BY <1>1, <1>5
<1>7. ById(d) /\ SameIds(ps, d)
  BY <1>5, <1>6, SamePlacesSorted DEF SameIds
<1> QED BY <1>6, <1>7 DEF d

-----------------------------------------------------------------------------
(* Types and order, by induction.  A reply to HVALS lists the posts that    *)
(* are stored, so they must be finitely many.                               *)

Inv == TypeOK /\ Sorted /\ IsFiniteSet(stored)

LEMMA SortedIsById == TypeOK => (Sorted <=> \A n \in Node : ById(posts[n]))
  BY DEF Sorted, ById, TypeOK

LEMMA InitInv == Init => Inv
<1> SUFFICES ASSUME Init PROVE Inv
  OBVIOUS
<1>1. TypeOK
  BY DEF Init, TypeOK
<1>2. Sorted
  BY DEF Init, Sorted
<1>3. IsFiniteSet(stored)
  BY FS_EmptySet DEF Init
<1> QED BY <1>1, <1>2, <1>3 DEF Inv

LEMMA RequestType ==
  ASSUME pipe \in [Node -> Seq(Command)], NEW n \in Node, NEW cmds \in Seq(Command),
         Request(n, cmds)
  PROVE  pipe' \in [Node -> Seq(Command)]
  BY DEF Request

LEMMA ReceiveType ==
  ASSUME reply \in [Node -> Seq(Event)], NEW n \in Node, NEW type, Receive(n, type)
  PROVE  /\ reply' \in [Node -> Seq(Event)]
         /\ Head(reply[n]) \in Event /\ Head(reply[n]).type = type
<1>1. reply[n] \in Seq(Event) /\ reply[n] # <<>>
  BY DEF Receive
<1>2. Tail(reply[n]) \in Seq(Event) /\ Head(reply[n]) \in Event
  BY <1>1, HeadTailProperties
<1> QED BY <1>2 DEF Receive

LEMMA ExecType ==
  ASSUME pipe \in [Node -> Seq(Command)], NEW n \in Node, NEW op, Exec(n, op)
  PROVE  /\ pipe' \in [Node -> Seq(Command)]
         /\ Head(pipe[n]) \in Command /\ Head(pipe[n]).op = op
<1>1. pipe[n] \in Seq(Command) /\ pipe[n] # <<>>
  BY DEF Exec
<1>2. Tail(pipe[n]) \in Seq(Command) /\ Head(pipe[n]) \in Command
  BY <1>1, HeadTailProperties
<1> QED BY <1>2 DEF Exec

LEMMA CmdTypes ==
  /\ HelloCmds \in Seq(Command)
  /\ <<[op |-> "hgetall"]>> \in Seq(Command)
  /\ \A p \in Post : PublishCmds(p) \in Seq(Command)
  /\ \A id \in Id, u \in User, p \in Post : DeleteCmds(id, u, p) \in Seq(Command)
  /\ \A b \in Bodies : ViewCmds(b) \in Seq(Command)
<1>1. /\ [op |-> "hvals"] \in Command /\ [op |-> "subscribe"] \in Command
      /\ [op |-> "hgetall"] \in Command
  BY DEF Command
<1>2. \A p \in Post : /\ [op |-> "hset", post |-> p] \in Command
                      /\ Publish([cmd |-> "publish_internal", post |-> p]) \in Command
  BY DEF Command, Publish, News
<1>3. \A id \in Id, u \in User, p \in Post :
        /\ [op |-> "archive", id |-> id, post |-> p] \in Command
        /\ [op |-> "hdel", id |-> id] \in Command
        /\ Publish([cmd |-> "delete", id |-> id, from |-> u]) \in Command
  BY DEF Command, Publish, News
<1>4. \A b \in Bodies : /\ [op |-> "hincrby", id |-> b.id] \in Command
                        /\ Publish(b.news) \in Command
  BY BodiesAssumption DEF Command, Publish
<1>5. HelloCmds \in Seq(Command)
  BY <1>1 DEF HelloCmds
<1>6. <<[op |-> "hgetall"]>> \in Seq(Command)
  BY <1>1
<1>7. ASSUME NEW p \in Post PROVE PublishCmds(p) \in Seq(Command)
  BY <1>2 DEF PublishCmds
<1>8. ASSUME NEW id \in Id, NEW u \in User, NEW p \in Post
      PROVE  DeleteCmds(id, u, p) \in Seq(Command)
  BY <1>3 DEF DeleteCmds
<1>9. ASSUME NEW b \in Bodies PROVE ViewCmds(b) \in Seq(Command)
  BY <1>4 DEF ViewCmds
<1> QED BY <1>5, <1>6, <1>7, <1>8, <1>9

\* The vectors of posts after one of them was replaced by a sorted one.
LEMMA SortedAfter ==
  ASSUME TypeOK, Sorted, NEW n \in Node, NEW d \in Seq(Post), ById(d),
         posts' = [posts EXCEPT ![n] = d]
  PROVE  posts' \in [Node -> Seq(Post)] /\ Sorted'
<1>1. posts \in [Node -> Seq(Post)]
  BY DEF TypeOK
<1>2. posts' \in [Node -> Seq(Post)]
  BY <1>1
<1>3. \A m \in Node : posts'[m] = IF m = n THEN d ELSE posts[m]
  BY <1>1
<1>4. \A m \in Node : ById(posts'[m])
  BY <1>3, SortedIsById
<1> QED BY <1>2, <1>4 DEF Sorted, ById

\* Processes that come and go.
LEMMA StartInv == ASSUME Inv, NEW n \in Node, Start(n) PROVE Inv'
<1>1. TypeOK /\ Sorted
  BY DEF Inv
<1>2. pipe' \in [Node -> Seq(Command)]
  BY <1>1, CmdTypes, RequestType DEF Start, TypeOK
<1>3. TypeOK'
  BY <1>1, <1>2 DEF Start, TypeOK, redisVars
<1>4. Sorted' /\ IsFiniteSet(stored)'
  BY <1>1 DEF Inv, Sorted, Start, redisVars
<1> QED BY <1>3, <1>4 DEF Inv

LEMMA ReconnectInv == ASSUME Inv, NEW n \in Node, Reconnect(n) PROVE Inv'
<1>1. TypeOK /\ Sorted
  BY DEF Inv
<1>2. pipe' \in [Node -> Seq(Command)] /\ reply' \in [Node -> Seq(Event)]
  BY <1>1, CmdTypes DEF Reconnect, TypeOK
<1>3. TypeOK'
  BY <1>1, <1>2 DEF Reconnect, TypeOK, workerVars
<1>4. Sorted' /\ IsFiniteSet(stored)'
  BY <1>1 DEF Inv, Sorted, Reconnect, workerVars
<1> QED BY <1>3, <1>4 DEF Inv

LEMMA StopInv == ASSUME Inv, NEW n \in Node, Stop(n) PROVE Inv'
<1>1. TypeOK /\ Sorted
  BY DEF Inv
<1>2. <<>> \in Seq(Post) /\ ById(<<>>)
  BY DEF ById
<1>3. posts' \in [Node -> Seq(Post)] /\ Sorted'
  <2>1. posts' = [posts EXCEPT ![n] = <<>>]
    BY DEF Stop
  <2> QED BY <1>1, <1>2, <2>1, SortedAfter
<1>4. pipe' \in [Node -> Seq(Command)] /\ reply' \in [Node -> Seq(Event)]
  BY <1>1 DEF Stop, TypeOK
<1>5. TypeOK'
  BY <1>1, <1>3, <1>4 DEF Stop, TypeOK, history
<1>6. IsFiniteSet(stored)'
  BY DEF Inv, Stop
<1> QED BY <1>3, <1>5, <1>6 DEF Inv

\* Requests of clients.
LEMMA PublishInv ==
  ASSUME Inv, NEW n \in Node, NEW u \in User, NEW id \in Id, OnPublish(n, u, id)
  PROVE  Inv'
<1> DEFINE p == [id |-> id, from |-> u, visualizations |-> 0,
                 location |-> Code[id].location, product |-> Code[id].product]
<1>1. TypeOK /\ Sorted
  BY DEF Inv
<1>2. p \in Post
  <2>1. Code[id].location \in Seq(Nat) /\ Code[id].product \in Seq(Nat)
    <3>1. Code \in [Id -> [location : Seq(Nat), product : Seq(Nat)]]
      BY PostsAssumption
    <3> QED BY <3>1
  <2> QED BY <2>1 DEF Post
<1>3. Request(n, PublishCmds(p)) /\ published' = [published EXCEPT ![id] = p]
  BY DEF OnPublish
<1> HIDE DEF p
<1>4. pipe' \in [Node -> Seq(Command)]
  BY <1>1, <1>2, <1>3, CmdTypes, RequestType DEF TypeOK
<1>5. published' \in [Id -> Post \cup {None}]
  BY <1>1, <1>2, <1>3 DEF TypeOK
<1>6. TypeOK'
  BY <1>1, <1>4, <1>5 DEF OnPublish, TypeOK, workerVars, redisVars
<1>7. Sorted' /\ IsFiniteSet(stored)'
  BY <1>1 DEF Inv, Sorted, OnPublish, workerVars, redisVars
<1> QED BY <1>6, <1>7 DEF Inv

LEMMA DeleteInv ==
  ASSUME Inv, NEW n \in Node, NEW u \in User, NEW id \in Id, OnDelete(n, u, id)
  PROVE  Inv'
<1>1. TypeOK /\ Sorted
  BY DEF Inv
<1>2. pipe' \in [Node -> Seq(Command)]
  <2>1. PICK p \in Get(posts[n], id) : Request(n, DeleteCmds(id, u, p))
    BY DEF OnDelete
  <2>2. posts[n] \in Seq(Post)
    BY <1>1 DEF TypeOK
  <2>3. p \in Post
    BY <2>1, <2>2, PlaceTypes DEF Get
  <2>4. DeleteCmds(id, u, p) \in Seq(Command)
    BY <2>3, CmdTypes
  <2> QED BY <1>1, <2>1, <2>4, RequestType DEF TypeOK
<1>3. withdrawn' \in SUBSET Id
  BY <1>1 DEF OnDelete, TypeOK
<1>4. TypeOK'
  BY <1>1, <1>2, <1>3 DEF OnDelete, TypeOK, workerVars, redisVars
<1>5. Sorted' /\ IsFiniteSet(stored)'
  BY <1>1 DEF Inv, Sorted, OnDelete, workerVars, redisVars
<1> QED BY <1>4, <1>5 DEF Inv

LEMMA ViewInv ==
  ASSUME Inv, NEW n \in Node, NEW b \in Bodies, OnView(n, b)
  PROVE  Inv'
<1>1. TypeOK /\ Sorted /\ b.id \in Id
  BY BodiesAssumption DEF Inv
<1>2. /\ asked' = [asked EXCEPT ![b.id] = @ + 1]
      /\ Request(n, ViewCmds(b))
      /\ UNCHANGED <<workerVars, redisVars, reply, connects, reconnects, deletes,
                     published, withdrawn>>
  BY DEF OnView
<1>3. pipe' \in [Node -> Seq(Command)] /\ asked' \in [Id -> Nat]
  BY <1>1, <1>2, CmdTypes, RequestType DEF TypeOK
<1>4. TypeOK'
  BY <1>1, <1>2, <1>3 DEF TypeOK, workerVars, redisVars
<1>5. Sorted' /\ IsFiniteSet(stored)'
  BY <1>1, <1>2 DEF Inv, Sorted, workerVars, redisVars
<1> QED BY <1>4, <1>5 DEF Inv

\* Answers and news.
LEMMA HvalsInv == ASSUME Inv, NEW n \in Node, OnHvals(n) PROVE Inv'
<1> DEFINE e == Head(reply[n])
           d == AddPosts(posts[n], e.posts)
<1>1. TypeOK /\ Sorted /\ posts[n] \in Seq(Post)
  BY DEF Inv, TypeOK
<1>2. reply' \in [Node -> Seq(Event)] /\ e \in Event /\ e.type = "hvals"
  BY <1>1, ReceiveType DEF OnHvals, TypeOK
<1>3. e.posts \in Seq(Post)
  BY <1>2 DEF Event
<1>4. d \in Seq(Post) /\ ById(d)
  BY <1>1, <1>3, AddPostsSorts
<1>5. posts' = [posts EXCEPT ![n] = d]
  BY <1>1 DEF OnHvals, TypeOK
<1> HIDE DEF e, d
<1>6. posts' \in [Node -> Seq(Post)] /\ Sorted'
  BY <1>1, <1>4, <1>5, SortedAfter
<1>7. pipe' \in [Node -> Seq(Command)]
  BY <1>1, CmdTypes, RequestType DEF OnHvals, TypeOK
<1>8. TypeOK'
  BY <1>1, <1>2, <1>6, <1>7 DEF OnHvals, TypeOK, redisVars, history
<1>9. IsFiniteSet(stored)'
  BY DEF Inv, OnHvals, redisVars
<1> QED BY <1>6, <1>8, <1>9 DEF Inv

LEMMA HgetallInv == ASSUME Inv, NEW n \in Node, OnHgetall(n) PROVE Inv'
<1> DEFINE e == Head(reply[n])
           d == LoadVisualizations(posts[n], e.visual)
<1>1. TypeOK /\ Sorted /\ posts[n] \in Seq(Post) /\ ById(posts[n])
  BY SortedIsById DEF Inv, TypeOK
<1>2. reply' \in [Node -> Seq(Event)] /\ e \in Event /\ e.type = "hgetall"
  BY <1>1, ReceiveType DEF OnHgetall, TypeOK
<1>3. e.visual \in Seq(Visual)
  BY <1>2 DEF Event
<1>4. d \in Seq(Post) /\ ById(d)
  BY <1>1, <1>3, LoadVisualizationsKeeps
<1>5. posts' = [posts EXCEPT ![n] = d]
  BY <1>1 DEF OnHgetall, TypeOK
<1> HIDE DEF e, d
<1>6. posts' \in [Node -> Seq(Post)] /\ Sorted'
  BY <1>1, <1>4, <1>5, SortedAfter
<1>7. TypeOK'
  BY <1>1, <1>2, <1>6 DEF OnHgetall, TypeOK, redisVars, history
<1>8. IsFiniteSet(stored)'
  BY DEF Inv, OnHgetall, redisVars
<1> QED BY <1>6, <1>7, <1>8 DEF Inv

LEMMA NewsInv == ASSUME Inv, NEW n \in Node, OnNews(n) PROVE Inv'
<1> DEFINE e == Head(reply[n]).news
           ps == posts[n]
<1>1. TypeOK /\ Sorted /\ ps \in Seq(Post) /\ ById(ps)
  BY SortedIsById DEF Inv, TypeOK
<1>2. reply' \in [Node -> Seq(Event)] /\ e \in News
  <2>1. /\ reply' \in [Node -> Seq(Event)] /\ Head(reply[n]) \in Event
        /\ Head(reply[n]).type = "push"
    BY <1>1, ReceiveType DEF OnNews, TypeOK
  <2> QED BY <2>1 DEF Event
<1>3. posts' = [posts EXCEPT ![n] =
                  CASE e.cmd = "publish_internal" -> AddPosts(ps, <<e.post>>)
                    [] e.cmd = "delete" -> RemovePost(ps, e.id, e.from, e.from = Admin)
                    [] e.cmd = "visualization" -> OnVisualization(ps, e.id)
                    [] e.cmd = "none" -> ps]
  BY <1>1 DEF OnNews, TypeOK
<1> HIDE DEF e, ps
<1>4. ASSUME e.cmd = "publish_internal"
      PROVE  posts' \in [Node -> Seq(Post)] /\ Sorted'
  <2>1. <<e.post>> \in Seq(Post)
    <3>1. e.post \in Post
      BY <1>2, <1>4 DEF News
    <3> QED BY <3>1
  <2>2. posts' = [posts EXCEPT ![n] = AddPosts(ps, <<e.post>>)]
    BY <1>3, <1>4
  <2>3. AddPosts(ps, <<e.post>>) \in Seq(Post) /\ ById(AddPosts(ps, <<e.post>>))
    BY <1>1, <2>1, AddPostsSorts
  <2> QED BY <1>1, <2>2, <2>3, SortedAfter
<1>5. ASSUME e.cmd = "delete"
      PROVE  posts' \in [Node -> Seq(Post)] /\ Sorted'
  <2> DEFINE d == RemovePost(ps, e.id, e.from, e.from = Admin)
  <2>1. posts' = [posts EXCEPT ![n] = d]
    BY <1>3, <1>5
  <2>2. (e.from = Admin) \in BOOLEAN
    OBVIOUS
  <2>3. d \in Seq(Post) /\ ById(d)
    BY <1>1, <2>2, RemovePostKeeps
  <2> HIDE DEF d
  <2> QED BY <1>1, <2>1, <2>3, SortedAfter
<1>6. ASSUME e.cmd = "visualization"
      PROVE  posts' \in [Node -> Seq(Post)] /\ Sorted'
  <2>1. posts' = [posts EXCEPT ![n] = OnVisualization(ps, e.id)]
    BY <1>3, <1>6
  <2>2. OnVisualization(ps, e.id) \in Seq(Post) /\ ById(OnVisualization(ps, e.id))
    BY <1>1, OnVisualizationKeeps
  <2> QED BY <1>1, <2>1, <2>2, SortedAfter
<1>10. ASSUME e.cmd = "none"
       PROVE  posts' \in [Node -> Seq(Post)] /\ Sorted'
  <2>1. posts' = [posts EXCEPT ![n] = ps]
    BY <1>3, <1>10
  <2> QED BY <1>1, <2>1, SortedAfter
<1>7. posts' \in [Node -> Seq(Post)] /\ Sorted'
  <2>1. e.cmd \in {"publish_internal", "delete", "visualization", "none"}
    BY <1>2 DEF News
  <2> QED BY <1>4, <1>5, <1>6, <1>10, <2>1
<1>8. TypeOK'
  BY <1>1, <1>2, <1>7 DEF OnNews, TypeOK, redisVars, history
<1>9. IsFiniteSet(stored)'
  BY DEF Inv, OnNews, redisVars
<1> QED BY <1>7, <1>8, <1>9 DEF Inv

-----------------------------------------------------------------------------
(* Redis.                                                                  *)

LEMMA AnswerType ==
  ASSUME reply \in [Node -> Seq(Event)], NEW n \in Node, NEW e \in Event,
         Answer(n, e)
  PROVE  reply' \in [Node -> Seq(Event)]
<1>1. Append(reply[n], e) \in Seq(Event)
  BY AppendType
<1> QED BY <1>1 DEF Answer

\* The orders in which a finite set can be listed are sequences of it.
LEMMA ListType ==
  ASSUME NEW S, IsFiniteSet(S), NEW s \in SetToSeqs(S)
  PROVE  s \in Seq(S)
<1>1. Cardinality(S) \in Nat
  BY FS_CardinalityType
<1>2. s \in [1 .. Cardinality(S) -> S]
  BY DEF SetToSeqs
<1> QED BY <1>1, <1>2

LEMMA ExecHvalsType ==
  ASSUME Inv, NEW n \in Node, ExecHvals(n)
  PROVE  /\ pipe' \in [Node -> Seq(Command)] /\ reply' \in [Node -> Seq(Event)]
         /\ UNCHANGED redisVars
<1>1. TypeOK /\ IsFiniteSet(stored)
  BY DEF Inv
<1>2. PICK s \in SetToSeqs(stored) : Answer(n, [type |-> "hvals", posts |-> s])
  BY DEF ExecHvals
<1>3. s \in Seq(Post)
  <2>1. s \in Seq(stored)
    BY <1>1, ListType
  <2> QED BY <1>1, <2>1 DEF TypeOK
<1>4. [type |-> "hvals", posts |-> s] \in Event
  BY <1>3 DEF Event
<1>5. pipe' \in [Node -> Seq(Command)]
  BY <1>1, ExecType DEF ExecHvals, TypeOK
<1> QED BY <1>1, <1>2, <1>4, <1>5, AnswerType DEF ExecHvals, TypeOK

LEMMA ExecHgetallType ==
  ASSUME Inv, NEW n \in Node, ExecHgetall(n)
  PROVE  /\ pipe' \in [Node -> Seq(Command)] /\ reply' \in [Node -> Seq(Event)]
         /\ UNCHANGED redisVars
<1> DEFINE S == {i \in Id : views[i] > 0}
           visual(s) == [k \in DOMAIN s |-> [id |-> s[k], n |-> views[s[k]]]]
<1>1. TypeOK
  BY DEF Inv
<1>2. PICK s \in SetToSeqs(S) : Answer(n, [type |-> "hgetall", visual |-> visual(s)])
  BY DEF ExecHgetall
<1>3. s \in Seq(S)
  <2>1. IsFiniteSet(Id) /\ S \in SUBSET Id
    BY PostsAssumption
  <2>2. IsFiniteSet(S)
    BY <2>1, FS_Subset
  <2> HIDE DEF S
  <2> QED BY <2>2, ListType
<1>4. visual(s) \in Seq(Visual)
  <2>1. Len(s) \in Nat /\ DOMAIN s = 1 .. Len(s) /\ \A k \in DOMAIN s : s[k] \in S
    BY <1>3
  <2>2. \A k \in DOMAIN s : [id |-> s[k], n |-> views[s[k]]] \in Visual
    BY <1>1, <2>1 DEF Visual, TypeOK
  <2> QED BY <2>1, <2>2
<1> HIDE DEF visual
<1>5. [type |-> "hgetall", visual |-> visual(s)] \in Event
  BY <1>4 DEF Event
<1>6. pipe' \in [Node -> Seq(Command)]
  BY <1>1, ExecType DEF ExecHgetall, TypeOK
<1> QED BY <1>1, <1>2, <1>5, <1>6, AnswerType DEF ExecHgetall, TypeOK

LEMMA ExecPublishType ==
  ASSUME Inv, NEW n \in Node, ExecPublish(n)
  PROVE  /\ pipe' \in [Node -> Seq(Command)] /\ reply' \in [Node -> Seq(Event)]
         /\ UNCHANGED redisVars
<1> DEFINE e == [type |-> "push", news |-> Head(pipe[n]).news]
<1>1. TypeOK
  BY DEF Inv
<1>2. /\ pipe' \in [Node -> Seq(Command)] /\ Head(pipe[n]) \in Command
      /\ Head(pipe[n]).op = "publish"
  BY <1>1, ExecType DEF ExecPublish, TypeOK
<1>3. e \in Event
  BY <1>2 DEF Command, Event
<1>4. reply' = [m \in Node |-> IF m \in subs THEN Append(reply[m], e) ELSE reply[m]]
  BY DEF ExecPublish
<1> HIDE DEF e
<1>5. \A m \in Node : Append(reply[m], e) \in Seq(Event)
  BY <1>1, <1>3, AppendType DEF TypeOK
<1> QED BY <1>1, <1>2, <1>4, <1>5 DEF ExecPublish, TypeOK

\* The commands that write: they answer nothing that a process waits for.
LEMMA ExecWriteType ==
  ASSUME Inv, NEW n \in Node,
         \/ ExecSubscribe(n) \/ ExecHset(n) \/ ExecArchive(n)
         \/ ExecHdel(n) \/ ExecHincrby(n)
  PROVE  /\ pipe' \in [Node -> Seq(Command)] /\ UNCHANGED reply
         /\ stored' \in SUBSET Post /\ IsFiniteSet(stored')
         /\ removed' \in [Id -> Post \cup {None}] /\ views' \in [Id -> Nat]
         /\ subs' \in SUBSET Node
<1> DEFINE c == Head(pipe[n])
<1>1. TypeOK /\ IsFiniteSet(stored)
  BY DEF Inv
<1>2. CASE ExecSubscribe(n)
  <2>1. pipe' \in [Node -> Seq(Command)]
    BY <1>1, <1>2, ExecType DEF ExecSubscribe, TypeOK
  <2> QED BY <1>1, <1>2, <2>1 DEF ExecSubscribe, TypeOK
<1>3. CASE ExecHset(n)
  <2>1. pipe' \in [Node -> Seq(Command)] /\ c \in Command /\ c.op = "hset"
    BY <1>1, <1>3, ExecType DEF ExecHset, TypeOK
  <2>2. c.post \in Post
    BY <2>1 DEF Command
  <2>3. stored' = stored \cup {c.post}
    BY <1>3 DEF ExecHset
  <2>4. IsFiniteSet(stored')
    BY <1>1, <2>3, FS_AddElement
  <2> QED BY <1>1, <1>3, <2>1, <2>2, <2>3, <2>4 DEF ExecHset, TypeOK
<1>4. CASE ExecArchive(n)
  <2>1. pipe' \in [Node -> Seq(Command)] /\ c \in Command /\ c.op = "archive"
    BY <1>1, <1>4, ExecType DEF ExecArchive, TypeOK
  <2>2. c.post \in Post /\ c.id \in Id
    BY <2>1 DEF Command
  <2> QED BY <1>1, <1>4, <2>1, <2>2 DEF ExecArchive, TypeOK
<1>5. CASE ExecHdel(n)
  <2>1. pipe' \in [Node -> Seq(Command)]
    BY <1>1, <1>5, ExecType DEF ExecHdel, TypeOK
  <2>2. stored' \in SUBSET stored
    BY <1>5 DEF ExecHdel
  <2>3. IsFiniteSet(stored')
    BY <1>1, <2>2, FS_Subset
  <2> QED BY <1>1, <1>5, <2>1, <2>2, <2>3 DEF ExecHdel, TypeOK
<1>6. CASE ExecHincrby(n)
  <2>1. pipe' \in [Node -> Seq(Command)] /\ c \in Command /\ c.op = "hincrby"
    BY <1>1, <1>6, ExecType DEF ExecHincrby, TypeOK
  <2>2. c.id \in Id
    BY <2>1 DEF Command
  <2>3. views[c.id] + 1 \in Nat
    BY <1>1, <2>2 DEF TypeOK
  <2>4. views' = [views EXCEPT ![c.id] = views[c.id] + 1]
    BY <1>6 DEF ExecHincrby
  <2>5. views' \in [Id -> Nat]
    BY <1>1, <2>3, <2>4 DEF TypeOK
  <2> QED BY <1>1, <1>6, <2>1, <2>5 DEF ExecHincrby, TypeOK
<1> QED BY <1>2, <1>3, <1>4, <1>5, <1>6

LEMMA RedisInv == ASSUME Inv, NEW n \in Node, Redis(n) PROVE Inv'
<1>1. TypeOK /\ Sorted /\ IsFiniteSet(stored)
  BY DEF Inv
<1>2. UNCHANGED <<workerVars, history>>
  BY DEF Redis
<1>3. /\ pipe' \in [Node -> Seq(Command)] /\ reply' \in [Node -> Seq(Event)]
      /\ stored' \in SUBSET Post /\ IsFiniteSet(stored')
      /\ removed' \in [Id -> Post \cup {None}] /\ views' \in [Id -> Nat]
      /\ subs' \in SUBSET Node
  <2>1. CASE ExecHvals(n) \/ ExecHgetall(n) \/ ExecPublish(n)
    <3>1. /\ pipe' \in [Node -> Seq(Command)] /\ reply' \in [Node -> Seq(Event)]
          /\ UNCHANGED redisVars
      BY <2>1, ExecHvalsType, ExecHgetallType, ExecPublishType
    <3> QED BY <1>1, <3>1 DEF redisVars, TypeOK
  <2>2. CASE \/ ExecSubscribe(n) \/ ExecHset(n) \/ ExecArchive(n)
             \/ ExecHdel(n) \/ ExecHincrby(n)
    <3>1. reply' = reply /\ reply \in [Node -> Seq(Event)]
      BY <1>1, <2>2, ExecWriteType DEF TypeOK
    <3> QED BY <2>2, <3>1, ExecWriteType
  <2> QED BY <2>1, <2>2 DEF Redis
<1>4. TypeOK'
  BY <1>1, <1>2, <1>3 DEF TypeOK, workerVars, history
<1>5. Sorted'
  BY <1>1, <1>2 DEF Sorted, workerVars
<1> QED BY <1>3, <1>4, <1>5 DEF Inv

-----------------------------------------------------------------------------

LEMMA NextInv == Inv /\ [Next]_vars => Inv'
<1> SUFFICES ASSUME Inv, [Next]_vars PROVE Inv'
  OBVIOUS
<1>1. CASE UNCHANGED vars
  BY <1>1 DEF Inv, TypeOK, Sorted, vars, workerVars, redisVars, history
<1>2. ASSUME NEW n \in Node,
             \/ Start(n) \/ Reconnect(n) \/ Stop(n)
             \/ \E b \in Bodies : OnView(n, b)
             \/ \E id \in Id, u \in User : OnPublish(n, u, id) \/ OnDelete(n, u, id)
             \/ OnReply(n) \/ Redis(n)
      PROVE  Inv'
  <2>1. CASE Start(n) \/ Reconnect(n) \/ Stop(n)
    BY <2>1, StartInv, ReconnectInv, StopInv
  <2>2. ASSUME NEW b \in Bodies, OnView(n, b) PROVE Inv'
    BY <2>2, ViewInv
  <2>3. ASSUME NEW id \in Id, NEW u \in User, OnPublish(n, u, id) \/ OnDelete(n, u, id)
        PROVE  Inv'
    BY <2>3, PublishInv, DeleteInv
  <2>4. CASE OnReply(n)
    BY <2>4, HvalsInv, HgetallInv, NewsInv DEF OnReply
  <2>5. CASE Redis(n)
    BY <2>5, RedisInv
  <2> QED BY <1>2, <2>1, <2>2, <2>3, <2>4, <2>5
<1> QED BY <1>1, <1>2 DEF Next

\* Every variable of the processes, of Redis and of the connections keeps its
\* type, whatever starts, stops, reconnects, is published, deleted or viewed.
THEOREM TypeCorrect == Spec => []TypeOK
<1>1. Inv => TypeOK
  BY DEF Inv
<1> QED BY InitInv, NextInv, <1>1, PTL DEF Spec

\* posts_ of every process is sorted by id, in whatever order the answer to
\* HVALS and the news of posts, deletions and views come and however often a
\* post comes: lower_bound and upper_bound may be used on it.
THEOREM AlwaysSorted == Spec => []Sorted
<1>1. Inv => Sorted
  BY DEF Inv
<1> QED BY InitInv, NextInv, <1>1, PTL DEF Spec

-----------------------------------------------------------------------------
(* Where posts come from: every post that is stored is as it was published. *)
(* If clients send ViewsOnly, then so is every post that a process hears    *)
(* of, and, up to the number of views, what it has and what it archives.    *)

AsPublished(p, pub) == pub[p.id] # None /\ p = pub[p.id]
Genuine(p, pub) ==
  ViewsOnly => pub[p.id] # None /\ [p EXCEPT !.visualizations = 0] = pub[p.id]
GenuineAll(ps, pub) == \A k \in DOMAIN ps : Genuine(ps[k], pub)
GenuineNews(e, pub) ==
  e.cmd = "publish_internal" =>
    /\ ViewsOnly => AsPublished(e.post, pub)
    /\ NoViewsBrought => e.post.visualizations = 0
GenuineCmd(c, pub) ==
  /\ c.op = "hset" => AsPublished(c.post, pub)
  /\ Seen /\ c.op = "archive" => Genuine(c.post, pub) /\ c.post.id = c.id
  /\ c.op = "publish" => GenuineNews(c.news, pub)
GenuineEvent(e, pub) ==
  /\ e.type = "hvals" => \A k \in DOMAIN e.posts : AsPublished(e.posts[k], pub)
  /\ e.type = "push" => GenuineNews(e.news, pub)

\* Every HDEL comes after the command that archives its post.
ArchivesFirst(p, rem) ==
  \A i \in DOMAIN p : p[i].op = "hdel" =>
    \/ rem[p[i].id] # None
    \/ \E j \in DOMAIN p : j < i /\ p[j].op = "archive" /\ p[j].id = p[i].id

Origin(ps, r, p, rem, pub) ==
  /\ GenuineAll(ps, pub)
  /\ \A i \in DOMAIN r : GenuineEvent(r[i], pub)
  /\ \A i \in DOMAIN p : GenuineCmd(p[i], pub)
  /\ ArchivesFirst(p, rem)

Provenance ==
  /\ \A i \in Id : published[i] # None =>
       published[i].id = i /\ published[i].visualizations = 0
  /\ \A p \in stored : AsPublished(p, published)
  /\ \A i \in Id : Seen /\ removed[i] # None =>
       Genuine(removed[i], published) /\ removed[i].id = i
  /\ \A n \in Node : Origin(posts[n], reply[n], pipe[n], removed, published)

\* No post is taken back or changed once it is published.
Grows(pub, new) == \A i \in Id : pub[i] # None => new[i] = pub[i]

LEMMA GenuineGrows ==
  ASSUME NEW pub, NEW new, Grows(pub, new)
  PROVE  /\ \A p \in Post : Genuine(p, pub) => Genuine(p, new)
         /\ \A p \in Post : AsPublished(p, pub) => AsPublished(p, new)
         /\ \A ps \in Seq(Post) : GenuineAll(ps, pub) => GenuineAll(ps, new)
         /\ \A e \in Event : GenuineEvent(e, pub) => GenuineEvent(e, new)
         /\ \A c \in Command : GenuineCmd(c, pub) => GenuineCmd(c, new)
<1>1. \A p \in Post : Genuine(p, pub) => Genuine(p, new)
  BY DEF Grows, Genuine, Post
<1>2. \A ps \in Seq(Post) : GenuineAll(ps, pub) => GenuineAll(ps, new)
  BY <1>1, PlaceTypes DEF GenuineAll
<1>3. \A p \in Post : AsPublished(p, pub) => AsPublished(p, new)
  BY DEF Grows, AsPublished, Post
<1>4. \A e \in News : GenuineNews(e, pub) => GenuineNews(e, new)
  BY <1>3 DEF GenuineNews, News
<1>5. \A e \in Event : GenuineEvent(e, pub) => GenuineEvent(e, new)
  <2> SUFFICES ASSUME NEW e \in Event, GenuineEvent(e, pub) PROVE GenuineEvent(e, new)
    OBVIOUS
  <2>1. ASSUME e.type = "hvals", NEW k \in DOMAIN e.posts PROVE AsPublished(e.posts[k], new)
    <3>1. e.posts \in Seq(Post)
      BY <2>1 DEF Event
    <3>2. e.posts[k] \in Post
      BY <2>1, <3>1
    <3> QED BY <1>3, <2>1, <3>2 DEF GenuineEvent
  <2>2. ASSUME e.type = "push" PROVE GenuineNews(e.news, new)
    <3>1. e.news \in News
      BY <2>2 DEF Event
    <3> QED BY <1>4, <2>2, <3>1 DEF GenuineEvent
  <2> QED BY <2>1, <2>2 DEF GenuineEvent
<1>6. \A c \in Command : GenuineCmd(c, pub) => GenuineCmd(c, new)
  <2>1. ASSUME NEW c \in Command, GenuineCmd(c, pub) PROVE GenuineCmd(c, new)
    <3>1. ASSUME c.op = "hset" PROVE AsPublished(c.post, new)
      <4>1. c.post \in Post
        BY <3>1 DEF Command
      <4> QED BY <1>3, <2>1, <3>1, <4>1 DEF GenuineCmd
    <3>2. ASSUME Seen, c.op = "archive" PROVE Genuine(c.post, new) /\ c.post.id = c.id
      <4>1. c.post \in Post
        BY <3>2 DEF Command
      <4> QED BY <1>1, <2>1, <3>2, <4>1 DEF GenuineCmd
    <3>3. ASSUME c.op = "publish" PROVE GenuineNews(c.news, new)
      <4>1. c.news \in News
        BY <3>3 DEF Command
      <4> QED BY <1>4, <2>1, <3>3, <4>1 DEF GenuineCmd
    <3> QED BY <3>1, <3>2, <3>3 DEF GenuineCmd
  <2> QED BY <2>1
<1> QED BY <1>1, <1>2, <1>3, <1>5, <1>6

\* A number of views more or less does not make a post another one.
LEMMA ViewsAside ==
  ASSUME NEW p \in Post, NEW k
  PROVE  /\ [p EXCEPT !.visualizations = k].id = p.id
         /\ [[p EXCEPT !.visualizations = k] EXCEPT !.visualizations = 0]
              = [p EXCEPT !.visualizations = 0]
  BY DEF Post

\* What the operations on the vector return was in it or was added to it.
LEMMA AddPostsGenuine ==
  ASSUME NEW ps \in Seq(Post), NEW new \in Seq(Post), NEW pub,
         GenuineAll(ps, pub), GenuineAll(new, pub)
  PROVE  GenuineAll(AddPosts(ps, new), pub)
<1> DEFINE c == ps \o new
           d == AddPosts(ps, new)
<1>1. PICK f \in Bijection(DOMAIN c, DOMAIN d) : \A i \in DOMAIN c : d[f[i]] = c[i]
  BY AddPostsSorts, Zenon
<1>2. GenuineAll(c, pub)
  BY DEF GenuineAll
<1>3. \A k \in DOMAIN d : \E i \in DOMAIN c : k = f[i]
  BY <1>1 DEF Bijection, Surjection
<1> HIDE DEF c, d
<1>4. GenuineAll(d, pub)
  BY <1>1, <1>2, <1>3 DEF GenuineAll
<1> QED BY <1>4 DEF d

LEMMA RemovePostGenuine ==
  ASSUME NEW ps \in Seq(Post), NEW id, NEW from, NEW ignore_owner \in BOOLEAN,
         NEW pub, GenuineAll(ps, pub), ById(ps)
  PROVE  GenuineAll(RemovePost(ps, id, from, ignore_owner), pub)
<1> DEFINE d == RemovePost(ps, id, from, ignore_owner)
<1>1. \A k \in DOMAIN d : \E j \in DOMAIN ps : d[k] = ps[j]
  BY RemovePostKeeps
<1> HIDE DEF d
<1>2. GenuineAll(d, pub)
  BY <1>1 DEF GenuineAll
<1> QED BY <1>2 DEF d

LEMMA OnVisualizationGenuine ==
  ASSUME NEW ps \in Seq(Post), NEW id, NEW pub, GenuineAll(ps, pub)
  PROVE  GenuineAll(OnVisualization(ps, id), pub)
<1> DEFINE i == Place(ps, id)
           p == [ps[i] EXCEPT !.visualizations = @ + 1]
<1>1. CASE i = 0
  BY <1>1 DEF OnVisualization
<1>2. CASE i # 0
  <2>1. i \in DOMAIN ps /\ ps[i] \in Post
    BY <1>2, PlaceFinds, PlaceTypes
  <2>2. Genuine(p, pub)
    <3>1. p.id = ps[i].id /\ [p EXCEPT !.visualizations = 0]
                               = [ps[i] EXCEPT !.visualizations = 0]
      BY <2>1, ViewsAside
    <3>2. Genuine(ps[i], pub)
      BY <2>1 DEF GenuineAll
    <3> HIDE DEF p, i
    <3> QED BY <3>1, <3>2 DEF Genuine
  <2>3. OnVisualization(ps, id) = [ps EXCEPT ![i] = p]
    BY <1>2 DEF OnVisualization
  <2> HIDE DEF i, p
  <2> QED BY <2>1, <2>2, <2>3 DEF GenuineAll
<1> QED BY <1>1, <1>2

LEMMA LoadVisualizationsGenuine ==
  ASSUME NEW ps \in Seq(Post), NEW v, NEW pub, GenuineAll(ps, pub)
  PROVE  GenuineAll(LoadVisualizations(ps, v), pub)
<1> DEFINE n(k) == v[CHOOSE i \in Loads(ps, v, k) : TRUE].n
           d == LoadVisualizations(ps, v)
<1>1. d = [k \in DOMAIN ps |-> IF Loads(ps, v, k) = {} THEN ps[k]
                               ELSE [ps[k] EXCEPT !.visualizations = n(k)]]
  BY DEF LoadVisualizations
<1> HIDE DEF n, d
<1>2. ASSUME NEW k \in DOMAIN d PROVE Genuine(d[k], pub)
  <2>1. k \in DOMAIN ps /\ ps[k] \in Post /\ Genuine(ps[k], pub)
    BY <1>1, <1>2, PlaceTypes DEF GenuineAll
  <2>2. d[k] = ps[k] \/ d[k] = [ps[k] EXCEPT !.visualizations = n(k)]
    BY <1>1, <2>1
  <2>3. CASE d[k] = [ps[k] EXCEPT !.visualizations = n(k)]
    <3> DEFINE p == ps[k]
               m == n(k)
    <3>1. /\ [p EXCEPT !.visualizations = m].id = p.id
          /\ [[p EXCEPT !.visualizations = m] EXCEPT !.visualizations = 0]
               = [p EXCEPT !.visualizations = 0]
      BY <2>1, ViewsAside, Zenon
    <3>2. d[k] = [p EXCEPT !.visualizations = m] /\ Genuine(p, pub)
      BY <2>1, <2>3
    <3> HIDE DEF p, m
    <3>3. d[k].id = p.id
      BY <3>1, <3>2, Zenon
    <3>4. [d[k] EXCEPT !.visualizations = 0] = [p EXCEPT !.visualizations = 0]
      BY <3>1, <3>2, Zenon
    <3> QED BY <3>2, <3>3, <3>4 DEF Genuine
  <2> QED BY <2>1, <2>2, <2>3
<1>3. GenuineAll(d, pub)
  BY <1>2 DEF GenuineAll
<1> QED BY <1>3 DEF d

\* get(): if a post with the id is there, the lower bound finds one.
LEMMA GetFinds ==
  ASSUME NEW ps \in Seq(Post), ById(ps), NEW id \in Id, Place(ps, id) # 0,
         NEW p \in Get(ps, id)
  PROVE  p.id = id /\ \E k \in DOMAIN ps : p = ps[k]
<1> DEFINE S == {i \in DOMAIN ps : ps[i].id < id}
           j == Place(ps, id)
           c == Cardinality(S)
<1>1. /\ Len(ps) \in Nat /\ DOMAIN ps = 1 .. Len(ps) /\ id \in Nat
      /\ \A i \in DOMAIN ps : ps[i].id \in Nat
  BY PlaceTypes, IdsAreNumbers
<1>2. j \in DOMAIN ps /\ ps[j].id = id
  BY PlaceFinds
<1>3. 1 + c \in DOMAIN ps /\ p = ps[1 + c]
  BY DEF Get
<1> HIDE DEF j
<1>4. S \subseteq 1 .. j - 1
  <2>1. ASSUME NEW i \in S, ~(i < j) PROVE FALSE
    <3>1. i \in DOMAIN ps /\ ps[i].id < id
      OBVIOUS
    <3>2. ps[j].id <= ps[i].id
      BY <1>1, <1>2, <2>1, <3>1 DEF ById
    <3> QED BY <1>1, <1>2, <3>1, <3>2
  <2> QED BY <1>1, <1>2, <2>1
<1>5. IsFiniteSet(S) /\ c \in Nat /\ c <= j - 1
  <2>1. 1 \in Int /\ j - 1 \in Int /\ j - 1 >= 0
    BY <1>1, <1>2
  <2>2. IsFiniteSet(1 .. j - 1) /\ Cardinality(1 .. j - 1) = j - 1
    BY <2>1, FS_Interval
  <2> HIDE DEF S
  <2> QED BY <1>4, <2>2, FS_Subset, FS_CardinalityType
<1>6. ps[1 + c].id <= id
  BY <1>1, <1>2, <1>3, <1>5 DEF ById
<1>7. ASSUME ps[1 + c].id < id PROVE FALSE
  <2>1. 1 .. 1 + c \subseteq S
    <3>1. ASSUME NEW i \in 1 .. 1 + c PROVE i \in DOMAIN ps /\ ps[i].id <= ps[1 + c].id
      BY <1>1, <1>3, <1>5 DEF ById
    <3>2. ASSUME NEW i \in 1 .. 1 + c PROVE i \in S
      <4>1. i \in DOMAIN ps /\ ps[i].id <= ps[1 + c].id
        BY <3>1
      <4>2. ps[i].id < id
        <5> HIDE DEF c
        <5> QED BY <1>1, <1>3, <1>7, <4>1
      <4> QED BY <4>1, <4>2
    <3> QED BY <3>2
  <2>2. Cardinality(1 .. 1 + c) = 1 + c
    <3>1. 1 \in Int /\ 1 + c \in Int /\ ~(1 > 1 + c)
      BY <1>5
    <3>2. 1 + c - 1 + 1 = 1 + c
      BY <1>5
    <3> QED BY <3>1, <3>2, FS_Interval
  <2>3. Cardinality(1 .. 1 + c) <= c
    <3> HIDE DEF S
    <3> QED BY <1>5, <2>1, FS_Subset DEF c
  <2> HIDE DEF c
  <2> QED BY <1>5, <2>2, <2>3
<1>8. ps[1 + c].id = id
  <2> HIDE DEF c
  <2> QED BY <1>1, <1>3, <1>6, <1>7
<1> QED BY <1>3, <1>8

LEMMA OriginGrows ==
  ASSUME NEW ps \in Seq(Post), NEW r \in Seq(Event), NEW p \in Seq(Command),
         NEW rem, NEW pub, NEW new, Grows(pub, new), Origin(ps, r, p, rem, pub)
  PROVE  Origin(ps, r, p, rem, new)
<1>1. GenuineAll(ps, new)
  BY GenuineGrows DEF Origin
<1>2. ASSUME NEW i \in DOMAIN r PROVE GenuineEvent(r[i], new)
  <2>1. r[i] \in Event
    OBVIOUS
  <2> QED BY <2>1, GenuineGrows DEF Origin
<1>3. ASSUME NEW i \in DOMAIN p PROVE GenuineCmd(p[i], new)
  <2>1. p[i] \in Command
    OBVIOUS
  <2> QED BY <2>1, GenuineGrows DEF Origin
<1> QED BY <1>1, <1>2, <1>3 DEF Origin

\* A request in which every HDEL comes after the command that archives its post
\* joins the pipeline.
LEMMA OriginRequest ==
  ASSUME NEW ps, NEW r, NEW p \in Seq(Command), NEW q \in Seq(Command), NEW rem,
         NEW pub, Origin(ps, r, p, rem, pub),
         \A i \in DOMAIN q : GenuineCmd(q[i], pub), ArchivesFirst(q, [i \in Id |-> None])
  PROVE  Origin(ps, r, p \o q, rem, pub)
<1>1. /\ DOMAIN (p \o q) = 1 .. Len(p) + Len(q)
      /\ DOMAIN p = 1 .. Len(p) /\ DOMAIN q = 1 .. Len(q)
      /\ Len(p) \in Nat /\ Len(q) \in Nat
      /\ \A i \in DOMAIN p : (p \o q)[i] = p[i]
      /\ \A i \in DOMAIN q : (p \o q)[Len(p) + i] = q[i]
  OBVIOUS
<1>2. ASSUME NEW i \in DOMAIN (p \o q)
      PROVE  i \in DOMAIN p \/ (i - Len(p) \in DOMAIN q /\ i = Len(p) + (i - Len(p)))
  BY <1>1
<1>3. \A i \in DOMAIN (p \o q) : GenuineCmd((p \o q)[i], pub)
  BY <1>1, <1>2 DEF Origin
<1>4. ArchivesFirst(p \o q, rem)
  <2> SUFFICES ASSUME NEW i \in DOMAIN (p \o q), (p \o q)[i].op = "hdel"
               PROVE  \/ rem[(p \o q)[i].id] # None
                      \/ \E j \in DOMAIN (p \o q) :
                           /\ j < i /\ (p \o q)[j].op = "archive"
                           /\ (p \o q)[j].id = (p \o q)[i].id
    BY DEF ArchivesFirst
  <2>1. CASE i \in DOMAIN p
    <3>1. \/ rem[p[i].id] # None
          \/ \E j \in DOMAIN p : j < i /\ p[j].op = "archive" /\ p[j].id = p[i].id
      BY <1>1, <2>1 DEF Origin, ArchivesFirst
    <3> QED BY <1>1, <2>1, <3>1
  <2>2. CASE i - Len(p) \in DOMAIN q /\ i = Len(p) + (i - Len(p))
    <3> DEFINE k == i - Len(p)
    <3>1. k \in DOMAIN q /\ (p \o q)[i] = q[k] /\ i = Len(p) + k
      BY <1>1, <2>2
    <3> HIDE DEF k
    <3>2. q[k] \in Command /\ q[k].op = "hdel"
      BY <3>1
    <3>3. q[k].id \in Id
      BY <3>2 DEF Command
    <3>4. PICK j \in DOMAIN q : j < k /\ q[j].op = "archive" /\ q[j].id = q[k].id
      BY <3>1, <3>2, <3>3 DEF ArchivesFirst
    <3>5. Len(p) + j \in DOMAIN (p \o q) /\ Len(p) + j < i
          /\ (p \o q)[Len(p) + j] = q[j]
      BY <1>1, <3>1, <3>4
    <3> QED BY <3>1, <3>4, <3>5
  <2> QED BY <1>2, <2>1, <2>2
<1> QED BY <1>3, <1>4 DEF Origin

\* Redis executes the head of a pipeline: what it archives is archived.
LEMMA OriginExec ==
  ASSUME NEW ps, NEW r, NEW p \in Seq(Command), p # <<>>, NEW rem, NEW new, NEW pub,
         Origin(ps, r, p, rem, pub), \A i \in Id : rem[i] # None => new[i] # None,
         Head(p).op = "archive" => new[Head(p).id] # None
  PROVE  Origin(ps, r, Tail(p), new, pub) /\ GenuineCmd(Head(p), pub)
<1>1. /\ DOMAIN Tail(p) = 1 .. Len(p) - 1 /\ Len(p) \in Nat /\ Len(p) >= 1
      /\ DOMAIN p = 1 .. Len(p) /\ Head(p) = p[1] /\ 1 \in DOMAIN p
      /\ \A i \in DOMAIN Tail(p) : Tail(p)[i] = p[i + 1] /\ i + 1 \in DOMAIN p
  <2>1. Len(p) # 0
    OBVIOUS
  <2> QED BY <2>1, HeadTailProperties
<1>2. /\ \A i \in DOMAIN Tail(p) : GenuineCmd(Tail(p)[i], pub)
      /\ GenuineCmd(Head(p), pub)
  BY <1>1 DEF Origin
<1>3. ArchivesFirst(Tail(p), new)
  <2> SUFFICES ASSUME NEW i \in DOMAIN Tail(p), Tail(p)[i].op = "hdel"
               PROVE  \/ new[Tail(p)[i].id] # None
                      \/ \E j \in DOMAIN Tail(p) :
                           /\ j < i /\ Tail(p)[j].op = "archive"
                           /\ Tail(p)[j].id = Tail(p)[i].id
    BY DEF ArchivesFirst
  <2>1. p[i + 1] \in Command /\ p[i + 1].op = "hdel" /\ i + 1 \in DOMAIN p
    BY <1>1
  <2>2. p[i + 1].id \in Id
    BY <2>1 DEF Command
  <2>3. CASE rem[p[i + 1].id] # None
    BY <1>1, <2>2, <2>3
  <2>4. ASSUME NEW j \in DOMAIN p, j < i + 1, p[j].op = "archive",
               p[j].id = p[i + 1].id
        PROVE  \/ new[p[i + 1].id] # None
               \/ \E k \in DOMAIN Tail(p) : /\ k < i /\ Tail(p)[k].op = "archive"
                                            /\ Tail(p)[k].id = p[i + 1].id
    <3>1. CASE j = 1
      BY <1>1, <2>4, <3>1
    <3>2. CASE j # 1
      <4>1. j - 1 \in DOMAIN Tail(p) /\ j - 1 < i /\ j - 1 + 1 = j
        BY <1>1, <2>4, <3>2
      <4>2. Tail(p)[j - 1] = p[j]
        BY <1>1, <4>1
      <4> QED BY <2>4, <4>1, <4>2
    <3> QED BY <3>1, <3>2
  <2>5. \/ rem[p[i + 1].id] # None
        \/ \E j \in DOMAIN p :
             j < i + 1 /\ p[j].op = "archive" /\ p[j].id = p[i + 1].id
    BY <2>1 DEF Origin, ArchivesFirst
  <2>6. Tail(p)[i] = p[i + 1]
    BY <1>1
  <2> QED BY <2>3, <2>4, <2>5, <2>6
<1> QED BY <1>2, <1>3 DEF Origin

\* What else may be archived does not matter to a pipeline.
LEMMA OriginArchived ==
  ASSUME NEW ps, NEW r, NEW p \in Seq(Command), NEW rem, NEW new, NEW pub,
         Origin(ps, r, p, rem, pub), \A i \in Id : rem[i] # None => new[i] # None
  PROVE  Origin(ps, r, p, new, pub)
<1>1. \A i \in DOMAIN p : p[i].op = "hdel" => p[i].id \in Id
  <2>1. \A i \in DOMAIN p : p[i] \in Command
    OBVIOUS
  <2> QED BY <2>1 DEF Command
<1> QED BY <1>1 DEF Origin, ArchivesFirst

\* An event is appended to, or taken from, the answers.
LEMMA OriginAnswer ==
  ASSUME NEW ps, NEW r \in Seq(Event), NEW e \in Event, NEW p, NEW rem, NEW pub,
         Origin(ps, r, p, rem, pub), GenuineEvent(e, pub)
  PROVE  Origin(ps, Append(r, e), p, rem, pub)
<1>1. /\ DOMAIN Append(r, e) = 1 .. Len(r) + 1 /\ DOMAIN r = 1 .. Len(r)
      /\ Len(r) \in Nat /\ Append(r, e)[Len(r) + 1] = e
      /\ \A i \in DOMAIN r : Append(r, e)[i] = r[i]
  OBVIOUS
<1>2. \A i \in DOMAIN Append(r, e) : i \in DOMAIN r \/ i = Len(r) + 1
  BY <1>1
<1>3. \A i \in DOMAIN Append(r, e) : GenuineEvent(Append(r, e)[i], pub)
  BY <1>1, <1>2 DEF Origin
<1> QED BY <1>3 DEF Origin

LEMMA OriginReceive ==
  ASSUME NEW ps, NEW r \in Seq(Event), r # <<>>, NEW p, NEW rem, NEW pub,
         Origin(ps, r, p, rem, pub)
  PROVE  /\ GenuineEvent(Head(r), pub)
         /\ \A new : GenuineAll(new, pub) => Origin(new, Tail(r), p, rem, pub)
<1>1. /\ DOMAIN Tail(r) = 1 .. Len(r) - 1 /\ Len(r) \in Nat /\ Len(r) >= 1
      /\ DOMAIN r = 1 .. Len(r) /\ Head(r) = r[1] /\ 1 \in DOMAIN r
      /\ \A i \in DOMAIN Tail(r) : Tail(r)[i] = r[i + 1] /\ i + 1 \in DOMAIN r
  <2>1. Len(r) # 0
    OBVIOUS
  <2> QED BY <2>1, HeadTailProperties
<1>2. \A i \in DOMAIN Tail(r) : GenuineEvent(Tail(r)[i], pub)
  BY <1>1 DEF Origin
<1> QED BY <1>1, <1>2 DEF Origin

LEMMA OriginBlank ==
  ASSUME NEW rem, NEW pub
  PROVE  Origin(<<>>, <<>>, <<>>, rem, pub)
  BY DEF Origin, GenuineAll, ArchivesFirst

\* The requests, as far as what they carry is concerned.
LEMMA GenuineRequests ==
  ASSUME NEW pub
  PROVE  LET Good(q) == /\ \A i \in DOMAIN q : GenuineCmd(q[i], pub)
                        /\ ArchivesFirst(q, [i \in Id |-> None])
         IN  /\ Good(HelloCmds) /\ Good(<<[op |-> "hgetall"]>>)
             /\ \A b \in Bodies : Good(ViewCmds(b))
             /\ \A p \in Post : AsPublished(p, pub) /\ p.visualizations = 0 =>
                  Good(PublishCmds(p))
             /\ \A id \in Id, u \in User, p \in Post :
                  (Seen => Genuine(p, pub) /\ p.id = id) => Good(DeleteCmds(id, u, p))
<1>1. /\ \A i \in DOMAIN HelloCmds : GenuineCmd(HelloCmds[i], pub)
      /\ ArchivesFirst(HelloCmds, [i \in Id |-> None])
  BY DEF HelloCmds, GenuineCmd, ArchivesFirst
<1>2. /\ \A i \in DOMAIN <<[op |-> "hgetall"]>> : GenuineCmd(<<[op |-> "hgetall"]>>[i], pub)
      /\ ArchivesFirst(<<[op |-> "hgetall"]>>, [i \in Id |-> None])
  BY DEF GenuineCmd, ArchivesFirst
<1>3. ASSUME NEW b \in Bodies
      PROVE  /\ \A i \in DOMAIN ViewCmds(b) : GenuineCmd(ViewCmds(b)[i], pub)
             /\ ArchivesFirst(ViewCmds(b), [i \in Id |-> None])
  <2> DEFINE c == Publish(b.news)
             d == [op |-> "hincrby", id |-> b.id]
  <2>1. GenuineNews(b.news, pub)
    BY DEF GenuineNews, ViewsOnly, NoViewsBrought
  <2>2. GenuineCmd(c, pub) /\ c.op = "publish"
    BY <2>1 DEF GenuineCmd, Publish
  <2>3. GenuineCmd(d, pub) /\ d.op = "hincrby"
    BY DEF GenuineCmd
  <2>4. ViewCmds(b) = <<c, d>>
    BY DEF ViewCmds
  <2> HIDE DEF c, d
  <2> QED BY <2>2, <2>3, <2>4 DEF ArchivesFirst
<1>4. ASSUME NEW p \in Post, AsPublished(p, pub), p.visualizations = 0
      PROVE  /\ \A i \in DOMAIN PublishCmds(p) : GenuineCmd(PublishCmds(p)[i], pub)
             /\ ArchivesFirst(PublishCmds(p), [i \in Id |-> None])
  <2>1. GenuineCmd([op |-> "hset", post |-> p], pub)
    BY <1>4 DEF GenuineCmd
  <2>2. GenuineCmd(Publish([cmd |-> "publish_internal", post |-> p]), pub)
    BY <1>4 DEF GenuineCmd, Publish, GenuineNews
  <2>3. Publish([cmd |-> "publish_internal", post |-> p]).op = "publish"
    BY DEF Publish
  <2> QED BY <2>1, <2>2, <2>3 DEF PublishCmds, ArchivesFirst
<1>5. ASSUME NEW id \in Id, NEW u \in User, NEW p \in Post,
             Seen => Genuine(p, pub) /\ p.id = id
      PROVE  /\ \A i \in DOMAIN DeleteCmds(id, u, p) : GenuineCmd(DeleteCmds(id, u, p)[i], pub)
             /\ ArchivesFirst(DeleteCmds(id, u, p), [i \in Id |-> None])
  <2> DEFINE a == [op |-> "archive", id |-> id, post |-> p]
             d == [op |-> "hdel", id |-> id]
             s == Publish([cmd |-> "delete", id |-> id, from |-> u])
             q == <<a, d, s>>
  <2>1. GenuineCmd(a, pub) /\ a.op = "archive" /\ a.id = id
    BY <1>5 DEF GenuineCmd
  <2>2. GenuineCmd(d, pub) /\ d.op = "hdel" /\ d.id = id
    BY DEF GenuineCmd
  <2>3. GenuineCmd(s, pub) /\ s.op = "publish"
    BY DEF GenuineCmd, Publish, GenuineNews
  <2>4. q = DeleteCmds(id, u, p)
    BY DEF DeleteCmds
  <2> HIDE DEF a, d, s
  <2>5. DOMAIN q = 1 .. 3 /\ q[1] = a /\ q[2] = d /\ q[3] = s
    OBVIOUS
  <2> HIDE DEF q
  <2>6. \A i \in DOMAIN q : GenuineCmd(q[i], pub)
    BY <2>1, <2>2, <2>3, <2>5
  <2>7. ArchivesFirst(q, [i \in Id |-> None])
    <3> SUFFICES ASSUME NEW i \in DOMAIN q, q[i].op = "hdel"
                 PROVE  \E j \in DOMAIN q :
                          j < i /\ q[j].op = "archive" /\ q[j].id = q[i].id
      BY DEF ArchivesFirst
    <3>1. i = 2
      BY <2>1, <2>3, <2>5
    <3> QED BY <2>1, <2>2, <2>5, <3>1
  <2> QED BY <2>4, <2>6, <2>7
<1> QED BY <1>1, <1>2, <1>3, <1>4, <1>5

-----------------------------------------------------------------------------
(* Provenance, by induction.  Only with Seen is the post that is archived    *)
(* the one that is deleted: delete_post() takes what is at the lower bound.  *)

ProvInv == Inv /\ Provenance

LEMMA InitProv == Init => Provenance
  BY OriginBlank DEF Init, Provenance

\* A step of a process or of Redis that stores and archives nothing and is
\* right about each process.
LEMMA ProvenanceKept ==
  ASSUME Provenance, UNCHANGED <<stored, removed, published>>,
         \A n \in Node : Origin(posts'[n], reply'[n], pipe'[n], removed, published)
  PROVE  Provenance'
  BY DEF Provenance

\* One process gets a new request, and the rest is as it was.
LEMMA ProvenanceRequest ==
  ASSUME ProvInv, NEW n \in Node, NEW q \in Seq(Command), Request(n, q),
         UNCHANGED <<posts, reply, stored, removed, published>>,
         \A i \in DOMAIN q : GenuineCmd(q[i], published),
         ArchivesFirst(q, [i \in Id |-> None])
  PROVE  Provenance'
<1>1. \A m \in Node : Origin(posts[m], reply[m], pipe[m], removed, published)
  BY DEF ProvInv, Provenance
<1>2. pipe \in [Node -> Seq(Command)]
  BY DEF ProvInv, Inv, TypeOK
<1>3. \A m \in Node : pipe'[m] = IF m = n THEN pipe[n] \o q ELSE pipe[m]
  BY <1>2 DEF Request
<1>4. Origin(posts[n], reply[n], pipe[n] \o q, removed, published)
  <2>1. pipe[n] \in Seq(Command) /\ Origin(posts[n], reply[n], pipe[n], removed, published)
    BY <1>1, <1>2
  <2> QED BY <2>1, OriginRequest
<1>5. \A m \in Node : Origin(posts'[m], reply'[m], pipe'[m], removed, published)
  BY <1>1, <1>3, <1>4
<1> QED BY <1>5, ProvenanceKept DEF ProvInv

LEMMA StartProv == ASSUME ProvInv, NEW n \in Node, Start(n) PROVE Provenance'
<1>1. /\ Request(n, HelloCmds)
      /\ UNCHANGED <<posts, reply, stored, removed, published>>
  BY DEF Start, redisVars
<1>2. HelloCmds \in Seq(Command)
  BY CmdTypes
<1> QED BY <1>1, <1>2, GenuineRequests, ProvenanceRequest

LEMMA ReconnectProv == ASSUME ProvInv, NEW n \in Node, Reconnect(n) PROVE Provenance'
<1>1. /\ pipe' = [pipe EXCEPT ![n] = HelloCmds] /\ reply' = [reply EXCEPT ![n] = <<>>]
      /\ UNCHANGED <<posts, stored, removed, published>>
  BY DEF Reconnect, workerVars
<1>2. TypeOK /\ \A m \in Node : Origin(posts[m], reply[m], pipe[m], removed, published)
  BY DEF ProvInv, Inv, Provenance
<1>3. Origin(posts[n], <<>>, HelloCmds, removed, published)
  <2>1. /\ \A i \in DOMAIN HelloCmds : GenuineCmd(HelloCmds[i], published)
        /\ ArchivesFirst(HelloCmds, removed)
    BY DEF HelloCmds, GenuineCmd, ArchivesFirst
  <2> QED BY <1>2, <2>1 DEF Origin
<1>4. \A m \in Node : Origin(posts'[m], reply'[m], pipe'[m], removed, published)
  BY <1>1, <1>2, <1>3 DEF TypeOK
<1> QED BY <1>1, <1>4, ProvenanceKept DEF ProvInv

LEMMA StopProv == ASSUME ProvInv, NEW n \in Node, Stop(n) PROVE Provenance'
<1>1. /\ pipe' = [pipe EXCEPT ![n] = <<>>] /\ reply' = [reply EXCEPT ![n] = <<>>]
      /\ posts' = [posts EXCEPT ![n] = <<>>]
      /\ UNCHANGED <<stored, removed, published>>
  BY DEF Stop, history
<1>2. TypeOK /\ \A m \in Node : Origin(posts[m], reply[m], pipe[m], removed, published)
  BY DEF ProvInv, Inv, Provenance
<1>3. \A m \in Node : Origin(posts'[m], reply'[m], pipe'[m], removed, published)
  BY <1>1, <1>2, OriginBlank DEF TypeOK
<1> QED BY <1>1, <1>3, ProvenanceKept DEF ProvInv

LEMMA ViewProv ==
  ASSUME ProvInv, NEW n \in Node, NEW b \in Bodies, OnView(n, b)
  PROVE  Provenance'
<1>1. /\ Request(n, ViewCmds(b))
      /\ UNCHANGED <<posts, reply, stored, removed, published>>
  BY DEF OnView, redisVars, workerVars
<1>2. ViewCmds(b) \in Seq(Command)
  BY CmdTypes
<1> QED BY <1>1, <1>2, GenuineRequests, ProvenanceRequest

LEMMA DeleteProv ==
  ASSUME ProvInv, NEW n \in Node, NEW u \in User, NEW id \in Id, OnDelete(n, u, id)
  PROVE  Provenance'
<1>1. PICK p \in Get(posts[n], id) : Request(n, DeleteCmds(id, u, p))
  BY DEF OnDelete
<1>2. /\ UNCHANGED <<posts, reply, stored, removed, published>>
      /\ Seen => Place(posts[n], id) # 0
  BY DEF OnDelete, redisVars, workerVars
<1>3. posts[n] \in Seq(Post) /\ ById(posts[n])
  BY SortedIsById DEF ProvInv, Inv, TypeOK
<1>4. PICK k \in DOMAIN posts[n] : p = posts[n][k]
  BY <1>1 DEF Get
<1>5. p \in Post
  BY <1>3, <1>4
<1>6. Seen => Genuine(p, published) /\ p.id = id
  <2>1. Seen => p.id = id
    BY <1>1, <1>2, <1>3, GetFinds
  <2> QED BY <1>4, <2>1 DEF ProvInv, Provenance, Origin, GenuineAll
<1>7. DeleteCmds(id, u, p) \in Seq(Command)
  BY <1>5, CmdTypes
<1>8. /\ \A i \in DOMAIN DeleteCmds(id, u, p) : GenuineCmd(DeleteCmds(id, u, p)[i], published)
      /\ ArchivesFirst(DeleteCmds(id, u, p), [i \in Id |-> None])
  BY <1>5, <1>6, GenuineRequests
<1> QED BY <1>1, <1>2, <1>7, <1>8, ProvenanceRequest

\* A post is published under an id that no other has had.
LEMMA PublishProv ==
  ASSUME ProvInv, NEW n \in Node, NEW u \in User, NEW id \in Id, OnPublish(n, u, id)
  PROVE  Provenance'
<1> DEFINE p == [id |-> id, from |-> u, visualizations |-> 0,
                 location |-> Code[id].location, product |-> Code[id].product]
<1>1. /\ Request(n, PublishCmds(p)) /\ published' = [published EXCEPT ![id] = p]
      /\ published[id] = None
      /\ UNCHANGED <<posts, reply, stored, removed>>
  BY DEF OnPublish, redisVars, workerVars
<1>2. p \in Post /\ p.id = id /\ p.visualizations = 0
      /\ [p EXCEPT !.visualizations = 0] = p
  <2>1. Code[id].location \in Seq(Nat) /\ Code[id].product \in Seq(Nat)
    <3>1. Code \in [Id -> [location : Seq(Nat), product : Seq(Nat)]]
      BY PostsAssumption
    <3> QED BY <3>1
  <2> QED BY <2>1 DEF Post
<1> HIDE DEF p
<1>3. TypeOK /\ \A m \in Node : Origin(posts[m], reply[m], pipe[m], removed, published)
  BY DEF ProvInv, Inv, Provenance
<1>4. /\ Grows(published, published') /\ published'[id] = p /\ p # None
      /\ \A i \in Id : published'[i] = IF i = id THEN p ELSE published[i]
  BY <1>1, <1>2, <1>3, NoneIsNoPost DEF TypeOK, Grows
<1>5. AsPublished(p, published')
  BY <1>2, <1>4 DEF AsPublished
<1>6. PublishCmds(p) \in Seq(Command)
  BY <1>2, CmdTypes
<1>7. /\ \A i \in DOMAIN PublishCmds(p) : GenuineCmd(PublishCmds(p)[i], published')
      /\ ArchivesFirst(PublishCmds(p), [i \in Id |-> None])
  BY <1>2, <1>5, GenuineRequests
<1>8. ASSUME NEW m \in Node
      PROVE  Origin(posts'[m], reply'[m], pipe'[m], removed', published')
  <2>1. posts[m] \in Seq(Post) /\ reply[m] \in Seq(Event) /\ pipe[m] \in Seq(Command)
    BY <1>3 DEF TypeOK
  <2>2. Origin(posts[m], reply[m], pipe[m], removed, published')
    BY <1>3, <1>4, <2>1, OriginGrows
  <2>3. pipe'[m] = IF m = n THEN pipe[m] \o PublishCmds(p) ELSE pipe[m]
    BY <1>1, <1>3 DEF Request, TypeOK
  <2>4. Origin(posts[m], reply[m], pipe[m] \o PublishCmds(p), removed, published')
    BY <1>6, <1>7, <2>1, <2>2, OriginRequest
  <2> QED BY <1>1, <2>2, <2>3, <2>4
<1>9. \A q \in stored' : AsPublished(q, published')
  <2> SUFFICES ASSUME NEW q \in stored PROVE AsPublished(q, published')
    BY <1>1
  <2>1. q \in Post
    BY <1>3 DEF TypeOK
  <2>2. AsPublished(q, published)
    BY DEF ProvInv, Provenance
  <2> QED BY <1>4, <2>1, <2>2, GenuineGrows
<1>10. \A i \in Id : Seen /\ removed'[i] # None =>
         Genuine(removed'[i], published') /\ removed'[i].id = i
  <2> SUFFICES ASSUME NEW i \in Id, Seen, removed[i] # None
               PROVE  Genuine(removed[i], published') /\ removed[i].id = i
    BY <1>1
  <2>1. removed[i] \in Post
    BY <1>3 DEF TypeOK
  <2>2. Genuine(removed[i], published) /\ removed[i].id = i
    BY DEF ProvInv, Provenance
  <2> QED BY <1>4, <2>1, <2>2, GenuineGrows
<1>11. \A i \in Id : published'[i] # None =>
         published'[i].id = i /\ published'[i].visualizations = 0
  BY <1>2, <1>4 DEF ProvInv, Provenance
<1> QED BY <1>8, <1>9, <1>10, <1>11 DEF Provenance

\* A post has no views when it is published.
LEMMA PublishedIsGenuine ==
  ASSUME ProvInv, NEW p \in Post, AsPublished(p, published)
  PROVE  p.visualizations = 0 /\ Genuine(p, published)
<1>1. p.id \in Id /\ p = published[p.id] /\ published[p.id] # None
  BY DEF Post, AsPublished
<1>2. p.visualizations = 0
  BY <1>1 DEF ProvInv, Provenance
<1>3. [p EXCEPT !.visualizations = 0] = p
  BY <1>2 DEF Post
<1> QED BY <1>1, <1>2, <1>3 DEF Genuine

\* A process takes an answer and its posts are new.
LEMMA ReplyProv == ASSUME ProvInv, NEW n \in Node, OnReply(n) PROVE Provenance'
<1> DEFINE e == Head(reply[n])
<1>1. TypeOK /\ \A m \in Node : Origin(posts[m], reply[m], pipe[m], removed, published)
  BY DEF ProvInv, Inv, Provenance
<1>2. /\ reply[n] # <<>> /\ reply' = [reply EXCEPT ![n] = Tail(@)]
      /\ UNCHANGED <<stored, removed, published>>
  BY DEF OnReply, OnHvals, OnHgetall, OnNews, Receive, redisVars, history
<1>3. /\ posts[n] \in Seq(Post) /\ ById(posts[n]) /\ GenuineAll(posts[n], published)
      /\ reply[n] \in Seq(Event) /\ pipe[n] \in Seq(Command)
  BY <1>1, SortedIsById DEF ProvInv, Inv, TypeOK, Origin
<1>4. /\ GenuineEvent(e, published)
      /\ \A new : GenuineAll(new, published) =>
                    Origin(new, Tail(reply[n]), pipe[n], removed, published)
  BY <1>1, <1>2, <1>3, OriginReceive
<1>5. e \in Event
  BY <1>2, <1>3, HeadTailProperties
<1> HIDE DEF e
<1>6. ASSUME NEW new, GenuineAll(new, published), posts' = [posts EXCEPT ![n] = new],
             pipe' = pipe \/ Request(n, <<[op |-> "hgetall"]>>)
      PROVE  Provenance'
  <2>1. Origin(new, Tail(reply[n]), pipe[n], removed, published)
    BY <1>4, <1>6
  <2>2. Origin(new, Tail(reply[n]), pipe[n] \o <<[op |-> "hgetall"]>>, removed, published)
    <3>1. <<[op |-> "hgetall"]>> \in Seq(Command)
      BY CmdTypes
    <3> QED BY <1>3, <2>1, <3>1, GenuineRequests, OriginRequest
  <2>3. \A m \in Node : /\ posts'[m] = IF m = n THEN new ELSE posts[m]
                        /\ reply'[m] = IF m = n THEN Tail(reply[n]) ELSE reply[m]
    BY <1>1, <1>2, <1>6 DEF TypeOK
  <2>4. \/ \A m \in Node : pipe'[m] = pipe[m]
        \/ \A m \in Node : pipe'[m] = IF m = n THEN pipe[n] \o <<[op |-> "hgetall"]>>
                                               ELSE pipe[m]
    BY <1>1, <1>6 DEF Request, TypeOK
  <2>5. \A m \in Node : Origin(posts'[m], reply'[m], pipe'[m], removed, published)
    BY <1>1, <2>1, <2>2, <2>3, <2>4
  <2> QED BY <1>2, <2>5, ProvenanceKept DEF ProvInv
<1>7. CASE OnHvals(n)
  <2>1. e.type = "hvals" /\ posts' = [posts EXCEPT ![n] = AddPosts(posts[n], e.posts)]
        /\ Request(n, <<[op |-> "hgetall"]>>)
    BY <1>1, <1>7 DEF OnHvals, Receive, e, TypeOK
  <2>2. e.posts \in Seq(Post) /\ GenuineAll(e.posts, published)
    <3>1. e.posts \in Seq(Post)
      BY <1>5, <2>1 DEF Event
    <3>2. \A k \in DOMAIN e.posts :
            e.posts[k] \in Post /\ AsPublished(e.posts[k], published)
      BY <1>4, <2>1, <3>1, PlaceTypes DEF GenuineEvent
    <3> QED BY <3>1, <3>2, PublishedIsGenuine DEF GenuineAll
  <2>3. GenuineAll(AddPosts(posts[n], e.posts), published)
    BY <1>3, <2>2, AddPostsGenuine
  <2> QED BY <1>6, <2>1, <2>3
<1>8. CASE OnHgetall(n)
  <2>1. posts' = [posts EXCEPT ![n] = LoadVisualizations(posts[n], e.visual)]
        /\ pipe' = pipe
    BY <1>1, <1>8 DEF OnHgetall, e, TypeOK
  <2>2. GenuineAll(LoadVisualizations(posts[n], e.visual), published)
    BY <1>3, LoadVisualizationsGenuine
  <2> QED BY <1>6, <2>1, <2>2
<1>9. CASE OnNews(n)
  <2> DEFINE s == e.news
             ps == posts[n]
  <2>1. /\ e.type = "push" /\ pipe' = pipe
        /\ posts' = [posts EXCEPT ![n] =
              CASE s.cmd = "publish_internal" -> AddPosts(ps, <<s.post>>)
                [] s.cmd = "delete" -> RemovePost(ps, s.id, s.from, s.from = Admin)
                [] s.cmd = "visualization" -> OnVisualization(ps, s.id)
                [] s.cmd = "none" -> ps]
    BY <1>1, <1>9 DEF OnNews, Receive, e, TypeOK
  <2>2. s \in News /\ GenuineNews(s, published)
    BY <1>4, <1>5, <2>1 DEF Event, GenuineEvent
  <2> HIDE DEF s, ps
  <2>3. ASSUME s.cmd = "publish_internal" PROVE Provenance'
    <3>1. s.post \in Post /\ Genuine(s.post, published)
      <4>1. s.post \in Post /\ (ViewsOnly => AsPublished(s.post, published))
        BY <2>2, <2>3 DEF News, GenuineNews
      <4> QED BY <4>1, PublishedIsGenuine DEF Genuine
    <3>2. <<s.post>> \in Seq(Post) /\ GenuineAll(<<s.post>>, published)
      BY <3>1 DEF GenuineAll
    <3>3. GenuineAll(AddPosts(ps, <<s.post>>), published)
      BY <1>3, <3>2, AddPostsGenuine DEF ps
    <3>4. posts' = [posts EXCEPT ![n] = AddPosts(ps, <<s.post>>)]
      BY <2>1, <2>3
    <3> QED BY <1>6, <2>1, <3>3, <3>4
  <2>4. ASSUME s.cmd = "delete" PROVE Provenance'
    <3>1. (s.from = Admin) \in BOOLEAN
      OBVIOUS
    <3>2. GenuineAll(RemovePost(ps, s.id, s.from, s.from = Admin), published)
      BY <1>3, <3>1, RemovePostGenuine DEF ps
    <3>3. posts' = [posts EXCEPT ![n] = RemovePost(ps, s.id, s.from, s.from = Admin)]
      BY <2>1, <2>4
    <3> QED BY <1>6, <2>1, <3>2, <3>3
  <2>5. ASSUME s.cmd = "visualization" PROVE Provenance'
    <3>1. GenuineAll(OnVisualization(ps, s.id), published)
      BY <1>3, OnVisualizationGenuine DEF ps
    <3>2. posts' = [posts EXCEPT ![n] = OnVisualization(ps, s.id)]
      BY <2>1, <2>5
    <3> QED BY <1>6, <2>1, <3>1, <3>2
  <2>7. ASSUME s.cmd = "none" PROVE Provenance'
    <3>1. posts' = [posts EXCEPT ![n] = ps]
      BY <2>1, <2>7
    <3> QED BY <1>3, <1>6, <2>1, <3>1 DEF ps
  <2>6. s.cmd \in {"publish_internal", "delete", "visualization", "none"}
    BY <2>2 DEF News
  <2> QED BY <2>3, <2>4, <2>5, <2>6, <2>7
<1> QED BY <1>7, <1>8, <1>9 DEF OnReply

LEMMA RedisProv ==
  ASSUME ProvInv, NEW n \in Node, Redis(n)
  PROVE  Provenance' /\ (Seen /\ ViewsOnly => \A p \in stored \ stored' :
                                   /\ removed[p.id] # None
                                   /\ [removed[p.id] EXCEPT !.visualizations = 0] = p)
<1> DEFINE c == Head(pipe[n])
<1>1. TypeOK /\ IsFiniteSet(stored)
      /\ \A m \in Node : Origin(posts[m], reply[m], pipe[m], removed, published)
  BY DEF ProvInv, Inv, Provenance
<1>2. UNCHANGED <<posts, published>>
  BY DEF Redis, workerVars, history
<1>3. \A m \in Node : posts[m] \in Seq(Post) /\ reply[m] \in Seq(Event)
                      /\ pipe[m] \in Seq(Command)
  BY <1>1 DEF TypeOK
<1>4. pipe[n] # <<>> /\ pipe' = [pipe EXCEPT ![n] = Tail(@)] /\ c \in Command
  BY <1>1, ExecType
  DEF Redis, ExecHvals, ExecHgetall, ExecSubscribe, ExecHset, ExecArchive, ExecHdel,
      ExecHincrby, ExecPublish, Exec, TypeOK
<1>5. /\ \A m \in Node \ {n} : pipe'[m] = pipe[m]
      /\ pipe'[n] = Tail(pipe[n])
  BY <1>1, <1>4 DEF TypeOK
<1>6. GenuineCmd(c, published)
  <2>1. 1 \in DOMAIN pipe[n] /\ pipe[n][1] = c
    <3>1. Len(pipe[n]) # 0 /\ Len(pipe[n]) \in Nat /\ DOMAIN pipe[n] = 1 .. Len(pipe[n])
      BY <1>3, <1>4
    <3> QED BY <1>3, <3>1
  <2> QED BY <1>1, <2>1 DEF Origin
<1> HIDE DEF c
\* Nothing is archived, and each process may be told something genuine.
<1>7. ASSUME UNCHANGED <<stored, removed>>, c.op # "archive",
             \A m \in Node : \/ reply'[m] = reply[m]
                             \/ \E e \in Event : /\ GenuineEvent(e, published)
                                                 /\ reply'[m] = Append(reply[m], e)
      PROVE  Provenance'
  <2>1. ASSUME NEW m \in Node
        PROVE  Origin(posts[m], reply[m], pipe'[m], removed, published)
    <3>1. CASE m = n
      <4>1. Origin(posts[n], reply[n], Tail(pipe[n]), removed, published)
        BY <1>1, <1>3, <1>4, <1>7, OriginExec DEF c
      <4> QED BY <1>5, <3>1, <4>1
    <3>2. CASE m # n
      BY <1>1, <1>5, <3>2
    <3> QED BY <3>1, <3>2
  <2>2. ASSUME NEW m \in Node
        PROVE  Origin(posts[m], reply'[m], pipe'[m], removed, published)
    <3>1. CASE reply'[m] = reply[m]
      BY <2>1, <3>1
    <3>2. ASSUME NEW e \in Event, GenuineEvent(e, published),
                 reply'[m] = Append(reply[m], e)
          PROVE  Origin(posts[m], reply'[m], pipe'[m], removed, published)
      <4>1. Origin(posts[m], Append(reply[m], e), pipe'[m], removed, published)
        BY <1>3, <2>1, <3>2, OriginAnswer
      <4> QED BY <3>2, <4>1
    <3> QED BY <1>7, <3>1, <3>2
  <2> QED BY <1>2, <1>7, <2>2, ProvenanceKept DEF ProvInv
<1>8. CASE ExecHvals(n)
  <2>1. c.op = "hvals" /\ UNCHANGED <<stored, removed>>
    BY <1>8 DEF ExecHvals, Exec, c, redisVars
  <2>2. PICK s \in SetToSeqs(stored) : Answer(n, [type |-> "hvals", posts |-> s])
    BY <1>8 DEF ExecHvals
  <2>3. s \in Seq(stored) /\ s \in Seq(Post)
    <3>1. s \in Seq(stored)
      BY <1>1, ListType
    <3> QED BY <1>1, <3>1 DEF TypeOK
  <2>4. \A k \in DOMAIN s : AsPublished(s[k], published)
    <3>1. \A k \in DOMAIN s : s[k] \in stored
      BY <2>3
    <3> QED BY <3>1 DEF ProvInv, Provenance
  <2> DEFINE e == [type |-> "hvals", posts |-> s]
  <2>6. e \in Event /\ GenuineEvent(e, published)
    BY <2>3, <2>4 DEF Event, GenuineEvent
  <2>7. \A m \in Node : reply'[m] = reply[m] \/ reply'[m] = Append(reply[m], e)
    BY <1>1, <2>2 DEF Answer, TypeOK
  <2> HIDE DEF e
  <2> QED BY <1>7, <2>1, <2>6, <2>7
<1>9. CASE ExecHgetall(n)
  <2> DEFINE S == {i \in Id : views[i] > 0}
             visual(s) == [k \in DOMAIN s |-> [id |-> s[k], n |-> views[s[k]]]]
  <2>1. c.op = "hgetall" /\ UNCHANGED <<stored, removed>>
    BY <1>9 DEF ExecHgetall, Exec, c, redisVars
  <2>2. PICK s \in SetToSeqs(S) : Answer(n, [type |-> "hgetall", visual |-> visual(s)])
    BY <1>9 DEF ExecHgetall
  <2> DEFINE e == [type |-> "hgetall", visual |-> visual(s)]
  <2>3. reply' \in [Node -> Seq(Event)]
    BY <1>9, ExecHgetallType DEF ProvInv
  <2>4. reply'[n] = Append(reply[n], e) /\ \A m \in Node \ {n} : reply'[m] = reply[m]
    BY <1>1, <2>2 DEF Answer, TypeOK
  <2>5. GenuineEvent(e, published)
    BY DEF GenuineEvent
  <2> HIDE DEF e
  <2>6. e \in Event
    <3>1. Len(Append(reply[n], e)) = Len(reply[n]) + 1 /\ Len(reply[n]) \in Nat
          /\ Append(reply[n], e)[Len(reply[n]) + 1] = e
      BY <1>3
    <3>2. Append(reply[n], e) \in Seq(Event)
      BY <2>3, <2>4
    <3>3. Len(reply[n]) + 1 \in 1 .. Len(Append(reply[n], e))
      BY <3>1
    <3> QED BY <3>1, <3>2, <3>3
  <2> QED BY <1>7, <2>1, <2>4, <2>5, <2>6
<1>10. CASE ExecSubscribe(n) \/ ExecHincrby(n)
  <2>1. c.op \in {"subscribe", "hincrby"} /\ UNCHANGED <<stored, removed, reply>>
    BY <1>10 DEF ExecSubscribe, ExecHincrby, Exec, c
  <2> QED BY <1>7, <2>1
<1>11. CASE ExecPublish(n)
  <2> DEFINE e == [type |-> "push", news |-> c.news]
  <2>1. /\ c.op = "publish" /\ UNCHANGED <<stored, removed>>
        /\ \A m \in Node : reply'[m] = reply[m] \/ reply'[m] = Append(reply[m], e)
    BY <1>11 DEF ExecPublish, Exec, c, redisVars
  <2>2. c.news \in News /\ GenuineNews(c.news, published)
    BY <1>4, <1>6, <2>1 DEF Command, GenuineCmd, c
  <2>3. e \in Event /\ GenuineEvent(e, published)
    BY <2>2 DEF Event, GenuineEvent
  <2> HIDE DEF e
  <2> QED BY <1>7, <2>1, <2>3
<1>12. CASE ExecHset(n)
  <2>1. /\ c.op = "hset" /\ UNCHANGED <<removed, reply>>
        /\ stored' = stored \cup {c.post}
    BY <1>12 DEF ExecHset, Exec, c
  <2>2. AsPublished(c.post, published)
    BY <1>6, <2>1 DEF GenuineCmd
  <2>3. Origin(posts[n], reply[n], Tail(pipe[n]), removed, published)
    BY <1>1, <1>3, <1>4, <2>1, OriginExec DEF c
  <2>4. \A m \in Node : Origin(posts[m], reply[m], pipe'[m], removed, published)
    BY <1>1, <1>5, <2>3
  <2> QED BY <1>2, <2>1, <2>2, <2>4 DEF ProvInv, Provenance
<1>13. CASE ExecArchive(n)
  <2>1. /\ c.op = "archive" /\ UNCHANGED <<stored, reply>>
        /\ removed' = [removed EXCEPT ![c.id] = c.post]
    BY <1>13 DEF ExecArchive, Exec, c
  <2>2. c.id \in Id /\ c.post \in Post /\ c.post # None
    BY <1>4, <2>1, NoneIsNoPost DEF Command, c
  <2>3. Seen => Genuine(c.post, published) /\ c.post.id = c.id
    BY <1>6, <2>1 DEF GenuineCmd
  <2>4. \A i \in Id : removed'[i] = IF i = c.id THEN c.post ELSE removed[i]
    BY <1>1, <2>1 DEF TypeOK
  <2>5. /\ \A i \in Id : removed[i] # None => removed'[i] # None
        /\ removed'[c.id] # None
    BY <2>2, <2>4
  <2>6. Origin(posts[n], reply[n], Tail(pipe[n]), removed', published)
    BY <1>1, <1>3, <1>4, <2>5, OriginExec DEF c
  <2>7. \A m \in Node : Origin(posts[m], reply[m], pipe[m], removed', published)
    BY <1>1, <1>3, <2>5, OriginArchived
  <2>8. \A m \in Node : Origin(posts[m], reply[m], pipe'[m], removed', published)
    BY <1>5, <2>6, <2>7
  <2>9. \A i \in Id : Seen /\ removed'[i] # None =>
          Genuine(removed'[i], published) /\ removed'[i].id = i
    BY <2>3, <2>4 DEF ProvInv, Provenance
  <2>10. Provenance'
    BY <1>2, <2>1, <2>8, <2>9 DEF ProvInv, Provenance
  <2> QED BY <2>1, <2>10
<1>14. CASE ExecHdel(n)
  <2>1. /\ c.op = "hdel" /\ UNCHANGED <<removed, reply>>
        /\ stored' = {p \in stored : p.id # c.id}
    BY <1>14 DEF ExecHdel, Exec, c
  <2>2. c.id \in Id
    BY <1>4, <2>1 DEF Command, c
  <2>3. removed[c.id] # None
    <3>1. 1 \in DOMAIN pipe[n] /\ pipe[n][1] = c
          /\ \A j \in DOMAIN pipe[n] : ~(j < 1)
      <4>1. Len(pipe[n]) # 0 /\ Len(pipe[n]) \in Nat /\ DOMAIN pipe[n] = 1 .. Len(pipe[n])
        BY <1>3, <1>4
      <4> QED BY <1>3, <4>1 DEF c
    <3> QED BY <1>1, <2>1, <3>1 DEF Origin, ArchivesFirst
  <2>4. Seen => Genuine(removed[c.id], published) /\ removed[c.id].id = c.id
    BY <2>2, <2>3 DEF ProvInv, Provenance
  <2>5. ASSUME Seen, ViewsOnly, NEW p \in stored \ stored'
        PROVE  /\ removed[p.id] # None
               /\ [removed[p.id] EXCEPT !.visualizations = 0] = p
    <3>1. p \in stored /\ p.id = c.id
      BY <2>1
    <3>2. p = published[p.id]
      BY <3>1 DEF ProvInv, Provenance, AsPublished
    <3> QED BY <2>3, <2>4, <2>5, <3>1, <3>2 DEF Genuine
  <2>6. Origin(posts[n], reply[n], Tail(pipe[n]), removed, published)
    BY <1>1, <1>3, <1>4, <2>1, OriginExec DEF c
  <2>7. \A m \in Node : Origin(posts[m], reply[m], pipe'[m], removed, published)
    BY <1>1, <1>5, <2>6
  <2>8. Provenance'
    BY <1>2, <2>1, <2>7 DEF ProvInv, Provenance
  <2> QED BY <2>5, <2>8
<1>15. ~ExecHdel(n) => stored \subseteq stored'
  BY DEF Redis, ExecHvals, ExecHgetall, ExecSubscribe, ExecHset, ExecArchive,
         ExecHincrby, ExecPublish, redisVars
<1>16. CASE ~ExecHdel(n)
  BY <1>8, <1>9, <1>10, <1>11, <1>12, <1>13, <1>15, <1>16 DEF Redis
<1> QED BY <1>14, <1>16

LEMMA NextProv ==
  ASSUME ProvInv, [Next]_vars
  PROVE  Provenance' /\ (Seen /\ ViewsOnly => \A p \in stored \ stored' :
                                   /\ removed[p.id] # None
                                   /\ [removed[p.id] EXCEPT !.visualizations = 0] = p)
<1>1. CASE UNCHANGED vars
  BY <1>1 DEF ProvInv, Provenance, vars, workerVars, redisVars, history
<1>2. ASSUME NEW n \in Node,
             \/ Start(n) \/ Reconnect(n) \/ Stop(n)
             \/ \E b \in Bodies : OnView(n, b)
             \/ \E id \in Id, u \in User : OnPublish(n, u, id) \/ OnDelete(n, u, id)
             \/ OnReply(n)
      PROVE  Provenance' /\ stored' = stored
  <2>1. CASE Start(n) \/ Reconnect(n) \/ Stop(n)
    BY <2>1, StartProv, ReconnectProv, StopProv DEF Start, Reconnect, Stop, redisVars
  <2>2. ASSUME NEW b \in Bodies, OnView(n, b) PROVE Provenance' /\ stored' = stored
    BY <2>2, ViewProv DEF OnView, redisVars
  <2>3. ASSUME NEW id \in Id, NEW u \in User, OnPublish(n, u, id) \/ OnDelete(n, u, id)
        PROVE  Provenance' /\ stored' = stored
    BY <2>3, PublishProv, DeleteProv DEF OnPublish, OnDelete, redisVars
  <2>4. CASE OnReply(n)
    BY <2>4, ReplyProv DEF OnReply, OnHvals, OnHgetall, OnNews, redisVars
  <2> QED BY <1>2, <2>1, <2>2, <2>3, <2>4
<1>3. ASSUME NEW n \in Node, Redis(n)
      PROVE  Provenance' /\ (Seen /\ ViewsOnly => \A p \in stored \ stored' :
                                       /\ removed[p.id] # None
                                       /\ [removed[p.id] EXCEPT !.visualizations = 0] = p)
  BY <1>3, RedisProv
<1> QED BY <1>1, <1>2, <1>3 DEF Next

\* If clients only name posts that the process has and bring no posts as views,
\* then a post leaves Redis only after the very post, up to its views, was
\* archived: although two processes may delete it at the same time and what a
\* process asked for may be lost half way.
THEOREM ArchivedFirst == ASSUME Seen, ViewsOnly PROVE Spec => Archived
<1>1. Init => ProvInv
  BY InitInv, InitProv DEF ProvInv
<1>2. ProvInv /\ [Next]_vars => ProvInv'
  BY NextInv, NextProv DEF ProvInv
<1>3. ProvInv /\ [Next]_vars =>
        [\A p \in stored \ stored' :
           /\ removed[p.id] # None
           /\ [removed[p.id] EXCEPT !.visualizations = 0] = p]_vars
  BY NextProv
<1> QED BY <1>1, <1>2, <1>3, PTL DEF Spec, Archived

-----------------------------------------------------------------------------
(* Counting an entry in a queue, and in all queues.                         *)

LEMMA SameSize ==
  ASSUME NEW A, NEW B, IsFiniteSet(A), NEW f \in [A -> B],
         \A k, l \in A : f[k] = f[l] => k = l,
         \A l \in B : \E k \in A : f[k] = l
  PROVE  IsFiniteSet(B) /\ Cardinality(B) = Cardinality(A)
<1>1. f \in Bijection(A, B)
  BY DEF Bijection, Injection, Surjection, IsInjective
<1> QED BY <1>1, FS_Bijection DEF ExistsBijection

\* Where c is in q, behind place j.
After(q, c, j) == {k \in DOMAIN q : q[k] = c /\ k > j}

LEMMA AfterFinite ==
  ASSUME NEW S, NEW q \in Seq(S), NEW c, NEW j \in Nat
  PROVE  /\ IsFiniteSet(After(q, c, j)) /\ Cardinality(After(q, c, j)) \in Nat
         /\ \A i \in Nat : i <= j =>
              Cardinality(After(q, c, j)) <= Cardinality(After(q, c, i))
<1>1. ASSUME NEW i \in Nat PROVE IsFiniteSet(After(q, c, i))
  <2>1. After(q, c, i) \in SUBSET (1 .. Len(q)) /\ Len(q) \in Int /\ 1 \in Int
    BY DEF After
  <2> QED BY <2>1, FS_Interval, FS_Subset
<1>2. ASSUME NEW i \in Nat, i <= j PROVE After(q, c, j) \in SUBSET After(q, c, i)
  BY <1>2 DEF After
<1> QED BY <1>1, <1>2, FS_Subset, FS_CardinalityType

\* The head is taken: each place is one less.
LEMMA AfterTail ==
  ASSUME NEW S, NEW q \in Seq(S), q # <<>>, NEW c, NEW j \in Nat
  PROVE  Cardinality(After(Tail(q), c, j)) = Cardinality(After(q, c, j + 1))
<1> DEFINE A == After(Tail(q), c, j)
           B == After(q, c, j + 1)
           f == [k \in A |-> k + 1]
<1>1. /\ Len(q) \in Nat /\ Len(q) > 0 /\ Tail(q) \in Seq(S) /\ Len(Tail(q)) = Len(q) - 1
      /\ \A k \in 1 .. Len(q) - 1 : Tail(q)[k] = q[k + 1]
  OBVIOUS
<1>2. /\ \A k : k \in A <=> k \in 1 .. Len(q) - 1 /\ q[k + 1] = c /\ k > j
      /\ \A k : k \in B <=> k \in 1 .. Len(q) /\ q[k] = c /\ k > j + 1
  BY <1>1 DEF After
<1>3. IsFiniteSet(A)
  BY <1>1, AfterFinite
<1> HIDE DEF A, B
<1>4. f \in [A -> B]
  BY <1>1, <1>2
<1>5. \A k, l \in A : f[k] = f[l] => k = l
  BY <1>2
<1>6. \A l \in B : \E k \in A : f[k] = l
  <2>1. ASSUME NEW l \in B PROVE l - 1 \in A /\ f[l - 1] = l
    <3>1. l \in 1 .. Len(q) /\ q[l] = c /\ l > j + 1 /\ l \in Nat
      BY <1>2
    <3>2. (l - 1) + 1 = l /\ l - 1 \in 1 .. Len(q) - 1 /\ l - 1 > j
      BY <1>1, <3>1
    <3>3. l - 1 \in A
      BY <1>2, <3>1, <3>2
    <3> QED BY <3>2, <3>3
  <2> QED BY <2>1
<1>7. Cardinality(B) = Cardinality(A)
  BY <1>3, <1>4, <1>5, <1>6, SameSize
<1> QED BY <1>7 DEF A, B

LEMMA AfterHead ==
  ASSUME NEW S, NEW q \in Seq(S), q # <<>>, NEW c
  PROVE  /\ Head(q) = c =>
              Cardinality(After(q, c, 0)) = Cardinality(After(q, c, 1)) + 1
         /\ Head(q) # c => After(q, c, 0) = After(q, c, 1)
<1>1. Len(q) \in Nat /\ 1 \in DOMAIN q /\ Head(q) = q[1] /\ DOMAIN q = 1 .. Len(q)
  OBVIOUS
<1>2. Head(q) # c => After(q, c, 0) = After(q, c, 1)
  BY <1>1 DEF After
<1>3. ASSUME Head(q) = c
      PROVE  Cardinality(After(q, c, 0)) = Cardinality(After(q, c, 1)) + 1
  <2>1. After(q, c, 0) = After(q, c, 1) \cup {1} /\ 1 \notin After(q, c, 1)
    BY <1>1, <1>3 DEF After
  <2>2. IsFiniteSet(After(q, c, 1))
    BY AfterFinite
  <2> QED BY <2>1, <2>2, FS_AddElement
<1> QED BY <1>2, <1>3

LEMMA AfterAppend ==
  ASSUME NEW S, NEW q \in Seq(S), NEW d, NEW c, NEW j \in Nat
  PROVE  /\ d # c => After(Append(q, d), c, j) = After(q, c, j)
         /\ d = c /\ j <= Len(q) =>
              Cardinality(After(Append(q, d), c, j)) = Cardinality(After(q, c, j)) + 1
         /\ j > Len(q) => After(Append(q, d), c, j) = {}
<1> DEFINE r == Append(q, d)
           m == Len(q)
<1>1. /\ m \in Nat /\ DOMAIN q = 1 .. m /\ DOMAIN r = 1 .. m + 1
      /\ r[m + 1] = d /\ \A i \in 1 .. m : r[i] = q[i]
  OBVIOUS
<1> HIDE DEF r, m
<1>2. d # c => After(r, c, j) = After(q, c, j)
  BY <1>1 DEF After
<1>3. j > m => After(r, c, j) = {}
  BY <1>1 DEF After
<1>4. ASSUME d = c, j <= m
      PROVE  Cardinality(After(r, c, j)) = Cardinality(After(q, c, j)) + 1
  <2>1. After(r, c, j) = After(q, c, j) \cup {m + 1} /\ m + 1 \notin After(q, c, j)
    BY <1>1, <1>4 DEF After
  <2>2. IsFiniteSet(After(q, c, j))
    BY AfterFinite
  <2> QED BY <2>1, <2>2, FS_AddElement
<1> QED BY <1>2, <1>3, <1>4 DEF r, m

\* Where c is in the queues of all processes.
Places(pp, c) ==
  UNION {{<<m, i>> : i \in {j \in DOMAIN pp[m] : pp[m][j] = c}} : m \in Node}

LEMMA InPlaces ==
  ASSUME NEW pp, NEW c
  PROVE  /\ \A m, i : <<m, i>> \in Places(pp, c) <=>
                        m \in Node /\ i \in DOMAIN pp[m] /\ pp[m][i] = c
         /\ \A z \in Places(pp, c) : \E m \in Node : \E i \in DOMAIN pp[m] :
              z = <<m, i>> /\ pp[m][i] = c
<1>1. \A z : z \in Places(pp, c) <=>
               \E m \in Node : \E i \in DOMAIN pp[m] : z = <<m, i>> /\ pp[m][i] = c
  BY DEF Places
<1>2. \A m, i, k, l : <<m, i>> = <<k, l>> => m = k /\ i = l
  OBVIOUS
<1> QED BY <1>1, <1>2

\* c is in no place where it was not before.
LEMMA PlacesLess ==
  ASSUME NEW pp, NEW new, NEW c, IsFiniteSet(Places(pp, c)),
         \A m \in Node : \A i \in DOMAIN new[m] :
           new[m][i] = c => i \in DOMAIN pp[m] /\ pp[m][i] = c
  PROVE  /\ IsFiniteSet(Places(new, c))
         /\ Cardinality(Places(new, c)) <= Cardinality(Places(pp, c))
<1>1. Places(new, c) \in SUBSET Places(pp, c)
  BY InPlaces
<1> QED BY <1>1, FS_Subset

Taken(pp, n) == [pp EXCEPT ![n] = Tail(@)]
Requested(pp, n, q) == [pp EXCEPT ![n] = @ \o q]

\* The head of a queue is taken.
LEMMA PlacesTail ==
  ASSUME NEW pp \in [Node -> Seq(Command)], NEW n \in Node, pp[n] # <<>>,
         NEW c, IsFiniteSet(Places(pp, c))
  PROVE  LET new == Taken(pp, n)
         IN  /\ IsFiniteSet(Places(new, c))
             /\ Head(pp[n]) = c =>
                  Cardinality(Places(pp, c)) = Cardinality(Places(new, c)) + 1
             /\ Head(pp[n]) # c =>
                  Cardinality(Places(pp, c)) = Cardinality(Places(new, c))
<1> DEFINE new == Taken(pp, n)
           A == Places(pp, c) \ {<<n, 1>>}
           B == Places(new, c)
           f == [z \in A |-> IF z[1] = n THEN <<n, z[2] - 1>> ELSE z]
<1>1. /\ Len(pp[n]) \in Nat /\ Len(pp[n]) > 0 /\ Head(pp[n]) = pp[n][1]
      /\ DOMAIN pp[n] = 1 .. Len(pp[n])
      /\ new[n] = Tail(pp[n]) /\ DOMAIN new[n] = 1 .. Len(pp[n]) - 1
      /\ \A k \in 1 .. Len(pp[n]) - 1 : new[n][k] = pp[n][k + 1]
      /\ \A m \in Node : m # n => new[m] = pp[m]
  BY DEF Taken
<1> HIDE DEF new
<1>2. IsFiniteSet(A)
  BY FS_RemoveElement
<1>3. /\ <<n, 1>> \in Places(pp, c) <=> Head(pp[n]) = c
      /\ Cardinality(A) \in Nat
      /\ Head(pp[n]) = c => Cardinality(Places(pp, c)) = Cardinality(A) + 1
      /\ Head(pp[n]) # c => Cardinality(Places(pp, c)) = Cardinality(A)
  <2>1. <<n, 1>> \in Places(pp, c) <=> Head(pp[n]) = c
    BY <1>1, InPlaces
  <2>2. Head(pp[n]) # c => A = Places(pp, c)
    BY <2>1
  <2>3. Head(pp[n]) = c => Places(pp, c) = A \cup {<<n, 1>>} /\ <<n, 1>> \notin A
    BY <2>1
  <2> HIDE DEF A
  <2>4. Cardinality(A) \in Nat
    BY <1>2, FS_CardinalityType
  <2>5. Head(pp[n]) = c => Cardinality(Places(pp, c)) = Cardinality(A) + 1
    BY <1>2, <2>3, FS_AddElement
  <2> QED BY <2>1, <2>2, <2>4, <2>5
<1>4. ASSUME NEW m, NEW i
      PROVE  /\ <<m, i>> \in A <=> /\ m \in Node /\ i \in DOMAIN pp[m] /\ pp[m][i] = c
                                   /\ m = n => i # 1
             /\ <<m, i>> \in B <=> m \in Node /\ i \in DOMAIN new[m] /\ new[m][i] = c
  <2>1. <<m, i>> = <<n, 1>> <=> m = n /\ i = 1
    OBVIOUS
  <2> QED BY <2>1, InPlaces
<1>5. /\ \A z \in A : \E m \in Node : \E i \in DOMAIN pp[m] : z = <<m, i>>
      /\ \A z \in B : \E m \in Node : \E i \in DOMAIN new[m] : z = <<m, i>>
  BY InPlaces
<1> HIDE DEF A, B
<1>6. ASSUME NEW m, NEW i, <<m, i>> \in A
      PROVE  /\ m = n => i \in 2 .. Len(pp[n]) /\ f[<<m, i>>] = <<n, i - 1>> /\ <<n, i - 1>> \in B
             /\ m # n => f[<<m, i>>] = <<m, i>> /\ <<m, i>> \in B
  <2>1. m \in Node /\ i \in DOMAIN pp[m] /\ pp[m][i] = c /\ (m = n => i # 1)
    BY <1>4, <1>6
  <2>2. <<m, i>>[1] = m /\ <<m, i>>[2] = i
    OBVIOUS
  <2>3. ASSUME m = n
        PROVE  i \in 2 .. Len(pp[n]) /\ f[<<m, i>>] = <<n, i - 1>> /\ <<n, i - 1>> \in B
    <3>1. i \in 2 .. Len(pp[n]) /\ i - 1 \in 1 .. Len(pp[n]) - 1 /\ (i - 1) + 1 = i
      BY <1>1, <2>1, <2>3
    <3>2. new[n][i - 1] = c /\ i - 1 \in DOMAIN new[n]
      BY <1>1, <2>1, <2>3, <3>1
    <3>3. <<n, i - 1>> \in B
      BY <1>4, <3>2
    <3>4. f[<<m, i>>] = <<n, i - 1>>
      BY <1>6, <2>2, <2>3
    <3> QED BY <3>1, <3>3, <3>4
  <2>4. ASSUME m # n PROVE f[<<m, i>>] = <<m, i>> /\ <<m, i>> \in B
    <3>1. <<m, i>> \in B
      BY <1>1, <1>4, <2>1, <2>4
    <3>2. f[<<m, i>>] = <<m, i>>
      BY <1>6, <2>2, <2>4
    <3> QED BY <3>1, <3>2
  <2> QED BY <2>3, <2>4
<1>7. \A z \in A : f[z] \in B
  BY <1>5, <1>6
<1>8. f \in [A -> B]
  BY <1>7
<1> HIDE DEF f
<1>9. ASSUME NEW y \in A, NEW z \in A, f[y] = f[z] PROVE y = z
  <2>1. PICK m, i : m \in Node /\ i \in DOMAIN pp[m] /\ y = <<m, i>>
    BY <1>5
  <2>2. PICK l, k : l \in Node /\ k \in DOMAIN pp[l] /\ z = <<l, k>>
    BY <1>5
  <2>3. CASE m = n /\ l = n
    <3>3. <<m, i>> \in A /\ <<l, k>> \in A
      BY <2>1, <2>2
    <3>4. f[<<m, i>>] = <<n, i - 1>> /\ i \in 2 .. Len(pp[n])
      BY <1>6, <2>3, <3>3
    <3>5. f[<<l, k>>] = <<n, k - 1>> /\ k \in 2 .. Len(pp[n])
      BY <1>6, <2>3, <3>3
    <3>1. <<n, i - 1>> = <<n, k - 1>> /\ i \in Nat /\ k \in Nat
      BY <1>9, <2>1, <2>2, <3>4, <3>5
    <3>2. i = k
      BY <3>1
    <3> QED BY <2>1, <2>2, <2>3, <3>2
  <2>4. CASE m # n /\ l # n
    BY <1>6, <1>9, <2>1, <2>2, <2>4
  <2>5. CASE m = n /\ l # n
    <3>1. <<n, i - 1>> = <<l, k>>
      BY <1>6, <1>9, <2>1, <2>2, <2>5
    <3> QED BY <2>5, <3>1
  <2>6. CASE m # n /\ l = n
    <3>1. <<m, i>> = <<n, k - 1>>
      BY <1>6, <1>9, <2>1, <2>2, <2>6
    <3> QED BY <2>6, <3>1
  <2> QED BY <2>3, <2>4, <2>5, <2>6
<1>10. ASSUME NEW y \in B PROVE \E z \in A : f[z] = y
  <2>1. PICK m, i : m \in Node /\ i \in DOMAIN new[m] /\ y = <<m, i>>
    BY <1>5
  <2>2. new[m][i] = c
    BY <1>4, <2>1
  <2>3. CASE m = n
    <3>1. i \in 1 .. Len(pp[n]) - 1 /\ i + 1 \in 1 .. Len(pp[n]) /\ i + 1 # 1 /\ (i + 1) - 1 = i
      BY <1>1, <2>1, <2>3
    <3>2. pp[n][i + 1] = c
      BY <1>1, <2>2, <2>3, <3>1
    <3>3. <<n, i + 1>> \in A
      BY <1>1, <1>4, <3>1, <3>2
    <3>4. f[<<n, i + 1>>] = <<n, i>>
      BY <1>6, <3>1, <3>3
    <3> QED BY <2>1, <2>3, <3>3, <3>4
  <2>4. CASE m # n
    <3>1. <<m, i>> \in A
      BY <1>1, <1>4, <2>1, <2>2, <2>4
    <3> QED BY <1>6, <2>1, <2>4, <3>1
  <2> QED BY <2>3, <2>4
<1>11. IsFiniteSet(B) /\ Cardinality(B) = Cardinality(A)
  BY <1>2, <1>8, <1>9, <1>10, SameSize
<1>12. /\ IsFiniteSet(B)
       /\ Head(pp[n]) = c => Cardinality(Places(pp, c)) = Cardinality(B) + 1
       /\ Head(pp[n]) # c => Cardinality(Places(pp, c)) = Cardinality(B)
  BY <1>3, <1>11
<1> QED BY <1>12 DEF B, new

\* Commands are appended to a queue: none of them is c, or one is.
LEMMA PlacesRequest ==
  ASSUME NEW pp \in [Node -> Seq(Command)], NEW n \in Node, NEW q \in Seq(Command),
         NEW c, IsFiniteSet(Places(pp, c))
  PROVE  LET new == Requested(pp, n, q)
         IN  /\ (\A i \in DOMAIN q : q[i] # c) => Places(new, c) = Places(pp, c)
             /\ \A k \in DOMAIN q :
                  (\A i \in DOMAIN q : q[i] = c <=> i = k) =>
                    /\ IsFiniteSet(Places(new, c))
                    /\ Cardinality(Places(new, c)) = Cardinality(Places(pp, c)) + 1
<1> DEFINE new == Requested(pp, n, q)
           l == Len(pp[n])
<1>1. /\ l \in Nat /\ DOMAIN pp[n] = 1 .. l /\ Len(q) \in Nat /\ DOMAIN q = 1 .. Len(q)
      /\ new[n] = pp[n] \o q /\ DOMAIN new[n] = 1 .. l + Len(q)
      /\ \A m \in Node : m # n => new[m] = pp[m]
  BY DEF Requested
<1>2. /\ \A i \in 1 .. l : new[n][i] = pp[n][i]
      /\ \A i \in 1 .. Len(q) : new[n][l + i] = q[i]
      /\ \A i \in 1 .. l + Len(q) : i \in 1 .. l \/ (i - l \in 1 .. Len(q) /\ l + (i - l) = i)
  BY DEF Requested
<1> HIDE DEF new, l
<1>3. ASSUME NEW m \in Node, NEW i
      PROVE  i \in DOMAIN new[m] /\ new[m][i] = c <=>
               \/ i \in DOMAIN pp[m] /\ pp[m][i] = c
               \/ m = n /\ \E k \in DOMAIN q : q[k] = c /\ i = l + k
  <2>1. CASE m # n
    BY <1>1, <2>1
  <2>2. CASE m = n
    <3>1. ASSUME i \in DOMAIN new[n], new[n][i] = c
          PROVE  \/ i \in DOMAIN pp[n] /\ pp[n][i] = c
                 \/ \E k \in DOMAIN q : q[k] = c /\ i = l + k
      <4>1. CASE i \in 1 .. l
        BY <1>1, <1>2, <3>1, <4>1
      <4>2. CASE i - l \in 1 .. Len(q) /\ l + (i - l) = i
        BY <1>1, <1>2, <3>1, <4>2
      <4> QED BY <1>1, <1>2, <3>1, <4>1, <4>2
    <3>2. ASSUME i \in DOMAIN pp[n], pp[n][i] = c
          PROVE  i \in DOMAIN new[n] /\ new[n][i] = c
      BY <1>1, <1>2, <3>2
    <3>3. ASSUME NEW k \in DOMAIN q, q[k] = c, i = l + k
          PROVE  i \in DOMAIN new[n] /\ new[n][i] = c
      BY <1>1, <1>2, <3>3
    <3> QED BY <2>2, <3>1, <3>2, <3>3
  <2> QED BY <2>1, <2>2
<1>4. /\ \A m, i : /\ <<m, i>> \in Places(new, c) <=>
                        m \in Node /\ i \in DOMAIN new[m] /\ new[m][i] = c
                   /\ <<m, i>> \in Places(pp, c) <=>
                        m \in Node /\ i \in DOMAIN pp[m] /\ pp[m][i] = c
      /\ \A z \in Places(new, c) \cup Places(pp, c) : \E m, i : m \in Node /\ z = <<m, i>>
  BY InPlaces
<1>5. ASSUME \A i \in DOMAIN q : q[i] # c PROVE Places(new, c) = Places(pp, c)
  <2>1. \A m \in Node : \A i : <<m, i>> \in Places(new, c) <=> <<m, i>> \in Places(pp, c)
    BY <1>3, <1>4, <1>5
  <2>2. ASSUME NEW z \in Places(new, c) \cup Places(pp, c)
        PROVE  z \in Places(new, c) <=> z \in Places(pp, c)
    <3>1. PICK m, i : m \in Node /\ z = <<m, i>>
      BY <1>4
    <3> QED BY <2>1, <3>1
  <2> QED BY <2>2
<1>6. ASSUME NEW k \in DOMAIN q, \A i \in DOMAIN q : q[i] = c <=> i = k
      PROVE  /\ IsFiniteSet(Places(new, c))
             /\ Cardinality(Places(new, c)) = Cardinality(Places(pp, c)) + 1
  <2>1. ASSUME NEW m \in Node, NEW i
        PROVE  <<m, i>> \in Places(new, c) <=>
                 <<m, i>> \in Places(pp, c) \/ <<m, i>> = <<n, l + k>>
    <3>1. <<m, i>> = <<n, l + k>> <=> m = n /\ i = l + k
      OBVIOUS
    <3> QED BY <1>3, <1>4, <1>6, <3>1
  <2>2. Places(new, c) = Places(pp, c) \cup {<<n, l + k>>}
    BY <1>4, <2>1
  <2>3. <<n, l + k>> \notin Places(pp, c)
    <3>1. l + k \notin DOMAIN pp[n]
      BY <1>1
    <3> QED BY <1>4, <3>1
  <2> QED BY <2>2, <2>3, FS_AddElement
<1> QED BY <1>5, <1>6 DEF new

LEMMA PlacesUnasked ==
  ASSUME NEW pp \in [Node -> Seq(Command)], NEW n \in Node, NEW q \in Seq(Command),
         NEW c, IsFiniteSet(Places(pp, c)), \A i \in DOMAIN q : q[i] # c
  PROVE  Places(Requested(pp, n, q), c) = Places(pp, c)
  BY PlacesRequest

LEMMA PlacesAsked ==
  ASSUME NEW pp \in [Node -> Seq(Command)], NEW n \in Node, NEW q \in Seq(Command),
         NEW c, IsFiniteSet(Places(pp, c)),
         NEW k \in DOMAIN q, \A i \in DOMAIN q : q[i] = c <=> i = k
  PROVE  /\ IsFiniteSet(Places(Requested(pp, n, q), c))
         /\ Cardinality(Places(Requested(pp, n, q), c)) = Cardinality(Places(pp, c)) + 1
  BY PlacesRequest

-----------------------------------------------------------------------------
(* Views.  load_visualizations() takes a number only for the post that it   *)
(* belongs to.                                                              *)

IsCursor(f, ps, v, m) ==
  f = [i \in 0 .. m |->
         IF i = 0 THEN 1
         ELSE IF f[i - 1] <= Len(ps) /\ v[i].id = ps[f[i - 1]].id
              THEN f[i - 1] + 1 ELSE f[i - 1]]

LEMMA CursorExists ==
  ASSUME NEW ps, NEW v, NEW m \in Nat
  PROVE  \E f : IsCursor(f, ps, v, m)
<1> DEFINE t == [i \in 1 .. m |-> [c \in Nat |->
                   IF c <= Len(ps) /\ v[i].id = ps[c].id THEN c + 1 ELSE c]]
<1>1. 1 \in Nat /\ t \in [1 .. m -> [Nat -> Nat]]
  OBVIOUS
<1>2. ASSUME NEW i \in 1 .. m, NEW c \in Nat
      PROVE  t[i][c] = IF c <= Len(ps) /\ v[i].id = ps[c].id THEN c + 1 ELSE c
  OBVIOUS
<1> HIDE DEF t
<1>a. PICK f : IsCourse(f, Nat, 1, m, t)
  BY <1>1, LoopExists
<1>3. /\ f \in [0 .. m -> Nat] /\ f[0] = 1
      /\ \A i \in 1 .. m : f[i] = t[i][f[i - 1]]
  BY <1>a DEF IsCourse
<1> DEFINE g == [i \in 0 .. m |->
                   IF i = 0 THEN 1
                   ELSE IF f[i - 1] <= Len(ps) /\ v[i].id = ps[f[i - 1]].id
                        THEN f[i - 1] + 1 ELSE f[i - 1]]
<1>4. ASSUME NEW i \in 0 .. m PROVE f[i] = g[i]
  <2>1. CASE i = 0
    BY <1>3, <2>1
  <2>2. CASE i # 0
    <3>1. i \in 1 .. m /\ i - 1 \in 0 .. m /\ f[i - 1] \in Nat
      BY <1>3, <2>2
    <3> QED BY <1>2, <1>3, <2>2, <3>1
  <2> QED BY <2>1, <2>2
<1>5. f = g
  <2>1. f = [i \in 0 .. m |-> f[i]]
    BY <1>3
  <2> HIDE DEF g
  <2>2. f = [i \in 0 .. m |-> g[i]] /\ g = [i \in 0 .. m |-> g[i]]
    BY <1>4, <2>1 DEF g
  <2> QED BY <2>2
<1> QED BY <1>5 DEF IsCursor

LEMMA CursorMoves ==
  ASSUME NEW ps, NEW v \in Seq(Visual), NEW i \in DOMAIN v
  PROVE  LET c == Cursor(ps, v)
         IN  \/ c[i] = c[i - 1]
             \/ (c[i] = c[i - 1] + 1 /\ v[i].id = ps[c[i - 1]].id)
<1> DEFINE c == Cursor(ps, v)
<1>1. Len(v) \in Nat /\ i \in 0 .. Len(v) /\ i # 0
  OBVIOUS
<1>2. c = CHOOSE f : IsCursor(f, ps, v, Len(v))
  BY Zenon DEF Cursor, IsCursor
<1> HIDE DEF c
<1>a. IsCursor(c, ps, v, Len(v))
  BY <1>1, <1>2, CursorExists
<1>3. c[i] = IF c[i - 1] <= Len(ps) /\ v[i].id = ps[c[i - 1]].id
             THEN c[i - 1] + 1 ELSE c[i - 1]
  BY <1>1, <1>a DEF IsCursor
<1>4. c[i] = c[i - 1] \/ (c[i] = c[i - 1] + 1 /\ v[i].id = ps[c[i - 1]].id)
  BY <1>3
<1> QED BY <1>4 DEF c

LEMMA LoadsAreForThePost ==
  ASSUME NEW ps \in Seq(Post), NEW v \in Seq(Visual), NEW k \in DOMAIN ps,
         NEW i \in Loads(ps, v, k)
  PROVE  i \in DOMAIN v /\ v[i].id = ps[k].id
<1> DEFINE c == Cursor(ps, v)
<1>1. i \in DOMAIN v /\ c[i - 1] = k /\ c[i] = k + 1 /\ k \in Nat
  BY DEF Loads
<1>2. c[i] = c[i - 1] \/ (c[i] = c[i - 1] + 1 /\ v[i].id = ps[c[i - 1]].id)
  BY <1>1, CursorMoves
<1> HIDE DEF c
<1> QED BY <1>1, <1>2
-----------------------------------------------------------------------------
(* What a process has, what is announced to it and what it is about to load *)
(* of the views of one post.                                                *)

ViewNews(x) == [cmd |-> "visualization", id |-> x]
ViewPush(x) == [type |-> "push", news |-> ViewNews(x)]
Hincrby(x) == [op |-> "hincrby", id |-> x]
Announced(pp, x) == Places(pp, Publish(ViewNews(x)))
Booked(pp, x) == Places(pp, Hincrby(x))
Due(r, x, j) == Cardinality(After(r, ViewPush(x), j))

\* With a views of x announced but not on their way to the process and b
\* requested: a post that it has and one that it gets count all news of x to
\* come, and a number to be loaded those behind it.
Covered(ps, r, a, b, x) ==
  /\ a + Due(r, x, 0) <= b
  /\ \A k \in DOMAIN ps : ps[k].id = x =>
       ps[k].visualizations + a + Due(r, x, 0) <= b
  /\ \A j \in DOMAIN r : r[j].type = "hgetall" =>
       \A i \in DOMAIN r[j].visual : r[j].visual[i].id = x =>
         r[j].visual[i].n + a + Due(r, x, j) <= b

LEMMA DueTypes ==
  ASSUME NEW r \in Seq(Event), NEW x
  PROVE  /\ \A j \in Nat : Due(r, x, j) \in Nat /\ Due(r, x, j) <= Due(r, x, 0)
         /\ Len(r) \in Nat /\ DOMAIN r = 1 .. Len(r)
         /\ \A j \in DOMAIN r : r[j] \in Event
         /\ \A j \in DOMAIN r : r[j].type = "hgetall" =>
              \A i \in DOMAIN r[j].visual : r[j].visual[i].n \in Nat
<1>1. \A j \in Nat : Due(r, x, j) \in Nat /\ Due(r, x, j) <= Due(r, x, 0)
  <2>1. ASSUME NEW j \in Nat PROVE Due(r, x, j) \in Nat /\ Due(r, x, j) <= Due(r, x, 0)
    <3>1. 0 \in Nat /\ 0 <= j
      OBVIOUS
    <3> QED BY <3>1, AfterFinite DEF Due
  <2> QED BY <2>1
<1>2. Len(r) \in Nat /\ DOMAIN r = 1 .. Len(r) /\ \A j \in DOMAIN r : r[j] \in Event
  OBVIOUS
<1>3. ASSUME NEW e \in Event, e.type = "hgetall", NEW i \in DOMAIN e.visual
      PROVE  e.visual[i].n \in Nat
  <2>1. e.visual \in Seq(Visual)
    BY <1>3 DEF Event
  <2>2. e.visual[i] \in Visual
    BY <2>1
  <2> QED BY <2>2 DEF Visual
<1> QED BY <1>1, <1>2, <1>3

\* More is requested, or less is announced.
LEMMA CoveredMore ==
  ASSUME NEW ps \in Seq(Post), NEW r \in Seq(Event), NEW a \in Nat, NEW b \in Nat,
         NEW x, Covered(ps, r, a, b, x),
         NEW c \in Nat, NEW d \in Nat, c + b <= a + d
  PROVE  Covered(ps, r, c, d, x)
<1>1. \A k \in DOMAIN ps : ps[k].visualizations \in Nat
  BY PlaceTypes DEF Post
<1>0. \A j \in Nat : Due(r, x, j) \in Nat
  BY DueTypes
<1>a. Due(r, x, 0) \in Nat /\ a + Due(r, x, 0) <= b
  BY <1>0 DEF Covered
<1>b. ASSUME NEW m \in Nat, NEW l \in Nat, m + a + l <= b PROVE m + c + l <= d
  BY <1>b
<1>2. c + Due(r, x, 0) <= d
  <2>1. 0 + a + Due(r, x, 0) <= b
    BY <1>a
  <2>2. 0 + c + Due(r, x, 0) <= d
    BY <1>a, <1>b, <2>1
  <2> QED BY <1>a, <2>2
<1>3. ASSUME NEW k \in DOMAIN ps, ps[k].id = x
      PROVE  ps[k].visualizations + c + Due(r, x, 0) <= d
  <2>1. ps[k].visualizations + a + Due(r, x, 0) <= b
    BY <1>3 DEF Covered
  <2> QED BY <1>1, <1>a, <1>b, <2>1
<1>4. ASSUME NEW j \in DOMAIN r, r[j].type = "hgetall",
             NEW i \in DOMAIN r[j].visual, r[j].visual[i].id = x
      PROVE  r[j].visual[i].n + c + Due(r, x, j) <= d
  <2>1. r[j].visual[i].n + a + Due(r, x, j) <= b
    BY <1>4 DEF Covered
  <2>2. r[j].visual[i].n \in Nat /\ Due(r, x, j) \in Nat
    <3>1. j \in Nat
      OBVIOUS
    <3>2. r[j].visual[i].n \in Nat
      BY <1>4, DueTypes
    <3> QED BY <1>0, <3>1, <3>2
  <2> QED BY <1>b, <2>1, <2>2
<1> QED BY <1>2, <1>3, <1>4 DEF Covered

\* What is on its way to the process is lost, and perhaps its posts as well.
LEMMA CoveredLost ==
  ASSUME NEW ps \in Seq(Post), NEW r \in Seq(Event), NEW a \in Nat, NEW b \in Nat,
         NEW x, Covered(ps, r, a, b, x),
         NEW qs, Len(qs) = 0, DOMAIN qs = {}, NEW q, DOMAIN q = {}
  PROVE  Covered(ps, q, a, b, x) /\ Covered(qs, q, a, b, x)
<1>1. Due(q, x, 0) = 0 /\ Due(r, x, 0) \in Nat
  BY FS_EmptySet, DueTypes DEF Due, After
<1>2. a <= b
  BY <1>1 DEF Covered
<1>3. ASSUME NEW k \in DOMAIN ps, ps[k].id = x
      PROVE  ps[k].visualizations + a + 0 <= b
  <2>1. ps[k].visualizations + a + Due(r, x, 0) <= b
    BY <1>3 DEF Covered
  <2>2. ps[k].visualizations \in Nat
    BY PlaceTypes DEF Post
  <2> QED BY <1>1, <2>1, <2>2
<1> QED BY <1>1, <1>2, <1>3 DEF Covered

\* What was announced comes to the process.
LEMMA CoveredAnnounced ==
  ASSUME NEW ps \in Seq(Post), NEW r \in Seq(Event), NEW a \in Nat, NEW b \in Nat,
         NEW x, Covered(ps, r, a + 1, b, x)
  PROVE  Covered(ps, Append(r, ViewPush(x)), a, b, x)
<1> DEFINE e == ViewPush(x)
           s == Append(r, e)
<1>1. /\ Len(r) \in Nat /\ DOMAIN s = 1 .. Len(r) + 1 /\ s[Len(r) + 1] = e
      /\ \A j \in 1 .. Len(r) : s[j] = r[j]
  OBVIOUS
<1>2. e.type # "hgetall"
  BY DEF ViewPush
<1>3. ASSUME NEW j \in Nat, j <= Len(r) PROVE Due(s, x, j) = Due(r, x, j) + 1
  BY <1>1, <1>3, AfterAppend DEF Due
<1> HIDE DEF s, e
<1>4. 0 \in Nat /\ 0 <= Len(r)
  BY <1>1
<1>5. Due(s, x, 0) = Due(r, x, 0) + 1
  BY <1>3, <1>4
<1>6. a + Due(s, x, 0) <= b
  BY <1>5, DueTypes DEF Covered
<1>7. ASSUME NEW k \in DOMAIN ps, ps[k].id = x
      PROVE  ps[k].visualizations + a + Due(s, x, 0) <= b
  <2>1. ps[k].visualizations + (a + 1) + Due(r, x, 0) <= b
    BY <1>7 DEF Covered
  <2>2. ps[k].visualizations \in Nat /\ Due(r, x, 0) \in Nat
    BY PlaceTypes, DueTypes DEF Post
  <2> QED BY <1>5, <2>1, <2>2
<1>8. ASSUME NEW j \in DOMAIN s, s[j].type = "hgetall",
             NEW i \in DOMAIN s[j].visual, s[j].visual[i].id = x
      PROVE  s[j].visual[i].n + a + Due(s, x, j) <= b
  <2>1. j \in 1 .. Len(r) /\ s[j] = r[j] /\ j \in DOMAIN r /\ j \in Nat /\ j <= Len(r)
    <3>1. j # Len(r) + 1
      BY <1>1, <1>2, <1>8
    <3>2. j \in 1 .. Len(r)
      BY <1>1, <3>1
    <3> QED BY <1>1, <3>2
  <2>2. r[j].visual[i].n + (a + 1) + Due(r, x, j) <= b
    BY <1>8, <2>1 DEF Covered
  <2>3. r[j].visual[i].n \in Nat /\ Due(r, x, j) \in Nat
    BY <1>8, <2>1, DueTypes
  <2>4. Due(s, x, j) = Due(r, x, j) + 1 /\ s[j].visual[i].n = r[j].visual[i].n
    BY <1>3, <2>1
  <2> DEFINE t == r[j].visual[i].n
             u == Due(r, x, j)
  <2>5. t \in Nat /\ u \in Nat /\ t + (a + 1) + u <= b
    BY <2>2, <2>3
  <2>6. Due(s, x, j) = u + 1 /\ s[j].visual[i].n = t
    BY <2>4
  <2> HIDE DEF t, u
  <2>7. t + a + (u + 1) <= b
    BY <2>5
  <2> QED BY <2>6, <2>7
<1>9. Covered(ps, s, a, b, x)
  BY <1>6, <1>7, <1>8 DEF Covered
<1> QED BY <1>9 DEF s, e

\* Something else comes to the process.
LEMMA CoveredAnswer ==
  ASSUME NEW ps \in Seq(Post), NEW r \in Seq(Event), NEW a \in Nat, NEW b \in Nat,
         NEW x, Covered(ps, r, a, b, x), NEW e \in Event, e # ViewPush(x),
         e.type = "hgetall" => \A i \in DOMAIN e.visual :
           e.visual[i].id = x => e.visual[i].n + a <= b
  PROVE  Covered(ps, Append(r, e), a, b, x)
<1> DEFINE s == Append(r, e)
<1>1. /\ Len(r) \in Nat /\ DOMAIN s = 1 .. Len(r) + 1 /\ s[Len(r) + 1] = e
      /\ \A j \in 1 .. Len(r) : s[j] = r[j]
  OBVIOUS
<1>2. \A j \in Nat : Due(s, x, j) = Due(r, x, j)
  BY AfterAppend DEF Due
<1>3. Due(s, x, Len(r) + 1) = 0
  <2>1. Len(r) + 1 > Len(r) /\ Len(r) + 1 \in Nat
    BY <1>1
  <2>2. After(s, ViewPush(x), Len(r) + 1) = {}
    BY <2>1, AfterAppend
  <2> QED BY <2>2, FS_EmptySet DEF Due
<1> HIDE DEF s
<1>4. Due(s, x, 0) = Due(r, x, 0)
  BY <1>2
<1>5. ASSUME NEW j \in DOMAIN s, s[j].type = "hgetall",
             NEW i \in DOMAIN s[j].visual, s[j].visual[i].id = x
      PROVE  s[j].visual[i].n + a + Due(s, x, j) <= b
  <2>1. CASE j = Len(r) + 1
    <3>1. e.visual[i].n + a <= b /\ e.visual[i].n \in Nat
      <4>1. e.visual \in Seq(Visual)
        BY <1>1, <1>5, <2>1 DEF Event
      <4>2. e.visual[i] \in Visual
        BY <1>1, <1>5, <2>1, <4>1
      <4> QED BY <1>1, <1>5, <2>1, <4>2 DEF Visual
    <3> QED BY <1>1, <1>3, <2>1, <3>1
  <2>2. CASE j # Len(r) + 1
    <3>1. j \in 1 .. Len(r) /\ s[j] = r[j] /\ j \in DOMAIN r /\ j \in Nat
      <4>1. j \in 1 .. Len(r)
        BY <1>1, <2>2
      <4> QED BY <1>1, <4>1
    <3>2. r[j].visual[i].n + a + Due(r, x, j) <= b
      BY <1>5, <3>1 DEF Covered
    <3> QED BY <1>2, <3>1, <3>2
  <2> QED BY <2>1, <2>2
<1>6. Covered(ps, s, a, b, x)
  BY <1>4, <1>5 DEF Covered
<1> QED BY <1>6 DEF s

\* Each post of x in qs shows no views, or as many as one of ps, or one more by
\* the news h of a view, or the number that h loads.
ViewsFrom(ps, h, qs, x) ==
  \A k \in DOMAIN qs : qs[k].id = x =>
    \/ qs[k].visualizations = 0
    \/ \E l \in DOMAIN ps : ps[l].id = x /\ qs[k].visualizations = ps[l].visualizations
    \/ h = ViewPush(x) /\ \E l \in DOMAIN ps :
         ps[l].id = x /\ qs[k].visualizations = ps[l].visualizations + 1
    \/ h.type = "hgetall" /\ \E i \in DOMAIN h.visual :
         h.visual[i].id = x /\ qs[k].visualizations = h.visual[i].n

\* The process takes what comes first.
LEMMA CoveredTaken ==
  ASSUME NEW ps \in Seq(Post), NEW r \in Seq(Event), r # <<>>, NEW a \in Nat,
         NEW b \in Nat, NEW x, Covered(ps, r, a, b, x), NEW qs \in Seq(Post),
         ViewsFrom(ps, Head(r), qs, x)
  PROVE  Covered(qs, Tail(r), a, b, x)
<1> DEFINE s == Tail(r)
           h == Head(r)
<1>1. /\ Len(r) \in Nat /\ Len(r) >= 1 /\ h = r[1] /\ DOMAIN r = 1 .. Len(r)
      /\ DOMAIN s = 1 .. Len(r) - 1 /\ \A j \in 1 .. Len(r) - 1 : s[j] = r[j + 1]
  OBVIOUS
<1>2. \A j \in Nat : Due(s, x, j) = Due(r, x, j + 1)
  BY AfterTail DEF Due
<1>3. /\ h = ViewPush(x) => Due(r, x, 0) = Due(r, x, 1) + 1
      /\ Due(r, x, 1) \in Nat /\ Due(r, x, 0) \in Nat /\ Due(r, x, 1) <= Due(r, x, 0)
  BY AfterHead, DueTypes DEF Due
<1>4. Due(s, x, 0) = Due(r, x, 1)
  BY <1>2
<1> HIDE DEF s, h
<1>5. a + Due(s, x, 0) <= b
  BY <1>3, <1>4 DEF Covered
<1>6. ASSUME NEW k \in DOMAIN qs, qs[k].id = x
      PROVE  qs[k].visualizations + a + Due(s, x, 0) <= b
  <2>1. CASE qs[k].visualizations = 0
    BY <1>3, <1>5, <2>1, <1>4
  <2>2. ASSUME NEW l \in DOMAIN ps, ps[l].id = x
        PROVE  ps[l].visualizations \in Nat /\ ps[l].visualizations + a + Due(r, x, 0) <= b
    BY <2>2, PlaceTypes DEF Covered, Post
  <2>3. ASSUME NEW l \in DOMAIN ps, ps[l].id = x,
               qs[k].visualizations = ps[l].visualizations
        PROVE  qs[k].visualizations + a + Due(s, x, 0) <= b
    BY <1>3, <1>4, <2>2, <2>3
  <2>4. ASSUME h = ViewPush(x), NEW l \in DOMAIN ps, ps[l].id = x,
               qs[k].visualizations = ps[l].visualizations + 1
        PROVE  qs[k].visualizations + a + Due(s, x, 0) <= b
    <3>1. Due(r, x, 0) = Due(s, x, 0) + 1 /\ Due(s, x, 0) \in Nat
      BY <1>3, <1>4, <2>4
    <3>2. ps[l].visualizations \in Nat /\ ps[l].visualizations + a + Due(r, x, 0) <= b
      BY <2>2, <2>4
    <3> QED BY <2>4, <3>1, <3>2
  <2>5. ASSUME h.type = "hgetall", NEW i \in DOMAIN h.visual, h.visual[i].id = x,
               qs[k].visualizations = h.visual[i].n
        PROVE  qs[k].visualizations + a + Due(s, x, 0) <= b
    <3>1. 1 \in DOMAIN r /\ r[1] = h
      BY <1>1
    <3>2. h.visual[i].n + a + Due(r, x, 1) <= b
      BY <2>5, <3>1 DEF Covered
    <3> QED BY <1>4, <2>5, <3>2
  <2> QED BY <1>6, <2>1, <2>3, <2>4, <2>5 DEF h, ViewsFrom
<1>7. ASSUME NEW j \in DOMAIN s, s[j].type = "hgetall",
             NEW i \in DOMAIN s[j].visual, s[j].visual[i].id = x
      PROVE  s[j].visual[i].n + a + Due(s, x, j) <= b
  <2>1. j + 1 \in DOMAIN r /\ s[j] = r[j + 1] /\ j \in Nat
    BY <1>1, <1>7
  <2>2. r[j + 1].visual[i].n + a + Due(r, x, j + 1) <= b
    BY <1>7, <2>1 DEF Covered
  <2> QED BY <1>2, <2>1, <2>2
<1>8. Covered(qs, s, a, b, x)
  BY <1>5, <1>6, <1>7 DEF Covered
<1> QED BY <1>8 DEF s
-----------------------------------------------------------------------------
(* What the operations on the vector do with the views.                     *)

LEMMA AddPostsViews ==
  ASSUME NEW ps \in Seq(Post), NEW new \in Seq(Post),
         \A k \in DOMAIN new : new[k].visualizations = 0,
         NEW k \in DOMAIN AddPosts(ps, new)
  PROVE  \/ AddPosts(ps, new)[k].visualizations = 0
         \/ \E l \in DOMAIN ps : AddPosts(ps, new)[k] = ps[l]
<1> DEFINE c == ps \o new
           d == AddPosts(ps, new)
<1>1. PICK f \in Bijection(DOMAIN c, DOMAIN d) : \A i \in DOMAIN c : d[f[i]] = c[i]
  BY AddPostsSorts, Zenon
<1>2. PICK i \in DOMAIN c : k = f[i]
  BY <1>1 DEF Bijection, Surjection
<1>3. d[k] = c[i]
  BY <1>1, <1>2
<1>4. \/ i \in DOMAIN ps /\ c[i] = ps[i]
      \/ i - Len(ps) \in DOMAIN new /\ c[i] = new[i - Len(ps)]
  OBVIOUS
<1> HIDE DEF c, d
<1>5. d[k].visualizations = 0 \/ \E l \in DOMAIN ps : d[k] = ps[l]
  BY <1>3, <1>4
<1> QED BY <1>5 DEF d

LEMMA OnVisualizationViews ==
  ASSUME NEW ps \in Seq(Post), NEW id, NEW k \in DOMAIN OnVisualization(ps, id)
  PROVE  LET p == OnVisualization(ps, id)[k]
         IN  /\ k \in DOMAIN ps
             /\ \/ p = ps[k]
                \/ /\ p.id = id /\ ps[k].id = id
                   /\ p.visualizations = ps[k].visualizations + 1
<1> DEFINE i == Place(ps, id)
           d == OnVisualization(ps, id)
<1>1. CASE i = 0
  BY <1>1 DEF OnVisualization
<1>2. CASE i # 0
  <2>1. i \in DOMAIN ps /\ ps[i] \in Post /\ ps[i].id = id
    BY <1>2, PlaceFinds, PlaceTypes
  <2> DEFINE p == [ps[i] EXCEPT !.visualizations = @ + 1]
  <2>2. d = [ps EXCEPT ![i] = p]
    BY <1>2 DEF OnVisualization
  <2>3. p.id = id /\ p.visualizations = ps[i].visualizations + 1
    BY <2>1 DEF Post
  <2> HIDE DEF p, i
  <2>4. DOMAIN d = DOMAIN ps /\ d[i] = p /\ \A j \in DOMAIN ps : j # i => d[j] = ps[j]
    BY <2>1, <2>2
  <2>6. k \in DOMAIN ps
    BY <2>4
  <2> HIDE DEF d
  <2>7. d[k] = ps[k] \/ (/\ d[k].id = id /\ ps[k].id = id
                         /\ d[k].visualizations = ps[k].visualizations + 1)
    BY <2>1, <2>3, <2>4, <2>6
  <2> QED BY <2>6, <2>7 DEF d
<1> QED BY <1>1, <1>2

LEMMA LoadVisualizationsViews ==
  ASSUME NEW ps \in Seq(Post), NEW v \in Seq(Visual),
         NEW k \in DOMAIN LoadVisualizations(ps, v)
  PROVE  LET p == LoadVisualizations(ps, v)[k]
         IN  /\ k \in DOMAIN ps
             /\ \/ p = ps[k]
                \/ /\ p.id = ps[k].id
                   /\ \E i \in DOMAIN v : v[i].id = ps[k].id /\ p.visualizations = v[i].n
<1> DEFINE j == CHOOSE i \in Loads(ps, v, k) : TRUE
           d == LoadVisualizations(ps, v)
<1>1. k \in DOMAIN ps /\ ps[k] \in Post
  BY PlaceTypes DEF LoadVisualizations
<1>2. CASE Loads(ps, v, k) = {}
  BY <1>1, <1>2 DEF LoadVisualizations
<1>3. CASE Loads(ps, v, k) # {}
  <2>1. j \in Loads(ps, v, k)
    BY <1>3
  <2>2. j \in DOMAIN v /\ v[j].id = ps[k].id
    BY <1>1, <2>1, LoadsAreForThePost
  <2>3. d[k] = [ps[k] EXCEPT !.visualizations = v[j].n]
    BY <1>1, <1>3 DEF LoadVisualizations
  <2>4. d[k].id = ps[k].id /\ d[k].visualizations = v[j].n
    <3> HIDE DEF j, d
    <3> QED BY <1>1, <2>3 DEF Post
  <2> HIDE DEF j
  <2> QED BY <1>1, <2>2, <2>4
<1> QED BY <1>2, <1>3

-----------------------------------------------------------------------------
(* The books balance: views that are announced will be booked, and views    *)
(* that are booked or will be were requested.                               *)

Paired(q) ==
  \A j \in DOMAIN q : \A x \in Id : q[j] = Publish(ViewNews(x)) =>
    j + 1 \in DOMAIN q /\ q[j + 1] = Hincrby(x)

Balanced(x) ==
  /\ IsFiniteSet(Announced(pipe, x)) /\ IsFiniteSet(Booked(pipe, x))
  /\ views[x] + Cardinality(Booked(pipe, x)) <= asked[x]
  /\ \A n \in Node :
       Covered(posts[n], reply[n], Cardinality(Announced(pipe, x)), asked[x], x)

Balance == (\A n \in Node : Paired(pipe[n])) /\ \A x \in Id : Balanced(x)

BalanceInv == ProvInv /\ Balance

LEMMA ViewTypes ==
  ASSUME BalanceInv
  PROVE  /\ \A n \in Node : /\ posts[n] \in Seq(Post) /\ ById(posts[n])
                            /\ reply[n] \in Seq(Event) /\ pipe[n] \in Seq(Command)
         /\ pipe \in [Node -> Seq(Command)] /\ reply \in [Node -> Seq(Event)]
         /\ posts \in [Node -> Seq(Post)]
         /\ \A x \in Id : views[x] \in Nat /\ asked[x] \in Nat
         /\ views \in [Id -> Nat] /\ asked \in [Id -> Nat]
         /\ \A x \in Id : /\ Cardinality(Announced(pipe, x)) \in Nat
                          /\ Cardinality(Booked(pipe, x)) \in Nat
<1>1. TypeOK /\ Sorted
  BY DEF BalanceInv, ProvInv, Inv
<1>2. \A x \in Id : /\ Cardinality(Announced(pipe, x)) \in Nat
                    /\ Cardinality(Booked(pipe, x)) \in Nat
  BY FS_CardinalityType DEF BalanceInv, Balance, Balanced
<1> QED BY <1>1, <1>2, SortedIsById DEF TypeOK

LEMMA ViewTerms ==
  /\ \A x, y : Publish(ViewNews(x)) = Publish(ViewNews(y)) => x = y
  /\ \A x, y : Hincrby(x) = Hincrby(y) => x = y
  /\ \A x, y : ViewPush(x) = ViewPush(y) => x = y
  /\ \A x, y : Publish(ViewNews(x)) # Hincrby(y)
  /\ \A x : ViewPush(x).type = "push" /\ ViewPush(x).news = ViewNews(x)
            /\ ViewNews(x).cmd = "visualization" /\ ViewNews(x).id = x
  /\ \A x : Hincrby(x).op = "hincrby" /\ Hincrby(x).id = x
  /\ \A x : Publish(ViewNews(x)).op = "publish" /\ Publish(ViewNews(x)).news = ViewNews(x)
<1>1. \A x : Hincrby(x).op = "hincrby" /\ Hincrby(x).id = x
  BY DEF Hincrby
<1>2. \A x : ViewNews(x).cmd = "visualization" /\ ViewNews(x).id = x
  BY DEF ViewNews
<1>3. \A x : ViewPush(x).type = "push" /\ ViewPush(x).news = ViewNews(x)
  BY DEF ViewPush
<1>4. \A x : Publish(ViewNews(x)).op = "publish" /\ Publish(ViewNews(x)).news = ViewNews(x)
  BY DEF Publish
<1> QED BY <1>1, <1>2, <1>3, <1>4

\* Each announced view has a place of its own where it is booked.
LEMMA AnnouncedIsBooked ==
  ASSUME BalanceInv, NEW x \in Id
  PROVE  views[x] + Cardinality(Announced(pipe, x)) <= asked[x]
<1> DEFINE A == Announced(pipe, x)
           B == Booked(pipe, x)
           f == [z \in A |-> <<z[1], z[2] + 1>>]
<1>1. ASSUME NEW m, NEW i, <<m, i>> \in A
      PROVE  f[<<m, i>>] = <<m, i + 1>> /\ <<m, i + 1>> \in B /\ i \in Nat
  <2>1. m \in Node /\ i \in DOMAIN pipe[m] /\ pipe[m][i] = Publish(ViewNews(x))
    BY <1>1, InPlaces DEF Announced
  <2>2. i + 1 \in DOMAIN pipe[m] /\ pipe[m][i + 1] = Hincrby(x)
    BY <2>1 DEF BalanceInv, Balance, Paired
  <2>3. <<m, i + 1>> \in B
    BY <2>1, <2>2, InPlaces DEF Booked
  <2>4. i \in Nat
    BY <2>1, ViewTypes
  <2>5. <<m, i>>[1] = m /\ <<m, i>>[2] = i
    OBVIOUS
  <2> HIDE DEF A, B
  <2>6. f[<<m, i>>] = <<m, i + 1>>
    BY <1>1, <2>5
  <2> QED BY <2>3, <2>4, <2>6
<1>2. ASSUME NEW z \in A PROVE \E m, i : z = <<m, i>>
  BY InPlaces DEF Announced
<1> HIDE DEF A, B
<1>3. f \in [A -> B]
  <2>1. \A z \in A : f[z] \in B
    BY <1>1, <1>2
  <2> QED BY <2>1
<1> HIDE DEF f
<1>4. ASSUME NEW y \in A, NEW z \in A, f[y] = f[z] PROVE y = z
  <2>1. PICK m, i : y = <<m, i>>
    BY <1>2
  <2>2. PICK l, k : z = <<l, k>>
    BY <1>2
  <2>3. f[<<m, i>>] = <<m, i + 1>> /\ i \in Nat
    BY <1>1, <2>1
  <2>4. f[<<l, k>>] = <<l, k + 1>> /\ k \in Nat
    BY <1>1, <2>2
  <2>5. <<m, i + 1>> = <<l, k + 1>>
    BY <1>4, <2>1, <2>2, <2>3, <2>4
  <2>6. m = l /\ i = k
    BY <2>3, <2>4, <2>5
  <2> QED BY <2>1, <2>2, <2>6
<1>5. f \in Injection(A, B)
  BY <1>3, <1>4 DEF Injection, IsInjective
<1>6. IsFiniteSet(B) /\ views[x] + Cardinality(B) <= asked[x]
  BY DEF BalanceInv, Balance, Balanced, B
<1>7. Cardinality(A) <= Cardinality(B)
  BY <1>5, <1>6, FS_Injection
<1>8. Cardinality(A) \in Nat /\ Cardinality(B) \in Nat /\ views[x] \in Nat /\ asked[x] \in Nat
  BY ViewTypes DEF A, B
<1>9. views[x] + Cardinality(A) <= asked[x]
  BY <1>6, <1>7, <1>8
<1> QED BY <1>9 DEF A

LEMMA InitBalance == Init => Balance
<1> SUFFICES ASSUME Init PROVE Balance
  OBVIOUS
<1>1. \A n \in Node : /\ posts[n] = <<>> /\ reply[n] = <<>> /\ pipe[n] = <<>>
                      /\ DOMAIN posts[n] = {} /\ DOMAIN reply[n] = {} /\ DOMAIN pipe[n] = {}
  BY DEF Init
<1>2. \A x \in Id : Announced(pipe, x) = {} /\ Booked(pipe, x) = {}
  BY <1>1, InPlaces DEF Announced, Booked
<1>3. \A n \in Node : Paired(pipe[n])
  BY <1>1 DEF Paired
<1>4. ASSUME NEW n \in Node, NEW x \in Id PROVE Due(reply[n], x, 0) = 0
  <2>1. After(reply[n], ViewPush(x), 0) = {}
    BY <1>1 DEF After
  <2> QED BY <2>1, FS_EmptySet DEF Due
<1>5. ASSUME NEW x \in Id PROVE Balanced(x)
  <2>1. Cardinality(Announced(pipe, x)) = 0 /\ Cardinality(Booked(pipe, x)) = 0
        /\ IsFiniteSet(Announced(pipe, x)) /\ IsFiniteSet(Booked(pipe, x))
    BY <1>2, FS_EmptySet
  <2>2. views[x] = 0 /\ asked[x] = 0
    BY DEF Init
  <2> QED BY <1>1, <1>4, <2>1, <2>2 DEF Balanced, Covered
<1> QED BY <1>3, <1>5 DEF Balance
-----------------------------------------------------------------------------
(* Requests.                                                                *)

NoViews(q) == \A i \in DOMAIN q : \A x \in Id : q[i] # Publish(ViewNews(x)) /\ q[i] # Hincrby(x)

LEMMA PairedParts ==
  ASSUME NEW p \in Seq(Command), Paired(p)
  PROVE  /\ \A q \in Seq(Command) : Paired(q) => Paired(p \o q)
         /\ p # <<>> => Paired(Tail(p))
<1>1. Len(p) \in Nat /\ DOMAIN p = 1 .. Len(p)
  OBVIOUS
<1>2. ASSUME NEW q \in Seq(Command), Paired(q) PROVE Paired(p \o q)
  <2> DEFINE r == p \o q
             l == Len(p)
  <2>1. /\ Len(q) \in Nat /\ DOMAIN q = 1 .. Len(q) /\ DOMAIN r = 1 .. l + Len(q)
        /\ \A i \in 1 .. l : r[i] = p[i]
        /\ \A i \in 1 .. Len(q) : r[l + i] = q[i]
    OBVIOUS
  <2> HIDE DEF r
  <2>2. ASSUME NEW j \in DOMAIN r, NEW x \in Id, r[j] = Publish(ViewNews(x))
        PROVE  j + 1 \in DOMAIN r /\ r[j + 1] = Hincrby(x)
    <3>1. CASE j \in 1 .. l
      <4>1. j + 1 \in 1 .. l /\ p[j + 1] = Hincrby(x)
        BY <1>1, <2>1, <2>2, <3>1 DEF Paired
      <4> QED BY <1>1, <2>1, <4>1
    <3>2. CASE j \notin 1 .. l
      <4>1. j - l \in 1 .. Len(q) /\ l + (j - l) = j /\ l + ((j - l) + 1) = j + 1
        BY <1>1, <2>1, <3>2
      <4>2. q[j - l] = Publish(ViewNews(x))
        BY <2>1, <2>2, <4>1
      <4>3. (j - l) + 1 \in 1 .. Len(q) /\ q[(j - l) + 1] = Hincrby(x)
        BY <1>2, <2>1, <4>1, <4>2 DEF Paired
      <4>4. r[l + ((j - l) + 1)] = Hincrby(x)
        BY <2>1, <4>3
      <4>5. j + 1 \in 1 .. l + Len(q)
        BY <1>1, <2>1, <4>1, <4>3
      <4> QED BY <2>1, <4>1, <4>4, <4>5
    <3> QED BY <3>1, <3>2
  <2>3. Paired(r)
    BY <2>2 DEF Paired
  <2> QED BY <2>3 DEF r
<1>3. ASSUME p # <<>> PROVE Paired(Tail(p))
  <2> DEFINE r == Tail(p)
  <2>1. /\ Len(p) > 0 /\ DOMAIN r = 1 .. Len(p) - 1
        /\ \A i \in 1 .. Len(p) - 1 : r[i] = p[i + 1]
    BY <1>3
  <2> HIDE DEF r
  <2>2. ASSUME NEW j \in DOMAIN r, NEW x \in Id, r[j] = Publish(ViewNews(x))
        PROVE  j + 1 \in DOMAIN r /\ r[j + 1] = Hincrby(x)
    <3>1. j + 1 \in DOMAIN p /\ p[j + 1] = Publish(ViewNews(x)) /\ j \in Nat
      BY <1>1, <2>1, <2>2
    <3>2. (j + 1) + 1 \in DOMAIN p /\ p[(j + 1) + 1] = Hincrby(x)
      BY <3>1 DEF Paired
    <3>3. j + 1 \in 1 .. Len(p) - 1
      BY <1>1, <3>1, <3>2
    <3> QED BY <2>1, <3>2, <3>3
  <2>3. Paired(r)
    BY <2>2 DEF Paired
  <2> QED BY <2>3 DEF r
<1> QED BY <1>2, <1>3

LEMMA CmdViews ==
  /\ NoViews(HelloCmds) /\ NoViews(<<[op |-> "hgetall"]>>)
  /\ \A p : NoViews(PublishCmds(p))
  /\ \A id, u, p : NoViews(DeleteCmds(id, u, p))
  /\ \A q : NoViews(q) => Paired(q)
  /\ \A b \in Bodies : Paired(ViewCmds(b))
<1>1. \A c, x : c = Publish(ViewNews(x)) \/ c = Hincrby(x) =>
        c.op = "hincrby" \/ (c.op = "publish" /\ c.news.cmd = "visualization")
  BY ViewTerms
<1>2. NoViews(HelloCmds) /\ NoViews(<<[op |-> "hgetall"]>>)
  BY <1>1 DEF NoViews, HelloCmds
<1>3. ASSUME NEW p PROVE NoViews(PublishCmds(p))
  BY <1>1 DEF NoViews, PublishCmds, Publish
<1>4. ASSUME NEW id, NEW u, NEW p PROVE NoViews(DeleteCmds(id, u, p))
  BY <1>1 DEF NoViews, DeleteCmds, Publish
<1>5. \A q : NoViews(q) => Paired(q)
  BY DEF NoViews, Paired
<1>6. ASSUME NEW b \in Bodies PROVE Paired(ViewCmds(b))
  <2> DEFINE q == ViewCmds(b)
  <2>1. DOMAIN q = {1, 2} /\ q[1] = Publish(b.news) /\ q[2] = Hincrby(b.id)
    BY DEF ViewCmds, Hincrby
  <2>2. \A x : b.news = ViewNews(x) => x = b.id
    BY BodiesAssumption, ViewTerms
  <2>3. \A x : Publish(b.news) = Publish(ViewNews(x)) => b.news = ViewNews(x)
    BY DEF Publish
  <2> HIDE DEF q
  <2>4. Paired(q)
    BY <2>1, <2>2, <2>3, ViewTerms DEF Paired
  <2> QED BY <2>4 DEF q
<1> QED BY <1>2, <1>3, <1>4, <1>5, <1>6

\* Nothing is booked or announced, and each process is right.
LEMMA BalanceKept ==
  ASSUME BalanceInv, UNCHANGED <<views, asked>>, \A m \in Node : Paired(pipe'[m]),
         \A x \in Id : /\ Announced(pipe', x) = Announced(pipe, x)
                       /\ Booked(pipe', x) = Booked(pipe, x),
         \A m \in Node : \A x \in Id :
           Covered(posts'[m], reply'[m], Cardinality(Announced(pipe, x)), asked[x], x)
  PROVE  Balance'
<1>1. ASSUME NEW x \in Id PROVE Balanced(x)'
  <2>1. Balanced(x)
    BY DEF BalanceInv, Balance
  <2> QED BY <2>1 DEF Balanced
<1> QED BY <1>1 DEF Balance

LEMMA RequestPlaces ==
  ASSUME BalanceInv, NEW n \in Node, NEW q \in Seq(Command), NoViews(q), Request(n, q)
  PROVE  /\ \A m \in Node : Paired(pipe'[m])
         /\ \A x \in Id : /\ Announced(pipe', x) = Announced(pipe, x)
                          /\ Booked(pipe', x) = Booked(pipe, x)
<1>1. pipe' = [pipe EXCEPT ![n] = @ \o q] /\ pipe \in [Node -> Seq(Command)]
  BY ViewTypes DEF Request
<1>4. pipe' = Requested(pipe, n, q)
  BY <1>1 DEF Requested
<1>2. ASSUME NEW m \in Node PROVE Paired(pipe'[m])
  <2>1. Paired(pipe[m]) /\ Paired(q)
    BY CmdViews DEF BalanceInv, Balance
  <2>2. pipe[m] \in Seq(Command)
    BY <1>1
  <2>3. Paired(pipe[m] \o q)
    BY <2>1, <2>2, PairedParts
  <2> QED BY <1>1, <2>1, <2>3
<1>3. ASSUME NEW x \in Id
      PROVE  Announced(pipe', x) = Announced(pipe, x) /\ Booked(pipe', x) = Booked(pipe, x)
  <2> DEFINE c == Publish(ViewNews(x))
             d == Hincrby(x)
  <2>1. IsFiniteSet(Places(pipe, c)) /\ IsFiniteSet(Places(pipe, d))
    BY DEF BalanceInv, Balance, Balanced, Announced, Booked
  <2>2. (\A i \in DOMAIN q : q[i] # c) /\ (\A i \in DOMAIN q : q[i] # d)
    BY DEF NoViews
  <2>5. pipe \in [Node -> Seq(Command)]
    BY ViewTypes
  <2> HIDE DEF c, d
  <2>3. Places(pipe', c) = Places(pipe, c)
    BY <1>4, <2>1, <2>2, <2>5, PlacesUnasked
  <2>4. Places(pipe', d) = Places(pipe, d)
    BY <1>4, <2>1, <2>2, <2>5, PlacesUnasked
  <2> QED BY <2>3, <2>4 DEF Announced, Booked, c, d
<1> QED BY <1>2, <1>3

\* A request that is not about views.
LEMMA RequestBalance ==
  ASSUME BalanceInv, NEW n \in Node, NEW q \in Seq(Command), NoViews(q), Request(n, q),
         UNCHANGED <<posts, reply, views, asked>>
  PROVE  Balance'
<1>1. \A m \in Node : \A x \in Id :
        Covered(posts[m], reply[m], Cardinality(Announced(pipe, x)), asked[x], x)
  BY DEF BalanceInv, Balance, Balanced
<1> QED BY <1>1, RequestPlaces, BalanceKept

LEMMA StartBalance == ASSUME BalanceInv, NEW n \in Node, Start(n) PROVE Balance'
  BY CmdTypes, CmdViews, RequestBalance DEF Start, redisVars

LEMMA PublishBalance ==
  ASSUME BalanceInv, NEW n \in Node, NEW u \in User, NEW id \in Id, OnPublish(n, u, id)
  PROVE  Balance'
<1> DEFINE p == [id |-> id, from |-> u, visualizations |-> 0,
                 location |-> Code[id].location, product |-> Code[id].product]
<1>1. Request(n, PublishCmds(p)) /\ UNCHANGED <<posts, reply, views, asked>>
  BY DEF OnPublish, workerVars, redisVars
<1>2. p \in Post
  BY PostsAssumption DEF Post
<1> HIDE DEF p
<1> QED BY <1>1, <1>2, CmdTypes, CmdViews, RequestBalance

LEMMA DeleteBalance ==
  ASSUME BalanceInv, NEW n \in Node, NEW u \in User, NEW id \in Id, OnDelete(n, u, id)
  PROVE  Balance'
<1>1. PICK p \in Get(posts[n], id) : Request(n, DeleteCmds(id, u, p))
  BY DEF OnDelete
<1>2. p \in Post
  <2>1. \E i \in DOMAIN posts[n] : p = posts[n][i]
    BY DEF Get
  <2> QED BY <2>1, ViewTypes, PlaceTypes
<1>3. UNCHANGED <<posts, reply, views, asked>>
  BY DEF OnDelete, workerVars, redisVars
<1> QED BY <1>1, <1>2, <1>3, CmdTypes, CmdViews, RequestBalance

\* A view is requested, announced and booked.
LEMMA ViewBalance ==
  ASSUME BalanceInv, NEW n \in Node, NEW b \in Bodies, OnView(n, b)
  PROVE  Balance'
<1> DEFINE q == ViewCmds(b)
           id == b.id
           Counts(x) == b.news = ViewNews(x)
<1>1. /\ pipe' = [pipe EXCEPT ![n] = @ \o q] /\ asked' = [asked EXCEPT ![id] = @ + 1]
      /\ UNCHANGED <<posts, reply, views>>
  BY DEF OnView, Request, workerVars, redisVars
<1>2. /\ q \in Seq(Command) /\ Paired(q) /\ DOMAIN q = {1, 2}
      /\ q[1] = Publish(b.news) /\ q[2] = Hincrby(id)
  BY CmdTypes, CmdViews DEF ViewCmds, Hincrby
<1>6. /\ id \in Id /\ \A x : Counts(x) => x = id
      /\ \A x : Publish(b.news) = Publish(ViewNews(x)) => Counts(x)
      /\ \A x : Counts(x) => Publish(b.news) = Publish(ViewNews(x))
      /\ \A x : Publish(b.news) # Hincrby(x)
  BY BodiesAssumption, ViewTerms DEF Publish, Hincrby
<1> HIDE DEF q, id, Counts
<1>5. pipe' = Requested(pipe, n, q)
  BY <1>1 DEF Requested
<1>3. ASSUME NEW m \in Node PROVE Paired(pipe'[m])
  <2>1. Paired(pipe[m]) /\ pipe[m] \in Seq(Command)
    BY ViewTypes DEF BalanceInv, Balance
  <2>2. Paired(pipe[m] \o q)
    BY <1>2, <2>1, PairedParts
  <2> QED BY <1>1, <2>1, <2>2, ViewTypes
<1>4. ASSUME NEW x \in Id PROVE Balanced(x)'
  <2> DEFINE c == Publish(ViewNews(x))
             d == Hincrby(x)
  <2>1. /\ IsFiniteSet(Announced(pipe, x)) /\ IsFiniteSet(Booked(pipe, x))
        /\ views[x] + Cardinality(Booked(pipe, x)) <= asked[x]
        /\ \A m \in Node : Covered(posts[m], reply[m], Cardinality(Announced(pipe, x)),
                                   asked[x], x)
    BY DEF BalanceInv, Balance, Balanced
  <2>2. /\ pipe \in [Node -> Seq(Command)] /\ views[x] \in Nat /\ asked[x] \in Nat
        /\ Cardinality(Announced(pipe, x)) \in Nat /\ Cardinality(Booked(pipe, x)) \in Nat
        /\ asked'[x] = IF x = id THEN asked[x] + 1 ELSE asked[x]
    BY <1>1, ViewTypes
  <2>10. /\ \A i \in DOMAIN q : q[i] = c <=> i = 1 /\ Counts(x)
         /\ \A i \in DOMAIN q : q[i] = d <=> i = 2 /\ x = id
    BY <1>2, <1>6, ViewTerms
  <2>11. /\ IsFiniteSet(Places(pipe, c)) /\ IsFiniteSet(Places(pipe, d))
         /\ 1 \in DOMAIN q /\ 2 \in DOMAIN q
    BY <1>2, <2>1 DEF Announced, Booked
  <2> HIDE DEF c, d
  <2>12. Announced(pipe, x) = Places(pipe, c) /\ Announced(pipe', x) = Places(pipe', c)
    BY DEF Announced, c
  <2>13. Booked(pipe, x) = Places(pipe, d) /\ Booked(pipe', x) = Places(pipe', d)
    BY DEF Booked, d
  <2>3. CASE x # id
    <3>1. (\A i \in DOMAIN q : q[i] # c) /\ (\A i \in DOMAIN q : q[i] # d)
      BY <1>6, <2>3, <2>10
    <3>3. Places(pipe', c) = Places(pipe, c)
      BY <1>2, <1>5, <2>2, <2>11, <3>1, PlacesUnasked
    <3>4. Places(pipe', d) = Places(pipe, d)
      BY <1>2, <1>5, <2>2, <2>11, <3>1, PlacesUnasked
    <3>2. Announced(pipe', x) = Announced(pipe, x) /\ Booked(pipe', x) = Booked(pipe, x)
      BY <2>12, <2>13, <3>3, <3>4
    <3> QED BY <1>1, <2>1, <2>2, <2>3, <3>2 DEF Balanced
  <2>4. CASE x = id
    <3>1. \A i \in DOMAIN q : q[i] = d <=> i = 2
      BY <2>4, <2>10
    <3>8. /\ IsFiniteSet(Places(pipe', d))
          /\ Cardinality(Places(pipe', d)) = Cardinality(Places(pipe, d)) + 1
      BY <1>2, <1>5, <2>2, <2>11, <3>1, PlacesAsked
    <3>2. /\ IsFiniteSet(Places(pipe', c))
          /\ \/ Cardinality(Places(pipe', c)) = Cardinality(Places(pipe, c)) + 1
             \/ Cardinality(Places(pipe', c)) = Cardinality(Places(pipe, c))
      <4>1. CASE Counts(x)
        <5>1. \A i \in DOMAIN q : q[i] = c <=> i = 1
          BY <2>10, <4>1
        <5> QED BY <1>2, <1>5, <2>2, <2>11, <5>1, PlacesAsked
      <4>2. CASE ~Counts(x)
        <5>1. \A i \in DOMAIN q : q[i] # c
          BY <2>10, <4>2
        <5>2. Places(pipe', c) = Places(pipe, c)
          BY <1>2, <1>5, <2>2, <2>11, <5>1, PlacesUnasked
        <5> QED BY <2>11, <5>2
      <4> QED BY <4>1, <4>2
    <3>4. ASSUME NEW m \in Node
          PROVE  Covered(posts[m], reply[m], Cardinality(Announced(pipe', x)), asked'[x], x)
      <4>1. posts[m] \in Seq(Post) /\ reply[m] \in Seq(Event)
        BY ViewTypes
      <4>2. /\ Cardinality(Announced(pipe', x)) \in Nat /\ asked'[x] \in Nat
            /\ Cardinality(Announced(pipe', x)) + asked[x]
                 <= Cardinality(Announced(pipe, x)) + asked'[x]
        BY <2>2, <2>4, <2>12, <3>2
      <4> QED BY <2>1, <2>2, <4>1, <4>2, CoveredMore
    <3>5. views[x] + Cardinality(Booked(pipe', x)) <= asked'[x]
      BY <2>1, <2>2, <2>4, <2>13, <3>8
    <3>6. IsFiniteSet(Announced(pipe', x)) /\ IsFiniteSet(Booked(pipe', x))
      BY <2>12, <2>13, <3>2, <3>8
    <3> QED BY <1>1, <3>4, <3>5, <3>6 DEF Balanced
  <2> QED BY <2>3, <2>4
<1> QED BY <1>3, <1>4 DEF Balance

\* A connection is lost, or a process stops.
LEMMA LostBalance ==
  ASSUME BalanceInv, NEW n \in Node, NEW q \in Seq(Command), NoViews(q),
         pipe' = [pipe EXCEPT ![n] = q], reply' = [reply EXCEPT ![n] = <<>>],
         posts' = posts \/ posts' = [posts EXCEPT ![n] = <<>>],
         UNCHANGED <<views, asked>>
  PROVE  Balance'
<1>1. \A m \in Node : /\ pipe'[m] = IF m = n THEN q ELSE pipe[m]
                      /\ reply'[m] = IF m = n THEN <<>> ELSE reply[m]
                      /\ posts'[m] = posts[m] \/ (m = n /\ posts'[m] = <<>>)
  BY ViewTypes
<1>2. \A m \in Node : Paired(pipe'[m])
  BY <1>1, CmdViews DEF BalanceInv, Balance
<1>3. ASSUME NEW x \in Id PROVE Balanced(x)'
  <2>1. /\ IsFiniteSet(Announced(pipe, x)) /\ IsFiniteSet(Booked(pipe, x))
        /\ views[x] + Cardinality(Booked(pipe, x)) <= asked[x]
        /\ \A m \in Node : Covered(posts[m], reply[m], Cardinality(Announced(pipe, x)),
                                   asked[x], x)
    BY DEF BalanceInv, Balance, Balanced
  <2>2. /\ views[x] \in Nat /\ asked[x] \in Nat
        /\ Cardinality(Announced(pipe, x)) \in Nat /\ Cardinality(Booked(pipe, x)) \in Nat
    BY ViewTypes
  <2>3. \A m \in Node : \A i \in DOMAIN pipe'[m] :
          pipe'[m][i] = Publish(ViewNews(x)) \/ pipe'[m][i] = Hincrby(x) => pipe'[m] = pipe[m]
    BY <1>1 DEF NoViews
  <2>4. /\ IsFiniteSet(Announced(pipe', x))
        /\ Cardinality(Announced(pipe', x)) <= Cardinality(Announced(pipe, x))
    BY <2>1, <2>3, PlacesLess DEF Announced
  <2>5. /\ IsFiniteSet(Booked(pipe', x))
        /\ Cardinality(Booked(pipe', x)) <= Cardinality(Booked(pipe, x))
    BY <2>1, <2>3, PlacesLess DEF Booked
  <2>6. Cardinality(Announced(pipe', x)) \in Nat /\ Cardinality(Booked(pipe', x)) \in Nat
    BY <2>4, <2>5, FS_CardinalityType
  <2>7. views[x] + Cardinality(Booked(pipe', x)) <= asked[x]
    BY <2>1, <2>2, <2>5, <2>6
  <2>8. ASSUME NEW m \in Node
        PROVE  Covered(posts'[m], reply'[m], Cardinality(Announced(pipe', x)), asked[x], x)
    <3>1. posts[m] \in Seq(Post) /\ reply[m] \in Seq(Event)
      BY ViewTypes
    <3>2. Cardinality(Announced(pipe', x)) + asked[x] <= Cardinality(Announced(pipe, x)) + asked[x]
      BY <2>2, <2>4, <2>6
    <3>3. Covered(posts[m], reply[m], Cardinality(Announced(pipe', x)), asked[x], x)
      BY <2>1, <2>2, <2>6, <3>1, <3>2, CoveredMore
    <3>4. ASSUME NEW l, l = <<>> PROVE Len(l) = 0 /\ DOMAIN l = {}
      BY <3>4
    <3>5. ASSUME NEW l, l = <<>>
          PROVE  /\ Covered(posts[m], l, Cardinality(Announced(pipe', x)), asked[x], x)
                 /\ Covered(l, l, Cardinality(Announced(pipe', x)), asked[x], x)
      BY <2>2, <2>6, <3>1, <3>3, <3>4, <3>5, CoveredLost
    <3> QED BY <1>1, <3>3, <3>5
  <2> QED BY <2>4, <2>5, <2>7, <2>8 DEF Balanced
<1> QED BY <1>2, <1>3 DEF Balance

LEMMA ReconnectBalance == ASSUME BalanceInv, NEW n \in Node, Reconnect(n) PROVE Balance'
  BY CmdTypes, CmdViews, LostBalance DEF Reconnect, workerVars

LEMMA StopBalance == ASSUME BalanceInv, NEW n \in Node, Stop(n) PROVE Balance'
<1>1. <<>> \in Seq(Command) /\ NoViews(<<>>)
  BY DEF NoViews
<1>2. /\ pipe' = [pipe EXCEPT ![n] = <<>>] /\ reply' = [reply EXCEPT ![n] = <<>>]
      /\ posts' = [posts EXCEPT ![n] = <<>>] /\ UNCHANGED <<views, asked>>
  BY DEF Stop, history
<1> QED BY <1>1, <1>2, LostBalance
-----------------------------------------------------------------------------
(* Answers and news.                                                        *)

LEMMA TakenBalance ==
  ASSUME BalanceInv, NEW n \in Node, reply[n] # <<>>, NEW qs \in Seq(Post),
         reply' = [reply EXCEPT ![n] = Tail(@)], posts' = [posts EXCEPT ![n] = qs],
         UNCHANGED <<views, asked>>,
         pipe' = pipe \/ Request(n, <<[op |-> "hgetall"]>>),
         \A x \in Id : ViewsFrom(posts[n], Head(reply[n]), qs, x)
  PROVE  Balance'
<1>1. \A m \in Node : /\ reply'[m] = IF m = n THEN Tail(reply[n]) ELSE reply[m]
                      /\ posts'[m] = IF m = n THEN qs ELSE posts[m]
  BY ViewTypes
<1>2. ASSUME NEW m \in Node, NEW x \in Id
      PROVE  Covered(posts'[m], reply'[m], Cardinality(Announced(pipe, x)), asked[x], x)
  <2>1. Covered(posts[m], reply[m], Cardinality(Announced(pipe, x)), asked[x], x)
    BY DEF BalanceInv, Balance, Balanced
  <2>2. /\ posts[n] \in Seq(Post) /\ reply[n] \in Seq(Event)
        /\ Cardinality(Announced(pipe, x)) \in Nat /\ asked[x] \in Nat
    BY ViewTypes
  <2>3. CASE m = n
    <3>1. Covered(qs, Tail(reply[n]), Cardinality(Announced(pipe, x)), asked[x], x)
      BY <2>1, <2>2, <2>3, CoveredTaken
    <3> QED BY <1>1, <2>3, <3>1
  <2> QED BY <1>1, <2>1, <2>3
<1>3. CASE pipe' = pipe
  <2>1. \A m \in Node : Paired(pipe'[m])
    BY <1>3 DEF BalanceInv, Balance
  <2> QED BY <1>2, <1>3, <2>1, BalanceKept
<1>4. CASE Request(n, <<[op |-> "hgetall"]>>)
  <2>1. <<[op |-> "hgetall"]>> \in Seq(Command) /\ NoViews(<<[op |-> "hgetall"]>>)
    BY CmdTypes, CmdViews
  <2>2. /\ \A m \in Node : Paired(pipe'[m])
        /\ \A x \in Id : /\ Announced(pipe', x) = Announced(pipe, x)
                         /\ Booked(pipe', x) = Booked(pipe, x)
    BY <1>4, <2>1, RequestPlaces
  <2> QED BY <1>2, <2>2, BalanceKept
<1> QED BY <1>3, <1>4

\* Posts that are added show no views.
LEMMA AddedPosts ==
  ASSUME NEW ps \in Seq(Post), NEW new \in Seq(Post),
         \A k \in DOMAIN new : new[k].visualizations = 0, NEW h
  PROVE  /\ AddPosts(ps, new) \in Seq(Post)
         /\ \A x \in Id : ViewsFrom(ps, h, AddPosts(ps, new), x)
<1> DEFINE d == AddPosts(ps, new)
<1>2. \A k \in DOMAIN d : d[k].visualizations = 0 \/ \E l \in DOMAIN ps : d[k] = ps[l]
  BY AddPostsViews
<1>3. d \in Seq(Post)
  BY AddPostsSorts
<1> HIDE DEF d
<1>4. \A x \in Id : ViewsFrom(ps, h, d, x)
  BY <1>2 DEF ViewsFrom
<1> QED BY <1>3, <1>4 DEF d

LEMMA ReplyBalance ==
  ASSUME BalanceInv, NoViewsBrought, NEW n \in Node, OnReply(n)
  PROVE  Balance'
<1> DEFINE e == Head(reply[n])
           ps == posts[n]
<1>1. /\ reply[n] # <<>> /\ reply' = [reply EXCEPT ![n] = Tail(@)]
      /\ UNCHANGED <<views, asked>>
  BY DEF OnReply, OnHvals, OnHgetall, OnNews, Receive, redisVars, history
<1>2. ps \in Seq(Post) /\ ById(ps) /\ reply[n] \in Seq(Event)
  BY ViewTypes
<1>3. /\ Provenance /\ Origin(posts[n], reply[n], pipe[n], removed, published)
      /\ posts \in [Node -> Seq(Post)]
  BY ViewTypes DEF BalanceInv, ProvInv, Provenance
<1>4. e \in Event /\ GenuineEvent(e, published)
  BY <1>1, <1>2, <1>3, HeadTailProperties DEF Origin
<1> HIDE DEF e, ps
<1>5. ASSUME NEW qs \in Seq(Post), \A x \in Id : ViewsFrom(ps, e, qs, x),
             posts' = [posts EXCEPT ![n] = qs],
             pipe' = pipe \/ Request(n, <<[op |-> "hgetall"]>>)
      PROVE  Balance'
  BY <1>1, <1>5, TakenBalance DEF e, ps
<1>6. CASE OnHvals(n)
  <2>1. e.type = "hvals" /\ posts' = [posts EXCEPT ![n] = AddPosts(ps, e.posts)]
        /\ Request(n, <<[op |-> "hgetall"]>>)
    BY <1>3, <1>6 DEF OnHvals, Receive, e, ps
  <2>2. e.posts \in Seq(Post) /\ \A k \in DOMAIN e.posts : e.posts[k].visualizations = 0
    <3>1. e.posts \in Seq(Post)
      BY <1>4, <2>1 DEF Event
    <3>2. ASSUME NEW k \in DOMAIN e.posts PROVE e.posts[k].visualizations = 0
      <4>1. AsPublished(e.posts[k], published) /\ e.posts[k].id \in Id
        BY <1>4, <2>1, <3>1, <3>2, PlaceTypes DEF GenuineEvent, Post
      <4> QED BY <1>3, <4>1 DEF AsPublished, Provenance
    <3> QED BY <3>1, <3>2
  <2>3. AddPosts(ps, e.posts) \in Seq(Post) /\ \A x \in Id : ViewsFrom(ps, e, AddPosts(ps, e.posts), x)
    BY <1>2, <1>3, <2>2, AddedPosts
  <2> QED BY <1>5, <2>1, <2>3
<1>7. CASE OnHgetall(n)
  <2> DEFINE d == LoadVisualizations(ps, e.visual)
  <2>1. e.type = "hgetall" /\ posts' = [posts EXCEPT ![n] = d] /\ pipe' = pipe
    BY <1>3, <1>7 DEF OnHgetall, Receive, e, ps
  <2>2. e.visual \in Seq(Visual)
    BY <1>4, <2>1 DEF Event
  <2>3. d \in Seq(Post)
    BY <1>2, <2>2, LoadVisualizationsKeeps
  <2>4. \A k \in DOMAIN d :
          /\ k \in DOMAIN ps
          /\ \/ d[k] = ps[k]
             \/ d[k].id = ps[k].id /\ \E i \in DOMAIN e.visual :
                  e.visual[i].id = ps[k].id /\ d[k].visualizations = e.visual[i].n
    BY <1>2, <2>2, LoadVisualizationsViews
  <2> HIDE DEF d
  <2>5. \A x \in Id : ViewsFrom(ps, e, d, x)
    BY <2>1, <2>4 DEF ViewsFrom
  <2> QED BY <1>5, <2>1, <2>3, <2>5
<1>8. CASE OnNews(n)
  <2> DEFINE s == e.news
  <2>1. /\ e.type = "push" /\ pipe' = pipe
        /\ posts' = [posts EXCEPT ![n] =
              CASE s.cmd = "publish_internal" -> AddPosts(ps, <<s.post>>)
                [] s.cmd = "delete" -> RemovePost(ps, s.id, s.from, s.from = Admin)
                [] s.cmd = "visualization" -> OnVisualization(ps, s.id)
                [] s.cmd = "none" -> ps]
    BY <1>3, <1>8 DEF OnNews, Receive, e, ps
  <2>2. s \in News /\ GenuineNews(s, published) /\ e = [type |-> "push", news |-> s]
    BY <1>4, <2>1 DEF Event, GenuineEvent
  <2> HIDE DEF s
  <2>3. ASSUME s.cmd = "publish_internal" PROVE Balance'
    <3>1. s.post \in Post /\ s.post.visualizations = 0
      BY <2>2, <2>3 DEF News, GenuineNews
    <3>2. <<s.post>> \in Seq(Post) /\ \A k \in DOMAIN <<s.post>> :
            <<s.post>>[k].visualizations = 0
      BY <3>1
    <3>3. posts' = [posts EXCEPT ![n] = AddPosts(ps, <<s.post>>)]
      BY <2>1, <2>3
    <3> DEFINE new == <<s.post>>
    <3>4. new \in Seq(Post) /\ \A k \in DOMAIN new : new[k].visualizations = 0
      BY <3>2
    <3>5. posts' = [posts EXCEPT ![n] = AddPosts(ps, new)]
      BY <3>3
    <3> HIDE DEF new
    <3>6. AddPosts(ps, new) \in Seq(Post) /\ \A x \in Id : ViewsFrom(ps, e, AddPosts(ps, new), x)
      BY <1>2, <1>3, <3>4, AddedPosts
    <3> QED BY <1>5, <2>1, <3>5, <3>6
  <2>4. ASSUME s.cmd = "delete" PROVE Balance'
    <3> DEFINE b == s.from = Admin
               d == RemovePost(ps, s.id, s.from, b)
    <3>1. b \in BOOLEAN
      OBVIOUS
    <3>3. posts' = [posts EXCEPT ![n] = d]
      BY <2>1, <2>4
    <3> HIDE DEF b
    <3>2. d \in Seq(Post) /\ \A k \in DOMAIN d : \E j \in DOMAIN ps : d[k] = ps[j]
      BY <1>2, <3>1, RemovePostKeeps
    <3> HIDE DEF d
    <3>4. \A x \in Id : ViewsFrom(ps, e, d, x)
      BY <3>2 DEF ViewsFrom
    <3> QED BY <1>5, <2>1, <3>2, <3>3, <3>4
  <2>5. ASSUME s.cmd = "visualization" PROVE Balance'
    <3> DEFINE d == OnVisualization(ps, s.id)
    <3>1. d \in Seq(Post)
      BY <1>2, OnVisualizationKeeps
    <3>2. \A k \in DOMAIN d :
            /\ k \in DOMAIN ps
            /\ \/ d[k] = ps[k]
               \/ /\ d[k].id = s.id /\ ps[k].id = s.id
                  /\ d[k].visualizations = ps[k].visualizations + 1
      BY <1>2, OnVisualizationViews
    <3>3. posts' = [posts EXCEPT ![n] = d]
      BY <2>1, <2>5
    <3>4. e = ViewPush(s.id)
      <4>1. s = ViewNews(s.id)
        BY <2>2, <2>5 DEF News, ViewNews
      <4> QED BY <2>2, <4>1 DEF ViewPush
    <3> HIDE DEF d
    <3>5. \A x \in Id : ViewsFrom(ps, e, d, x)
      BY <3>2, <3>4 DEF ViewsFrom
    <3> QED BY <1>5, <2>1, <3>1, <3>3, <3>5
  <2>7. ASSUME s.cmd = "none" PROVE Balance'
    <3>1. posts' = [posts EXCEPT ![n] = ps]
      BY <2>1, <2>7
    <3>2. \A x \in Id : ViewsFrom(ps, e, ps, x)
      BY DEF ViewsFrom
    <3> QED BY <1>2, <1>5, <2>1, <3>1, <3>2
  <2>6. s.cmd \in {"publish_internal", "delete", "visualization", "none"}
    BY <2>2 DEF News
  <2> QED BY <2>3, <2>4, <2>5, <2>6, <2>7
<1> QED BY <1>6, <1>7, <1>8 DEF OnReply
-----------------------------------------------------------------------------
(* Redis.                                                                   *)

LEMMA ExecPlaces ==
  ASSUME BalanceInv, NEW n \in Node, NEW op, Exec(n, op)
  PROVE  /\ \A m \in Node : Paired(pipe'[m])
         /\ \A x \in Id :
              /\ IsFiniteSet(Announced(pipe', x)) /\ IsFiniteSet(Booked(pipe', x))
              /\ Cardinality(Announced(pipe', x)) \in Nat
              /\ Cardinality(Booked(pipe', x)) \in Nat
              /\ Head(pipe[n]) = Publish(ViewNews(x)) =>
                   Cardinality(Announced(pipe, x)) = Cardinality(Announced(pipe', x)) + 1
              /\ Head(pipe[n]) # Publish(ViewNews(x)) =>
                   Cardinality(Announced(pipe, x)) = Cardinality(Announced(pipe', x))
              /\ Head(pipe[n]) = Hincrby(x) =>
                   Cardinality(Booked(pipe, x)) = Cardinality(Booked(pipe', x)) + 1
              /\ Head(pipe[n]) # Hincrby(x) =>
                   Cardinality(Booked(pipe, x)) = Cardinality(Booked(pipe', x))
<1>1. /\ pipe \in [Node -> Seq(Command)] /\ pipe[n] # <<>>
      /\ pipe' = [pipe EXCEPT ![n] = Tail(@)]
  BY ViewTypes DEF Exec
<1>2. pipe' = Taken(pipe, n)
  BY <1>1 DEF Taken
<1>6. pipe \in [Node -> Seq(Command)] /\ pipe[n] # <<>>
  BY <1>1
<1>3. ASSUME NEW m \in Node PROVE Paired(pipe'[m])
  <2>1. Paired(pipe[m]) /\ pipe[m] \in Seq(Command)
    BY <1>1 DEF BalanceInv, Balance
  <2>2. pipe[m] # <<>> => Paired(Tail(pipe[m]))
    BY <2>1, PairedParts
  <2> QED BY <1>1, <2>1, <2>2
<1>4. ASSUME NEW x \in Id
      PROVE  /\ IsFiniteSet(Announced(pipe', x))
             /\ Head(pipe[n]) = Publish(ViewNews(x)) =>
                  Cardinality(Announced(pipe, x)) = Cardinality(Announced(pipe', x)) + 1
             /\ Head(pipe[n]) # Publish(ViewNews(x)) =>
                  Cardinality(Announced(pipe, x)) = Cardinality(Announced(pipe', x))
  <2> DEFINE c == Publish(ViewNews(x))
  <2>1. IsFiniteSet(Places(pipe, c))
    BY DEF BalanceInv, Balance, Balanced, Announced
  <2> HIDE DEF c
  <2>2. /\ IsFiniteSet(Places(pipe', c))
        /\ Head(pipe[n]) = c => Cardinality(Places(pipe, c)) = Cardinality(Places(pipe', c)) + 1
        /\ Head(pipe[n]) # c => Cardinality(Places(pipe, c)) = Cardinality(Places(pipe', c))
    BY <1>2, <1>6, <2>1, PlacesTail
  <2> QED BY <2>2 DEF Announced, c
<1>5. ASSUME NEW x \in Id
      PROVE  /\ IsFiniteSet(Booked(pipe', x))
             /\ Head(pipe[n]) = Hincrby(x) =>
                  Cardinality(Booked(pipe, x)) = Cardinality(Booked(pipe', x)) + 1
             /\ Head(pipe[n]) # Hincrby(x) =>
                  Cardinality(Booked(pipe, x)) = Cardinality(Booked(pipe', x))
  <2> DEFINE c == Hincrby(x)
  <2>1. IsFiniteSet(Places(pipe, c))
    BY DEF BalanceInv, Balance, Balanced, Booked
  <2> HIDE DEF c
  <2>2. /\ IsFiniteSet(Places(pipe', c))
        /\ Head(pipe[n]) = c => Cardinality(Places(pipe, c)) = Cardinality(Places(pipe', c)) + 1
        /\ Head(pipe[n]) # c => Cardinality(Places(pipe, c)) = Cardinality(Places(pipe', c))
    BY <1>2, <1>6, <2>1, PlacesTail
  <2> QED BY <2>2 DEF Booked, c
<1> QED BY <1>3, <1>4, <1>5, FS_CardinalityType

\* What a step of Redis that executes op has to show.
LEMMA ExecBalance ==
  ASSUME BalanceInv, NEW n \in Node, NEW op, Exec(n, op), UNCHANGED <<posts, asked>>,
         \A x \in Id : \/ views'[x] = views[x]
                       \/ Head(pipe[n]) = Hincrby(x) /\ views'[x] = views[x] + 1,
         \A m \in Node : \A x \in Id :
           Covered(posts[m], reply'[m], Cardinality(Announced(pipe', x)), asked[x], x)
  PROVE  Balance'
<1>1. ASSUME NEW x \in Id PROVE Balanced(x)'
  <2>1. views[x] + Cardinality(Booked(pipe, x)) <= asked[x]
    BY DEF BalanceInv, Balance, Balanced
  <2>2. /\ views[x] \in Nat /\ asked[x] \in Nat /\ Cardinality(Booked(pipe, x)) \in Nat
        /\ Cardinality(Booked(pipe', x)) \in Nat
    BY ViewTypes, ExecPlaces
  <2>3. views'[x] + Cardinality(Booked(pipe', x)) <= asked[x]
    <3>1. CASE Head(pipe[n]) = Hincrby(x)
      <4>1. Cardinality(Booked(pipe, x)) = Cardinality(Booked(pipe', x)) + 1
        BY <3>1, ExecPlaces
      <4> QED BY <2>1, <2>2, <4>1
    <3>2. CASE Head(pipe[n]) # Hincrby(x)
      <4>1. Cardinality(Booked(pipe, x)) = Cardinality(Booked(pipe', x)) /\ views'[x] = views[x]
        BY <3>2, ExecPlaces
      <4> QED BY <2>1, <4>1
    <3> QED BY <3>1, <3>2
  <2>4. IsFiniteSet(Announced(pipe', x)) /\ IsFiniteSet(Booked(pipe', x))
    BY ExecPlaces
  <2> QED BY <2>3, <2>4 DEF Balanced
<1> QED BY <1>1, ExecPlaces DEF Balance

\* A command is executed that is not about views; its answer, if any, loads no
\* more than was requested.
LEMMA AnswerBalance ==
  ASSUME BalanceInv, NEW n \in Node, NEW op, Exec(n, op), op \notin {"hincrby", "publish"},
         UNCHANGED <<posts, views, asked>>,
         \/ UNCHANGED reply
         \/ \E e \in Event :
              /\ Answer(n, e) /\ e.type # "push"
              /\ e.type = "hgetall" => \A x \in Id : \A i \in DOMAIN e.visual :
                   e.visual[i].id = x =>
                     e.visual[i].n + Cardinality(Announced(pipe, x)) <= asked[x]
  PROVE  Balance'
<1>1. ASSUME NEW x \in Id
      PROVE  /\ Head(pipe[n]) # Publish(ViewNews(x)) /\ Head(pipe[n]) # Hincrby(x)
             /\ Cardinality(Announced(pipe', x)) = Cardinality(Announced(pipe, x))
  <2>1. Head(pipe[n]).op = op
    BY DEF Exec
  <2>2. Head(pipe[n]) # Publish(ViewNews(x)) /\ Head(pipe[n]) # Hincrby(x)
    BY <2>1, ViewTerms
  <2> QED BY <2>2, ExecPlaces
<1>2. ASSUME NEW m \in Node, NEW x \in Id
      PROVE  Covered(posts[m], reply'[m], Cardinality(Announced(pipe, x)), asked[x], x)
  <2>1. Covered(posts[m], reply[m], Cardinality(Announced(pipe, x)), asked[x], x)
    BY DEF BalanceInv, Balance, Balanced
  <2>2. /\ reply \in [Node -> Seq(Event)] /\ posts[m] \in Seq(Post)
        /\ Cardinality(Announced(pipe, x)) \in Nat /\ asked[x] \in Nat
    BY ViewTypes
  <2>3. ASSUME NEW e \in Event, Answer(n, e), e.type # "push",
               e.type = "hgetall" => \A i \in DOMAIN e.visual : e.visual[i].id = x =>
                 e.visual[i].n + Cardinality(Announced(pipe, x)) <= asked[x]
        PROVE  Covered(posts[m], reply'[m], Cardinality(Announced(pipe, x)), asked[x], x)
    <3>1. reply'[m] = IF m = n THEN Append(reply[m], e) ELSE reply[m]
      BY <2>2, <2>3 DEF Answer
    <3>2. e # ViewPush(x) /\ reply[m] \in Seq(Event)
      BY <2>2, <2>3, ViewTerms
    <3>3. Covered(posts[m], Append(reply[m], e), Cardinality(Announced(pipe, x)), asked[x], x)
      BY <2>1, <2>2, <2>3, <3>2, CoveredAnswer
    <3> QED BY <2>1, <3>1, <3>3
  <2>4. CASE UNCHANGED reply
    BY <2>1, <2>4
  <2> QED BY <2>3, <2>4
<1>3. \A m \in Node : \A x \in Id :
        Covered(posts[m], reply'[m], Cardinality(Announced(pipe', x)), asked[x], x)
  BY <1>1, <1>2
<1> QED BY <1>3, ExecBalance

LEMMA HgetallBalance ==
  ASSUME BalanceInv, NEW n \in Node, ExecHgetall(n), UNCHANGED <<posts, asked>>
  PROVE  Balance'
<1> DEFINE S == {i \in Id : views[i] > 0}
           v(s) == [k \in DOMAIN s |-> [id |-> s[k], n |-> views[s[k]]]]
<1>1. PICK s \in SetToSeqs(S) : Answer(n, [type |-> "hgetall", visual |-> v(s)])
  BY DEF ExecHgetall
<1>2. Exec(n, "hgetall") /\ UNCHANGED views
  BY DEF ExecHgetall, redisVars
<1>3. s \in Seq(S)
  <2>1. IsFiniteSet(S)
    BY PostsAssumption, FS_Subset
  <2> HIDE DEF S
  <2> QED BY <1>1, <2>1, ListType
<1>4. v(s) \in Seq(Visual) /\ \A i \in DOMAIN v(s) :
        v(s)[i].id \in Id /\ v(s)[i].n = views[v(s)[i].id]
  <2>1. \A i \in DOMAIN s : s[i] \in Id /\ views[s[i]] \in Nat
    BY <1>3, ViewTypes
  <2>2. Len(s) \in Nat /\ DOMAIN s = 1 .. Len(s)
    BY <1>3
  <2>3. \A i \in DOMAIN s : v(s)[i] = [id |-> s[i], n |-> views[s[i]]]
    OBVIOUS
  <2>4. \A i \in DOMAIN s : v(s)[i] \in Visual
    BY <2>1, <2>3 DEF Visual
  <2>5. DOMAIN v(s) = 1 .. Len(s)
    BY <2>2
  <2>6. v(s) = [i \in 1 .. Len(s) |-> v(s)[i]]
    BY <2>2
  <2>7. \A i \in DOMAIN v(s) : v(s)[i].id \in Id /\ v(s)[i].n = views[v(s)[i].id]
    BY <2>1, <2>3
  <2> HIDE DEF v
  <2>8. v(s) \in Seq(Visual)
    BY <2>2, <2>4, <2>6
  <2> QED BY <2>7, <2>8
<1> DEFINE e == [type |-> "hgetall", visual |-> v(s)]
<1> HIDE DEF v
<1>5. e \in Event /\ e.type = "hgetall" /\ e.visual = v(s)
  BY <1>4 DEF Event
<1>6. \A x \in Id : \A i \in DOMAIN e.visual : e.visual[i].id = x =>
        e.visual[i].n + Cardinality(Announced(pipe, x)) <= asked[x]
  BY <1>4, <1>5, AnnouncedIsBooked
<1>7. Answer(n, e) /\ e.type # "push"
  BY <1>1, <1>5
<1> HIDE DEF e
<1>8. "hgetall" \notin {"hincrby", "publish"}
  OBVIOUS
<1> QED BY <1>2, <1>5, <1>6, <1>7, <1>8, AnswerBalance

\* News of a view go from the pipe to those who are subscribed.
LEMMA NewsBalance ==
  ASSUME BalanceInv, NEW n \in Node, ExecPublish(n), UNCHANGED <<posts, asked>>
  PROVE  Balance'
<1> DEFINE s == Head(pipe[n]).news
           e == [type |-> "push", news |-> s]
<1>1. Exec(n, "publish") /\ UNCHANGED views
  BY DEF ExecPublish, redisVars
<1>2. \A m \in Node : reply'[m] = Append(reply[m], e) \/ reply'[m] = reply[m]
  BY DEF ExecPublish
<1>3. s \in News /\ e \in Event /\ Head(pipe[n]) = Publish(s)
  <2>1. Head(pipe[n]) \in Command /\ Head(pipe[n]).op = "publish"
    BY <1>1, ViewTypes, ExecType
  <2>2. s \in News /\ Head(pipe[n]) = Publish(s)
    BY <2>1 DEF Command, Publish
  <2> QED BY <2>2 DEF Event
<1> HIDE DEF s
<1>4. ASSUME NEW m \in Node, NEW x \in Id
      PROVE  Covered(posts[m], reply'[m], Cardinality(Announced(pipe', x)), asked[x], x)
  <2> DEFINE a == Cardinality(Announced(pipe, x))
             b == Cardinality(Announced(pipe', x))
  <2>1. Covered(posts[m], reply[m], a, asked[x], x)
    BY DEF BalanceInv, Balance, Balanced
  <2>2. /\ reply[m] \in Seq(Event) /\ posts[m] \in Seq(Post)
        /\ a \in Nat /\ asked[x] \in Nat /\ b \in Nat
    BY <1>1, ViewTypes, ExecPlaces
  <2>3. /\ Publish(s) = Publish(ViewNews(x)) => a = b + 1
        /\ Publish(s) # Publish(ViewNews(x)) => a = b
    BY <1>1, <1>3, ExecPlaces
  <2> HIDE DEF a, b
  <2>4. CASE s = ViewNews(x)
    <3>1. a = b + 1 /\ e = ViewPush(x)
      BY <2>3, <2>4 DEF ViewPush
    <3>2. Covered(posts[m], Append(reply[m], e), b, asked[x], x)
      BY <2>1, <2>2, <3>1, CoveredAnnounced
    <3>3. b + asked[x] <= a + asked[x]
      BY <2>2, <3>1
    <3>4. Covered(posts[m], reply[m], b, asked[x], x)
      BY <2>1, <2>2, <3>3, CoveredMore
    <3> QED BY <1>2, <3>2, <3>4 DEF b
  <2>5. CASE s # ViewNews(x)
    <3>1. Publish(s).news = s /\ e.news = s /\ e.type # "hgetall"
      BY DEF Publish
    <3>2. Publish(s) # Publish(ViewNews(x)) /\ e # ViewPush(x)
      BY <2>5, <3>1, ViewTerms
    <3>3. a = b
      BY <2>3, <3>2
    <3> HIDE DEF e
    <3>4. Covered(posts[m], Append(reply[m], e), a, asked[x], x)
      BY <1>3, <2>1, <2>2, <3>1, <3>2, CoveredAnswer
    <3> QED BY <1>2, <2>1, <3>3, <3>4 DEF b
  <2> QED BY <2>4, <2>5
<1> QED BY <1>1, <1>4, ExecBalance

LEMMA HincrbyBalance ==
  ASSUME BalanceInv, NEW n \in Node, ExecHincrby(n), UNCHANGED <<posts, asked>>
  PROVE  Balance'
<1> DEFINE c == Head(pipe[n])
<1>1. /\ Exec(n, "hincrby") /\ UNCHANGED reply
      /\ views' = [views EXCEPT ![c.id] = @ + 1]
  BY DEF ExecHincrby
<1>2. c \in Command /\ c.op = "hincrby"
  BY <1>1, ViewTypes, ExecType
<1>3. c.id \in Id /\ c = Hincrby(c.id)
  BY <1>2 DEF Command, Hincrby
<1> HIDE DEF c
<1>4. \A x \in Id : \/ views'[x] = views[x]
                    \/ c = Hincrby(x) /\ views'[x] = views[x] + 1
  BY <1>1, <1>3, ViewTypes
<1>5. ASSUME NEW m \in Node, NEW x \in Id
      PROVE  Covered(posts[m], reply'[m], Cardinality(Announced(pipe', x)), asked[x], x)
  <2>1. c # Publish(ViewNews(x))
    BY <1>3, ViewTerms
  <2>2. Cardinality(Announced(pipe', x)) = Cardinality(Announced(pipe, x))
    BY <1>1, <2>1, ExecPlaces DEF c
  <2>3. Covered(posts[m], reply[m], Cardinality(Announced(pipe, x)), asked[x], x)
    BY DEF BalanceInv, Balance, Balanced
  <2> QED BY <1>1, <2>2, <2>3
<1> QED BY <1>1, <1>4, <1>5, ExecBalance DEF c

LEMMA RedisBalance == ASSUME BalanceInv, NEW n \in Node, Redis(n) PROVE Balance'
<1>1. UNCHANGED <<posts, asked>>
  BY DEF Redis, workerVars, history
<1>2. CASE ExecHvals(n)
  <2>1. Exec(n, "hvals") /\ UNCHANGED views
    BY <1>2 DEF ExecHvals, redisVars
  <2>2. PICK s \in SetToSeqs(stored) : Answer(n, [type |-> "hvals", posts |-> s])
    BY <1>2 DEF ExecHvals
  <2>3. s \in Seq(Post)
    <3>1. IsFiniteSet(stored) /\ stored \in SUBSET Post
      BY DEF BalanceInv, ProvInv, Inv, TypeOK
    <3>2. s \in Seq(stored)
      BY <2>2, <3>1, ListType
    <3> QED BY <3>1, <3>2
  <2>4. [type |-> "hvals", posts |-> s] \in Event
    BY <2>3 DEF Event
  <2> QED BY <1>1, <2>1, <2>2, <2>4, AnswerBalance
<1>3. CASE ExecHgetall(n)
  BY <1>1, <1>3, HgetallBalance
<1>4. CASE ExecSubscribe(n)
  BY <1>1, <1>4, AnswerBalance DEF ExecSubscribe
<1>5. CASE ExecHset(n)
  BY <1>1, <1>5, AnswerBalance DEF ExecHset
<1>6. CASE ExecArchive(n)
  BY <1>1, <1>6, AnswerBalance DEF ExecArchive
<1>7. CASE ExecHdel(n)
  BY <1>1, <1>7, AnswerBalance DEF ExecHdel
<1>8. CASE ExecHincrby(n)
  BY <1>1, <1>8, HincrbyBalance
<1>9. CASE ExecPublish(n)
  BY <1>1, <1>9, NewsBalance
<1> QED BY <1>2, <1>3, <1>4, <1>5, <1>6, <1>7, <1>8, <1>9 DEF Redis

-----------------------------------------------------------------------------

LEMMA NextBalance ==
  ASSUME NoViewsBrought, BalanceInv, [Next]_vars
  PROVE  Balance'
<1>1. CASE UNCHANGED vars
  <2>1. UNCHANGED <<posts, reply, pipe, views, asked>>
    BY <1>1 DEF vars, workerVars, redisVars, history
  <2> QED BY <2>1 DEF BalanceInv, Balance, Balanced
<1>2. ASSUME NEW n \in Node,
             \/ Start(n) \/ Reconnect(n) \/ Stop(n)
             \/ \E b \in Bodies : OnView(n, b)
             \/ \E id \in Id, u \in User : OnPublish(n, u, id) \/ OnDelete(n, u, id)
             \/ OnReply(n) \/ Redis(n)
      PROVE  Balance'
  <2>1. ASSUME NEW b \in Bodies, OnView(n, b) PROVE Balance'
    BY <2>1, ViewBalance
  <2>2. ASSUME NEW id \in Id, NEW u \in User, OnPublish(n, u, id) PROVE Balance'
    BY <2>2, PublishBalance
  <2>3. ASSUME NEW id \in Id, NEW u \in User, OnDelete(n, u, id) PROVE Balance'
    BY <2>3, DeleteBalance
  <2> QED BY <1>2, <2>1, <2>2, <2>3, StartBalance, ReconnectBalance, StopBalance,
             ReplyBalance, RedisBalance
<1> QED BY <1>1, <1>2 DEF Next

LEMMA BalanceCounts == BalanceInv => ViewedOnce
<1> SUFFICES ASSUME BalanceInv, NEW n \in Node, NEW k \in DOMAIN posts[n]
             PROVE  LET x == posts[n][k].id
                        received == {i \in DOMAIN reply[n] : reply[n][i] = ViewPush(x)}
                    IN  posts[n][k].visualizations + Cardinality(Announced(pipe, x))
                          + Cardinality(received) <= asked[x]
  BY DEF ViewedOnce, Announced, Places, ViewNews, ViewPush
<1> DEFINE x == posts[n][k].id
           received == {i \in DOMAIN reply[n] : reply[n][i] = ViewPush(x)}
<1>1. posts[n] \in Seq(Post) /\ reply[n] \in Seq(Event)
  BY ViewTypes
<1>2. x \in Id
  BY <1>1, PlaceTypes DEF Post
<1>3. received = After(reply[n], ViewPush(x), 0)
  BY <1>1 DEF After
<1> HIDE DEF received
<1>4. posts[n][k].visualizations + Cardinality(Announced(pipe, x)) + Due(reply[n], x, 0) <= asked[x]
  BY <1>2 DEF BalanceInv, Balance, Balanced, Covered
<1> QED BY <1>3, <1>4 DEF Due, received

\* No view is counted twice, whenever processes start, stop and lose their
\* connections and whatever is published, viewed and deleted meanwhile: what a
\* post shows and what is on its way add up to no more than the views requested,
\* if no client brings a post that has been viewed.
THEOREM ViewsCountedOnce == ASSUME NoViewsBrought PROVE Spec => []ViewedOnce
<1>1. Init => BalanceInv
  BY InitInv, InitProv, InitBalance DEF BalanceInv, ProvInv
<1>2. BalanceInv /\ [Next]_vars => BalanceInv'
  BY NextInv, NextProv, NextBalance DEF BalanceInv, ProvInv
<1> QED BY <1>1, <1>2, BalanceCounts, PTL DEF Spec
=============================================================================
