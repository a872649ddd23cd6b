---------------------------- MODULE PostsNewsProofs ----------------------------
(****************************************************************************)
(* Proofs about Posts under Quiet, Seen and ViewsOnly: what on_hello() loads *)
(* and what the processes tell each other leave no gap (StoredIsShown), and  *)
(* a post that is deleted goes from every process (WithdrawnIsGone).  Each is *)
(* followed through the queues: the kinds of entries that say something of a *)
(* post x, where they are, and in which order.                               *)
(****************************************************************************)
EXTENDS PostsProofs

-----------------------------------------------------------------------------
(* What is found in the vector.                                             *)

\* query(): what the filter lets through is found.
IsFound(f, ps, q) ==
  f = [i \in 0 .. Len(ps) |->
         IF i = 0 THEN <<>>
         ELSE IF Filter(ps[i], q) THEN Append(f[i - 1], ps[i]) ELSE f[i - 1]]

\* The loop of query() has a course.
LEMMA FoundExists ==
  ASSUME NEW ps \in Seq(Post), NEW q
  PROVE  \E f \in [0 .. Len(ps) -> Seq(Post)] : IsFound(f, ps, q)
<1> DEFINE m == Len(ps)
           D == Seq(Post)
           t == [i \in 1 .. m |-> [r \in D |->
                   IF Filter(ps[i], q) THEN Append(r, ps[i]) ELSE r]]
<1>1. m \in Nat /\ <<>> \in D /\ \A i \in 1 .. m : ps[i] \in Post
  OBVIOUS
<1>2. \A i \in 1 .. m, r \in D : Append(r, ps[i]) \in D
  BY <1>1, AppendType
<1> HIDE DEF m, D
<1>3. t \in [1 .. m -> [D -> D]]
  BY <1>2
<1>4. ASSUME NEW i \in 1 .. m, NEW r \in D
      PROVE  t[i][r] = IF Filter(ps[i], q) THEN Append(r, ps[i]) ELSE r
  OBVIOUS
<1> HIDE DEF t
<1>a. PICK f : IsCourse(f, D, <<>>, m, t)
  BY <1>1, <1>3, LoopExists
<1>5. /\ f \in [0 .. m -> D] /\ f[0] = <<>>
      /\ \A i \in 1 .. m : f[i] = t[i][f[i - 1]]
  BY <1>a DEF IsCourse
<1> DEFINE g == [i \in 0 .. m |->
                   IF i = 0 THEN <<>>
                   ELSE IF Filter(ps[i], q) THEN Append(f[i - 1], ps[i]) ELSE f[i - 1]]
<1>6. ASSUME NEW i \in 0 .. m PROVE f[i] = g[i]
  <2>1. CASE i = 0
    BY <1>5, <2>1
  <2>2. CASE i # 0
    <3>1. i \in 1 .. m /\ i - 1 \in 0 .. m /\ f[i - 1] \in D
      BY <1>1, <1>5, <2>2
    <3> QED BY <1>4, <1>5, <2>2, <3>1
  <2> QED BY <2>1, <2>2
<1>7. f = g
  <2>1. f = [i \in 0 .. m |-> f[i]]
    BY <1>5
  <2> HIDE DEF g
  <2>2. f = [i \in 0 .. m |-> g[i]] /\ g = [i \in 0 .. m |-> g[i]]
    BY <1>6, <2>1 DEF g
  <2> QED BY <2>2
<1> QED BY <1>5, <1>7 DEF IsFound, m, D

\* A post that passes the filter is in what query() returns.
LEMMA QueryFinds ==
  ASSUME NEW ps \in Seq(Post), NEW q, NEW k \in DOMAIN ps, Filter(ps[k], q)
  PROVE  \E j \in DOMAIN Query(ps, q) : Query(ps, q)[j] = ps[k]
<1> DEFINE f == CHOOSE g : IsFound(g, ps, q)
           m == Len(ps)
           Holds(i) == \E j \in DOMAIN f[i] : f[i][j] = ps[k]
           S == {n \in Nat : k <= n /\ n <= m => Holds(n)}
<1>1. Query(ps, q) = f[m]
  BY Zenon DEF Query, IsFound
<1>2. IsFound(f, ps, q)
  BY FoundExists
<1>3. m \in Nat /\ k \in 1 .. m
  OBVIOUS
<1> HIDE DEF f, m
<1>4. /\ f[0] = <<>>
      /\ \A i \in 1 .. m :
           f[i] = IF Filter(ps[i], q) THEN Append(f[i - 1], ps[i]) ELSE f[i - 1]
  <2> DEFINE g(i) == IF i = 0 THEN <<>>
                     ELSE IF Filter(ps[i], q) THEN Append(f[i - 1], ps[i]) ELSE f[i - 1]
  <2>1. f = [i \in 0 .. m |-> g(i)]
    BY <1>2 DEF IsFound, m
  <2>2. g(0) = <<>> /\ \A i \in 1 .. m : i # 0
    OBVIOUS
  <2> HIDE DEF g
  <2>3. \A i \in 0 .. m : f[i] = g(i)
    BY <2>1
  <2>4. f[0] = <<>> /\ \A i \in 1 .. m : f[i] = g(i)
    BY <1>3, <2>2, <2>3
  <2> QED BY <2>2, <2>4 DEF g
<1>5. \A i \in 0 .. m : f[i] \in Seq(Post)
  <2> DEFINE T == {n \in Nat : n <= m => f[n] \in Seq(Post)}
  <2>1. 0 \in T
    <3>1. f[0] \in Seq(Post)
      BY <1>4
    <3> QED BY <3>1
  <2>2. ASSUME NEW n \in T PROVE n + 1 \in T
    <3> SUFFICES ASSUME n + 1 <= m PROVE f[n + 1] \in Seq(Post)
      OBVIOUS
    <3>1. n \in Nat /\ n + 1 \in 1 .. m /\ n <= m /\ (n + 1) - 1 = n
      BY <1>3
    <3>2. f[n] \in Seq(Post) /\ ps[n + 1] \in Post
      BY <3>1 DEF m
    <3>3. Append(f[n], ps[n + 1]) \in Seq(Post)
      BY <3>2, AppendType
    <3> QED BY <1>4, <3>1, <3>2, <3>3
  <2>3. T \in SUBSET Nat
    OBVIOUS
  <2> HIDE DEF T
  <2>4. T = Nat
    BY <2>1, <2>2, <2>3, SetInduction
  <2> QED BY <1>3, <2>4 DEF T
<1>6. 0 \in S
  BY <1>3
<1>7. ASSUME NEW n \in S PROVE n + 1 \in S
  <2> SUFFICES ASSUME k <= n + 1, n + 1 <= m PROVE Holds(n + 1)
    OBVIOUS
  <2>1. n \in Nat /\ n + 1 \in 1 .. m /\ n \in 0 .. m /\ n <= m /\ (n + 1) - 1 = n
    BY <1>3
  <2>2. f[n] \in Seq(Post)
    BY <1>5, <2>1
  <2>3. f[n + 1] = IF Filter(ps[n + 1], q) THEN Append(f[n], ps[n + 1]) ELSE f[n]
    BY <1>4, <2>1
  <2>4. CASE k = n + 1
    <3>1. f[n + 1] = Append(f[n], ps[k])
      BY <2>3, <2>4
    <3>2. /\ Len(f[n]) + 1 \in DOMAIN Append(f[n], ps[k])
          /\ Append(f[n], ps[k])[Len(f[n]) + 1] = ps[k]
      BY <2>2
    <3> QED BY <3>1, <3>2
  <2>5. CASE k # n + 1
    <3>1. PICK j \in DOMAIN f[n] : f[n][j] = ps[k]
      BY <1>3, <2>1, <2>5
    <3>2. j \in DOMAIN Append(f[n], ps[n + 1]) /\ Append(f[n], ps[n + 1])[j] = f[n][j]
      BY <2>2
    <3> QED BY <2>3, <3>1, <3>2
  <2> QED BY <2>4, <2>5
<1>8. S \in SUBSET Nat
  OBVIOUS
<1> HIDE DEF S
<1>9. S = Nat
  BY <1>6, <1>7, <1>8, SetInduction
<1>10. m \in S
  BY <1>3, <1>9
<1>11. Holds(m)
  BY <1>3, <1>10 DEF S
<1> QED BY <1>1, <1>11

\* The ids of a vector.
HasPost(ps, id) == \E k \in DOMAIN ps : ps[k].id = id
Distinct(ps) == \A k, l \in DOMAIN ps : ps[k].id = ps[l].id => k = l

\* Changing views adds and takes no posts.
LEMMA SameIdsHas ==
  ASSUME NEW ps, NEW d, SameIds(ps, d)
  PROVE  /\ \A id : HasPost(d, id) <=> HasPost(ps, id)
         /\ Distinct(ps) => Distinct(d)
  BY DEF SameIds, HasPost, Distinct

\* add_post() of posts: their ids join those that are there.
LEMMA AddPostsIds ==
  ASSUME NEW ps \in Seq(Post), NEW new \in Seq(Post)
  PROVE  LET d == AddPosts(ps, new)
         IN  /\ \A id : HasPost(d, id) <=> HasPost(ps, id) \/ HasPost(new, id)
             /\ /\ Distinct(ps) /\ Distinct(new)
                /\ \A id : ~(HasPost(ps, id) /\ HasPost(new, id))
                => Distinct(d)
<1> DEFINE c == ps \o new
           d == AddPosts(ps, new)
<1>1. PICK f \in Bijection(DOMAIN c, DOMAIN d) : \A i \in DOMAIN c : d[f[i]] = c[i]
  BY AddPostsSorts, Zenon
<1>2. /\ \A i \in DOMAIN c : f[i] \in DOMAIN d
      /\ \A k \in DOMAIN d : \E i \in DOMAIN c : k = f[i]
  BY <1>1 DEF Bijection, Injection, Surjection
<1>3. /\ \A i \in DOMAIN ps : i \in DOMAIN c /\ c[i] = ps[i]
      /\ \A i \in DOMAIN new : Len(ps) + i \in DOMAIN c /\ c[Len(ps) + i] = new[i]
      /\ \A i \in DOMAIN c : i \notin DOMAIN ps =>
           i - Len(ps) \in DOMAIN new /\ c[i] = new[i - Len(ps)]
  OBVIOUS
<1>4. DOMAIN c = 1 .. Len(ps) + Len(new) /\ Len(ps) \in Nat /\ Len(new) \in Nat
  OBVIOUS
<1> HIDE DEF c, d
<1>5. \A id : HasPost(d, id) <=> \E i \in DOMAIN c : c[i].id = id
  BY <1>1, <1>2 DEF HasPost
<1>6. \A id : HasPost(d, id) <=> HasPost(ps, id) \/ HasPost(new, id)
  <2>1. ASSUME NEW id, NEW i \in DOMAIN c, c[i].id = id
        PROVE  HasPost(ps, id) \/ HasPost(new, id)
    <3>1. CASE i \in DOMAIN ps
      BY <1>3, <2>1, <3>1 DEF HasPost
    <3>2. CASE i \notin DOMAIN ps
      <4> DEFINE j == i - Len(ps)
      <4>1. j \in DOMAIN new /\ c[i] = new[j]
        BY <1>3, <3>2
      <4> HIDE DEF j
      <4> QED BY <2>1, <4>1 DEF HasPost
    <3> QED BY <3>1, <3>2
  <2>2. ASSUME NEW id, HasPost(ps, id) PROVE \E i \in DOMAIN c : c[i].id = id
    BY <1>3, <2>2 DEF HasPost
  <2>3. ASSUME NEW id, HasPost(new, id) PROVE \E i \in DOMAIN c : c[i].id = id
    BY <1>3, <2>3 DEF HasPost
  <2> QED BY <1>5, <2>1, <2>2, <2>3
<1>7. ASSUME Distinct(ps), Distinct(new), \A id : ~(HasPost(ps, id) /\ HasPost(new, id))
      PROVE  Distinct(d)
  <2>1. ASSUME NEW i \in DOMAIN c, NEW j \in DOMAIN c, c[i].id = c[j].id PROVE i = j
    <3>1. CASE i \in DOMAIN ps /\ j \in DOMAIN ps
      BY <1>3, <1>7, <2>1, <3>1 DEF Distinct
    <3>2. CASE i \notin DOMAIN ps /\ j \notin DOMAIN ps
      <4>1. i - Len(ps) = j - Len(ps)
        BY <1>3, <1>7, <2>1, <3>2 DEF Distinct
      <4> QED BY <1>4, <4>1
    <3>a. ASSUME NEW k \in DOMAIN c, NEW l \in DOMAIN c, k \in DOMAIN ps, l \notin DOMAIN ps
          PROVE  c[k].id # c[l].id
      <4> DEFINE h == l - Len(ps)
      <4>1. h \in DOMAIN new /\ c[l] = new[h] /\ c[k] = ps[k]
        BY <1>3, <3>a
      <4> HIDE DEF h
      <4>2. HasPost(ps, c[k].id) /\ HasPost(new, c[l].id)
        BY <3>a, <4>1 DEF HasPost
      <4> QED BY <1>7, <4>2
    <3>3. CASE i \in DOMAIN ps /\ j \notin DOMAIN ps
      BY <2>1, <3>3, <3>a
    <3>4. CASE i \notin DOMAIN ps /\ j \in DOMAIN ps
      BY <2>1, <3>4, <3>a
    <3> QED BY <3>1, <3>2, <3>3, <3>4
  <2>2. ASSUME NEW k \in DOMAIN d, NEW l \in DOMAIN d, d[k].id = d[l].id PROVE k = l
    <3>1. PICK i \in DOMAIN c : k = f[i]
      BY <1>2
    <3>2. PICK j \in DOMAIN c : l = f[j]
      BY <1>2
    <3> QED BY <1>1, <2>1, <2>2, <3>1, <3>2
  <2> QED BY <2>2 DEF Distinct
<1> QED BY <1>6, <1>7 DEF d

\* remove_post(): at most one post goes, and only one with the id.
LEMMA RemovePostIds ==
  ASSUME NEW ps \in Seq(Post), NEW id, NEW from, NEW ignore_owner \in BOOLEAN
  PROVE  LET d == RemovePost(ps, id, from, ignore_owner)
         IN  /\ \A x : HasPost(d, x) => HasPost(ps, x)
             /\ \A x : x # id /\ HasPost(ps, x) => HasPost(d, x)
             /\ Distinct(ps) => Distinct(d)
             /\ /\ Distinct(ps)
                /\ \A k \in DOMAIN ps : ps[k].id = id => ps[k].from = from \/ ignore_owner
                => ~HasPost(d, id)
<1> DEFINE i == Place(ps, id)
           d == RemovePost(ps, id, from, ignore_owner)
<1>1. CASE i # 0 /\ (ps[i].from = from \/ ignore_owner)
  <2>1. Len(ps) \in Nat /\ DOMAIN ps = 1 .. Len(ps) /\ i \in 1 .. Len(ps) /\ ps[i].id = id
    BY <1>1, PlaceFinds
  <2>2. d = RemoveAt(ps, i)
    BY <1>1 DEF RemovePost
  <2> HIDE DEF i, d
  <2>3. /\ d \in Seq(Post) /\ Len(d) = Len(ps) - 1 /\ DOMAIN d = 1 .. Len(d)
        /\ \A k \in 1 .. Len(d) : d[k] = IF k < i THEN ps[k] ELSE ps[k + 1]
    <3>1. /\ d \in Seq(Post) /\ Len(d) = Len(ps) - 1
          /\ \A k \in 1 .. Len(d) : d[k] = IF k < i THEN ps[k] ELSE ps[k + 1]
      BY <2>1, <2>2, RemoveAtPlaces
    <3> QED BY <3>1
  <2> DEFINE old(k) == IF k < i THEN k ELSE k + 1
             new(k) == IF k < i THEN k ELSE k - 1
  <2>4. /\ \A k \in DOMAIN d : old(k) \in DOMAIN ps /\ d[k] = ps[old(k)] /\ old(k) # i
        /\ \A k, l \in DOMAIN d : old(k) = old(l) => k = l
    BY <2>1, <2>3
  <2>5. \A k \in DOMAIN ps : k # i => new(k) \in DOMAIN d /\ d[new(k)] = ps[k]
    <3> SUFFICES ASSUME NEW k \in DOMAIN ps, k # i
                 PROVE  new(k) \in DOMAIN d /\ d[new(k)] = ps[k]
      OBVIOUS
    <3>1. new(k) \in 1 .. Len(d)
      BY <2>1, <2>3
    <3>2. old(new(k)) = k
      BY <2>1
    <3>3. d[new(k)] = ps[old(new(k))]
      BY <2>3, <2>4, <3>1
    <3> HIDE DEF old, new
    <3> QED BY <2>3, <3>1, <3>2, <3>3
  <2> HIDE DEF old, new
  <2>6. \A x : HasPost(d, x) => HasPost(ps, x)
    BY <2>4 DEF HasPost
  <2>7. \A x : x # id /\ HasPost(ps, x) => HasPost(d, x)
    BY <2>1, <2>5 DEF HasPost
  <2>8. Distinct(ps) => Distinct(d)
    BY <2>4 DEF Distinct
  <2>9. Distinct(ps) => ~HasPost(d, id)
    BY <2>1, <2>4 DEF Distinct, HasPost
  <2> QED BY <2>6, <2>7, <2>8, <2>9 DEF d
<1>2. CASE ~(i # 0 /\ (ps[i].from = from \/ ignore_owner))
  <2>1. d = ps
    BY <1>2 DEF RemovePost
  <2>2. (\A k \in DOMAIN ps : ps[k].id = id => ps[k].from = from \/ ignore_owner)
          => ~HasPost(ps, id)
    BY <1>2, PlaceFinds DEF HasPost
  <2> HIDE DEF d
  <2> QED BY <2>1, <2>2 DEF d
<1> QED BY <1>1, <1>2

-----------------------------------------------------------------------------
(* The course of a post.  Its HSET is followed by the news of it in one     *)
(* pipeline, and an HDEL by the news of the deletion.  Kinds of commands    *)
(* and events, and where they are in the queues Q of the processes:         *)

Hsets(x) == {c \in Command : c.op = "hset" /\ c.post.id = x}
Hdels(x) == {c \in Command : c.op = "hdel" /\ c.id = x}
Tells(x) == {c \in Command : /\ c.op = "publish" /\ c.news.cmd = "publish_internal"
                             /\ c.news.post.id = x}
Withdraws(x) == {c \in Command : /\ c.op = "publish" /\ c.news.cmd = "delete"
                                 /\ c.news.id = x}
Announces(x) == {e \in Event : /\ e.type = "push" /\ e.news.cmd = "publish_internal"
                               /\ e.news.post.id = x}
Brings(x) == Announces(x) \cup {e \in Event : e.type = "hvals" /\ HasPost(e.posts, x)}
Hears(x) == {e \in Event : /\ e.type = "push" /\ e.news.cmd = "delete"
                           /\ e.news.id = x}

Entries == Seq(Command \cup Event)
Queues == [Node -> Entries]
At(Q, n, i, K) == i \in DOMAIN Q[n] /\ Q[n][i] \in K

\* Entries are appended to the queue of n, and its head is taken.
Appended(Q, new, n, q) == new = [Q EXCEPT ![n] = @ \o q]
New(Q, n, q, i, K) == \E k \in DOMAIN q : i = Len(Q[n]) + k /\ q[k] \in K
Popped(Q, new, n) == Q[n] # <<>> /\ new = [Q EXCEPT ![n] = Tail(@)]

\* Places are numbers.
LEMMA AtType ==
  ASSUME NEW Q \in Queues, NEW K
  PROVE  \A n \in Node : \A i : At(Q, n, i, K) => i \in Nat /\ 1 <= i /\ i <= Len(Q[n])
  BY DEF At, Queues, Entries

\* The head of a queue is taken.
LEMMA TakenAt ==
  ASSUME NEW Q \in Queues, NEW n \in Node, NEW new,
         Popped(Q, new, n), NEW K
  PROVE  /\ At(Q, n, 1, K) <=> Head(Q[n]) \in K
         /\ \A i : At(new, n, i, K) => At(Q, n, i + 1, K) /\ i \in Nat /\ 1 <= i
         /\ \A i : At(Q, n, i, K) => i \in Nat /\ 1 <= i /\ (i # 1 => At(new, n, i - 1, K))
         /\ \A m \in Node : \A i : m # n => (At(new, m, i, K) <=> At(Q, m, i, K))
<1>1. /\ Q[n] \in Entries /\ Len(Q[n]) \in Nat /\ Len(Q[n]) # 0
      /\ DOMAIN Q[n] = 1 .. Len(Q[n]) /\ Head(Q[n]) = Q[n][1]
      /\ DOMAIN Tail(Q[n]) = 1 .. Len(Q[n]) - 1
      /\ \A i \in DOMAIN Tail(Q[n]) : Tail(Q[n])[i] = Q[n][i + 1]
  BY DEF Popped, Queues, Entries
<1>2. new[n] = Tail(Q[n]) /\ \A m \in Node : m # n => new[m] = Q[m]
  BY DEF Popped, Queues
<1>3. At(Q, n, 1, K) <=> Head(Q[n]) \in K
  BY <1>1 DEF At
<1>4. ASSUME NEW i, At(new, n, i, K) PROVE At(Q, n, i + 1, K) /\ i \in Nat /\ 1 <= i
  BY <1>1, <1>2, <1>4 DEF At
<1>5. ASSUME NEW i, At(Q, n, i, K)
      PROVE  i \in Nat /\ 1 <= i /\ (i # 1 => At(new, n, i - 1, K))
  <2>1. i \in 1 .. Len(Q[n]) /\ Q[n][i] \in K
    BY <1>1, <1>5 DEF At
  <2>2. ASSUME i # 1 PROVE At(new, n, i - 1, K)
    <3>1. i - 1 \in 1 .. Len(Q[n]) - 1 /\ (i - 1) + 1 = i
      BY <1>1, <2>1, <2>2
    <3> QED BY <1>1, <1>2, <2>1, <3>1 DEF At
  <2> QED BY <2>1, <2>2
<1> QED BY <1>2, <1>3, <1>4, <1>5 DEF At

\* Entries are appended to a queue.
LEMMA AddedAt ==
  ASSUME NEW Q \in Queues, NEW n \in Node, NEW q \in Entries,
         NEW new, Appended(Q, new, n, q), NEW K
  PROVE  /\ \A m \in Node : \A i : At(Q, m, i, K) => At(new, m, i, K) /\ i \in Nat
         /\ \A i : At(Q, n, i, K) => i <= Len(Q[n])
         /\ \A m \in Node : \A i : At(new, m, i, K) =>
              At(Q, m, i, K) \/ (m = n /\ New(Q, n, q, i, K))
         /\ \A k \in DOMAIN q : q[k] \in K => At(new, n, Len(Q[n]) + k, K)
         /\ Len(Q[n]) \in Nat
<1> DEFINE l == Len(Q[n])
<1>1. /\ Q[n] \in Entries /\ l \in Nat /\ DOMAIN Q[n] = 1 .. l /\ DOMAIN q \in SUBSET Nat
      /\ \A i \in DOMAIN (Q[n] \o q) :
           \/ i \in DOMAIN Q[n]
           \/ i - l \in DOMAIN q /\ i = l + (i - l) /\ (Q[n] \o q)[i] = q[i - l]
      /\ \A i \in DOMAIN Q[n] : i \in DOMAIN (Q[n] \o q) /\ (Q[n] \o q)[i] = Q[n][i]
      /\ \A k \in DOMAIN q : l + k \in DOMAIN (Q[n] \o q) /\ (Q[n] \o q)[l + k] = q[k]
  BY DEF Queues, Entries
<1>2. new[n] = Q[n] \o q /\ \A m \in Node : m # n => new[m] = Q[m]
  BY DEF Appended, Queues
<1> HIDE DEF l
<1>3. ASSUME NEW m \in Node, NEW i, At(Q, m, i, K) PROVE At(new, m, i, K) /\ i \in Nat
  <2>1. i \in Nat
    BY <1>3, AtType
  <2> QED BY <1>1, <1>2, <1>3, <2>1 DEF At
<1>4. \A i : At(Q, n, i, K) => i <= l
  BY <1>1 DEF At
<1>5. ASSUME NEW m \in Node, NEW i, At(new, m, i, K)
      PROVE  At(Q, m, i, K) \/ (m = n /\ New(Q, n, q, i, K))
  <2>1. CASE m # n
    BY <1>2, <1>5, <2>1 DEF At
  <2>2. CASE m = n
    <3>1. i \in DOMAIN (Q[n] \o q) /\ (Q[n] \o q)[i] \in K
      BY <1>2, <1>5, <2>2 DEF At
    <3>2. CASE i \in DOMAIN Q[n]
      BY <1>1, <2>2, <3>1, <3>2 DEF At
    <3>3. CASE i \notin DOMAIN Q[n]
      <4> DEFINE k == i - l
      <4>1. k \in DOMAIN q /\ i = l + k /\ q[k] \in K
        BY <1>1, <3>1, <3>3
      <4> HIDE DEF k
      <4> QED BY <2>2, <4>1 DEF New, l
    <3> QED BY <3>2, <3>3
  <2> QED BY <2>1, <2>2
<1>6. \A k \in DOMAIN q : q[k] \in K => At(new, n, l + k, K)
  BY <1>1, <1>2 DEF At
<1> QED BY <1>1, <1>3, <1>4, <1>5, <1>6 DEF l

\* Nothing of the kind is appended.
LEMMA SameAt ==
  ASSUME NEW Q \in Queues, NEW n \in Node, NEW q \in Entries,
         NEW new, Appended(Q, new, n, q), NEW K, \A k \in DOMAIN q : q[k] \notin K
  PROVE  \A m \in Node : \A i : At(new, m, i, K) <=> At(Q, m, i, K)
<1>1. /\ \A m \in Node : \A i : At(Q, m, i, K) => At(new, m, i, K)
      /\ \A m \in Node : \A i : At(new, m, i, K) =>
           At(Q, m, i, K) \/ (m = n /\ New(Q, n, q, i, K))
  BY AddedAt
<1> QED BY <1>1 DEF New

\* What the kinds say of a command or an event.
LEMMA Kinds ==
  ASSUME NEW x
  PROVE  /\ \A c \in Hsets(x) : c \in Command /\ c.op = "hset" /\ c.post.id = x
         /\ \A c \in Hdels(x) : c \in Command /\ c.op = "hdel" /\ c.id = x
         /\ \A c \in Tells(x) : /\ c \in Command /\ c.op = "publish" /\ c.news.post.id = x
                                /\ c.news.cmd = "publish_internal"
         /\ \A c \in Withdraws(x) : /\ c \in Command /\ c.op = "publish" /\ c.news.id = x
                                    /\ c.news.cmd = "delete"
         /\ \A e \in Brings(x) : /\ e \in Event
                                 /\ \/ e.type = "hvals" /\ HasPost(e.posts, x)
                                    \/ /\ e.type = "push" /\ e.news.post.id = x
                                       /\ e.news.cmd = "publish_internal"
         /\ \A e \in Hears(x) : /\ e \in Event /\ e.type = "push" /\ e.news.id = x
                                /\ e.news.cmd = "delete"
  BY DEF Hsets, Hdels, Tells, Withdraws, Brings, Announces, Hears

\* Requests in which a post is not mentioned, and those of its own.
Silent(q, x) ==
  \A k \in DOMAIN q : q[k] \notin Hsets(x) \cup Hdels(x) \cup Tells(x) \cup Withdraws(x)

\* Most requests are silent about a post.
LEMMA SilentCmds ==
  ASSUME NEW x
  PROVE  /\ Silent(HelloCmds, x) /\ Silent(<<[op |-> "hgetall"]>>, x) /\ Silent(<<>>, x)
         /\ ViewsOnly => \A b \in Bodies : Silent(ViewCmds(b), x)
         /\ \A p \in Post : p.id # x => Silent(PublishCmds(p), x)
         /\ \A id \in Id, u \in User, p \in Post : id # x => Silent(DeleteCmds(id, u, p), x)
<1>1. \A c : /\ c.op \in {"hvals", "subscribe", "hgetall", "hincrby", "archive"} =>
                  c \notin Hsets(x) \cup Hdels(x) \cup Tells(x) \cup Withdraws(x)
             /\ c.op = "publish" => c \notin Hsets(x) \cup Hdels(x)
             /\ c.op = "hset" => c \notin Hdels(x) \cup Tells(x) \cup Withdraws(x)
             /\ c.op = "hdel" => c \notin Hsets(x) \cup Tells(x) \cup Withdraws(x)
  BY Kinds
<1>2. Silent(HelloCmds, x) /\ Silent(<<[op |-> "hgetall"]>>, x) /\ Silent(<<>>, x)
  BY <1>1 DEF Silent, HelloCmds
<1>3. ASSUME ViewsOnly, NEW b \in Bodies PROVE Silent(ViewCmds(b), x)
  <2> DEFINE c == Publish(b.news)
             d == [op |-> "hincrby", id |-> b.id]
  <2>1. /\ c.op = "publish" /\ d.op = "hincrby"
        /\ c.news.cmd # "publish_internal" /\ c.news.cmd # "delete"
    BY <1>3 DEF Publish, ViewsOnly
  <2>2. ViewCmds(b) = <<c, d>>
    BY DEF ViewCmds
  <2> HIDE DEF c, d
  <2>3. /\ c \notin Hsets(x) \cup Hdels(x) \cup Tells(x) \cup Withdraws(x)
        /\ d \notin Hsets(x) \cup Hdels(x) \cup Tells(x) \cup Withdraws(x)
    BY <1>1, <2>1, Kinds
  <2> QED BY <2>2, <2>3 DEF Silent
<1>4. ASSUME NEW p \in Post, p.id # x PROVE Silent(PublishCmds(p), x)
  <2> DEFINE c == [op |-> "hset", post |-> p]
             d == Publish([cmd |-> "publish_internal", post |-> p])
  <2>1. /\ c.op = "hset" /\ c.post = p /\ d.op = "publish"
        /\ d.news.cmd = "publish_internal" /\ d.news.post = p
    BY DEF Publish
  <2>2. PublishCmds(p) = <<c, d>>
    BY DEF PublishCmds
  <2> HIDE DEF c, d
  <2>3. /\ c \notin Hsets(x) \cup Hdels(x) \cup Tells(x) \cup Withdraws(x)
        /\ d \notin Hsets(x) \cup Hdels(x) \cup Tells(x) \cup Withdraws(x)
    BY <1>1, <1>4, <2>1, Kinds
  <2> QED BY <2>2, <2>3 DEF Silent
<1>5. ASSUME NEW id \in Id, NEW u \in User, NEW p \in Post, id # x
      PROVE  Silent(DeleteCmds(id, u, p), x)
  <2> DEFINE a == [op |-> "archive", id |-> id, post |-> p]
             c == [op |-> "hdel", id |-> id]
             d == Publish([cmd |-> "delete", id |-> id, from |-> u])
  <2>1. /\ a.op = "archive" /\ c.op = "hdel" /\ c.id = id /\ d.op = "publish"
        /\ d.news.cmd = "delete" /\ d.news.id = id
    BY DEF Publish
  <2>2. DeleteCmds(id, u, p) = <<a, c, d>>
    BY DEF DeleteCmds
  <2> HIDE DEF a, c, d
  <2>3. /\ a \notin Hsets(x) \cup Hdels(x) \cup Tells(x) \cup Withdraws(x)
        /\ c \notin Hsets(x) \cup Hdels(x) \cup Tells(x) \cup Withdraws(x)
        /\ d \notin Hsets(x) \cup Hdels(x) \cup Tells(x) \cup Withdraws(x)
    BY <1>1, <1>5, <2>1, Kinds
  <2> QED BY <2>2, <2>3 DEF Silent
<1> QED BY <1>2, <1>3, <1>4, <1>5

-----------------------------------------------------------------------------
(* With Quiet, a process is down, or it loads the posts while nothing else  *)
(* is in progress, or it is subscribed and hears of every post.             *)

Waits(q) == \E i \in DOMAIN q : q[i].op \in {"hvals", "subscribe"}

Down(n) ==
  /\ ~running[n] /\ ~serving[n] /\ n \notin subs
  /\ posts[n] = <<>> /\ pipe[n] = <<>> /\ reply[n] = <<>>
Loading(n) ==
  /\ running[n] /\ n \notin subs
  /\ \/ pipe[n] = HelloCmds /\ reply[n] = <<>>
     \/ /\ pipe[n] = <<[op |-> "subscribe"]>>
        /\ \E e : reply[n] = <<e>> /\ e.type = "hvals"
     \/ pipe[n] = <<[op |-> "subscribe"], [op |-> "hgetall"]>> /\ reply[n] = <<>>
  /\ \A m \in Node \ {n} : pipe[m] = <<>> /\ reply[m] = <<>>
Listening(n) == running[n] /\ n \in subs /\ ~Waits(pipe[n])

Lines == \A n \in Node : Down(n) \/ Loading(n) \/ Listening(n)

LEMMA LoadingConnects ==
  ASSUME NEW n \in Node, Loading(n)
  PROVE  Connecting /\ pipe[n] # <<>>
<1>1. Waits(pipe[n])
  BY DEF Loading, Waits, HelloCmds
<1> QED BY <1>1 DEF Connecting, Waits

\* While something is in progress for a process, or nothing at all, no other
\* process loads.
LEMMA OthersReady ==
  ASSUME Lines, NEW n \in Node,
         Idle \/ ~Connecting \/ pipe[n] # <<>> \/ reply[n] # <<>>
  PROVE  \A m \in Node : m # n => Down(m) \/ Listening(m)
<1>1. ASSUME NEW m \in Node, m # n, Loading(m) PROVE FALSE
  BY <1>1, LoadingConnects DEF Loading, Idle
<1> QED BY <1>1 DEF Lines

\* A process to which nothing happens, but which may be told something.
LEMMA OthersStay ==
  ASSUME NEW m \in Node, Down(m) \/ Listening(m),
         running'[m] = running[m], serving'[m] = serving[m], posts'[m] = posts[m],
         pipe'[m] = pipe[m], m \in subs' <=> m \in subs,
         m \notin subs => reply'[m] = reply[m]
  PROVE  (Down(m) \/ Listening(m))'
<1>1. CASE Down(m)
  BY <1>1 DEF Down
<1>2. CASE Listening(m)
  BY <1>2 DEF Listening
<1> QED BY <1>1, <1>2

\* Clients and the answer to HVALS ask for neither posts nor subscriptions.
LEMMA NoWaits ==
  /\ ~Waits(<<>>) /\ ~Waits(<<[op |-> "hgetall"]>>)
  /\ \A b \in Bodies : ~Waits(ViewCmds(b))
  /\ \A p \in Post : ~Waits(PublishCmds(p))
  /\ \A id \in Id, u \in User, p \in Post : ~Waits(DeleteCmds(id, u, p))
  BY DEF Waits, ViewCmds, PublishCmds, DeleteCmds, Publish

LEMMA WaitsAdded ==
  ASSUME NEW p \in Seq(Command), NEW q \in Seq(Command), ~Waits(p), ~Waits(q)
  PROVE  ~Waits(p \o q)
<1>1. \A i \in DOMAIN (p \o q) : \/ i \in DOMAIN p /\ (p \o q)[i] = p[i]
                                 \/ \E k \in DOMAIN q : (p \o q)[i] = q[k]
  <2>1. ASSUME NEW i \in DOMAIN (p \o q), i \notin DOMAIN p
        PROVE  \E k \in DOMAIN q : (p \o q)[i] = q[k]
    <3> DEFINE k == i - Len(p)
    <3>1. k \in DOMAIN q /\ (p \o q)[i] = q[k]
      BY <2>1
    <3> HIDE DEF k
    <3> QED BY <3>1
  <2> QED BY <2>1
<1> QED BY <1>1 DEF Waits

LEMMA WaitsTaken ==
  ASSUME NEW p \in Seq(Command), p # <<>>, ~Waits(p)
  PROVE  ~Waits(Tail(p)) /\ Head(p).op \notin {"hvals", "subscribe"}
<1>1. /\ DOMAIN Tail(p) = 1 .. Len(p) - 1 /\ DOMAIN p = 1 .. Len(p) /\ Len(p) \in Nat
      /\ Len(p) # 0 /\ Head(p) = p[1]
      /\ \A i \in DOMAIN Tail(p) : Tail(p)[i] = p[i + 1]
  OBVIOUS
<1>2. 1 \in DOMAIN p /\ \A i \in DOMAIN Tail(p) : i + 1 \in DOMAIN p
  BY <1>1
<1> QED BY <1>1, <1>2 DEF Waits

\* A process starts, reconnects or stops while nothing is in progress.
LEMMA LinesConnect ==
  ASSUME TypeOK, Lines, Quiet, NEW n \in Node, Start(n) \/ Reconnect(n) \/ Stop(n)
  PROVE  Lines'
<1>1. Idle
  BY DEF Start, Reconnect, Stop
<1>2. \A m \in Node : m # n => Down(m) \/ Listening(m)
  BY <1>1, OthersReady
<1>3. \A m \in Node : m # n =>
        /\ running'[m] = running[m] /\ serving'[m] = serving[m] /\ posts'[m] = posts[m]
        /\ pipe'[m] = pipe[m] /\ reply'[m] = reply[m] /\ (m \in subs' <=> m \in subs)
  BY DEF Start, Reconnect, Stop, Request, TypeOK, workerVars, redisVars
<1>4. \A m \in Node : m # n => (Down(m) \/ Listening(m))'
  BY <1>2, <1>3, OthersStay
<1>5. \A m \in Node : m # n => pipe'[m] = <<>> /\ reply'[m] = <<>>
  BY <1>1, <1>3 DEF Idle
<1>6. CASE Stop(n)
  <2>1. Down(n)'
    BY <1>6 DEF Stop, Down, TypeOK
  <2> QED BY <1>4, <2>1 DEF Lines
<1>7. CASE Start(n) \/ Reconnect(n)
  <2>1. pipe[n] = <<>> /\ reply[n] = <<>> /\ HelloCmds \in Seq(Command)
    BY <1>1, CmdTypes DEF Idle
  <2>2. pipe'[n] = HelloCmds /\ reply'[n] = <<>>
    <3>1. <<>> \o HelloCmds = HelloCmds
      BY <2>1
    <3> QED BY <1>7, <2>1, <3>1 DEF Start, Reconnect, Request, TypeOK
  <2>3. running'[n]
    BY <1>7 DEF Start, Reconnect, TypeOK, workerVars
  <2>4. n \notin subs'
    BY <1>7, <1>1, LoadingConnects DEF Start, Reconnect, Lines, Down, Listening, Loading, redisVars
  <2>5. Loading(n)'
    BY <1>5, <2>2, <2>3, <2>4 DEF Loading
  <2> QED BY <1>4, <2>5 DEF Lines
<1> QED BY <1>6, <1>7

\* A request of a client.
LEMMA LinesClient ==
  ASSUME TypeOK, Lines, Quiet, NEW n \in Node, NEW q \in Seq(Command), ~Waits(q),
         Served(n), Request(n, q),
         UNCHANGED <<running, serving, posts, subs, reply>>
  PROVE  Lines' /\ Listening(n) /\ ~Connecting
<1>1. ~Connecting /\ serving[n]
  BY DEF Served
<1>2. Listening(n)
  BY <1>1, LoadingConnects DEF Lines, Down
<1>3. \A m \in Node : m # n => Down(m) \/ Listening(m)
  BY <1>1, OthersReady
<1>4. pipe'[n] = pipe[n] \o q /\ \A m \in Node : m # n => pipe'[m] = pipe[m]
  BY DEF Request, TypeOK
<1>5. \A m \in Node : m # n => (Down(m) \/ Listening(m))'
  BY <1>3, <1>4, OthersStay
<1>6. Listening(n)'
  <2>1. pipe[n] \in Seq(Command) /\ ~Waits(pipe[n])
    BY <1>2 DEF Listening, TypeOK
  <2>2. ~Waits(pipe'[n])
    BY <1>4, <2>1, WaitsAdded
  <2> QED BY <1>2, <2>2 DEF Listening
<1> QED BY <1>1, <1>2, <1>5, <1>6 DEF Lines

\* Pipelines of one and two commands.
LEMMA OneOrTwo ==
  ASSUME NEW a, NEW b
  PROVE  /\ <<a>> \o <<b>> = <<a, b>>
         /\ Head(<<a>>) = a /\ Tail(<<a>>) = <<>>
         /\ Head(<<a, b>>) = a /\ Tail(<<a, b>>) = <<b>>
<1> DEFINE S == {a, b}
<1>1. <<a>> \in Seq(S) /\ <<b>> \in Seq(S) /\ <<a, b>> \in Seq(S)
  OBVIOUS
<1>2. <<a>> \o <<b>> = <<a, b>>
  <2> DEFINE l == <<a>> \o <<b>>
             r == <<a, b>>
  <2>1. /\ l \in Seq(S) /\ Len(l) = 2 /\ l[1] = a /\ l[2] = b
        /\ r \in Seq(S) /\ Len(r) = 2 /\ r[1] = a /\ r[2] = b
    BY <1>1
  <2> HIDE DEF l, r
  <2>2. \A i \in 1 .. Len(l) : l[i] = r[i]
    <3>1. \A i \in 1 .. Len(l) : i = 1 \/ i = 2
      BY <2>1
    <3> QED BY <2>1, <3>1
  <2>3. l = r
    BY <2>1, <2>2, SeqEqual
  <2> QED BY <2>3 DEF l, r
<1>3. Head(<<a>>) = a /\ Head(<<a, b>>) = a
  OBVIOUS
<1>4. Tail(<<a>>) = <<>>
  OBVIOUS
<1>5. Tail(<<a, b>>) = <<b>>
  OBVIOUS
<1> QED BY <1>2, <1>3, <1>4, <1>5

\* The three places of a process that is loading.
LEMMA LinesReply ==
  ASSUME TypeOK, Lines, NEW n \in Node, OnReply(n)
  PROVE  Lines'
<1>1. /\ reply[n] # <<>> /\ reply' = [reply EXCEPT ![n] = Tail(@)]
      /\ UNCHANGED <<running, subs>>
      /\ \A m \in Node : m # n => posts'[m] = posts[m] /\ serving'[m] = serving[m]
                                  /\ pipe'[m] = pipe[m]
  BY DEF OnReply, OnHvals, OnHgetall, OnNews, Receive, Request, TypeOK, redisVars
<1>2. \A m \in Node : m # n => Down(m) \/ Listening(m)
  BY <1>1, OthersReady
<1>3. \A m \in Node : m # n => reply'[m] = reply[m]
  BY <1>1 DEF TypeOK
<1>4. \A m \in Node : m # n => (Down(m) \/ Listening(m))'
  BY <1>1, <1>2, <1>3, OthersStay
<1>5. reply'[n] = Tail(reply[n])
  BY <1>1 DEF TypeOK
<1>6. CASE Listening(n)
  <2>1. ~Waits(pipe'[n])
    <3>1. CASE OnHvals(n)
      <4>1. /\ pipe'[n] = pipe[n] \o <<[op |-> "hgetall"]>>
            /\ pipe[n] \in Seq(Command) /\ ~Waits(pipe[n])
        BY <1>6, <3>1 DEF OnHvals, Request, TypeOK, Listening
      <4>2. <<[op |-> "hgetall"]>> \in Seq(Command)
        BY CmdTypes
      <4> QED BY <4>1, <4>2, NoWaits, WaitsAdded
    <3>2. CASE OnHgetall(n) \/ OnNews(n)
      BY <1>6, <3>2 DEF OnHgetall, OnNews, Listening
    <3> QED BY <3>1, <3>2 DEF OnReply
  <2>2. Listening(n)'
    BY <1>1, <1>6, <2>1 DEF Listening
  <2> QED BY <1>4, <2>2 DEF Lines
<1>7. CASE ~Listening(n)
  <2>1. Loading(n)
    BY <1>1, <1>7 DEF Lines, Down
  <2>2. PICK e : reply[n] = <<e>> /\ e.type = "hvals"
    BY <1>1, <2>1 DEF Loading
  <2>3. pipe[n] = <<[op |-> "subscribe"]>> /\ Head(reply[n]) = e
    BY <1>1, <2>1, <2>2 DEF Loading
  <2>4. Head(reply[n]).type = "hvals"
    BY <2>2, <2>3
  <2>5. OnHvals(n)
    BY <2>4 DEF OnReply, OnHgetall, OnNews, Receive
  <2>6. pipe'[n] = <<[op |-> "subscribe"], [op |-> "hgetall"]>>
    <3>1. pipe'[n] = <<[op |-> "subscribe"]>> \o <<[op |-> "hgetall"]>>
      BY <2>3, <2>5 DEF OnHvals, Request, TypeOK
    <3> QED BY <3>1, OneOrTwo
  <2>7. reply'[n] = <<>>
    BY <1>5, <2>2
  <2>8. Loading(n)'
    BY <1>1, <1>3, <2>1, <2>6, <2>7 DEF Loading
  <2> QED BY <1>4, <2>8 DEF Lines
<1> QED BY <1>6, <1>7

\* Redis executes a command.
LEMMA LinesRedis ==
  ASSUME TypeOK, Lines, NEW n \in Node, Redis(n)
  PROVE  Lines'
<1>1. /\ pipe[n] # <<>> /\ pipe' = [pipe EXCEPT ![n] = Tail(@)]
      /\ UNCHANGED <<running, posts, serving>>
  BY DEF Redis, workerVars, ExecHvals, ExecHgetall, ExecSubscribe, ExecHset, ExecArchive,
         ExecHdel, ExecHincrby, ExecPublish, Exec
<1>2. \A m \in Node : m # n => Down(m) \/ Listening(m)
  BY <1>1, OthersReady
<1>3. /\ pipe'[n] = Tail(pipe[n]) /\ \A m \in Node : m # n => pipe'[m] = pipe[m]
  BY <1>1 DEF TypeOK
<1>4. \A m \in Node : m # n =>
        (m \in subs' <=> m \in subs) /\ (m \notin subs => reply'[m] = reply[m])
  BY DEF Redis, redisVars, ExecHvals, ExecHgetall, ExecSubscribe, ExecHset, ExecArchive,
         ExecHdel, ExecHincrby, ExecPublish, Answer, TypeOK
<1>5. \A m \in Node : m # n => (Down(m) \/ Listening(m))'
  BY <1>1, <1>2, <1>3, <1>4, OthersStay
<1>6. Head(pipe[n]).op # "subscribe" => subs' = subs
  BY DEF Redis, redisVars, ExecHvals, ExecHgetall, ExecSubscribe, ExecHset, ExecArchive,
         ExecHdel, ExecHincrby, ExecPublish, Exec
<1>7. CASE Listening(n)
  <2>1. ~Waits(pipe'[n]) /\ Head(pipe[n]).op \notin {"hvals", "subscribe"}
    BY <1>1, <1>3, <1>7, WaitsTaken DEF Listening, TypeOK
  <2>2. Listening(n)'
    BY <1>1, <1>6, <1>7, <2>1 DEF Listening
  <2> QED BY <1>5, <2>2 DEF Lines
<1>8. CASE ~Listening(n)
  <2>1. Loading(n)
    BY <1>1, <1>8 DEF Lines, Down
  <2>2. CASE pipe[n] = HelloCmds /\ reply[n] = <<>>
    <3>1. /\ Head(pipe[n]).op = "hvals" /\ Tail(pipe[n]) = <<[op |-> "subscribe"]>>
      BY <2>2 DEF HelloCmds
    <3>2. ExecHvals(n)
      BY <3>1 DEF Redis, ExecHgetall, ExecSubscribe, ExecHset, ExecArchive,
                  ExecHdel, ExecHincrby, ExecPublish, Exec
    <3>3. PICK s \in SetToSeqs(stored) : Answer(n, [type |-> "hvals", posts |-> s])
      BY <3>2 DEF ExecHvals
    <3>4. /\ reply'[n] = <<[type |-> "hvals", posts |-> s]>>
          /\ \A m \in Node : m # n => reply'[m] = reply[m]
      BY <2>2, <3>3 DEF Answer, TypeOK
    <3>5. subs' = subs
      BY <1>6, <3>1
    <3> DEFINE e == [type |-> "hvals", posts |-> s]
    <3>6. reply'[n] = <<e>> /\ e.type = "hvals"
      BY <3>4
    <3>7. \A m \in Node \ {n} : pipe'[m] = <<>> /\ reply'[m] = <<>>
      BY <1>3, <2>1, <3>4 DEF Loading
    <3>8. /\ pipe'[n] = <<[op |-> "subscribe"]>>
          /\ running'[n] /\ n \notin subs'
      BY <1>1, <1>3, <2>1, <3>1, <3>5 DEF Loading
    <3> HIDE DEF e
    <3>9. Loading(n)'
      BY <3>6, <3>7, <3>8 DEF Loading
    <3> QED BY <1>5, <3>9 DEF Lines
  <2>3. CASE \/ pipe[n] = <<[op |-> "subscribe"]>>
             \/ pipe[n] = <<[op |-> "subscribe"], [op |-> "hgetall"]>>
    <3>1. /\ Head(pipe[n]).op = "subscribe"
          /\ Tail(pipe[n]) = <<>> \/ Tail(pipe[n]) = <<[op |-> "hgetall"]>>
      <4> DEFINE a == [op |-> "subscribe"]
                 b == [op |-> "hgetall"]
      <4>1. pipe[n] = <<a>> \/ pipe[n] = <<a, b>>
        BY <2>3
      <4>2. a.op = "subscribe"
        OBVIOUS
      <4> HIDE DEF a, b
      <4>3. Head(pipe[n]) = a /\ (Tail(pipe[n]) = <<>> \/ Tail(pipe[n]) = <<b>>)
        BY <4>1, OneOrTwo
      <4> QED BY <4>2, <4>3 DEF b
    <3>2. ExecSubscribe(n)
      BY <3>1 DEF Redis, ExecHgetall, ExecHvals, ExecHset, ExecArchive,
                  ExecHdel, ExecHincrby, ExecPublish, Exec
    <3>3. n \in subs'
      BY <3>2 DEF ExecSubscribe
    <3>4. Listening(n)'
      BY <1>1, <1>3, <2>1, <3>1, <3>3, NoWaits DEF Listening, Loading
    <3> QED BY <1>5, <3>4 DEF Lines
  <2> QED BY <2>1, <2>2, <2>3 DEF Loading
<1> QED BY <1>7, <1>8

-----------------------------------------------------------------------------
(* What the steps do to the queues, by kinds.                               *)

\* An event is appended to the replies of the processes of S.
Told(R, new, S, e) ==
  new = [m \in Node |-> IF m \in S THEN Append(R[m], e) ELSE R[m]]

\* An event is appended to the queues of the processes in S.
LEMMA ToldAt ==
  ASSUME NEW R \in Queues, NEW S, NEW e \in Command \cup Event,
         NEW new, Told(R, new, S, e), NEW K
  PROVE  /\ \A m \in Node : \A i : At(R, m, i, K) =>
              At(new, m, i, K) /\ i \in Nat /\ i < Len(R[m]) + 1
         /\ \A m \in Node : \A i : At(new, m, i, K) =>
              At(R, m, i, K) \/ (m \in S /\ e \in K /\ i = Len(R[m]) + 1)
         /\ e \in K => \A m \in Node : m \in S => At(new, m, Len(R[m]) + 1, K)
<1>1. ASSUME NEW m \in Node
      PROVE  /\ R[m] \in Entries /\ Len(R[m]) \in Nat
             /\ DOMAIN R[m] = 1 .. Len(R[m])
             /\ DOMAIN Append(R[m], e) = 1 .. Len(R[m]) + 1
             /\ Append(R[m], e)[Len(R[m]) + 1] = e
             /\ \A i \in DOMAIN R[m] : Append(R[m], e)[i] = R[m][i]
             /\ m \in S => new[m] = Append(R[m], e)
             /\ m \notin S => new[m] = R[m]
  <2>1. R[m] \in Seq(Command \cup Event) /\ R[m] \in Entries
    BY DEF Queues, Entries
  <2>2. /\ Len(R[m]) \in Nat /\ DOMAIN R[m] = 1 .. Len(R[m])
        /\ DOMAIN Append(R[m], e) = 1 .. Len(R[m]) + 1
        /\ Append(R[m], e)[Len(R[m]) + 1] = e
        /\ \A i \in DOMAIN R[m] : Append(R[m], e)[i] = R[m][i]
    BY <2>1
  <2> QED BY <2>1, <2>2 DEF Told
<1>2. \A m \in Node : \A i : At(R, m, i, K) =>
        At(new, m, i, K) /\ i \in Nat /\ i < Len(R[m]) + 1
  BY <1>1 DEF At
<1>3. \A m \in Node : \A i : At(new, m, i, K) =>
        At(R, m, i, K) \/ (m \in S /\ e \in K /\ i = Len(R[m]) + 1)
  <2> SUFFICES ASSUME NEW m \in Node, NEW i, At(new, m, i, K)
               PROVE  At(R, m, i, K) \/ (m \in S /\ e \in K /\ i = Len(R[m]) + 1)
    OBVIOUS
  <2>1. CASE m \notin S
    BY <1>1, <2>1 DEF At
  <2>2. CASE m \in S
    <3>1. i \in 1 .. Len(R[m]) + 1 /\ Append(R[m], e)[i] \in K
      BY <1>1, <2>2 DEF At
    <3>2. i \in 1 .. Len(R[m]) \/ i = Len(R[m]) + 1
      BY <1>1, <3>1
    <3> QED BY <1>1, <2>2, <3>1, <3>2 DEF At
  <2> QED BY <2>1, <2>2
<1>4. ASSUME e \in K, NEW m \in Node, m \in S PROVE At(new, m, Len(R[m]) + 1, K)
  <2>1. Len(R[m]) + 1 \in 1 .. Len(R[m]) + 1
    BY <1>1
  <2> QED BY <1>1, <1>4, <2>1 DEF At
<1> QED BY <1>2, <1>3, <1>4

LEMMA AreQueues ==
  ASSUME TypeOK
  PROVE  /\ pipe \in Queues /\ reply \in Queues
         /\ Seq(Command) \subseteq Entries
         /\ Command \subseteq Command \cup Event /\ Event \subseteq Command \cup Event
<1>1. Seq(Command) \subseteq Seq(Command \cup Event)
  OBVIOUS
<1>2. Seq(Event) \subseteq Seq(Command \cup Event)
  OBVIOUS
<1> QED BY <1>1, <1>2 DEF TypeOK, Queues, Entries

LEMMA RequestAppends ==
  ASSUME NEW n, NEW q, Request(n, q)
  PROVE  Appended(pipe, pipe', n, q)
  BY DEF Request, Appended

LEMMA AnswerTells ==
  ASSUME TypeOK, NEW n \in Node, NEW e, Answer(n, e)
  PROVE  Told(reply, reply', {n}, e)
  BY DEF Answer, Told, TypeOK

\* The pipeline of a new post, and that of a deletion.
LEMMA PublishKinds ==
  ASSUME NEW p \in Post
  PROVE  LET q == PublishCmds(p)
         IN  /\ q \in Entries /\ DOMAIN q = {1, 2}
             /\ q[1] \in Hsets(p.id) /\ q[2] \in Tells(p.id)
             /\ \A k \in DOMAIN q : /\ q[k] \notin Hdels(p.id) \cup Withdraws(p.id)
                                    /\ q[k] \in Hsets(p.id) => k = 1
                                    /\ q[k] \in Tells(p.id) => k = 2
<1> DEFINE c == [op |-> "hset", post |-> p]
           d == Publish([cmd |-> "publish_internal", post |-> p])
           q == PublishCmds(p)
<1>1. /\ c.op = "hset" /\ c.post = p /\ d.op = "publish"
      /\ d.news.cmd = "publish_internal" /\ d.news.post = p
  BY DEF Publish
<1>2. q = <<c, d>>
  BY DEF PublishCmds
<1>3. c \in Command /\ d \in Command
  BY DEF Command, Publish, News
<1> HIDE DEF c, d, q
<1>4. q \in Entries /\ DOMAIN q = {1, 2} /\ q[1] = c /\ q[2] = d
  BY <1>2, <1>3 DEF Entries
<1>5. /\ c \in Hsets(p.id) /\ d \in Tells(p.id)
      /\ c \notin Tells(p.id) /\ d \notin Hsets(p.id)
      /\ c \notin Hdels(p.id) \cup Withdraws(p.id)
      /\ d \notin Hdels(p.id) \cup Withdraws(p.id)
  BY <1>1, <1>3 DEF Hsets, Tells, Hdels, Withdraws
<1> QED BY <1>4, <1>5 DEF q

LEMMA DeleteKinds ==
  ASSUME NEW id \in Id, NEW u \in User, NEW p \in Post
  PROVE  LET q == DeleteCmds(id, u, p)
         IN  /\ q \in Entries /\ DOMAIN q = {1, 2, 3}
             /\ q[2] \in Hdels(id) /\ q[3] \in Withdraws(id) /\ q[3].news.from = u
             /\ \A k \in DOMAIN q : /\ q[k] \notin Hsets(id) \cup Tells(id)
                                    /\ q[k] \in Hdels(id) => k = 2
                                    /\ q[k] \in Withdraws(id) => k = 3
<1> DEFINE a == [op |-> "archive", id |-> id, post |-> p]
           c == [op |-> "hdel", id |-> id]
           d == Publish([cmd |-> "delete", id |-> id, from |-> u])
           q == DeleteCmds(id, u, p)
<1>1. /\ a.op = "archive" /\ c.op = "hdel" /\ c.id = id /\ d.op = "publish"
      /\ d.news.cmd = "delete" /\ d.news.id = id /\ d.news.from = u
  BY DEF Publish
<1>2. q = <<a, c, d>>
  BY DEF DeleteCmds
<1>3. a \in Command /\ c \in Command /\ d \in Command
  BY DEF Command, Publish, News
<1> HIDE DEF a, c, d, q
<1>4. q \in Entries /\ DOMAIN q = {1, 2, 3} /\ q[1] = a /\ q[2] = c /\ q[3] = d
  BY <1>2, <1>3 DEF Entries
<1>5. /\ a \notin Hsets(id) \cup Tells(id) \cup Hdels(id) \cup Withdraws(id)
      /\ c \in Hdels(id) /\ c \notin Hsets(id) \cup Tells(id) \cup Withdraws(id)
      /\ d \in Withdraws(id) /\ d \notin Hsets(id) \cup Tells(id) \cup Hdels(id)
  BY <1>1, <1>3 DEF Hsets, Tells, Hdels, Withdraws
<1> QED BY <1>1, <1>4, <1>5 DEF q

-----------------------------------------------------------------------------
(* The course of a post: it is stored, announced and loaded, and it may be  *)
(* deleted.                                                                 *)

Somewhere(Q, K) == \E n \in Node : \E i : At(Q, n, i, K)
Stored(st, x) == \E p \in st : p.id = x

\* It is stored once and announced once, and stored first.
Queued(P, x) ==
  /\ \A m, n \in Node : \A i, j :
       /\ At(P, m, i, Hsets(x)) /\ At(P, n, j, Hsets(x)) => m = n /\ i = j
       /\ At(P, m, i, Tells(x)) /\ At(P, n, j, Tells(x)) => m = n /\ i = j
       /\ At(P, m, i, Hsets(x)) /\ At(P, n, j, Tells(x)) => m = n /\ i < j
  /\ \A n \in Node : \A i : At(P, n, i, Hsets(x)) => \E j : At(P, n, j, Tells(x))

\* The news of a deletion come after the HDEL.
HdelFirst(P, st, x) ==
  Stored(st, x) => \A n \in Node : \A i : At(P, n, i, Withdraws(x)) =>
                     \E j : j < i /\ At(P, n, j, Hdels(x))

\* Nobody has the post or asks for its deletion.
Unheard(x) ==
  /\ \A n \in Node : ~HasPost(posts[n], x)
  /\ ~Somewhere(reply, Brings(x)) /\ ~Somewhere(reply, Hears(x))
  /\ ~Somewhere(pipe, Hdels(x)) /\ ~Somewhere(pipe, Withdraws(x))
  /\ ~Stored(stored, x) /\ x \notin withdrawn

Course(x) ==
  /\ Queued(pipe, x)
  /\ HdelFirst(pipe, stored, x)
  /\ Somewhere(pipe, Hsets(x)) => Unheard(x)
  /\ published[x] = None =>
       Unheard(x) /\ ~Somewhere(pipe, Hsets(x)) /\ ~Somewhere(pipe, Tells(x))
  /\ Somewhere(reply, Hears(x)) => ~Stored(stored, x)

\* A step that does not change what is said of the post.
LEMMA CourseKept ==
  ASSUME NEW x, Course(x),
         \A K \in {Hsets(x), Hdels(x), Tells(x), Withdraws(x)} :
           \A m \in Node : \A i : At(pipe', m, i, K) <=> At(pipe, m, i, K),
         \A K \in {Brings(x), Hears(x)} : Somewhere(reply', K) => Somewhere(reply, K),
         \A m \in Node : HasPost(posts'[m], x) =>
           (\E l \in Node : HasPost(posts[l], x)) \/ Somewhere(reply, Brings(x)),
         stored' = stored, x \in withdrawn' => x \in withdrawn,
         published'[x] = published[x]
  PROVE  Course(x)'
<1>1. Queued(pipe', x)
  BY DEF Course, Queued
<1>2. HdelFirst(pipe', stored', x)
  BY DEF Course, HdelFirst
<1>3. \A K \in {Hsets(x), Hdels(x), Tells(x), Withdraws(x)} :
        Somewhere(pipe', K) <=> Somewhere(pipe, K)
  BY DEF Somewhere
<1>4. Unheard(x) => Unheard(x)'
  BY <1>3 DEF Unheard
<1> QED BY <1>1, <1>2, <1>3, <1>4 DEF Course

\* A post is published: HSET and its news are sent together.
LEMMA CoursePublish ==
  ASSUME TypeOK, NEW x \in Id, Course(x), NEW n \in Node, NEW p \in Post, p.id = x,
         published[x] = None, published'[x] # None, Request(n, PublishCmds(p)),
         UNCHANGED <<posts, stored, reply, withdrawn>>
  PROVE  Course(x)'
<1> DEFINE q == PublishCmds(p)
           l == Len(pipe[n])
<1>1. pipe \in Queues /\ Appended(pipe, pipe', n, q)
  BY AreQueues, RequestAppends
<1>2. /\ q \in Entries /\ DOMAIN q = {1, 2} /\ q[1] \in Hsets(x) /\ q[2] \in Tells(x)
      /\ \A k \in DOMAIN q : /\ q[k] \notin Hdels(x) /\ q[k] \notin Withdraws(x)
                             /\ q[k] \in Hsets(x) => k = 1
                             /\ q[k] \in Tells(x) => k = 2
  BY PublishKinds
<1> HIDE DEF q
<1>3. Unheard(x) /\ ~Somewhere(pipe, Hsets(x)) /\ ~Somewhere(pipe, Tells(x))
  BY DEF Course
<1>4. \A K \in {Hdels(x), Withdraws(x)} : \A m \in Node : \A i : ~At(pipe', m, i, K)
  <2>1. \A K \in {Hdels(x), Withdraws(x)} :
          \A m \in Node : \A i : At(pipe', m, i, K) <=> At(pipe, m, i, K)
    BY <1>1, <1>2, SameAt
  <2> QED BY <1>3, <2>1 DEF Unheard, Somewhere
<1>5. \A m \in Node : \A i :
        /\ At(pipe', m, i, Hsets(x)) <=> m = n /\ i = l + 1
        /\ At(pipe', m, i, Tells(x)) <=> m = n /\ i = l + 2
  <2>1. /\ At(pipe', n, l + 1, Hsets(x)) /\ At(pipe', n, l + 2, Tells(x))
    BY <1>1, <1>2, AddedAt
  <2>2. ASSUME NEW m \in Node, NEW i, At(pipe', m, i, Hsets(x))
        PROVE  m = n /\ i = l + 1
    <3>1. m = n /\ New(pipe, n, q, i, Hsets(x))
      BY <1>1, <1>2, <1>3, <2>2, AddedAt DEF Somewhere
    <3> QED BY <1>2, <3>1 DEF New
  <2>3. ASSUME NEW m \in Node, NEW i, At(pipe', m, i, Tells(x))
        PROVE  m = n /\ i = l + 2
    <3>1. m = n /\ New(pipe, n, q, i, Tells(x))
      BY <1>1, <1>2, <1>3, <2>3, AddedAt DEF Somewhere
    <3> QED BY <1>2, <3>1 DEF New
  <2> QED BY <2>1, <2>2, <2>3
<1>6. l \in Nat
  BY DEF TypeOK
<1> HIDE DEF l
<1>7. Queued(pipe', x)
  BY <1>5, <1>6 DEF Queued
<1>8. HdelFirst(pipe', stored', x)
  BY <1>4 DEF HdelFirst
<1>9. Unheard(x)'
  BY <1>3, <1>4 DEF Unheard, Somewhere
<1> QED BY <1>7, <1>8, <1>9 DEF Course, Unheard

\* A deletion is asked for: the HDEL comes before its news.
LEMMA CourseDelete ==
  ASSUME TypeOK, NEW x \in Id, Course(x), NEW n \in Node, NEW u \in User, NEW p \in Post,
         HasPost(posts[n], x), Request(n, DeleteCmds(x, u, p)),
         UNCHANGED <<posts, stored, reply, published>>
  PROVE  Course(x)'
<1> DEFINE q == DeleteCmds(x, u, p)
           l == Len(pipe[n])
<1>1. pipe \in Queues /\ Appended(pipe, pipe', n, q)
  BY AreQueues, RequestAppends
<1>2. /\ q \in Entries /\ DOMAIN q = {1, 2, 3} /\ q[2] \in Hdels(x)
      /\ \A k \in DOMAIN q : /\ q[k] \notin Hsets(x) /\ q[k] \notin Tells(x)
                             /\ q[k] \in Withdraws(x) => k = 3
  BY DeleteKinds
<1> HIDE DEF q
<1>3. ~Unheard(x) /\ ~Somewhere(pipe, Hsets(x)) /\ published[x] # None
  BY DEF Course, Unheard
<1>4. \A K \in {Hsets(x), Tells(x)} :
        \A m \in Node : \A i : At(pipe', m, i, K) <=> At(pipe, m, i, K)
  BY <1>1, <1>2, SameAt
<1>5. Queued(pipe', x) /\ ~Somewhere(pipe', Hsets(x))
  BY <1>3, <1>4 DEF Course, Queued, Somewhere
<1>6. HdelFirst(pipe', stored', x)
  <2> SUFFICES ASSUME Stored(stored, x), NEW m \in Node, NEW i, At(pipe', m, i, Withdraws(x))
               PROVE  \E j : j < i /\ At(pipe', m, j, Hdels(x))
    BY DEF HdelFirst
  <2>1. CASE At(pipe, m, i, Withdraws(x))
    BY <1>1, <1>2, <2>1, AddedAt DEF Course, HdelFirst
  <2>2. CASE ~At(pipe, m, i, Withdraws(x))
    <3>1. m = n /\ New(pipe, n, q, i, Withdraws(x))
      BY <1>1, <1>2, <2>2, AddedAt
    <3>2. i = l + 3 /\ l \in Nat
      BY <1>2, <3>1 DEF New, TypeOK
    <3>3. At(pipe', n, l + 2, Hdels(x))
      BY <1>1, <1>2, AddedAt
    <3> QED BY <3>1, <3>2, <3>3
  <2> QED BY <2>1, <2>2
<1> QED BY <1>3, <1>5, <1>6 DEF Course

\* Redis executes a command.
LEMMA QueuedPopped ==
  ASSUME TypeOK, NEW x, Queued(pipe, x), NEW n \in Node, Popped(pipe, pipe', n)
  PROVE  /\ Queued(pipe', x)
         /\ Head(pipe[n]) \in Hsets(x) \cup Tells(x) => ~Somewhere(pipe', Hsets(x))
         /\ Head(pipe[n]) \in Tells(x) => ~Somewhere(pipe', Tells(x))
<1>1. pipe \in Queues
  BY AreQueues
<1>2. \A K : /\ At(pipe, n, 1, K) <=> Head(pipe[n]) \in K
             /\ \A i : At(pipe', n, i, K) => At(pipe, n, i + 1, K) /\ i \in Nat /\ 1 <= i
             /\ \A i : At(pipe, n, i, K) =>
                         i \in Nat /\ 1 <= i /\ (i # 1 => At(pipe', n, i - 1, K))
             /\ \A m \in Node : \A i : m # n => (At(pipe', m, i, K) <=> At(pipe, m, i, K))
  BY <1>1, TakenAt
<1> DEFINE old(m, i) == IF m = n THEN i + 1 ELSE i
<1>3. \A K : \A m \in Node : \A i : At(pipe', m, i, K) =>
        At(pipe, m, old(m, i), K) /\ i \in Nat \ {0}
  <2>1. \A K : \A m \in Node : \A i : At(pipe, m, i, K) => i \in Nat \ {0}
    BY <1>1, AtType
  <2> SUFFICES ASSUME NEW K, NEW m \in Node, NEW i, At(pipe', m, i, K)
               PROVE  At(pipe, m, old(m, i), K) /\ i \in Nat \ {0}
    OBVIOUS
  <2>2. CASE m = n
    <3>1. At(pipe, n, i + 1, K) /\ i \in Nat /\ 1 <= i
      BY <1>2, <2>2
    <3> QED BY <2>2, <3>1
  <2>3. CASE m # n
    <3>1. At(pipe, m, i, K)
      BY <1>2, <2>3
    <3> QED BY <2>1, <2>3, <3>1
  <2> QED BY <2>2, <2>3
<1>4. \A m \in Node : \A i, j \in Nat \ {0} :
        (old(m, i) = old(m, j) => i = j) /\ (old(m, i) < old(m, j) => i < j)
        /\ (m = n => ~(old(m, i) < 1 \/ old(m, i) = 1))
  OBVIOUS
<1> HIDE DEF old
<1>5. ASSUME NEW m \in Node, NEW l \in Node, NEW i, NEW j
      PROVE  /\ At(pipe', m, i, Hsets(x)) /\ At(pipe', l, j, Hsets(x)) => m = l /\ i = j
             /\ At(pipe', m, i, Tells(x)) /\ At(pipe', l, j, Tells(x)) => m = l /\ i = j
             /\ At(pipe', m, i, Hsets(x)) /\ At(pipe', l, j, Tells(x)) => m = l /\ i < j
  <2>1. ASSUME At(pipe', m, i, Hsets(x)), At(pipe', l, j, Hsets(x)) PROVE m = l /\ i = j
    <3>1. /\ At(pipe, m, old(m, i), Hsets(x)) /\ i \in Nat \ {0}
          /\ At(pipe, l, old(l, j), Hsets(x)) /\ j \in Nat \ {0}
      BY <1>3, <2>1
    <3>2. m = l /\ old(m, i) = old(l, j)
      BY <3>1 DEF Queued
    <3> QED BY <1>4, <3>1, <3>2
  <2>2. ASSUME At(pipe', m, i, Tells(x)), At(pipe', l, j, Tells(x)) PROVE m = l /\ i = j
    <3>1. /\ At(pipe, m, old(m, i), Tells(x)) /\ i \in Nat \ {0}
          /\ At(pipe, l, old(l, j), Tells(x)) /\ j \in Nat \ {0}
      BY <1>3, <2>2
    <3>2. m = l /\ old(m, i) = old(l, j)
      BY <3>1 DEF Queued
    <3> QED BY <1>4, <3>1, <3>2
  <2>3. ASSUME At(pipe', m, i, Hsets(x)), At(pipe', l, j, Tells(x)) PROVE m = l /\ i < j
    <3>1. /\ At(pipe, m, old(m, i), Hsets(x)) /\ i \in Nat \ {0}
          /\ At(pipe, l, old(l, j), Tells(x)) /\ j \in Nat \ {0}
      BY <1>3, <2>3
    <3>2. m = l /\ old(m, i) < old(l, j)
      BY <3>1 DEF Queued
    <3> QED BY <1>4, <3>1, <3>2
  <2> QED BY <2>1, <2>2, <2>3
<1>6. ASSUME NEW m \in Node, NEW i, At(pipe', m, i, Hsets(x))
      PROVE  \E j : At(pipe', m, j, Tells(x))
  <2>1. At(pipe, m, old(m, i), Hsets(x)) /\ i \in Nat \ {0}
    BY <1>3, <1>6
  <2>2. PICK j : At(pipe, m, j, Tells(x))
    BY <2>1 DEF Queued
  <2>3. old(m, i) < j
    BY <2>1, <2>2 DEF Queued
  <2>4. CASE m # n
    BY <1>2, <2>2, <2>4
  <2>5. CASE m = n
    <3>1. j # 1
      BY <1>4, <2>1, <2>3, <2>5
    <3> QED BY <1>2, <2>2, <2>5, <3>1
  <2> QED BY <2>4, <2>5
<1>7. ASSUME Head(pipe[n]) \in Hsets(x) \cup Tells(x), Somewhere(pipe', Hsets(x))
      PROVE  FALSE
  <2>0. PICK m \in Node : \E i : At(pipe', m, i, Hsets(x))
    BY <1>7 DEF Somewhere
  <2>1. PICK i : At(pipe', m, i, Hsets(x))
    BY <2>0
  <2>2. At(pipe, m, old(m, i), Hsets(x)) /\ i \in Nat \ {0}
    BY <1>3, <2>1
  <2>3. CASE Head(pipe[n]) \in Hsets(x)
    <3>1. At(pipe, n, 1, Hsets(x))
      BY <1>2, <2>3
    <3>2. m = n /\ old(m, i) = 1
      BY <2>2, <3>1 DEF Queued
    <3> QED BY <1>4, <2>2, <3>2
  <2>4. CASE Head(pipe[n]) \in Tells(x)
    <3>1. At(pipe, n, 1, Tells(x))
      BY <1>2, <2>4
    <3>2. m = n /\ old(m, i) < 1
      BY <2>2, <3>1 DEF Queued
    <3> QED BY <1>4, <2>2, <3>2
  <2> QED BY <1>7, <2>3, <2>4
<1>8. ASSUME Head(pipe[n]) \in Tells(x), Somewhere(pipe', Tells(x))
      PROVE  FALSE
  <2>0. PICK m \in Node : \E i : At(pipe', m, i, Tells(x))
    BY <1>8 DEF Somewhere
  <2>1. PICK i : At(pipe', m, i, Tells(x))
    BY <2>0
  <2>2. At(pipe, m, old(m, i), Tells(x)) /\ i \in Nat \ {0}
    BY <1>3, <2>1
  <2>3. At(pipe, n, 1, Tells(x))
    BY <1>2, <1>8
  <2>4. m = n /\ old(m, i) = 1
    BY <2>2, <2>3 DEF Queued
  <2> QED BY <1>4, <2>2, <2>4
<1>9. Queued(pipe', x)
  BY <1>5, <1>6 DEF Queued
<1> QED BY <1>7, <1>8, <1>9

LEMMA SomewherePopped ==
  ASSUME NEW Q \in Queues, NEW n \in Node, NEW new, Popped(Q, new, n), NEW K
  PROVE  /\ Somewhere(new, K) => Somewhere(Q, K)
         /\ Head(Q[n]) \in K => Somewhere(Q, K)
         /\ Somewhere(Q, K) => Head(Q[n]) \in K \/ Somewhere(new, K)
<1>1. /\ At(Q, n, 1, K) <=> Head(Q[n]) \in K
      /\ \A i : At(new, n, i, K) => At(Q, n, i + 1, K)
      /\ \A i : At(Q, n, i, K) => (i # 1 => At(new, n, i - 1, K))
      /\ \A m \in Node : \A i : m # n => (At(new, m, i, K) <=> At(Q, m, i, K))
  BY TakenAt
<1> QED BY <1>1 DEF Somewhere

\* Redis executes a command of the course.
LEMMA CourseExec ==
  ASSUME TypeOK, NEW x, Course(x), NEW n \in Node, Popped(pipe, pipe', n),
         NEW c, c = Head(pipe[n]),
         Stored(stored', x) => Stored(stored, x) \/ c \in Hsets(x),
         c \in Hdels(x) => ~Stored(stored', x),
         Somewhere(reply', Brings(x)) =>
           Somewhere(reply, Brings(x)) \/ c \in Tells(x) \/ Stored(stored, x),
         Somewhere(reply', Hears(x)) => Somewhere(reply, Hears(x)) \/ c \in Withdraws(x),
         UNCHANGED <<posts, withdrawn, published>>
  PROVE  Course(x)'
<1>1. pipe \in Queues
  BY AreQueues
<1>2. /\ Queued(pipe', x)
      /\ c \in Hsets(x) \cup Tells(x) => ~Somewhere(pipe', Hsets(x))
  BY QueuedPopped DEF Course
<1>3. \A K : /\ Somewhere(pipe', K) => Somewhere(pipe, K)
             /\ c \in K => Somewhere(pipe, K)
  BY <1>1, SomewherePopped
<1>4. c \in Hsets(x) => Unheard(x)
  BY <1>3 DEF Course
<1>5. HdelFirst(pipe', stored', x)
  <2> SUFFICES ASSUME Stored(stored', x), NEW m \in Node, NEW i, At(pipe', m, i, Withdraws(x))
               PROVE  \E j : j < i /\ At(pipe', m, j, Hdels(x))
    BY DEF HdelFirst
  <2>1. c \notin Hsets(x) /\ Stored(stored, x) /\ c \notin Hdels(x)
    <3>1. Somewhere(pipe', Withdraws(x))
      BY DEF Somewhere
    <3> QED BY <1>3, <1>4, <3>1 DEF Unheard
  <2>2. /\ At(pipe, n, 1, Hdels(x)) <=> c \in Hdels(x)
        /\ \A j : At(pipe, n, j, Hdels(x)) =>
                    j \in Nat /\ 1 <= j /\ (j # 1 => At(pipe', n, j - 1, Hdels(x)))
        /\ \A l \in Node : \A j : l # n =>
             (At(pipe', l, j, Hdels(x)) <=> At(pipe, l, j, Hdels(x)))
    BY <1>1, TakenAt
  <2>3. /\ \A j : At(pipe', n, j, Withdraws(x)) =>
                    At(pipe, n, j + 1, Withdraws(x)) /\ j \in Nat
        /\ \A l \in Node : \A j : l # n =>
             (At(pipe', l, j, Withdraws(x)) <=> At(pipe, l, j, Withdraws(x)))
    BY <1>1, TakenAt
  <2>4. CASE m # n
    BY <2>1, <2>2, <2>3, <2>4 DEF Course, HdelFirst
  <2>5. CASE m = n
    <3>1. At(pipe, n, i + 1, Withdraws(x)) /\ i \in Nat
      BY <2>3, <2>5
    <3>2. PICK j : j < i + 1 /\ At(pipe, n, j, Hdels(x))
      BY <2>1, <3>1 DEF Course, HdelFirst
    <3>3. j \in Nat /\ j # 1 /\ At(pipe', n, j - 1, Hdels(x))
      BY <2>1, <2>2, <3>2
    <3>4. j - 1 < i
      BY <3>1, <3>2, <3>3
    <3> QED BY <2>5, <3>3, <3>4
  <2> QED BY <2>4, <2>5
<1>6. ASSUME Unheard(x), c \notin Hsets(x), c \notin Tells(x) PROVE Unheard(x)'
  BY <1>3, <1>6 DEF Unheard
<1>7. Somewhere(pipe', Hsets(x)) => Unheard(x)'
  BY <1>2, <1>3, <1>6 DEF Course
<1>8. published'[x] = None =>
        Unheard(x)' /\ ~Somewhere(pipe', Hsets(x)) /\ ~Somewhere(pipe', Tells(x))
  BY <1>3, <1>6 DEF Course
<1>9. ASSUME Somewhere(reply', Hears(x)) PROVE ~Stored(stored', x)
  <2>1. CASE Somewhere(reply, Hears(x))
    BY <1>4, <2>1 DEF Course, Unheard
  <2>2. CASE c \in Withdraws(x)
    <3>1. At(pipe, n, 1, Withdraws(x)) /\ c \notin Hsets(x)
      BY <1>1, <1>3, <1>4, <2>2, TakenAt DEF Unheard
    <3>2. \A j : At(pipe, n, j, Hdels(x)) => ~(j < 1)
      <4>1. \A j : At(pipe, n, j, Hdels(x)) => j \in Nat /\ 1 <= j
        BY <1>1, AtType
      <4> QED BY <4>1
    <3>3. ~Stored(stored, x)
      BY <3>1, <3>2 DEF Course, HdelFirst
    <3> QED BY <3>1, <3>3
  <2> QED BY <1>9, <2>1, <2>2
<1> QED BY <1>2, <1>5, <1>7, <1>8, <1>9 DEF Course

-----------------------------------------------------------------------------
(* What each step means for the post x.                                     *)

\* Starting, reconnecting and stopping say nothing of the post.
LEMMA ConnectEffect ==
  ASSUME TypeOK, Lines, Quiet, NEW n \in Node, Start(n) \/ Reconnect(n) \/ Stop(n),
         NEW x \in Id
  PROVE  /\ Idle
         /\ \A K : \A m \in Node : \A i : /\ ~At(pipe, m, i, K)
                                          /\ ~At(reply, m, i, K) /\ ~At(reply', m, i, K)
         /\ \A K \in {Hsets(x), Hdels(x), Tells(x), Withdraws(x)} :
              \A m \in Node : \A i : ~At(pipe', m, i, K)
         /\ \A m \in Node : posts'[m] = posts[m] \/ (~running'[m] /\ posts'[m] = <<>>)
         /\ UNCHANGED <<stored, published, withdrawn>>
<1>1. Idle
  BY DEF Start, Reconnect, Stop
<1>2. \A m \in Node : pipe[m] = <<>> /\ reply[m] = <<>>
  BY <1>1 DEF Idle
<1>3. \A m \in Node : /\ reply'[m] = <<>>
                      /\ pipe'[m] = <<>> \/ pipe'[m] = HelloCmds
  <2>1. <<>> \o HelloCmds = HelloCmds
    BY DEF HelloCmds
  <2> QED BY <1>2, <2>1 DEF Start, Reconnect, Stop, Request, TypeOK
<1>4. \A K \in {Hsets(x), Hdels(x), Tells(x), Withdraws(x)} :
        \A m \in Node : \A i : ~At(pipe', m, i, K)
  BY <1>3, SilentCmds DEF At, Silent
<1>5. \A m \in Node : posts'[m] = posts[m] \/ (~running'[m] /\ posts'[m] = <<>>)
  BY DEF Start, Reconnect, Stop, TypeOK, workerVars
<1>6. UNCHANGED <<stored, published, withdrawn>>
  BY DEF Start, Reconnect, Stop, redisVars, history
<1>7. \A K : \A m \in Node : \A i : /\ ~At(pipe, m, i, K)
                                    /\ ~At(reply, m, i, K) /\ ~At(reply', m, i, K)
  BY <1>2, <1>3 DEF At
<1> QED BY <1>1, <1>4, <1>5, <1>6, <1>7

\* Requests that say nothing of the post.
LEMMA SilentEffect ==
  ASSUME TypeOK, NEW n \in Node, NEW q \in Seq(Command), Request(n, q), NEW x, Silent(q, x)
  PROVE  \A K \in {Hsets(x), Hdels(x), Tells(x), Withdraws(x)} :
           \A m \in Node : \A i : At(pipe', m, i, K) <=> At(pipe, m, i, K)
<1>1. pipe \in Queues /\ q \in Entries /\ Appended(pipe, pipe', n, q)
  BY AreQueues, RequestAppends
<1>2. \A K \in {Hsets(x), Hdels(x), Tells(x), Withdraws(x)} : \A k \in DOMAIN q : q[k] \notin K
  BY DEF Silent
<1> QED BY <1>1, <1>2, SameAt

\* A process handles an answer or news.
LEMMA ReplyEffect ==
  ASSUME ProvInv, NEW n \in Node, OnReply(n), NEW x \in Id, NEW e, e = Head(reply[n])
  PROVE  /\ Popped(reply, reply', n) /\ e \in Event
         /\ \A m \in Node : m # n => posts'[m] = posts[m]
         /\ HasPost(posts'[n], x) => HasPost(posts[n], x) \/ e \in Brings(x)
         /\ HasPost(posts[n], x) \/ e \in Brings(x) => HasPost(posts'[n], x) \/ e \in Hears(x)
         /\ \A K \in {Hsets(x), Hdels(x), Tells(x), Withdraws(x)} :
              \A m \in Node : \A i : At(pipe', m, i, K) <=> At(pipe, m, i, K)
         /\ UNCHANGED <<stored, published, withdrawn, running>>
<1>1. TypeOK
  BY DEF ProvInv, Inv
<1>2. /\ reply[n] # <<>> /\ reply' = [reply EXCEPT ![n] = Tail(@)]
      /\ UNCHANGED <<stored, published, withdrawn, running>>
  BY DEF OnReply, OnHvals, OnHgetall, OnNews, Receive, redisVars, history
<1>3. reply[n] \in Seq(Event) /\ posts[n] \in Seq(Post) /\ ById(posts[n])
  BY <1>1, SortedIsById DEF TypeOK, ProvInv, Inv
<1>4. e \in Event
  BY <1>2, <1>3, HeadTailProperties
<1>5. \A m \in Node : m # n => posts'[m] = posts[m]
  BY <1>1 DEF OnReply, OnHvals, OnHgetall, OnNews, TypeOK
<1>6. \A K \in {Hsets(x), Hdels(x), Tells(x), Withdraws(x)} :
        \A m \in Node : \A i : At(pipe', m, i, K) <=> At(pipe, m, i, K)
  <2>1. CASE OnHvals(n)
    <3>1. <<[op |-> "hgetall"]>> \in Seq(Command)
      BY CmdTypes
    <3>2. Silent(<<[op |-> "hgetall"]>>, x)
      BY SilentCmds
    <3>3. Request(n, <<[op |-> "hgetall"]>>)
      BY <2>1 DEF OnHvals
    <3> QED BY <1>1, <3>1, <3>2, <3>3, SilentEffect
  <2>2. CASE OnHgetall(n) \/ OnNews(n)
    BY <2>2 DEF OnHgetall, OnNews
  <2> QED BY <2>1, <2>2 DEF OnReply
<1>7. /\ HasPost(posts'[n], x) => HasPost(posts[n], x) \/ e \in Brings(x)
      /\ HasPost(posts[n], x) \/ e \in Brings(x) => HasPost(posts'[n], x) \/ e \in Hears(x)
  <2>1. CASE OnHvals(n)
    <3>1. /\ e.type = "hvals" /\ posts'[n] = AddPosts(posts[n], e.posts)
      BY <1>1, <2>1 DEF OnHvals, Receive, TypeOK
    <3>2. e.posts \in Seq(Post) /\ (e \in Brings(x) <=> HasPost(e.posts, x))
      BY <1>4, <3>1 DEF Event, Brings, Announces
    <3>3. HasPost(posts'[n], x) <=> HasPost(posts[n], x) \/ HasPost(e.posts, x)
      BY <1>3, <3>1, <3>2, AddPostsIds
    <3> QED BY <3>2, <3>3
  <2>2. CASE OnHgetall(n)
    <3>1. e.type = "hgetall" /\ posts'[n] = LoadVisualizations(posts[n], e.visual)
      BY <1>1, <2>2 DEF OnHgetall, Receive, TypeOK
    <3>2. e \notin Brings(x)
      BY <3>1 DEF Brings, Announces
    <3>3. e.visual \in Seq(Visual)
      BY <1>4, <3>1 DEF Event
    <3>4. SameIds(posts[n], posts'[n])
      BY <1>3, <3>1, <3>3, LoadVisualizationsKeeps
    <3> QED BY <3>2, <3>4, SameIdsHas
  <2>3. CASE OnNews(n)
    <3> DEFINE s == e.news
    <3>1. /\ e.type = "push"
          /\ posts'[n] = CASE s.cmd = "publish_internal" -> AddPosts(posts[n], <<s.post>>)
                           [] s.cmd = "delete" ->
                                RemovePost(posts[n], s.id, s.from, s.from = Admin)
                           [] s.cmd = "visualization" -> OnVisualization(posts[n], s.id)
                           [] s.cmd = "none" -> posts[n]
      BY <1>1, <2>3 DEF OnNews, Receive, TypeOK
    <3>2. s \in News
      BY <1>4, <3>1 DEF Event
    <3>3. /\ e \in Brings(x) <=> s.cmd = "publish_internal" /\ s.post.id = x
          /\ e \in Hears(x) <=> s.cmd = "delete" /\ s.id = x
      BY <1>4, <3>1 DEF Brings, Announces, Hears
    <3> HIDE DEF s
    <3>4. CASE s.cmd = "publish_internal"
      <4>1. s.post \in Post /\ posts'[n] = AddPosts(posts[n], <<s.post>>)
        BY <3>1, <3>2, <3>4 DEF News
      <4> DEFINE new == <<s.post>>
      <4>2. new \in Seq(Post) /\ (HasPost(new, x) <=> s.post.id = x)
        BY <4>1 DEF HasPost
      <4>3. posts'[n] = AddPosts(posts[n], new)
        BY <4>1
      <4> HIDE DEF new
      <4>4. HasPost(posts'[n], x) <=> HasPost(posts[n], x) \/ HasPost(new, x)
        BY <1>3, <4>2, <4>3, AddPostsIds
      <4> QED BY <3>3, <3>4, <4>2, <4>4
    <3>5. CASE s.cmd = "delete"
      <4> DEFINE b == s.from = Admin
      <4>1. posts'[n] = RemovePost(posts[n], s.id, s.from, b)
        BY <3>1, <3>5
      <4>2. b \in BOOLEAN
        OBVIOUS
      <4> HIDE DEF b
      <4>3. /\ HasPost(posts'[n], x) => HasPost(posts[n], x)
            /\ x # s.id /\ HasPost(posts[n], x) => HasPost(posts'[n], x)
        BY <1>3, <4>1, <4>2, RemovePostIds
      <4> QED BY <3>3, <3>5, <4>3
    <3>6. CASE s.cmd = "visualization"
      <4>1. posts'[n] = OnVisualization(posts[n], s.id)
        BY <3>1, <3>6
      <4>2. SameIds(posts[n], posts'[n])
        BY <1>3, <4>1, OnVisualizationKeeps
      <4> QED BY <3>3, <3>6, <4>2, SameIdsHas
    <3>7. CASE s.cmd = "none"
      <4>1. posts'[n] = posts[n]
        BY <3>1, <3>7
      <4> QED BY <3>3, <3>7, <4>1
    <3> QED BY <3>2, <3>4, <3>5, <3>6, <3>7 DEF News
  <2> QED BY <2>1, <2>2, <2>3 DEF OnReply
<1> QED BY <1>2, <1>4, <1>5, <1>6, <1>7 DEF Popped

\* Redis executes a command.
LEMMA HgetallEffect ==
  ASSUME ProvInv, NEW n \in Node, Redis(n), Head(pipe[n]).op = "hgetall"
  PROVE  \E e \in Event : Told(reply, reply', {n}, e) /\ e.type = "hgetall"
<1> DEFINE S == {i \in Id : views[i] > 0}
           visual(s) == [k \in DOMAIN s |-> [id |-> s[k], n |-> views[s[k]]]]
<1>1. TypeOK
  BY DEF ProvInv, Inv
<1>2. ExecHgetall(n)
  BY DEF Redis, ExecHvals, ExecSubscribe, ExecHset,
         ExecArchive, ExecHdel, ExecHincrby, ExecPublish, Exec
<1>3. PICK s \in SetToSeqs(S) : Answer(n, [type |-> "hgetall", visual |-> visual(s)])
  BY <1>2 DEF ExecHgetall
<1> DEFINE e == [type |-> "hgetall", visual |-> visual(s)]
<1>4. reply' \in [Node -> Seq(Event)]
  BY <1>2, ExecHgetallType DEF ProvInv
<1>5. Answer(n, e) /\ e.type = "hgetall"
  BY <1>3
<1> HIDE DEF e
<1>6. e \in Event
  <2>1. reply'[n] = Append(reply[n], e) /\ reply[n] \in Seq(Event)
    BY <1>1, <1>5 DEF Answer, TypeOK
  <2>2. Len(Append(reply[n], e)) = Len(reply[n]) + 1 /\ Len(reply[n]) \in Nat
        /\ Append(reply[n], e)[Len(reply[n]) + 1] = e
    BY <2>1
  <2>3. Append(reply[n], e) \in Seq(Event)
    BY <1>4, <2>1
  <2>4. Len(reply[n]) + 1 \in 1 .. Len(Append(reply[n], e))
    BY <2>2
  <2> QED BY <2>2, <2>3, <2>4
<1> QED BY <1>1, <1>5, <1>6, AnswerTells

\* Any command: what it does to the post and to what is on its way.
LEMMA ExecEffect ==
  ASSUME ProvInv, NEW n \in Node, Redis(n), NEW x \in Id, NEW c, c = Head(pipe[n])
  PROVE  /\ Popped(pipe, pipe', n) /\ c \in Command
         /\ Stored(stored', x) => Stored(stored, x) \/ c \in Hsets(x)
         /\ c \in Hdels(x) => ~Stored(stored', x)
         /\ UNCHANGED <<posts, running, serving, published, withdrawn>>
         /\ c.op \notin {"hvals", "hgetall", "publish"} => reply' = reply
         /\ c.op \notin {"hvals", "publish"} =>
              \A K \in {Brings(x), Announces(x), Hears(x)} :
                \A m \in Node : \A i : At(reply', m, i, K) <=> At(reply, m, i, K)
<1>1. TypeOK
  BY DEF ProvInv, Inv
<1>2. /\ pipe[n] # <<>> /\ pipe' = [pipe EXCEPT ![n] = Tail(@)]
      /\ UNCHANGED <<posts, running, serving, published, withdrawn>>
  BY DEF Redis, workerVars, history, ExecHvals, ExecHgetall, ExecSubscribe, ExecHset,
         ExecArchive, ExecHdel, ExecHincrby, ExecPublish, Exec
<1>3. c \in Command
  BY <1>1, <1>2, HeadTailProperties DEF TypeOK
<1>4. CASE ExecHset(n)
  <2>1. c.op = "hset" /\ stored' = stored \cup {c.post} /\ reply' = reply
    BY <1>4 DEF ExecHset, Exec
  <2>2. c \notin Hdels(x) /\ (c.post.id = x => c \in Hsets(x))
    BY <1>3, <2>1 DEF Hsets, Hdels
  <2> QED BY <1>2, <1>3, <2>1, <2>2 DEF Stored, Popped
<1>5. CASE ExecHdel(n)
  <2>1. c.op = "hdel" /\ stored' = {p \in stored : p.id # c.id} /\ reply' = reply
    BY <1>5 DEF ExecHdel, Exec
  <2>2. c \in Hdels(x) => c.id = x
    BY DEF Hdels
  <2> QED BY <1>2, <1>3, <2>1, <2>2 DEF Stored, Popped
<1>6. CASE ExecSubscribe(n) \/ ExecArchive(n) \/ ExecHincrby(n)
  <2>1. c.op # "hdel" /\ stored' = stored /\ reply' = reply
    BY <1>6 DEF ExecSubscribe, ExecArchive, ExecHincrby, Exec
  <2>2. c \notin Hdels(x)
    BY <2>1 DEF Hdels
  <2> QED BY <1>2, <1>3, <2>1, <2>2 DEF Popped
<1>7. CASE ExecHvals(n) \/ ExecPublish(n)
  <2>1. c.op \in {"hvals", "publish"} /\ stored' = stored
    BY <1>7 DEF ExecHvals, ExecPublish, Exec, redisVars
  <2>2. c \notin Hdels(x)
    BY <2>1 DEF Hdels
  <2> QED BY <1>2, <1>3, <2>1, <2>2 DEF Popped
<1>8. CASE ExecHgetall(n)
  <2>1. c.op = "hgetall" /\ stored' = stored
    BY <1>8 DEF ExecHgetall, Exec, redisVars
  <2>2. PICK e \in Event : Told(reply, reply', {n}, e) /\ e.type = "hgetall"
    BY <2>1, HgetallEffect
  <2>6. e \notin Brings(x) /\ e \notin Announces(x) /\ e \notin Hears(x)
    BY <2>2 DEF Brings, Announces, Hears
  <2>7. reply \in Queues /\ Told(reply, reply', {n}, e) /\ e \in Command \cup Event
    BY <1>1, <2>2, AreQueues
  <2>8. \A K \in {Brings(x), Announces(x), Hears(x)} :
          \A m \in Node : \A i : At(reply', m, i, K) <=> At(reply, m, i, K)
    BY <2>6, <2>7, ToldAt
  <2>9. c \notin Hdels(x)
    BY <2>1 DEF Hdels
  <2> QED BY <1>2, <1>3, <2>1, <2>8, <2>9 DEF Popped
<1> QED BY <1>4, <1>5, <1>6, <1>7, <1>8 DEF Redis

\* A list of a set has each element once.
LEMMA ListHasAll ==
  ASSUME NEW S, IsFiniteSet(S), NEW s \in SetToSeqs(S)
  PROVE  /\ \A p : p \in S <=> \E k \in DOMAIN s : s[k] = p
         /\ \A k, l \in DOMAIN s : s[k] = s[l] => k = l
<1> DEFINE D == 1 .. Cardinality(S)
<1>1. s \in [D -> S] /\ \A i, j \in D : i # j => s[i] # s[j]
  BY DEF SetToSeqs
<1>2. Cardinality(S) \in Nat
  BY FS_CardinalityType
<1>3. Cardinality(D) = Cardinality(S)
  <2>1. 1 \in Int /\ Cardinality(S) \in Int
    BY <1>2
  <2>2. Cardinality(D) = IF 1 > Cardinality(S) THEN 0 ELSE Cardinality(S) - 1 + 1
    BY <2>1, FS_Interval
  <2> QED BY <1>2, <2>2
<1> HIDE DEF D
<1>4. s \in Injection(D, S)
  BY <1>1 DEF Injection, IsInjective
<1>5. s \in Surjection(D, S)
  BY <1>3, <1>4, FS_Injection
<1> QED BY <1>1, <1>5 DEF Surjection

\* HVALS: the answer has each stored post once.
LEMMA HvalsEffect ==
  ASSUME ProvInv, NEW n \in Node, Redis(n), Head(pipe[n]).op = "hvals"
  PROVE  /\ stored' = stored
         /\ \E e \in Event : /\ Told(reply, reply', {n}, e) /\ e.type = "hvals"
                             /\ \A x \in Id : /\ e \in Brings(x) <=> Stored(stored, x)
                                              /\ e \notin Hears(x)
                             /\ Distinct(e.posts)
<1>1. TypeOK /\ IsFiniteSet(stored)
  BY DEF ProvInv, Inv
<1>2. ExecHvals(n)
  BY DEF Redis, ExecHgetall, ExecSubscribe, ExecHset,
         ExecArchive, ExecHdel, ExecHincrby, ExecPublish, Exec
<1>3. PICK s \in SetToSeqs(stored) : Answer(n, [type |-> "hvals", posts |-> s])
  BY <1>2 DEF ExecHvals
<1> DEFINE e == [type |-> "hvals", posts |-> s]
<1>4. s \in Seq(Post) /\ \A p : p \in stored <=> \E k \in DOMAIN s : s[k] = p
  <2>1. s \in Seq(stored)
    BY <1>1, <1>3, ListType
  <2>2. \A p : p \in stored <=> \E k \in DOMAIN s : s[k] = p
    BY <1>1, ListHasAll
  <2> QED BY <1>1, <2>1, <2>2 DEF TypeOK
<1>5. e \in Event /\ e.type = "hvals" /\ e.posts = s
  BY <1>4 DEF Event
<1>6. Answer(n, e)
  BY <1>3
<1> HIDE DEF e
<1>7. Told(reply, reply', {n}, e)
  BY <1>1, <1>6, AnswerTells
<1>8. \A x \in Id : HasPost(s, x) <=> Stored(stored, x)
  BY <1>4 DEF HasPost, Stored
<1>9. \A x \in Id : e \in Brings(x) <=> HasPost(s, x)
  BY <1>5 DEF Brings, Announces
<1>10. \A x \in Id : e \notin Hears(x)
  BY <1>5 DEF Hears
<1>11. Distinct(s)
  <2>1. ASSUME NEW k \in DOMAIN s, NEW l \in DOMAIN s, s[k].id = s[l].id PROVE k = l
    <3>1. s[k] \in stored /\ s[l] \in stored
      BY <1>4
    <3>2. s[k] = s[l]
      BY <2>1, <3>1 DEF ProvInv, Provenance, AsPublished
    <3> QED BY <1>1, <2>1, <3>2, ListHasAll
  <2> QED BY <2>1 DEF Distinct
<1>12. stored' = stored
  BY <1>2 DEF ExecHvals, redisVars
<1> QED BY <1>5, <1>7, <1>8, <1>9, <1>10, <1>11, <1>12

\* PUBLISH: all subscribed processes are told.
LEMMA PublishEffect ==
  ASSUME ProvInv, NEW n \in Node, Redis(n), NEW c, c = Head(pipe[n]), c.op = "publish",
         NEW e, e = [type |-> "push", news |-> c.news]
  PROVE  /\ stored' = stored /\ e \in Event /\ Told(reply, reply', subs, e)
         /\ \A x \in Id : /\ e \in Brings(x) <=> c \in Tells(x)
                          /\ e \in Announces(x) <=> c \in Tells(x)
                          /\ e \in Hears(x) <=> c \in Withdraws(x)
<1>1. TypeOK /\ pipe[n] # <<>>
  BY DEF ProvInv, Inv, Redis, ExecHvals, ExecHgetall, ExecSubscribe, ExecHset,
         ExecArchive, ExecHdel, ExecHincrby, ExecPublish, Exec
<1>2. ExecPublish(n)
  BY DEF Redis, ExecHvals, ExecHgetall, ExecSubscribe, ExecHset,
         ExecArchive, ExecHdel, ExecHincrby, Exec
<1>3. c \in Command
  BY <1>1, HeadTailProperties DEF TypeOK
<1>4. c.news \in News
  BY <1>3 DEF Command
<1>5. e \in Event /\ e.type = "push" /\ e.news = c.news
  BY <1>4 DEF Event
<1>6. stored' = stored /\ Told(reply, reply', subs, e)
  BY <1>2 DEF ExecPublish, redisVars, Told
<1>7. \A x \in Id : /\ e \in Brings(x) <=> c \in Tells(x)
                    /\ e \in Announces(x) <=> c \in Tells(x)
                    /\ e \in Hears(x) <=> c \in Withdraws(x)
  BY <1>3, <1>5 DEF Brings, Announces, Hears, Tells, Withdraws
<1> QED BY <1>5, <1>6, <1>7

-----------------------------------------------------------------------------
(* The posts come before the views: while a list of posts is on its way,    *)
(* nothing is asked about views.                                            *)

Lists == {e \in Event : e.type = "hvals"}
Visuals == {e \in Event : e.type = "hgetall"}
AsksViews == {c \in Command : c.op = "hgetall"}

ListFirst(n) ==
  \A i : At(reply, n, i, Lists) =>
    /\ i = 1
    /\ \A j : ~At(reply, n, j, Visuals) /\ ~At(pipe, n, j, AsksViews)
ListsFirst == \A n \in Node : ListFirst(n)

\* ListsFirst is kept when a process comes or goes, ...
LEMMA ListsConnect ==
  ASSUME TypeOK, Lines, Quiet, NEW n \in Node, Start(n) \/ Reconnect(n) \/ Stop(n)
  PROVE  ListsFirst'
<1>1. \A m \in Node : reply[m] = <<>>
  BY DEF Start, Reconnect, Stop, Idle
<1>2. \A m \in Node : reply'[m] = <<>>
  BY <1>1 DEF Start, Reconnect, Stop, TypeOK
<1> QED BY <1>2 DEF ListsFirst, ListFirst, At

\* ... when a client makes a request, ...
LEMMA ListsClient ==
  ASSUME TypeOK, ListsFirst, NEW n \in Node, NEW q \in Seq(Command), Request(n, q),
         \A k \in DOMAIN q : q[k].op # "hgetall", reply' = reply
  PROVE  ListsFirst'
<1>1. pipe \in Queues /\ q \in Entries /\ Appended(pipe, pipe', n, q)
  BY AreQueues, RequestAppends
<1>2. \A k \in DOMAIN q : q[k] \notin AsksViews
  BY DEF AsksViews
<1>3. \A m \in Node : \A i : At(pipe', m, i, AsksViews) <=> At(pipe, m, i, AsksViews)
  BY <1>1, <1>2, SameAt
<1> QED BY <1>3 DEF ListsFirst, ListFirst

\* ... when a process asks for the views only once it has the posts, ...
LEMMA ListsReply ==
  ASSUME TypeOK, ListsFirst, NEW n \in Node, OnReply(n)
  PROVE  ListsFirst'
<1>1. /\ reply[n] # <<>> /\ reply' = [reply EXCEPT ![n] = Tail(@)]
      /\ \A m \in Node : m # n => pipe'[m] = pipe[m]
  BY DEF OnReply, OnHvals, OnHgetall, OnNews, Receive, Request, TypeOK
<1>2. reply \in Queues /\ Popped(reply, reply', n)
  BY <1>1, AreQueues DEF Popped
<1>3. \A i : ~At(reply', n, i, Lists)
  <2>1. \A i : At(reply', n, i, Lists) => At(reply, n, i + 1, Lists) /\ i \in Nat /\ 1 <= i
    BY <1>2, TakenAt
  <2> QED BY <2>1 DEF ListsFirst, ListFirst
<1>4. \A m \in Node : m # n => reply'[m] = reply[m]
  BY <1>1 DEF TypeOK
<1> QED BY <1>1, <1>3, <1>4 DEF ListsFirst, ListFirst, At

\* ... and when Redis answers.
LEMMA ListsRedis ==
  ASSUME ProvInv, Lines, ListsFirst, NEW n \in Node, Redis(n)
  PROVE  ListsFirst'
<1> DEFINE c == Head(pipe[n])
<1>1. TypeOK /\ reply \in Queues /\ pipe \in Queues
  BY AreQueues DEF ProvInv, Inv
<1>2. /\ Popped(pipe, pipe', n) /\ pipe[n] # <<>>
      /\ c.op \in {"hvals", "hgetall", "publish"} \/ reply' = reply
  BY DEF Popped, Redis, ExecHvals, ExecHgetall, ExecSubscribe, ExecHset,
         ExecArchive, ExecHdel, ExecHincrby, ExecPublish, Exec
<1>3. \A m \in Node : \A j : At(pipe', m, j, AsksViews) => \E l : At(pipe, m, l, AsksViews)
  <2>1. /\ \A j : At(pipe', n, j, AsksViews) => At(pipe, n, j + 1, AsksViews)
        /\ \A m \in Node : \A j : m # n =>
             (At(pipe', m, j, AsksViews) <=> At(pipe, m, j, AsksViews))
    BY <1>1, <1>2, TakenAt
  <2> QED BY <2>1
<1>4. ASSUME NEW m \in Node,
             \A K \in {Lists, Visuals} : \A i : At(reply', m, i, K) => At(reply, m, i, K)
      PROVE  ListFirst(m)'
  BY <1>3, <1>4 DEF ListsFirst, ListFirst
<1>5. CASE c.op = "hvals"
  <2>1. Waits(pipe[n])
    <3>1. Len(pipe[n]) # 0 /\ Len(pipe[n]) \in Nat /\ DOMAIN pipe[n] = 1 .. Len(pipe[n])
          /\ pipe[n][1] = c
      BY <1>1, <1>2 DEF TypeOK
    <3>2. 1 \in DOMAIN pipe[n]
      BY <3>1
    <3> HIDE DEF c
    <3> QED BY <1>5, <3>1, <3>2 DEF Waits
  <2>2. /\ pipe[n] = HelloCmds /\ reply[n] = <<>>
        /\ \A m \in Node : m # n => reply[m] = <<>>
    <3>1. Loading(n)
      BY <1>2, <2>1 DEF Lines, Down, Listening
    <3>2. Head(<<[op |-> "subscribe"]>>).op = "subscribe"
          /\ Head(<<[op |-> "subscribe"], [op |-> "hgetall"]>>).op = "subscribe"
      OBVIOUS
    <3> QED BY <1>5, <3>1, <3>2 DEF Loading
  <2>3. \A j : ~At(pipe, n, j, AsksViews)
    <3>1. HelloCmds[1].op = "hvals" /\ HelloCmds[2].op = "subscribe"
          /\ DOMAIN HelloCmds = {1, 2}
      BY DEF HelloCmds
    <3> QED BY <2>2, <3>1 DEF At, AsksViews
  <2>4. PICK e \in Event : Told(reply, reply', {n}, e) /\ e.type = "hvals"
    BY <1>5, HvalsEffect
  <2>5. \A K : \A m \in Node : \A i : At(reply', m, i, K) =>
          m = n /\ e \in K /\ i = 1
    <3>1. e \in Command \cup Event /\ Len(<<>>) + 1 = 1
      OBVIOUS
    <3>2. \A K : \A m \in Node : \A i : ~At(reply, m, i, K)
      BY <2>2 DEF At
    <3> QED BY <1>1, <2>2, <2>4, <3>1, <3>2, ToldAt
  <2>6. e \notin Visuals
    BY <2>4 DEF Visuals
  <2> QED BY <1>3, <2>3, <2>5, <2>6 DEF ListsFirst, ListFirst
<1>6. CASE c.op = "hgetall"
  <2>1. PICK e \in Event : Told(reply, reply', {n}, e) /\ e.type = "hgetall"
    BY <1>6, HgetallEffect
  <2>2. e \in Command \cup Event /\ e \notin Lists
    BY <2>1 DEF Lists
  <2>3. \A K : \A m \in Node : \A i : At(reply', m, i, K) =>
          At(reply, m, i, K) \/ (m = n /\ e \in K)
    BY <1>1, <2>1, <2>2, ToldAt
  <2>4. \A i : ~At(reply, n, i, Lists)
    <3>1. c \in AsksViews
      <4>1. c \in Command
        BY <1>1, <1>2, HeadTailProperties DEF TypeOK
      <4> QED BY <1>6, <4>1 DEF AsksViews
    <3>2. At(pipe, n, 1, AsksViews)
      BY <1>1, <1>2, <3>1, TakenAt
    <3> QED BY <3>2 DEF ListsFirst, ListFirst
  <2>5. ListFirst(n)'
    BY <2>2, <2>3, <2>4 DEF ListFirst
  <2>6. \A m \in Node : m # n => ListFirst(m)'
    BY <1>4, <2>3
  <2> QED BY <2>5, <2>6 DEF ListsFirst
<1>7. CASE c.op = "publish"
  <2> DEFINE e == [type |-> "push", news |-> c.news]
  <2>1. e \in Event /\ Told(reply, reply', subs, e) /\ e.type = "push"
    BY <1>7, PublishEffect
  <2> HIDE DEF e
  <2>2. e \in Command \cup Event /\ e \notin Lists /\ e \notin Visuals
    BY <2>1 DEF Lists, Visuals
  <2>3. \A K \in {Lists, Visuals} : \A m \in Node : \A i :
          At(reply', m, i, K) => At(reply, m, i, K)
    BY <1>1, <2>1, <2>2, ToldAt
  <2> QED BY <1>4, <2>3 DEF ListsFirst
<1>8. CASE reply' = reply
  <2>1. \A m \in Node : ListFirst(m)'
    BY <1>4, <1>8
  <2> QED BY <2>1 DEF ListsFirst
<1> QED BY <1>2, <1>5, <1>6, <1>7, <1>8

-----------------------------------------------------------------------------
(* A process that runs has every stored post, or it will.                   *)

Reaches(n, x) ==
  running[n] /\ Stored(stored, x) =>
    \/ HasPost(posts[n], x)
    \/ ~serving[n] /\ pipe[n] = HelloCmds
    \/ \E i : At(reply, n, i, Announces(x))
    \/ ~serving[n] /\ \E i : At(reply, n, i, Brings(x))
    \/ Somewhere(pipe, Tells(x))
NewsOf(x) == Course(x) /\ \A n \in Node : Reaches(n, x)

\* A process that starts will ask for all posts; one that reconnects has them.
LEMMA ConnectNews ==
  ASSUME TypeOK, Lines, Quiet, NEW n \in Node, Start(n) \/ Reconnect(n) \/ Stop(n),
         NEW x \in Id, NewsOf(x)
  PROVE  NewsOf(x)'
<1>1. /\ Idle
      /\ \A K : \A m \in Node : \A i : /\ ~At(pipe, m, i, K)
                                       /\ ~At(reply, m, i, K) /\ ~At(reply', m, i, K)
      /\ \A K \in {Hsets(x), Hdels(x), Tells(x), Withdraws(x)} :
           \A m \in Node : \A i : ~At(pipe', m, i, K)
      /\ \A m \in Node : posts'[m] = posts[m] \/ (~running'[m] /\ posts'[m] = <<>>)
      /\ UNCHANGED <<stored, published, withdrawn>>
  BY ConnectEffect
<1>2. \A m \in Node : HasPost(posts'[m], x) => HasPost(posts[m], x)
  BY <1>1 DEF HasPost
<1>3. Course(x)'
  BY <1>1, <1>2, CourseKept DEF NewsOf, Somewhere
<1>4. ASSUME NEW m \in Node, running'[m], Stored(stored', x)
      PROVE  HasPost(posts'[m], x) \/ (~serving'[m] /\ pipe'[m] = HelloCmds)
  <2>1. CASE running[m]
    <3>1. pipe[m] = <<>> /\ HelloCmds # <<>>
      BY <1>1 DEF Idle, HelloCmds
    <3>2. HasPost(posts[m], x)
      BY <1>1, <1>4, <2>1, <3>1 DEF NewsOf, Reaches, Somewhere
    <3> QED BY <1>1, <1>4, <3>2
  <2>2. CASE ~running[m]
    <3>1. Start(n) /\ m = n
      BY <1>4, <2>2 DEF Start, Reconnect, Stop, TypeOK, workerVars
    <3>2. ~serving[n]
      BY <2>2, <3>1 DEF Lines, Down, Loading, Listening
    <3>3. pipe'[n] = <<>> \o HelloCmds /\ serving' = serving
      BY <1>1, <3>1 DEF Start, Request, TypeOK, Idle
    <3>4. pipe'[n] = HelloCmds
      BY <3>3 DEF HelloCmds
    <3> QED BY <3>1, <3>2, <3>3, <3>4
  <2> QED BY <2>1, <2>2
<1> QED BY <1>3, <1>4 DEF NewsOf, Reaches

\* A client's request that leaves the post as it is.
LEMMA SilentNews ==
  ASSUME TypeOK, Lines, Quiet, NEW n \in Node, NEW q \in Seq(Command), Request(n, q),
         Served(n), UNCHANGED <<running, posts, serving, stored, reply>>,
         NEW x \in Id, NewsOf(x), Silent(q, x), published'[x] = published[x],
         x \in withdrawn' => x \in withdrawn
  PROVE  NewsOf(x)'
<1>1. \A K \in {Hsets(x), Hdels(x), Tells(x), Withdraws(x)} :
        \A m \in Node : \A i : At(pipe', m, i, K) <=> At(pipe, m, i, K)
  BY SilentEffect
<1>2. Course(x)'
  BY <1>1, CourseKept DEF NewsOf
<1>3. \A m \in Node : pipe[m] # HelloCmds
  <2>1. ASSUME NEW m \in Node, pipe[m] = HelloCmds PROVE Waits(pipe[m])
    BY <2>1 DEF Waits, HelloCmds
  <2> QED BY <2>1 DEF Served, Connecting, Waits
<1> QED BY <1>1, <1>2, <1>3 DEF NewsOf, Reaches, Somewhere

\* A new post is not stored before it is announced in a pipeline.
LEMMA PublishNews ==
  ASSUME TypeOK, Lines, Quiet, NEW n \in Node, NEW p \in Post, NEW x \in Id, p.id = x,
         NewsOf(x), published[x] = None, published'[x] # None,
         Request(n, PublishCmds(p)),
         UNCHANGED <<posts, stored, reply, withdrawn>>
  PROVE  NewsOf(x)'
<1>1. Course(x)'
  BY CoursePublish DEF NewsOf
<1>2. ~Stored(stored', x)
  BY DEF NewsOf, Course, Unheard
<1> QED BY <1>1, <1>2 DEF NewsOf, Reaches

\* A deletion takes no news of the post back.
LEMMA DeleteNews ==
  ASSUME TypeOK, Lines, Quiet, NEW n \in Node, NEW x \in Id, NEW u \in User, NEW p \in Post,
         NewsOf(x), HasPost(posts[n], x), Served(n), Request(n, DeleteCmds(x, u, p)),
         UNCHANGED <<running, posts, serving, stored, reply, published>>
  PROVE  NewsOf(x)'
<1>1. Course(x)'
  BY CourseDelete DEF NewsOf
<1>2. \A m \in Node : pipe[m] # HelloCmds
  <2>1. ASSUME NEW m \in Node, pipe[m] = HelloCmds PROVE Waits(pipe[m])
    BY <2>1 DEF Waits, HelloCmds
  <2> QED BY <2>1 DEF Served, Connecting, Waits
<1>3. Somewhere(pipe, Tells(x)) => Somewhere(pipe', Tells(x))
  <2>1. pipe \in Queues /\ Appended(pipe, pipe', n, DeleteCmds(x, u, p))
    BY AreQueues, RequestAppends
  <2>2. DeleteCmds(x, u, p) \in Entries
    BY DeleteKinds
  <2>3. \A m \in Node : \A i : At(pipe, m, i, Tells(x)) => At(pipe', m, i, Tells(x))
    BY <2>1, <2>2, AddedAt
  <2> QED BY <2>3 DEF Somewhere
<1> QED BY <1>1, <1>2, <1>3 DEF NewsOf, Reaches

\* Taking what brings the post gives the post to the process.
LEMMA ReplyNews ==
  ASSUME ProvInv, Lines, ListsFirst, NEW n \in Node, OnReply(n), NEW x \in Id, NewsOf(x)
  PROVE  NewsOf(x)'
<1> DEFINE e == Head(reply[n])
<1>1. /\ Popped(reply, reply', n) /\ e \in Event
      /\ \A m \in Node : m # n => posts'[m] = posts[m]
      /\ HasPost(posts'[n], x) => HasPost(posts[n], x) \/ e \in Brings(x)
      /\ HasPost(posts[n], x) \/ e \in Brings(x) => HasPost(posts'[n], x) \/ e \in Hears(x)
      /\ \A K \in {Hsets(x), Hdels(x), Tells(x), Withdraws(x)} :
           \A m \in Node : \A i : At(pipe', m, i, K) <=> At(pipe, m, i, K)
      /\ UNCHANGED <<stored, published, withdrawn, running>>
  BY ReplyEffect
<1> HIDE DEF e
<1>2. reply \in Queues /\ reply[n] # <<>> /\ e = Head(reply[n])
  BY <1>1, AreQueues DEF ProvInv, Inv, Popped, e
<1>3. \A K : /\ Somewhere(reply', K) => Somewhere(reply, K)
             /\ e \in K => Somewhere(reply, K)
  BY <1>1, <1>2, SomewherePopped
<1>4. Course(x)'
  BY <1>1, <1>3, CourseKept DEF NewsOf
<1>5. Stored(stored, x) => e \notin Hears(x)
  BY <1>3 DEF NewsOf, Course
<1>6. \A m \in Node : pipe[m] # HelloCmds
  <2>1. ASSUME NEW m \in Node, pipe[m] = HelloCmds PROVE Loading(m)
    <3>1. pipe[m] # <<>> /\ Waits(pipe[m])
      BY <2>1 DEF Waits, HelloCmds
    <3> QED BY <3>1 DEF Lines, Down, Listening
  <2>2. HelloCmds # <<[op |-> "subscribe"]>>
        /\ HelloCmds # <<[op |-> "subscribe"], [op |-> "hgetall"]>>
    <3>1. HelloCmds[1].op = "hvals" /\ <<[op |-> "subscribe"]>>[1].op = "subscribe"
          /\ <<[op |-> "subscribe"], [op |-> "hgetall"]>>[1].op = "subscribe"
      BY DEF HelloCmds
    <3> QED BY <3>1
  <2> QED BY <1>2, <2>1, <2>2 DEF Loading
<1>7. \A K : \A i : At(reply, n, i, K) => e \in K \/ \E j : At(reply', n, j, K)
  BY <1>1, <1>2, TakenAt
<1>8. \A m \in Node : m # n => reply'[m] = reply[m]
  BY <1>1, <1>2 DEF Popped, Queues
<1>9. serving'[n] = serving[n] \/ e \in Visuals
  BY <1>1, <1>2 DEF ProvInv, Inv, OnReply, OnHvals, OnHgetall, OnNews, Receive, TypeOK, Visuals
<1>10. \A m \in Node : m # n => serving'[m] = serving[m]
  BY DEF ProvInv, Inv, OnReply, OnHvals, OnHgetall, OnNews, TypeOK
<1>11. e \in Visuals =>
         \A i : At(reply, n, i, Brings(x)) => At(reply, n, i, Announces(x))
  <2>1. e \in Visuals => At(reply, n, 1, Visuals)
    BY <1>2, TakenAt, <1>1
  <2>2. Brings(x) \subseteq Announces(x) \cup Lists
    BY DEF Brings, Lists
  <2>3. e \in Visuals => \A i : ~At(reply, n, i, Lists)
    BY <2>1 DEF ListsFirst, ListFirst
  <2> QED BY <2>2, <2>3 DEF At
<1>12. Announces(x) \subseteq Brings(x)
  BY DEF Brings
<1>13. ASSUME NEW m \in Node, running[m], Stored(stored, x)
      PROVE  \/ HasPost(posts'[m], x)
             \/ \E i : At(reply', m, i, Announces(x))
             \/ ~serving'[m] /\ \E i : At(reply', m, i, Brings(x))
             \/ Somewhere(pipe', Tells(x))
  <2>1. \/ HasPost(posts[m], x)
        \/ \E i : At(reply, m, i, Announces(x))
        \/ ~serving[m] /\ \E i : At(reply, m, i, Brings(x))
        \/ Somewhere(pipe, Tells(x))
    BY <1>6, <1>13 DEF NewsOf, Reaches
  <2>2. Somewhere(pipe, Tells(x)) => Somewhere(pipe', Tells(x))
    BY <1>1 DEF Somewhere
  <2>3. CASE m # n
    BY <1>1, <1>8, <1>10, <2>1, <2>2, <2>3 DEF At
  <2>4. CASE m = n
    <3>1. HasPost(posts[n], x) \/ e \in Brings(x) => HasPost(posts'[n], x)
      BY <1>1, <1>5, <1>13
    <3>2. (\E i : At(reply, n, i, Announces(x))) =>
            HasPost(posts'[n], x) \/ \E i : At(reply', n, i, Announces(x))
      BY <1>7, <1>12, <3>1
    <3>3. (\E i : At(reply, n, i, Brings(x))) =>
            HasPost(posts'[n], x) \/ \E i : At(reply', n, i, Brings(x))
      BY <1>7, <3>1
    <3>4. (~serving[n] /\ \E i : At(reply, n, i, Brings(x))) =>
            \/ ~serving'[n]
            \/ \E i : At(reply, n, i, Announces(x))
      BY <1>9, <1>11
    <3> QED BY <2>1, <2>2, <2>4, <3>1, <3>2, <3>3, <3>4
  <2> QED BY <2>3, <2>4
<1> QED BY <1>1, <1>4, <1>13 DEF NewsOf, Reaches

\* Redis keeps the course of the post.
LEMMA RedisCourse ==
  ASSUME ProvInv, NEW n \in Node, Redis(n), NEW x \in Id, Course(x)
  PROVE  /\ Course(x)'
         /\ \A K \in {Brings(x), Announces(x)} :
              \A m \in Node : \A i : At(reply, m, i, K) => At(reply', m, i, K)
<1> DEFINE c == Head(pipe[n])
<1>1. /\ Popped(pipe, pipe', n) /\ c \in Command
      /\ Stored(stored', x) => Stored(stored, x) \/ c \in Hsets(x)
      /\ c \in Hdels(x) => ~Stored(stored', x)
      /\ UNCHANGED <<posts, running, serving, published, withdrawn>>
      /\ c.op \notin {"hvals", "publish"} =>
           \A K \in {Brings(x), Announces(x), Hears(x)} :
             \A m \in Node : \A i : At(reply', m, i, K) <=> At(reply, m, i, K)
  BY ExecEffect
<1>2. TypeOK /\ reply \in Queues
  BY AreQueues DEF ProvInv, Inv
<1> DEFINE Told1 ==
             /\ \A K \in {Brings(x), Announces(x)} :
                  \A m \in Node : \A i : At(reply, m, i, K) => At(reply', m, i, K)
             /\ Somewhere(reply', Brings(x)) =>
                  Somewhere(reply, Brings(x)) \/ c \in Tells(x) \/ Stored(stored, x)
             /\ Somewhere(reply', Hears(x)) => Somewhere(reply, Hears(x)) \/ c \in Withdraws(x)
<1>3. ASSUME c.op = "hvals" PROVE Told1
  <2>1. PICK e \in Event : /\ Told(reply, reply', {n}, e)
                           /\ e \in Brings(x) <=> Stored(stored, x)
                           /\ e \notin Hears(x)
    BY <1>3, HvalsEffect
  <2>2. e \in Command \cup Event
    OBVIOUS
  <2> QED BY <1>2, <2>1, <2>2, ToldAt DEF Somewhere
<1>4. ASSUME c.op = "publish" PROVE Told1
  <2> DEFINE e == [type |-> "push", news |-> c.news]
  <2>1. /\ e \in Event /\ Told(reply, reply', subs, e)
        /\ e \in Brings(x) <=> c \in Tells(x)
        /\ e \in Hears(x) <=> c \in Withdraws(x)
    BY <1>4, PublishEffect
  <2> HIDE DEF e
  <2>2. e \in Command \cup Event
    BY <2>1
  <2> QED BY <1>2, <2>1, <2>2, ToldAt DEF Somewhere
<1>5. ASSUME c.op \notin {"hvals", "publish"} PROVE Told1
  BY <1>1, <1>5 DEF Somewhere
<1>6. Told1
  BY <1>3, <1>4, <1>5
<1> HIDE DEF c
<1>7. c = Head(pipe[n])
  BY DEF c
<1>8. Course(x)'
  BY <1>1, <1>2, <1>6, <1>7, CourseExec
<1> QED BY <1>6, <1>8

\* While a command of n is executed nobody else is loading.
LEMMA LoadingAlone ==
  ASSUME Lines, NEW n \in Node, pipe[n] # <<>> \/ reply[n] # <<>>,
         NEW m \in Node, Waits(pipe[m]) \/ (running[m] /\ m \notin subs)
  PROVE  m = n /\ Loading(n)
<1>1. Loading(m)
  <2>1. ~Waits(<<>>)
    BY DEF Waits
  <2> QED BY <2>1 DEF Lines, Down, Listening
<1> QED BY <1>1 DEF Loading

\* Who is not loading is subscribed and is told; who is loading gets the list.
LEMMA RedisNews ==
  ASSUME ProvInv, Lines, NEW n \in Node, Redis(n), NEW x \in Id, NewsOf(x)
  PROVE  NewsOf(x)'
<1> DEFINE c == Head(pipe[n])
<1>1. /\ Popped(pipe, pipe', n) /\ c \in Command
      /\ Stored(stored', x) => Stored(stored, x) \/ c \in Hsets(x)
      /\ UNCHANGED <<posts, running, serving>>
  BY ExecEffect
<1>2. TypeOK /\ reply \in Queues /\ pipe \in Queues /\ pipe[n] # <<>>
  BY <1>1, AreQueues DEF ProvInv, Inv, Popped
<1>3. /\ Course(x)'
      /\ \A K \in {Brings(x), Announces(x)} :
           \A m \in Node : \A i : At(reply, m, i, K) => At(reply', m, i, K)
  BY RedisCourse DEF NewsOf
<1>4. /\ c \in Hsets(x) => Somewhere(pipe, Tells(x))
      /\ Somewhere(pipe, Tells(x)) => c \in Tells(x) \/ Somewhere(pipe', Tells(x))
  <2>1. c \in Hsets(x) => Somewhere(pipe, Hsets(x))
    BY <1>1, <1>2, SomewherePopped
  <2>2. Somewhere(pipe, Hsets(x)) => Somewhere(pipe, Tells(x))
    BY DEF NewsOf, Course, Queued, Somewhere
  <2> QED BY <1>1, <1>2, <2>1, <2>2, SomewherePopped
<1>5. c \in Tells(x) => c.op = "publish" /\ c \notin Hsets(x)
  BY DEF Tells, Hsets
<1>6. ASSUME NEW m \in Node, running[m], Stored(stored, x), c \in Tells(x)
      PROVE  \E i : At(reply', m, i, Announces(x))
  <2>1. m \in subs
    <3>1. ASSUME m \notin subs PROVE FALSE
      <4>1. Loading(n)
        BY <1>2, <1>6, <3>1, LoadingAlone
      <4>2. c.op # "publish"
        BY <4>1 DEF Loading, HelloCmds
      <4> QED BY <1>5, <1>6, <4>2
    <3> QED BY <3>1
  <2> DEFINE e == [type |-> "push", news |-> c.news]
  <2>2. e \in Event /\ Told(reply, reply', subs, e) /\ e \in Announces(x)
    BY <1>5, <1>6, PublishEffect
  <2> HIDE DEF e
  <2>3. e \in Command \cup Event
    BY <2>2
  <2>4. At(reply', m, Len(reply[m]) + 1, Announces(x))
    BY <1>2, <2>1, <2>2, <2>3, ToldAt
  <2> QED BY <2>4
<1>7. ASSUME NEW m \in Node, Stored(stored, x), pipe[m] = HelloCmds
      PROVE  \E i : At(reply', m, i, Brings(x))
  <2>1. Waits(pipe[m])
    BY <1>7 DEF Waits, HelloCmds
  <2>2. m = n
    BY <1>2, <2>1, LoadingAlone
  <2>3. Head(pipe[n]).op = "hvals"
    BY <1>7, <2>2 DEF HelloCmds
  <2>4. PICK e \in Event : Told(reply, reply', {n}, e) /\ (e \in Brings(x) <=> Stored(stored, x))
    BY <1>7, <2>3, HvalsEffect
  <2>5. e \in Command \cup Event
    OBVIOUS
  <2> DEFINE S == {n}
  <2>6. e \in Brings(x) /\ m \in S /\ Told(reply, reply', S, e)
    BY <1>7, <2>2, <2>4
  <2> HIDE DEF S
  <2>7. At(reply', m, Len(reply[m]) + 1, Brings(x))
    BY <1>2, <2>5, <2>6, ToldAt
  <2> QED BY <2>7
<1> HIDE DEF c
<1>8. ASSUME NEW m \in Node, running'[m], Stored(stored', x)
      PROVE  \/ HasPost(posts'[m], x)
             \/ \E i : At(reply', m, i, Announces(x))
             \/ ~serving'[m] /\ \E i : At(reply', m, i, Brings(x))
             \/ Somewhere(pipe', Tells(x))
  <2>1. CASE c \in Hsets(x)
    BY <1>4, <1>5, <2>1
  <2>2. CASE c \notin Hsets(x)
    <3>1. running[m] /\ Stored(stored, x)
      BY <1>1, <1>8, <2>2
    <3>2. \/ HasPost(posts[m], x)
          \/ ~serving[m] /\ pipe[m] = HelloCmds
          \/ \E i : At(reply, m, i, Announces(x))
          \/ ~serving[m] /\ \E i : At(reply, m, i, Brings(x))
          \/ Somewhere(pipe, Tells(x))
      BY <3>1 DEF NewsOf, Reaches
    <3> QED BY <1>1, <1>3, <1>4, <1>6, <1>7, <3>1, <3>2
  <2> QED BY <2>1, <2>2
<1> QED BY <1>3, <1>8 DEF NewsOf, Reaches

-----------------------------------------------------------------------------
(* All of it together, preserved by every step.                             *)

\* The post of an id says where it belongs.
Coded ==
  \A i \in Id : published[i] # None =>
    published[i].location = Code[i].location /\ published[i].product = Code[i].product
ShownInv ==
  ViewsOnly /\ ProvInv /\ Lines /\ ListsFirst /\ Coded /\ \A x \in Id : NewsOf(x)

LEMMA InitShown == ASSUME Init, ViewsOnly PROVE ShownInv
<1>1. ProvInv
  BY InitInv, InitProv DEF ProvInv
<1>2. \A K : \A n \in Node : \A i : ~At(pipe, n, i, K) /\ ~At(reply, n, i, K)
  BY DEF Init, At
<1>3. Lines /\ ListsFirst /\ Coded
  BY <1>2 DEF Init, Lines, Down, ListsFirst, ListFirst, Coded
<1>4. \A n \in Node : \A x : ~HasPost(posts[n], x)
  BY DEF Init, HasPost
<1>5. ASSUME NEW x \in Id PROVE NewsOf(x)
  <2>1. ~Stored(stored, x) /\ x \notin withdrawn /\ \A n \in Node : ~running[n]
    BY DEF Init, Stored
  <2>2. \A K : ~Somewhere(pipe, K) /\ ~Somewhere(reply, K)
    BY <1>2 DEF Somewhere
  <2>3. Queued(pipe, x)
    BY <1>2 DEF Queued
  <2> QED BY <1>4, <2>1, <2>2, <2>3 DEF NewsOf, Reaches, Course, Unheard, HdelFirst
<1> QED BY <1>1, <1>3, <1>5 DEF ShownInv

\* What a client's request asks of Redis.
LEMMA ClientLines ==
  ASSUME ShownInv, Quiet, NEW n \in Node, NEW q \in Seq(Command), ~Waits(q),
         \A k \in DOMAIN q : q[k].op # "hgetall", Served(n), Request(n, q),
         UNCHANGED <<workerVars, subs, reply>>
  PROVE  Lines' /\ ListsFirst'
<1>1. TypeOK /\ Lines /\ ListsFirst
  BY DEF ShownInv, ProvInv, Inv
<1>2. UNCHANGED <<running, serving, posts, subs, reply>>
  BY DEF workerVars
<1> QED BY <1>1, <1>2, LinesClient, ListsClient

LEMMA NoViewsAsked ==
  /\ \A b \in Bodies : \A k \in DOMAIN ViewCmds(b) : ViewCmds(b)[k].op # "hgetall"
  /\ \A p \in Post : \A k \in DOMAIN PublishCmds(p) : PublishCmds(p)[k].op # "hgetall"
  /\ \A id \in Id, u \in User, p \in Post :
       \A k \in DOMAIN DeleteCmds(id, u, p) : DeleteCmds(id, u, p)[k].op # "hgetall"
  BY DEF ViewCmds, PublishCmds, DeleteCmds, Publish

LEMMA ViewShown ==
  ASSUME ShownInv, Quiet, NEW n \in Node, NEW b \in Bodies, OnView(n, b)
  PROVE  Lines' /\ ListsFirst' /\ Coded' /\ \A x \in Id : NewsOf(x)'
<1> DEFINE q == ViewCmds(b)
<1>1. /\ TypeOK /\ Lines /\ Served(n) /\ Request(n, q)
      /\ UNCHANGED <<workerVars, subs, stored, reply, published, withdrawn>>
  BY DEF ShownInv, ProvInv, Inv, OnView, redisVars
<1>2. q \in Seq(Command) /\ ~Waits(q) /\ \A k \in DOMAIN q : q[k].op # "hgetall"
  BY CmdTypes, NoWaits, NoViewsAsked
<1>3. \A x : Silent(q, x)
  BY SilentCmds DEF ShownInv
<1> HIDE DEF q
<1>4. Lines' /\ ListsFirst'
  BY <1>1, <1>2, ClientLines
<1>5. Coded'
  BY <1>1 DEF ShownInv, Coded
<1>6. UNCHANGED <<running, posts, serving, stored, reply>>
  BY <1>1 DEF workerVars
<1>7. ASSUME NEW x \in Id PROVE NewsOf(x)'
  BY <1>1, <1>2, <1>3, <1>6, SilentNews DEF ShownInv
<1> QED BY <1>4, <1>5, <1>7

LEMMA PublishShown ==
  ASSUME ShownInv, Quiet, NEW n \in Node, NEW u \in User, NEW id \in Id, OnPublish(n, u, id)
  PROVE  Lines' /\ ListsFirst' /\ Coded' /\ \A x \in Id : NewsOf(x)'
<1> DEFINE p == [id |-> id, from |-> u, visualizations |-> 0,
                 location |-> Code[id].location, product |-> Code[id].product]
<1>1. p \in Post /\ p.id = id /\ p.location = Code[id].location /\ p.product = Code[id].product
  <2>1. Code[id] \in [location : Seq(Nat), product : Seq(Nat)]
    BY PostsAssumption
  <2> QED BY <2>1 DEF Post
<1>2. /\ TypeOK /\ Lines /\ Served(n) /\ Request(n, PublishCmds(p))
      /\ published[id] = None /\ published' = [published EXCEPT ![id] = p]
      /\ UNCHANGED <<workerVars, subs, stored, reply, withdrawn>>
  BY DEF ShownInv, ProvInv, Inv, OnPublish, redisVars
<1> HIDE DEF p
<1>3. published'[id] = p /\ p # None /\ \A i \in Id : i # id => published'[i] = published[i]
  BY <1>1, <1>2, NoneIsNoPost DEF TypeOK
<1> DEFINE q == PublishCmds(p)
<1>4. q \in Seq(Command) /\ ~Waits(q) /\ \A k \in DOMAIN q : q[k].op # "hgetall"
  BY <1>1, CmdTypes, NoWaits, NoViewsAsked
<1>5. \A x : x # id => Silent(q, x)
  BY <1>1, SilentCmds
<1>6. Request(n, q)
  BY <1>2
<1>7. UNCHANGED <<running, posts, serving, stored, reply>>
  BY <1>2 DEF workerVars
<1>8. NewsOf(id)'
  BY <1>1, <1>2, <1>3, <1>7, PublishNews DEF ShownInv
<1> HIDE DEF q
<1>9. Lines' /\ ListsFirst'
  BY <1>2, <1>4, <1>6, ClientLines
<1>10. Coded'
  BY <1>1, <1>3 DEF ShownInv, Coded
<1>11. ASSUME NEW x \in Id, x # id PROVE NewsOf(x)'
  BY <1>2, <1>3, <1>4, <1>5, <1>6, <1>7, <1>11, SilentNews DEF ShownInv
<1> QED BY <1>8, <1>9, <1>10, <1>11

\* The post that a client names is there and is the one that is deleted.
LEMMA DeleteNamed ==
  ASSUME Inv, Seen, NEW n \in Node, NEW u \in User, NEW id \in Id, OnDelete(n, u, id)
  PROVE  /\ HasPost(posts[n], id)
         /\ \E p \in Post : Request(n, DeleteCmds(id, u, p))
         /\ UNCHANGED <<workerVars, subs, stored, reply, published>>
         /\ \A x \in Id : x # id /\ x \in withdrawn' => x \in withdrawn
<1>1. posts[n] \in Seq(Post) /\ ById(posts[n]) /\ Place(posts[n], id) # 0
  BY SortedIsById DEF Inv, TypeOK, OnDelete
<1>2. HasPost(posts[n], id)
  BY <1>1, PlaceFinds DEF OnDelete, HasPost
<1>3. PICK p \in Get(posts[n], id) : Request(n, DeleteCmds(id, u, p))
  BY DEF OnDelete
<1>4. p \in Post
  <2>1. \E k \in DOMAIN posts[n] : p = posts[n][k]
    BY <1>1, GetFinds
  <2> QED BY <1>1, <2>1
<1>5. /\ UNCHANGED <<workerVars, subs, stored, reply, published>>
      /\ \A x \in Id : x # id /\ x \in withdrawn' => x \in withdrawn
  BY DEF OnDelete, redisVars
<1> QED BY <1>2, <1>3, <1>4, <1>5

LEMMA DeleteShown ==
  ASSUME ShownInv, Quiet, Seen, NEW n \in Node, NEW u \in User, NEW id \in Id,
         OnDelete(n, u, id)
  PROVE  Lines' /\ ListsFirst' /\ Coded' /\ \A x \in Id : NewsOf(x)'
<1>1. TypeOK /\ Lines /\ Served(n)
  BY DEF ShownInv, ProvInv, Inv, OnDelete
<1>2. /\ HasPost(posts[n], id)
      /\ \E p \in Post : Request(n, DeleteCmds(id, u, p))
      /\ UNCHANGED <<workerVars, subs, stored, reply, published>>
      /\ \A x \in Id : x # id /\ x \in withdrawn' => x \in withdrawn
  BY DeleteNamed DEF ShownInv, ProvInv
<1>3. PICK p \in Post : Request(n, DeleteCmds(id, u, p))
  BY <1>2
<1> DEFINE q == DeleteCmds(id, u, p)
<1>4. q \in Seq(Command) /\ ~Waits(q) /\ \A k \in DOMAIN q : q[k].op # "hgetall"
  BY CmdTypes, NoWaits, NoViewsAsked
<1>5. \A x : x # id => Silent(q, x)
  BY SilentCmds
<1>6. Request(n, q)
  BY <1>3
<1>7. UNCHANGED <<running, posts, serving, stored, reply>>
  BY <1>2 DEF workerVars
<1>8. NewsOf(id)'
  BY <1>1, <1>2, <1>3, <1>7, DeleteNews DEF ShownInv
<1> HIDE DEF q
<1>9. Lines' /\ ListsFirst'
  BY <1>1, <1>2, <1>4, <1>6, ClientLines
<1>10. Coded'
  BY <1>2 DEF ShownInv, Coded
<1>11. ASSUME NEW x \in Id, x # id PROVE NewsOf(x)'
  BY <1>1, <1>2, <1>4, <1>5, <1>6, <1>7, <1>11, SilentNews DEF ShownInv
<1> QED BY <1>8, <1>9, <1>10, <1>11

\* ShownInv is inductive under Quiet and Seen.
LEMMA NextShown ==
  ASSUME ShownInv, [Next]_vars, Quiet, Seen
  PROVE  ShownInv'
<1>1. ProvInv' /\ TypeOK
  BY NextInv, NextProv DEF ShownInv, ProvInv, Inv
<1> DEFINE Rest == Lines /\ ListsFirst /\ Coded /\ \A x \in Id : NewsOf(x)
<1>2. CASE UNCHANGED vars
  <2>1. Lines' /\ ListsFirst' /\ Coded'
    BY <1>2 DEF ShownInv, vars, workerVars, redisVars, history, Lines, Down, Loading, Listening,
                ListsFirst, ListFirst, At, Coded
  <2>2. ASSUME NEW x \in Id PROVE NewsOf(x)'
    BY <1>2 DEF ShownInv, vars, workerVars, redisVars, history, NewsOf, Reaches, Course, Queued,
                HdelFirst, Unheard, Somewhere, At
  <2> QED BY <1>1, <2>1, <2>2 DEF ShownInv
<1>3. ASSUME NEW n \in Node, Start(n) \/ Reconnect(n) \/ Stop(n) PROVE Rest'
  <2>1. Coded'
    BY <1>3 DEF ShownInv, Coded, Start, Reconnect, Stop, history
  <2> QED BY <1>1, <1>3, <2>1, LinesConnect, ListsConnect, ConnectNews DEF ShownInv
<1>4. ASSUME NEW n \in Node, NEW b \in Bodies, OnView(n, b) PROVE Rest'
  BY <1>4, ViewShown
<1>5. ASSUME NEW n \in Node, NEW id \in Id, NEW u \in User,
             OnPublish(n, u, id) \/ OnDelete(n, u, id)
      PROVE  Rest'
  BY <1>5, PublishShown, DeleteShown
<1>6. ASSUME NEW n \in Node, OnReply(n) PROVE Rest'
  <2>1. Coded'
    BY <1>6 DEF ShownInv, Coded, OnReply, OnHvals, OnHgetall, OnNews, history
  <2> QED BY <1>1, <1>6, <2>1, LinesReply, ListsReply, ReplyNews DEF ShownInv
<1>7. ASSUME NEW n \in Node, Redis(n) PROVE Rest'
  <2>1. Coded'
    BY <1>7 DEF ShownInv, Coded, Redis, history
  <2> QED BY <1>1, <1>7, <2>1, LinesRedis, ListsRedis, RedisNews DEF ShownInv
<1> HIDE DEF Rest
<1>8. Rest' => ShownInv'
  BY <1>1 DEF ShownInv, Rest
<1> QED BY <1>2, <1>3, <1>4, <1>5, <1>6, <1>7, <1>8 DEF Next

\* A post that the process has is found by a search for posts like it.
LEMMA HadIsFound ==
  ASSUME ViewsOnly, ProvInv, Coded, NEW n \in Node, NEW x \in Id, HasPost(posts[n], x)
  PROVE  Finds(n, x)
<1>1. PICK k \in DOMAIN posts[n] : posts[n][k].id = x
  BY DEF HasPost
<1> DEFINE p == posts[n][k]
<1>2. posts[n] \in Seq(Post) /\ p \in Post /\ Genuine(p, published)
  BY DEF ProvInv, Inv, TypeOK, Provenance, Origin, GenuineAll
<1>3. p.location = published[x].location /\ p.product = published[x].product
      /\ published[x] # None
  BY <1>1, <1>2 DEF Genuine, Post
<1>4. p.location = Code[x].location /\ p.product = Code[x].product
  BY <1>3 DEF Coded
<1>5. Filter(p, Code[x])
  <2>1. p.location \in Seq(Nat) /\ p.product \in Seq(Nat)
    BY <1>2 DEF Post
  <2>2. \A s \in Seq(Nat) : IsPrefix(s, s)
    BY DEF IsPrefix
  <2> QED BY <1>4, <2>1, <2>2 DEF Filter, IsChildOf
<1>6. PICK j \in DOMAIN Query(posts[n], Code[x]) : Query(posts[n], Code[x])[j] = p
  BY <1>2, <1>5, QueryFinds
<1> QED BY <1>1, <1>6 DEF Finds, ToSet

\* With Quiet, Seen and ViewsOnly, a process that accepts requests finds every
\* post that is stored in Redis or is about to be told of it: on_hello() asks for
\* the posts before it subscribes, the acceptor opens only after both, and an HSET
\* is followed by its news.
THEOREM StoredIsShown == ASSUME Quiet, Seen, ViewsOnly PROVE Spec => []Shown
<1>1. Init => ShownInv
  BY InitShown
<1>2. ShownInv /\ [Next]_vars => ShownInv'
  BY NextShown
<1>3. ASSUME ShownInv, NEW n \in Node, serving[n], NEW p \in stored
      PROVE  \/ Finds(n, p.id)
             \/ [cmd |-> "publish_internal", post |-> p] \in NewsFor(n)
  <2> DEFINE x == p.id
  <2>1. ViewsOnly /\ TypeOK /\ ProvInv /\ Coded /\ NewsOf(x) /\ Lines /\ p \in Post /\ x \in Id
        /\ Stored(stored, x)
    BY <1>3 DEF ShownInv, ProvInv, Inv, TypeOK, Post, Stored
  <2>2. p = published[x]
    BY <2>1 DEF ProvInv, Provenance, AsPublished
  <2>3. running[n]
    BY <1>3, <2>1 DEF Lines, Down, Loading, Listening
  <2>4. \/ HasPost(posts[n], x)
        \/ \E i : At(reply, n, i, Announces(x))
        \/ Somewhere(pipe, Tells(x))
    BY <1>3, <2>1, <2>3 DEF NewsOf, Reaches
  <2>5. ASSUME NEW w \in News, w.cmd = "publish_internal", w.post.id = x, GenuineNews(w, published)
        PROVE  w = [cmd |-> "publish_internal", post |-> p]
    BY <2>1, <2>2, <2>5 DEF GenuineNews, AsPublished, News
  <2>6. CASE HasPost(posts[n], x)
    BY <2>1, <2>6, HadIsFound
  <2>7. ASSUME NEW i, At(reply, n, i, Announces(x))
        PROVE  [cmd |-> "publish_internal", post |-> p] \in NewsFor(n)
    <3> DEFINE e == reply[n][i]
    <3>1. i \in DOMAIN reply[n] /\ e \in Event /\ e.type = "push"
          /\ e.news.cmd = "publish_internal" /\ e.news.post.id = x
      BY <2>7 DEF At, Announces
    <3>2. GenuineEvent(e, published)
      BY <2>1, <3>1 DEF ProvInv, Provenance, Origin
    <3>3. e.news \in News /\ GenuineNews(e.news, published)
      BY <3>1, <3>2 DEF Event, GenuineEvent
    <3>4. e.news = [cmd |-> "publish_internal", post |-> p]
      BY <2>5, <3>1, <3>3
    <3> QED BY <3>1, <3>4 DEF NewsFor
  <2>8. ASSUME NEW m \in Node, NEW i, At(pipe, m, i, Tells(x))
        PROVE  [cmd |-> "publish_internal", post |-> p] \in NewsFor(n)
    <3> DEFINE c == pipe[m][i]
    <3>1. i \in DOMAIN pipe[m] /\ c \in Command /\ c.op = "publish"
          /\ c.news.cmd = "publish_internal" /\ c.news.post.id = x
      BY <2>8 DEF At, Tells
    <3>2. GenuineCmd(c, published)
      BY <2>1, <3>1 DEF ProvInv, Provenance, Origin
    <3>3. c.news \in News /\ GenuineNews(c.news, published)
      BY <3>1, <3>2 DEF Command, GenuineCmd
    <3>4. c.news = [cmd |-> "publish_internal", post |-> p]
      BY <2>5, <3>1, <3>3
    <3> QED BY <3>1, <3>4 DEF NewsFor
  <2> QED BY <2>4, <2>6, <2>7, <2>8 DEF Somewhere
<1>4. ShownInv => Shown
  BY <1>3 DEF Shown
<1> QED BY <1>1, <1>2, <1>4, PTL DEF Spec

-----------------------------------------------------------------------------
(* What becomes of a post that is deleted, if processes do not reconnect.   *)
(* No process gets a post twice: it starts with none, the list of the posts *)
(* has each of them once, and what is in the list was announced before.  So *)
(* the news of its deletion, which come after the post, remove all of it.   *)

Doubles == {e \in Event : e.type = "hvals" /\ ~Distinct(e.posts)}

Single(n) ==
  /\ Distinct(posts[n]) /\ \A i : ~At(reply, n, i, Doubles)
  /\ pipe[n] = HelloCmds => posts[n] = <<>>

Once(x) ==
  /\ \A n \in Node : \A i : At(reply, n, i, Brings(x)) =>
       ~HasPost(posts[n], x) /\ \A j : At(reply, n, j, Brings(x)) => j = i
  /\ Somewhere(pipe, Tells(x)) =>
       /\ x \notin withdrawn /\ ~Somewhere(reply, Brings(x))
       /\ \A n \in Node : ~HasPost(posts[n], x)

\* The deletion of a post by its author u or by the admin, asked for and told.
Revokes(x, u) == {c \in Withdraws(x) : c.news.from \in {u, Admin}}
Revoked(x, u) == {e \in Hears(x) : e.news.from \in {u, Admin}}

Follows(x, u) ==
  /\ Stored(stored, x) => Somewhere(pipe, Hdels(x))
  /\ \A n \in Node :
       /\ HasPost(posts[n], x) =>
            Somewhere(pipe, Revokes(x, u)) \/ \E j : At(reply, n, j, Revoked(x, u))
       /\ \A i : At(reply, n, i, Brings(x)) =>
            Somewhere(pipe, Revokes(x, u)) \/ \E j : j > i /\ At(reply, n, j, Revoked(x, u))

Withdrawn(x) == x \in withdrawn => \E u : u = published[x].from /\ Follows(x, u)

GoneInv ==
  /\ ShownInv /\ \A n \in Node : Single(n)
  /\ \A x \in Id : Once(x) /\ Withdrawn(x)

LEMMA InitGone == ASSUME Init, ViewsOnly PROVE GoneInv
<1>1. ShownInv
  BY InitShown
<1>2. \A K : \A n \in Node : \A i : ~At(pipe, n, i, K) /\ ~At(reply, n, i, K)
  BY DEF Init, At
<1>3. \A n \in Node : Distinct(posts[n]) /\ posts[n] = <<>>
  BY DEF Init, Distinct
<1>4. \A n \in Node : Single(n)
  BY <1>2, <1>3 DEF Single
<1>5. \A x \in Id : Once(x)
  BY <1>2 DEF Once, Somewhere
<1>6. \A x \in Id : Withdrawn(x)
  BY DEF Init, Withdrawn
<1> QED BY <1>1, <1>4, <1>5, <1>6 DEF GoneInv

\* A process starts with no posts, and nothing of a deleted post is stored.
LEMMA ConnectGone ==
  ASSUME GoneInv, Quiet, MaxReconnects = 0, NEW n \in Node,
         Start(n) \/ Reconnect(n) \/ Stop(n)
  PROVE  (\A m \in Node : Single(m)') /\ \A x \in Id : Once(x)' /\ Withdrawn(x)'
<1>1. TypeOK /\ Lines
  BY DEF GoneInv, ShownInv, ProvInv, Inv
<1>2. Start(n) \/ Stop(n)
  BY <1>1 DEF Reconnect, TypeOK
<1>3. ASSUME NEW m \in Node PROVE Single(m)'
  <2>1. \A i : ~At(reply', m, i, Doubles)
    <3>1. reply'[m] = <<>>
      BY <1>1, <1>2 DEF Start, Stop, Idle, TypeOK
    <3> QED BY <3>1 DEF At
  <2>2. posts'[m] = posts[m] \/ posts'[m] = <<>>
    BY <1>1, <1>2 DEF Start, Stop, TypeOK
  <2>3. Distinct(posts'[m])
    BY <2>2 DEF GoneInv, Single, Distinct
  <2>4. ASSUME pipe'[m] = HelloCmds PROVE posts'[m] = <<>>
    <3>1. pipe[m] = <<>> /\ HelloCmds # <<>>
      BY <1>2 DEF Idle, Start, Stop, HelloCmds
    <3>2. Start(n) /\ m = n
      BY <1>1, <1>2, <2>4, <3>1 DEF Start, Request, Stop, TypeOK
    <3>3. posts[n] = <<>>
      BY <1>1, <3>2 DEF Start, Lines, Down, Loading, Listening
    <3> QED BY <3>2, <3>3 DEF Start
  <2> QED BY <2>1, <2>3, <2>4 DEF Single
<1>4. ASSUME NEW x \in Id PROVE Once(x)' /\ Withdrawn(x)'
  <2>1. /\ \A K : \A m \in Node : \A i : /\ ~At(pipe, m, i, K)
                                         /\ ~At(reply, m, i, K) /\ ~At(reply', m, i, K)
        /\ \A K \in {Hsets(x), Hdels(x), Tells(x), Withdraws(x)} :
             \A m \in Node : \A i : ~At(pipe', m, i, K)
        /\ \A m \in Node : posts'[m] = posts[m] \/ (~running'[m] /\ posts'[m] = <<>>)
        /\ UNCHANGED <<stored, published, withdrawn>>
    BY <1>1, ConnectEffect
  <2>2. Once(x)'
    BY <2>1 DEF Once, Somewhere
  <2>3. ASSUME NEW u, Follows(x, u) PROVE Follows(x, u)'
    <3>1. ~Stored(stored, x) /\ \A m \in Node : ~HasPost(posts[m], x)
      BY <2>1, <2>3 DEF Follows, Somewhere
    <3>2. \A m \in Node : ~HasPost(posts'[m], x)
      BY <2>1, <3>1 DEF HasPost
    <3> QED BY <2>1, <3>1, <3>2 DEF Follows
  <2>4. Withdrawn(x)'
    <3>1. ASSUME x \in withdrawn PROVE \E u : u = published[x].from /\ Follows(x, u)
      BY <3>1 DEF GoneInv, Withdrawn
    <3>2. ASSUME x \in withdrawn PROVE \E u : u = published'[x].from /\ Follows(x, u)'
      BY <2>1, <2>3, <3>1, <3>2
    <3> QED BY <2>1, <3>2 DEF Withdrawn
  <2> QED BY <2>2, <2>4
<1> QED BY <1>3, <1>4

\* The pipeline of a process that serves clients.
LEMMA ServedSingle ==
  ASSUME GoneInv, Quiet, NEW n \in Node, NEW q \in Seq(Command), ~Waits(q),
         Served(n), Request(n, q), UNCHANGED <<posts, reply>>
  PROVE  \A m \in Node : Single(m)'
<1>1. TypeOK
  BY DEF GoneInv, ShownInv, ProvInv, Inv
<1>2. \A m \in Node : ~Waits(pipe[m]) /\ pipe[m] \in Seq(Command)
  BY <1>1 DEF Served, Connecting, Waits, TypeOK
<1>3. pipe'[n] = pipe[n] \o q /\ \A m \in Node : m # n => pipe'[m] = pipe[m]
  BY <1>1 DEF Request, TypeOK
<1>4. \A m \in Node : ~Waits(pipe'[m])
  BY <1>2, <1>3, WaitsAdded
<1>5. Waits(HelloCmds)
  BY DEF Waits, HelloCmds
<1>6. \A m \in Node : pipe'[m] # HelloCmds
  BY <1>4, <1>5
<1> QED BY <1>6 DEF GoneInv, Single, At

\* A client's request that leaves the post as it is.
LEMMA SilentGone ==
  ASSUME GoneInv, NEW n \in Node, NEW q \in Seq(Command), Request(n, q),
         UNCHANGED <<posts, stored, reply>>, NEW x \in Id, Silent(q, x),
         published'[x] = published[x], x \in withdrawn' <=> x \in withdrawn
  PROVE  Once(x)' /\ Withdrawn(x)'
<1>1. TypeOK
  BY DEF GoneInv, ShownInv, ProvInv, Inv
<1>2. pipe \in Queues /\ q \in Entries /\ Appended(pipe, pipe', n, q)
  BY <1>1, AreQueues, RequestAppends
<1>3. \A K \in {Hdels(x), Tells(x)} :
        \A m \in Node : \A i : At(pipe', m, i, K) <=> At(pipe, m, i, K)
  BY <1>1, SilentEffect
<1>4. Once(x)'
  BY <1>3 DEF GoneInv, Once, Somewhere
<1>5. ASSUME NEW u, Follows(x, u) PROVE Follows(x, u)'
  <2>1. \A k \in DOMAIN q : q[k] \notin Revokes(x, u)
    BY DEF Silent, Revokes
  <2>2. \A m \in Node : \A i : At(pipe', m, i, Revokes(x, u)) <=> At(pipe, m, i, Revokes(x, u))
    BY <1>2, <2>1, SameAt
  <2> QED BY <1>3, <1>5, <2>2 DEF Follows, Somewhere
<1>6. Withdrawn(x)'
  <2>1. ASSUME x \in withdrawn PROVE \E u : u = published[x].from /\ Follows(x, u)
    BY <2>1 DEF GoneInv, Withdrawn
  <2>2. ASSUME x \in withdrawn PROVE \E u : u = published'[x].from /\ Follows(x, u)'
    BY <1>5, <2>1, <2>2
  <2> QED BY <2>2 DEF Withdrawn
<1> QED BY <1>4, <1>6

\* A post that is published is new to everyone.
LEMMA PublishOnce ==
  ASSUME GoneInv, NEW x \in Id, published[x] = None, UNCHANGED <<posts, reply, withdrawn>>
  PROVE  Once(x)' /\ Withdrawn(x)'
<1>1. Unheard(x)
  BY DEF GoneInv, ShownInv, NewsOf, Course
<1>2. /\ \A m \in Node : ~HasPost(posts'[m], x)
      /\ x \notin withdrawn' /\ ~Somewhere(reply', Brings(x))
  BY <1>1 DEF Unheard
<1> QED BY <1>2 DEF Once, Withdrawn, Somewhere

\* A deletion that is asked for now will be told to everyone.
LEMMA DeleteOnce ==
  ASSUME GoneInv, NEW n \in Node, NEW x \in Id, NEW u \in User, NEW p \in Post,
         HasPost(posts[n], x), Request(n, DeleteCmds(x, u, p)),
         x \in withdrawn' \ withdrawn => u \in {published[x].from, Admin},
         UNCHANGED <<posts, stored, reply, published>>
  PROVE  Once(x)' /\ Withdrawn(x)'
<1> DEFINE q == DeleteCmds(x, u, p)
<1>1. TypeOK
  BY DEF GoneInv, ShownInv, ProvInv, Inv
<1>2. pipe \in Queues /\ Appended(pipe, pipe', n, q)
  BY <1>1, AreQueues, RequestAppends
<1>3. /\ q \in Entries /\ DOMAIN q = {1, 2, 3}
      /\ q[2] \in Hdels(x) /\ q[3] \in Withdraws(x) /\ q[3].news.from = u
      /\ \A k \in DOMAIN q : q[k] \notin Tells(x)
  BY DeleteKinds
<1> HIDE DEF q
<1>4. /\ \A K : \A m \in Node : \A i : At(pipe, m, i, K) => At(pipe', m, i, K)
      /\ \A K : \A k \in DOMAIN q : q[k] \in K => At(pipe', n, Len(pipe[n]) + k, K)
      /\ \A m \in Node : \A i : At(pipe', m, i, Tells(x)) <=> At(pipe, m, i, Tells(x))
  <2>1. \A K : \A m \in Node : \A i : At(pipe, m, i, K) => At(pipe', m, i, K)
    BY <1>2, <1>3, AddedAt
  <2>2. \A K : \A k \in DOMAIN q : q[k] \in K => At(pipe', n, Len(pipe[n]) + k, K)
    BY <1>2, <1>3, AddedAt
  <2>3. \A k \in DOMAIN q : q[k] \notin Tells(x)
    BY <1>3
  <2>4. \A m \in Node : \A i : At(pipe', m, i, Tells(x)) <=> At(pipe, m, i, Tells(x))
    BY <1>2, <1>3, <2>3, SameAt
  <2> QED BY <2>1, <2>2, <2>4
<1>5. ~Somewhere(pipe', Tells(x))
  <2>1. ~Somewhere(pipe, Tells(x))
    BY DEF GoneInv, Once
  <2> QED BY <1>4, <2>1 DEF Somewhere
<1>6. Once(x)'
  BY <1>5 DEF GoneInv, Once
<1>7. ASSUME NEW a, Follows(x, a) PROVE Follows(x, a)'
  BY <1>4, <1>7 DEF Follows, Somewhere
<1>8. ASSUME NEW a, u \in {a, Admin} PROVE Follows(x, a)'
  <2>1. q[3] \in Revokes(x, a)
    BY <1>3, <1>8 DEF Revokes
  <2>2. Somewhere(pipe', Revokes(x, a)) /\ Somewhere(pipe', Hdels(x))
    BY <1>3, <1>4, <2>1 DEF Somewhere
  <2> QED BY <2>2 DEF Follows
<1>9. Withdrawn(x)'
  <2>1. ASSUME x \in withdrawn' PROVE \E a : a = published'[x].from /\ Follows(x, a)'
    <3>1. CASE x \in withdrawn
      <4>1. \E a : a = published[x].from /\ Follows(x, a)
        BY <3>1 DEF GoneInv, Withdrawn
      <4> QED BY <1>7, <4>1
    <3>2. CASE x \notin withdrawn
      <4>1. \E a : a = published[x].from /\ u \in {a, Admin}
        BY <2>1, <3>2
      <4> QED BY <1>8, <4>1
    <3> QED BY <3>1, <3>2
  <2> QED BY <2>1 DEF Withdrawn
<1> QED BY <1>6, <1>9

\* The requests of clients.
LEMMA ViewGone ==
  ASSUME GoneInv, Quiet, NEW n \in Node, NEW b \in Bodies, OnView(n, b)
  PROVE  (\A m \in Node : Single(m)') /\ \A x \in Id : Once(x)' /\ Withdrawn(x)'
<1> DEFINE q == ViewCmds(b)
<1>1. /\ Served(n) /\ Request(n, q)
      /\ UNCHANGED <<posts, stored, reply, published, withdrawn>>
  BY DEF OnView, redisVars, workerVars
<1>2. q \in Seq(Command) /\ ~Waits(q) /\ \A x : Silent(q, x)
  BY CmdTypes, NoWaits, SilentCmds DEF GoneInv, ShownInv
<1> HIDE DEF q
<1> QED BY <1>1, <1>2, ServedSingle, SilentGone

LEMMA PublishGone ==
  ASSUME GoneInv, Quiet, NEW n \in Node, NEW u \in User, NEW id \in Id, OnPublish(n, u, id)
  PROVE  (\A m \in Node : Single(m)') /\ \A x \in Id : Once(x)' /\ Withdrawn(x)'
<1> DEFINE p == [id |-> id, from |-> u, visualizations |-> 0,
                 location |-> Code[id].location, product |-> Code[id].product]
<1>1. p \in Post /\ p.id = id
  <2>1. Code[id] \in [location : Seq(Nat), product : Seq(Nat)]
    BY PostsAssumption
  <2> QED BY <2>1 DEF Post
<1>2. /\ Served(n) /\ Request(n, PublishCmds(p))
      /\ published[id] = None /\ published' = [published EXCEPT ![id] = p]
      /\ UNCHANGED <<posts, stored, reply, withdrawn>>
  BY DEF OnPublish, redisVars, workerVars
<1>3. \A x \in Id : x # id => published'[x] = published[x]
  BY <1>2 DEF GoneInv, ShownInv, ProvInv, Inv, TypeOK
<1> HIDE DEF p
<1> DEFINE q == PublishCmds(p)
<1>4. q \in Seq(Command) /\ ~Waits(q) /\ \A x : x # id => Silent(q, x)
  BY <1>1, CmdTypes, NoWaits, SilentCmds
<1>5. Request(n, q)
  BY <1>2
<1> HIDE DEF q
<1>6. \A m \in Node : Single(m)'
  BY <1>2, <1>4, <1>5, ServedSingle
<1>7. Once(id)' /\ Withdrawn(id)'
  BY <1>2, PublishOnce
<1>8. \A x \in Id : x # id => Once(x)' /\ Withdrawn(x)'
  BY <1>2, <1>3, <1>4, <1>5, SilentGone
<1> QED BY <1>6, <1>7, <1>8

LEMMA DeleteGone ==
  ASSUME GoneInv, Quiet, Seen, NEW n \in Node, NEW u \in User, NEW id \in Id,
         OnDelete(n, u, id)
  PROVE  (\A m \in Node : Single(m)') /\ \A x \in Id : Once(x)' /\ Withdrawn(x)'
<1>1. /\ HasPost(posts[n], id)
      /\ \E p \in Post : Request(n, DeleteCmds(id, u, p))
      /\ UNCHANGED <<workerVars, subs, stored, reply, published>>
  BY DeleteNamed DEF GoneInv, ShownInv, ProvInv
<1>2. PICK p \in Post : Request(n, DeleteCmds(id, u, p))
  BY <1>1
<1> DEFINE q == DeleteCmds(id, u, p)
<1>3. q \in Seq(Command) /\ ~Waits(q) /\ \A x : x # id => Silent(q, x)
  BY CmdTypes, NoWaits, SilentCmds
<1>4. Request(n, q) /\ Served(n) /\ UNCHANGED <<posts, stored, reply, published>>
  BY <1>1, <1>2 DEF OnDelete, workerVars
<1>5. withdrawn' = withdrawn \cup
        {i \in {id} : \E k \in DOMAIN posts[n] :
                        posts[n][k].id = i /\ u \in {posts[n][k].from, Admin}}
  BY DEF OnDelete
<1>6. \A x \in Id : x # id => (x \in withdrawn' <=> x \in withdrawn)
  BY <1>5
<1>7. ASSUME id \in withdrawn' \ withdrawn PROVE u \in {published[id].from, Admin}
  <2>1. PICK k \in DOMAIN posts[n] :
          posts[n][k].id = id /\ u \in {posts[n][k].from, Admin}
    BY <1>5, <1>7
  <2>2. ViewsOnly /\ Genuine(posts[n][k], published) /\ posts[n][k] \in Post
    BY DEF GoneInv, ShownInv, ProvInv, Inv, TypeOK, Provenance, Origin, GenuineAll
  <2>3. posts[n][k].from = published[id].from
    BY <2>1, <2>2 DEF Genuine, Post
  <2> QED BY <2>1, <2>3
<1>8. Once(id)' /\ Withdrawn(id)'
  BY <1>1, <1>2, <1>4, <1>7, DeleteOnce
<1> HIDE DEF q
<1>9. \A m \in Node : Single(m)'
  BY <1>3, <1>4, ServedSingle
<1>10. \A x \in Id : x # id => Once(x)' /\ Withdrawn(x)'
  BY <1>3, <1>4, <1>6, SilentGone
<1> QED BY <1>8, <1>9, <1>10

\* What a process takes from its queue: it still has no post twice, and a post
\* of which it learns that its author or the admin deleted it is gone.
LEMMA ReplyPosts ==
  ASSUME ViewsOnly, ProvInv, NEW n \in Node, OnReply(n), Distinct(posts[n]),
         NEW e, e = Head(reply[n]), e \notin Doubles,
         \A x \in Id : e \in Brings(x) => ~HasPost(posts[n], x)
  PROVE  /\ Distinct(posts'[n])
         /\ \A x \in Id : \A a : a = published[x].from /\ e \in Revoked(x, a) =>
              ~HasPost(posts'[n], x)
<1>1. TypeOK /\ reply[n] # <<>>
  BY DEF ProvInv, Inv, OnReply, OnHvals, OnHgetall, OnNews, Receive
<1>2. posts[n] \in Seq(Post) /\ ById(posts[n]) /\ e \in Event
  BY <1>1, SortedIsById, HeadTailProperties DEF TypeOK, ProvInv, Inv
<1>3. \A x, a : e \in Revoked(x, a) =>
        /\ e.type = "push" /\ e.news.cmd = "delete" /\ e.news.id = x
        /\ e.news.from \in {a, Admin}
  BY DEF Revoked, Hears
<1>4. CASE OnHvals(n)
  <2>1. e.type = "hvals" /\ posts'[n] = AddPosts(posts[n], e.posts)
    BY <1>1, <1>4 DEF OnHvals, Receive, TypeOK
  <2>2. e.posts \in Seq(Post) /\ Distinct(e.posts)
    BY <1>2, <2>1 DEF Event, Doubles
  <2>3. \A id : ~(HasPost(posts[n], id) /\ HasPost(e.posts, id))
    <3>1. ASSUME NEW id, HasPost(e.posts, id) PROVE id \in Id /\ e \in Brings(id)
      <4>1. id \in Id
        <5>1. PICK k \in DOMAIN e.posts : e.posts[k].id = id
          BY <3>1 DEF HasPost
        <5>2. e.posts[k] \in Post
          BY <2>2
        <5> QED BY <5>1, <5>2 DEF Post
      <4> QED BY <1>2, <2>1, <3>1, <4>1 DEF Brings
    <3> QED BY <3>1
  <2>4. Distinct(posts'[n])
    BY <1>2, <2>1, <2>2, <2>3, AddPostsIds
  <2> QED BY <1>3, <2>1, <2>4
<1>5. CASE OnHgetall(n)
  <2>1. e.type = "hgetall" /\ posts'[n] = LoadVisualizations(posts[n], e.visual)
    BY <1>1, <1>5 DEF OnHgetall, Receive, TypeOK
  <2>2. e.visual \in Seq(Visual)
    BY <1>2, <2>1 DEF Event
  <2>3. SameIds(posts[n], posts'[n])
    BY <1>2, <2>1, <2>2, LoadVisualizationsKeeps
  <2> QED BY <1>3, <2>1, <2>3, SameIdsHas
<1>6. CASE OnNews(n)
  <2> DEFINE s == e.news
  <2>1. /\ e.type = "push"
        /\ posts'[n] = CASE s.cmd = "publish_internal" -> AddPosts(posts[n], <<s.post>>)
                         [] s.cmd = "delete" ->
                              RemovePost(posts[n], s.id, s.from, s.from = Admin)
                         [] s.cmd = "visualization" -> OnVisualization(posts[n], s.id)
                         [] s.cmd = "none" -> posts[n]
    BY <1>1, <1>6 DEF OnNews, Receive, TypeOK
  <2>2. s \in News
    BY <1>2, <2>1 DEF Event
  <2>3. s.cmd = "publish_internal" => e \in Brings(s.post.id)
    BY <1>2, <2>1 DEF Brings, Announces
  <2>4. \A x, a : e \in Revoked(x, a) =>
          s.cmd = "delete" /\ s.id = x /\ s.from \in {a, Admin}
    BY <1>3
  <2> HIDE DEF s
  <2>5. CASE s.cmd = "publish_internal"
    <3>1. s.post \in Post /\ posts'[n] = AddPosts(posts[n], <<s.post>>) /\ s.post.id \in Id
      BY <2>1, <2>2, <2>5 DEF News, Post
    <3> DEFINE new == <<s.post>>
    <3>2. new \in Seq(Post) /\ Distinct(new) /\ \A id : HasPost(new, id) <=> s.post.id = id
      BY <3>1 DEF HasPost, Distinct
    <3>3. posts'[n] = AddPosts(posts[n], new)
      BY <3>1
    <3> HIDE DEF new
    <3>4. \A id : ~(HasPost(posts[n], id) /\ HasPost(new, id))
      BY <2>3, <2>5, <3>1, <3>2
    <3>5. Distinct(posts'[n])
      BY <1>2, <3>2, <3>3, <3>4, AddPostsIds
    <3> QED BY <2>4, <2>5, <3>5
  <2>6. CASE s.cmd = "delete"
    <3> DEFINE b == s.from = Admin
    <3>1. posts'[n] = RemovePost(posts[n], s.id, s.from, b)
      BY <2>1, <2>6
    <3>2. b \in BOOLEAN /\ (s.from = Admin => b)
      OBVIOUS
    <3> HIDE DEF b
    <3>3. /\ Distinct(posts'[n])
          /\ (\A k \in DOMAIN posts[n] : posts[n][k].id = s.id => posts[n][k].from = s.from \/ b)
             => ~HasPost(posts'[n], s.id)
      BY <1>2, <3>1, <3>2, RemovePostIds
    <3>4. ASSUME NEW x \in Id, NEW a, a = published[x].from, e \in Revoked(x, a)
          PROVE  ~HasPost(posts'[n], x)
      <4>1. s.id = x /\ s.from \in {a, Admin}
        BY <2>4, <3>4
      <4>2. ASSUME NEW k \in DOMAIN posts[n], posts[n][k].id = s.id
            PROVE  posts[n][k].from = a
        <5>1. Genuine(posts[n][k], published) /\ posts[n][k] \in Post
          BY <1>2 DEF ProvInv, Provenance, Origin, GenuineAll
        <5> QED BY <3>4, <4>1, <4>2, <5>1 DEF Genuine, Post
      <4> QED BY <3>2, <3>3, <4>1, <4>2
    <3> QED BY <3>3, <3>4
  <2>7. CASE s.cmd = "visualization"
    <3>1. posts'[n] = OnVisualization(posts[n], s.id)
      BY <2>1, <2>7
    <3>2. SameIds(posts[n], posts'[n])
      BY <1>2, <3>1, OnVisualizationKeeps
    <3> QED BY <2>4, <2>7, <3>2, SameIdsHas
  <2>8. CASE s.cmd = "none"
    <3>1. posts'[n] = posts[n]
      BY <2>1, <2>8
    <3> QED BY <2>4, <2>8, <3>1
  <2> QED BY <2>2, <2>5, <2>6, <2>7, <2>8 DEF News
<1> QED BY <1>4, <1>5, <1>6 DEF OnReply

\* It asks for the views of the posts, or for nothing.
LEMMA ReplyPipe ==
  ASSUME TypeOK, Lines, NEW n \in Node, OnReply(n)
  PROVE  /\ \A K : \A m \in Node : \A i : At(pipe, m, i, K) => At(pipe', m, i, K)
         /\ \A m \in Node : pipe'[m] = HelloCmds => m # n /\ pipe[m] = HelloCmds
<1> DEFINE q == <<[op |-> "hgetall"]>>
<1>1. q \in Seq(Command) /\ ~Waits(q) /\ pipe[n] \in Seq(Command)
  BY CmdTypes, NoWaits DEF TypeOK
<1>2. q \in Entries /\ pipe \in Queues
  BY <1>1, AreQueues
<1>3. pipe' = pipe \/ Request(n, q)
  BY DEF OnReply, OnHvals, OnHgetall, OnNews
<1>4. reply[n] # <<>>
  BY DEF OnReply, OnHvals, OnHgetall, OnNews, Receive
<1>5. Request(n, q) => pipe'[n] = pipe[n] \o q /\ \A m \in Node : m # n => pipe'[m] = pipe[m]
  BY DEF Request, TypeOK
<1>6. \A K : \A m \in Node : \A i : At(pipe, m, i, K) => At(pipe', m, i, K)
  <2>1. CASE pipe' = pipe
    BY <2>1
  <2>2. CASE Request(n, q)
    <3>1. Appended(pipe, pipe', n, q)
      BY <2>2, RequestAppends
    <3> HIDE DEF q
    <3> QED BY <1>2, <3>1, AddedAt
  <2> QED BY <1>3, <2>1, <2>2
<1>7. pipe'[n] # HelloCmds
  <2>1. Waits(HelloCmds) /\ HelloCmds[1].op = "hvals" /\ HelloCmds = <<[op |-> "hvals"], [op |-> "subscribe"]>>
    BY DEF Waits, HelloCmds
  <2>2. CASE ~Waits(pipe[n])
    <3>1. ~Waits(pipe[n] \o q)
      BY <1>1, <2>2, WaitsAdded
    <3> QED BY <1>3, <1>5, <2>1, <2>2, <3>1
  <2>3. CASE Waits(pipe[n])
    <3>1. pipe[n] = <<[op |-> "subscribe"]>>
      <4>1. ~Waits(<<>>)
        BY NoWaits
      <4> QED BY <1>4, <2>3, <4>1 DEF Lines, Down, Loading, Listening
    <3>2. pipe[n] \o q = <<[op |-> "subscribe"], [op |-> "hgetall"]>>
      BY <3>1, OneOrTwo
    <3>3. /\ <<[op |-> "subscribe"], [op |-> "hgetall"]>>[1].op = "subscribe"
          /\ <<[op |-> "subscribe"]>>[1].op = "subscribe"
      OBVIOUS
    <3> HIDE DEF q
    <3> QED BY <1>3, <1>5, <2>1, <3>1, <3>2, <3>3
  <2> QED BY <2>2, <2>3
<1> HIDE DEF q
<1> QED BY <1>3, <1>5, <1>6, <1>7

\* A process takes the post before the news of its deletion.
LEMMA ReplyOnce ==
  ASSUME GoneInv, NEW n \in Node, OnReply(n), NEW x \in Id
  PROVE  Once(x)' /\ Withdrawn(x)'
<1> DEFINE e == Head(reply[n])
<1>1. TypeOK /\ ProvInv /\ Lines /\ Once(x) /\ Single(n)
  BY DEF GoneInv, ShownInv, ProvInv, Inv
<1>2. /\ Popped(reply, reply', n) /\ e \in Event
      /\ \A m \in Node : m # n => posts'[m] = posts[m]
      /\ HasPost(posts'[n], x) => HasPost(posts[n], x) \/ e \in Brings(x)
      /\ \A K \in {Hsets(x), Hdels(x), Tells(x), Withdraws(x)} :
           \A m \in Node : \A i : At(pipe', m, i, K) <=> At(pipe, m, i, K)
      /\ UNCHANGED <<stored, published, withdrawn>>
  BY <1>1, ReplyEffect
<1>3. reply \in Queues
  BY <1>1, AreQueues
<1>4. /\ \A K : At(reply, n, 1, K) <=> e \in K
      /\ \A K : \A i : At(reply', n, i, K) => At(reply, n, i + 1, K) /\ i \in Nat /\ 1 <= i
      /\ \A K : \A i : At(reply, n, i, K) =>
           i \in Nat /\ 1 <= i /\ (i # 1 => At(reply', n, i - 1, K))
      /\ \A K : \A m \in Node : \A i : m # n => (At(reply', m, i, K) <=> At(reply, m, i, K))
  BY <1>2, <1>3, TakenAt
<1>5. e \in Brings(x) => ~HasPost(posts[n], x)
  BY <1>1, <1>4 DEF Once
<1>6. \A a : a = published[x].from /\ e \in Revoked(x, a) => ~HasPost(posts'[n], x)
  <2>1. e \notin Doubles
    BY <1>1, <1>4 DEF Single
  <2>2. \A y \in Id : e \in Brings(y) => ~HasPost(posts[n], y)
    <3>1. \A y \in Id : Once(y)
      BY DEF GoneInv
    <3>2. ASSUME NEW y \in Id, e \in Brings(y) PROVE ~HasPost(posts[n], y)
      <4>1. At(reply, n, 1, Brings(y)) /\ Once(y)
        BY <1>4, <3>1, <3>2
      <4> QED BY <4>1 DEF Once
    <3> QED BY <3>2
  <2>3. Distinct(posts[n])
    BY <1>1 DEF Single
  <2>5. ViewsOnly
    BY DEF GoneInv, ShownInv
  <2> HIDE DEF e
  <2>4. e = Head(reply[n])
    BY DEF e
  <2> QED BY <1>1, <2>1, <2>2, <2>3, <2>4, <2>5, ReplyPosts
<1>7. \A K : Somewhere(pipe, K) => Somewhere(pipe', K)
  <2>1. \A K : \A m \in Node : \A i : At(pipe, m, i, K) => At(pipe', m, i, K)
    BY <1>1, ReplyPipe
  <2> QED BY <2>1 DEF Somewhere
<1> HIDE DEF e
<1>8. Once(x)'
  <2>1. ASSUME NEW m \in Node, NEW i, At(reply', m, i, Brings(x))
        PROVE  ~HasPost(posts'[m], x) /\ \A j : At(reply', m, j, Brings(x)) => j = i
    <3>1. CASE m # n
      BY <1>1, <1>2, <1>4, <2>1, <3>1 DEF Once
    <3>2. CASE m = n
      <4>1. At(reply, n, i + 1, Brings(x)) /\ i \in Nat /\ 1 <= i
        BY <1>4, <2>1, <3>2
      <4>2. /\ ~HasPost(posts[n], x)
            /\ \A j : At(reply, n, j, Brings(x)) => j = i + 1
        BY <1>1, <4>1 DEF Once
      <4>3. e \notin Brings(x)
        <5>1. e \in Brings(x) => 1 = i + 1
          BY <1>4, <4>2
        <5> QED BY <4>1, <5>1
      <4>4. ASSUME NEW j, At(reply', n, j, Brings(x)) PROVE j = i
        <5>1. At(reply, n, j + 1, Brings(x)) /\ j \in Nat
          BY <1>4, <4>4
        <5>2. j + 1 = i + 1
          BY <4>2, <5>1
        <5> QED BY <4>1, <5>1, <5>2
      <4> QED BY <1>2, <3>2, <4>2, <4>3, <4>4
    <3> QED BY <3>1, <3>2
  <2>2. ASSUME Somewhere(pipe', Tells(x))
        PROVE  /\ x \notin withdrawn' /\ ~Somewhere(reply', Brings(x))
               /\ \A m \in Node : ~HasPost(posts'[m], x)
    <3>1. Somewhere(pipe, Tells(x))
      BY <1>2, <2>2 DEF Somewhere
    <3>2. /\ x \notin withdrawn /\ ~Somewhere(reply, Brings(x))
          /\ \A m \in Node : ~HasPost(posts[m], x)
      BY <1>1, <3>1 DEF Once
    <3>3. /\ Somewhere(reply', Brings(x)) => Somewhere(reply, Brings(x))
          /\ e \in Brings(x) => Somewhere(reply, Brings(x))
      BY <1>4 DEF Somewhere
    <3> QED BY <1>2, <3>2, <3>3
  <2> QED BY <2>1, <2>2 DEF Once
<1>9. ASSUME NEW u, u = published[x].from, Follows(x, u) PROVE Follows(x, u)'
  <2> DEFINE R == Revoked(x, u)
  <2>1. Stored(stored', x) => Somewhere(pipe', Hdels(x))
    BY <1>2, <1>7, <1>9 DEF Follows
  <2>2. e \in R => ~HasPost(posts'[n], x)
    BY <1>6, <1>9
  <2> DEFINE P == Somewhere(pipe, Revokes(x, u))
             P1 == Somewhere(pipe', Revokes(x, u))
  <2>3. P => P1
    BY <1>7
  <2>4. \A m \in Node :
          /\ HasPost(posts[m], x) => P \/ \E j : At(reply, m, j, R)
          /\ \A i : At(reply, m, i, Brings(x)) => P \/ \E j : j > i /\ At(reply, m, j, R)
    BY <1>9 DEF Follows
  <2> HIDE DEF R, P, P1
  <2>5. ASSUME NEW m \in Node, HasPost(posts'[m], x)
        PROVE  P1 \/ \E j : At(reply', m, j, R)
    <3>1. CASE m # n
      BY <1>2, <1>4, <2>3, <2>4, <2>5, <3>1
    <3>2. CASE m = n
      <4>1. CASE e \in Brings(x)
        <5>1. P \/ \E j : j > 1 /\ At(reply, n, j, R)
          BY <1>4, <2>4, <4>1
        <5>2. ASSUME NEW j, j > 1, At(reply, n, j, R) PROVE At(reply', n, j - 1, R)
          <6>1. j \in Nat /\ j # 1
            BY <1>4, <5>2
          <6> QED BY <1>4, <5>2, <6>1
        <5> QED BY <2>3, <3>2, <5>1, <5>2
      <4>2. CASE e \notin Brings(x)
        <5>1. P \/ \E j : At(reply, n, j, R)
          BY <1>2, <2>4, <2>5, <3>2, <4>2
        <5>2. ASSUME NEW j, At(reply, n, j, R) PROVE At(reply', n, j - 1, R)
          <6>1. j # 1
            BY <1>4, <2>2, <2>5, <3>2, <5>2
          <6> QED BY <1>4, <5>2, <6>1
        <5> QED BY <2>3, <3>2, <5>1, <5>2
      <4> QED BY <4>1, <4>2
    <3> QED BY <3>1, <3>2
  <2>6. ASSUME NEW m \in Node, NEW i, At(reply', m, i, Brings(x))
        PROVE  P1 \/ \E j : j > i /\ At(reply', m, j, R)
    <3>1. CASE m # n
      BY <1>4, <2>3, <2>4, <2>6, <3>1
    <3>2. CASE m = n
      <4>1. At(reply, n, i + 1, Brings(x)) /\ i \in Nat /\ 1 <= i
        BY <1>4, <2>6, <3>2
      <4>2. P \/ \E j : j > i + 1 /\ At(reply, n, j, R)
        BY <2>4, <4>1
      <4>3. ASSUME NEW j, j > i + 1, At(reply, n, j, R)
            PROVE  j - 1 > i /\ At(reply', n, j - 1, R)
        <5>1. j \in Nat /\ j # 1
          BY <1>4, <4>1, <4>3
        <5> QED BY <1>4, <4>1, <4>3, <5>1
      <4> QED BY <2>3, <3>2, <4>2, <4>3
    <3> QED BY <3>1, <3>2
  <2> QED BY <2>1, <2>5, <2>6 DEF Follows, R, P1
<1>10. Withdrawn(x)'
  <2>1. ASSUME x \in withdrawn PROVE \E u : u = published[x].from /\ Follows(x, u)
    BY <2>1 DEF GoneInv, Withdrawn
  <2>2. ASSUME x \in withdrawn PROVE \E u : u = published'[x].from /\ Follows(x, u)'
    BY <1>2, <1>9, <2>1, <2>2
  <2> QED BY <1>2, <2>2 DEF Withdrawn
<1> QED BY <1>8, <1>10

LEMMA ReplyGone ==
  ASSUME GoneInv, NEW n \in Node, OnReply(n)
  PROVE  (\A m \in Node : Single(m)') /\ \A x \in Id : Once(x)' /\ Withdrawn(x)'
<1> DEFINE e == Head(reply[n])
<1>1. TypeOK /\ ProvInv /\ Lines /\ \A m \in Node : Single(m)
  BY DEF GoneInv, ShownInv, ProvInv, Inv
<1>2. reply \in Queues /\ Popped(reply, reply', n)
      /\ \A m \in Node : m # n => posts'[m] = posts[m]
  BY <1>1, AreQueues DEF Popped, OnReply, OnHvals, OnHgetall, OnNews, Receive, TypeOK
<1>3. /\ \A K : e \in K => At(reply, n, 1, K)
      /\ \A K : \A m \in Node : \A i : At(reply', m, i, K) => \E j : At(reply, m, j, K)
  <2>1. \A K : At(reply, n, 1, K) <=> Head(reply[n]) \in K
    BY <1>2, TakenAt
  <2>2. \A K : \A i : At(reply', n, i, K) => At(reply, n, i + 1, K)
    BY <1>2, TakenAt
  <2>3. \A K : \A m \in Node : \A i : m # n => (At(reply', m, i, K) <=> At(reply, m, i, K))
    BY <1>2, TakenAt
  <2> QED BY <2>1, <2>2, <2>3
<1>4. Distinct(posts'[n])
  <2>1. e \notin Doubles /\ Distinct(posts[n])
    BY <1>1, <1>3 DEF Single
  <2>2. \A x \in Id : e \in Brings(x) => ~HasPost(posts[n], x)
    <3>1. \A x \in Id : Once(x)
      BY DEF GoneInv
    <3>2. ASSUME NEW x \in Id, e \in Brings(x) PROVE ~HasPost(posts[n], x)
      <4>1. At(reply, n, 1, Brings(x)) /\ Once(x)
        BY <1>3, <3>1, <3>2
      <4> QED BY <4>1 DEF Once
    <3> QED BY <3>2
  <2>4. ViewsOnly
    BY DEF GoneInv, ShownInv
  <2> HIDE DEF e
  <2>3. e = Head(reply[n])
    BY DEF e
  <2> QED BY <1>1, <2>1, <2>2, <2>3, <2>4, ReplyPosts
<1>5. \A m \in Node : pipe'[m] = HelloCmds => m # n /\ pipe[m] = HelloCmds
  BY <1>1, ReplyPipe
<1>6. ASSUME NEW m \in Node PROVE Single(m)'
  <2>1. \A i : ~At(reply', m, i, Doubles)
    BY <1>1, <1>3 DEF Single
  <2>2. Distinct(posts'[m])
    <3>1. m # n => posts'[m] = posts[m]
      BY <1>2
    <3> QED BY <1>1, <1>4, <3>1 DEF Single
  <2>3. pipe'[m] = HelloCmds => posts'[m] = <<>>
    BY <1>1, <1>2, <1>5 DEF Single
  <2> QED BY <2>1, <2>2, <2>3 DEF Single
<1> QED BY <1>6, ReplyOnce

\* Redis executes a command.  What is on its way to a process stays there.
LEMMA RepliesStay ==
  ASSUME ProvInv, NEW n \in Node, Redis(n)
  PROVE  \A K : \A m \in Node : \A i : At(reply, m, i, K) => At(reply', m, i, K)
<1> DEFINE c == Head(pipe[n])
<1>1. reply \in Queues /\ Event \subseteq Command \cup Event
  BY AreQueues DEF ProvInv, Inv
<1>2. ASSUME NEW S, NEW e \in Event, Told(reply, reply', S, e)
      PROVE  \A K : \A m \in Node : \A i : At(reply, m, i, K) => At(reply', m, i, K)
  <2>1. e \in Command \cup Event
    OBVIOUS
  <2> QED BY <1>1, <1>2, <2>1, ToldAt
<1>3. CASE c.op = "hvals"
  <2>1. \E e \in Event : Told(reply, reply', {n}, e)
    BY <1>3, HvalsEffect
  <2> QED BY <1>2, <2>1
<1>4. CASE c.op = "hgetall"
  <2>1. \E e \in Event : Told(reply, reply', {n}, e)
    BY <1>4, HgetallEffect
  <2> QED BY <1>2, <2>1
<1>5. CASE c.op = "publish"
  <2> DEFINE e == [type |-> "push", news |-> c.news]
  <2>1. e \in Event /\ Told(reply, reply', subs, e)
    BY <1>5, PublishEffect
  <2> HIDE DEF e
  <2> QED BY <1>2, <2>1
<1>6. CASE c.op \notin {"hvals", "hgetall", "publish"}
  <2>1. reply' = reply
    BY <1>6 DEF Redis, ExecHvals, ExecHgetall, ExecSubscribe, ExecHset,
            ExecArchive, ExecHdel, ExecHincrby, ExecPublish, Exec
  <2> QED BY <2>1
<1> QED BY <1>3, <1>4, <1>5, <1>6

\* While a process asks for the posts nothing else is in progress.
LEMMA AsksAlone ==
  ASSUME TypeOK, Lines, NEW n \in Node, pipe[n] # <<>>, Head(pipe[n]).op = "hvals"
  PROVE  /\ pipe[n] = HelloCmds /\ \A m \in Node : reply[m] = <<>>
         /\ \A m \in Node : m # n => pipe[m] = <<>>
<1>1. Waits(pipe[n])
  <2>1. Len(pipe[n]) # 0 /\ Len(pipe[n]) \in Nat /\ DOMAIN pipe[n] = 1 .. Len(pipe[n])
        /\ pipe[n][1] = Head(pipe[n])
    BY DEF TypeOK
  <2>2. 1 \in DOMAIN pipe[n]
    BY <2>1
  <2> QED BY <2>1, <2>2 DEF Waits
<1>2. Loading(n)
  BY <1>1 DEF Lines, Down, Listening
<1>3. Head(<<[op |-> "subscribe"]>>).op = "subscribe"
      /\ Head(<<[op |-> "subscribe"], [op |-> "hgetall"]>>).op = "subscribe"
  OBVIOUS
<1> QED BY <1>2, <1>3 DEF Loading

\* A deleted post is not in the list, which is taken while nothing else is
\* in progress.
LEMMA HvalsOnce ==
  ASSUME GoneInv, NEW n \in Node, Redis(n), Head(pipe[n]).op = "hvals", NEW x \in Id
  PROVE  Once(x)' /\ Withdrawn(x)'
<1> DEFINE c == Head(pipe[n])
<1>1. TypeOK /\ ProvInv /\ Lines /\ Single(n) /\ reply \in Queues /\ pipe \in Queues
  BY AreQueues DEF GoneInv, ShownInv, ProvInv, Inv
<1>2. /\ Popped(pipe, pipe', n) /\ UNCHANGED <<posts, published, withdrawn>>
  BY <1>1, ExecEffect
<1>3. /\ pipe[n] = HelloCmds /\ \A m \in Node : reply[m] = <<>>
      /\ \A m \in Node : m # n => pipe[m] = <<>>
  BY <1>1, <1>2, AsksAlone DEF Popped
<1>4. PICK e \in Event : /\ Told(reply, reply', {n}, e)
                         /\ e \in Brings(x) <=> Stored(stored, x)
  BY <1>1, HvalsEffect
<1>5. stored' = stored
  BY <1>1, HvalsEffect
<1>6. \A m \in Node : \A i : At(reply', m, i, Brings(x)) =>
        m = n /\ i = Len(<<>>) + 1 /\ Stored(stored, x)
  <2>1. e \in Command \cup Event
    OBVIOUS
  <2>2. \A m \in Node : \A i : ~At(reply, m, i, Brings(x))
    BY <1>3 DEF At
  <2> QED BY <1>1, <1>3, <1>4, <2>1, <2>2, ToldAt
<1>7. ~HasPost(posts[n], x)
  BY <1>1, <1>3 DEF Single, HasPost
<1>8. \A K \in {Hdels(x), Tells(x), Withdraws(x)} : ~Somewhere(pipe, K)
  <2>1. \A k \in DOMAIN HelloCmds :
          HelloCmds[k] \notin Hsets(x) \cup Hdels(x) \cup Tells(x) \cup Withdraws(x)
    BY SilentCmds DEF Silent
  <2>2. \A m \in Node : pipe[m] = HelloCmds \/ pipe[m] = <<>>
    BY <1>3
  <2> QED BY <2>1, <2>2 DEF Somewhere, At
<1>9. ~Somewhere(pipe', Tells(x))
  BY <1>1, <1>2, <1>8, SomewherePopped
<1>10. Once(x)'
  BY <1>2, <1>6, <1>7, <1>9 DEF Once
<1>11. ASSUME x \in withdrawn PROVE Withdrawn(x)'
  <2>1. PICK u : u = published[x].from /\ Follows(x, u)
    BY <1>11 DEF GoneInv, Withdrawn
  <2>2. ~Stored(stored, x)
    BY <1>8, <2>1 DEF Follows
  <2>3. ~Somewhere(pipe, Revokes(x, u))
    BY <1>8 DEF Somewhere, At, Revokes
  <2>4. \A m \in Node : ~HasPost(posts[m], x)
    <3>1. \A m \in Node : \A i : ~At(reply, m, i, Revoked(x, u))
      BY <1>3 DEF At
    <3> QED BY <2>1, <2>3, <3>1 DEF Follows
  <2>5. Follows(x, u)'
    BY <1>2, <1>5, <1>6, <2>2, <2>4 DEF Follows
  <2> QED BY <1>2, <2>1, <2>5 DEF Withdrawn
<1> QED BY <1>2, <1>10, <1>11 DEF Withdrawn

\* A process that has a post or is about to get it hears of its deletion.
LEMMA PublishedOnce ==
  ASSUME GoneInv, NEW n \in Node, Redis(n), Head(pipe[n]).op = "publish", NEW x \in Id
  PROVE  Once(x)' /\ Withdrawn(x)'
<1> DEFINE c == Head(pipe[n])
           e == [type |-> "push", news |-> c.news]
<1>1. TypeOK /\ ProvInv /\ Lines /\ Once(x) /\ reply \in Queues /\ pipe \in Queues
      /\ Queued(pipe, x)
  BY AreQueues DEF GoneInv, ShownInv, ProvInv, Inv, NewsOf, Course
<1>2. /\ Popped(pipe, pipe', n) /\ c \in Command
      /\ UNCHANGED <<posts, published, withdrawn>>
  BY <1>1, ExecEffect
<1>3. /\ stored' = stored /\ e \in Event /\ Told(reply, reply', subs, e)
      /\ e \in Brings(x) <=> c \in Tells(x)
      /\ e \in Hears(x) <=> c \in Withdraws(x)
      /\ e.news = c.news
  BY <1>1, PublishEffect
<1>4. c.op = "publish"
  OBVIOUS
<1> HIDE DEF e
<1>5. /\ \A K : \A m \in Node : \A i : At(reply, m, i, K) =>
           At(reply', m, i, K) /\ i < Len(reply[m]) + 1
      /\ \A K : \A m \in Node : \A i : At(reply', m, i, K) =>
           At(reply, m, i, K) \/ (m \in subs /\ e \in K /\ i = Len(reply[m]) + 1)
      /\ \A K : e \in K => \A m \in Node : m \in subs => At(reply', m, Len(reply[m]) + 1, K)
  <2>1. e \in Command \cup Event /\ reply \in Queues /\ Told(reply, reply', subs, e)
    BY <1>1, <1>3
  <2> HIDE DEF c
  <2>2. \A K : \A m \in Node : \A i : At(reply, m, i, K) =>
           At(reply', m, i, K) /\ i < Len(reply[m]) + 1
    BY <2>1, ToldAt
  <2>3. \A K : \A m \in Node : \A i : At(reply', m, i, K) =>
           At(reply, m, i, K) \/ (m \in subs /\ e \in K /\ i = Len(reply[m]) + 1)
    BY <2>1, ToldAt
  <2>4. \A K : e \in K => \A m \in Node : m \in subs => At(reply', m, Len(reply[m]) + 1, K)
    BY <2>1, ToldAt
  <2> QED BY <2>2, <2>3, <2>4
<1>6. \A K : /\ Somewhere(pipe', K) => Somewhere(pipe, K)
             /\ c \in K => Somewhere(pipe, K)
             /\ Somewhere(pipe, K) => c \in K \/ Somewhere(pipe', K)
  BY <1>1, <1>2, SomewherePopped
<1>7. c \in Tells(x) => ~Somewhere(pipe', Tells(x))
  BY <1>1, <1>2, QueuedPopped
<1> HIDE DEF c
<1>8. c \in Tells(x) =>
        /\ x \notin withdrawn /\ ~Somewhere(reply, Brings(x))
        /\ \A m \in Node : ~HasPost(posts[m], x)
  BY <1>1, <1>6 DEF Once
<1>9. Once(x)'
  <2>1. ASSUME NEW m \in Node, NEW i, At(reply', m, i, Brings(x))
        PROVE  ~HasPost(posts'[m], x) /\ \A j : At(reply', m, j, Brings(x)) => j = i
    <3>1. CASE c \in Tells(x)
      <4>1. \A j : At(reply', m, j, Brings(x)) => j = Len(reply[m]) + 1
        BY <1>5, <1>8, <3>1 DEF Somewhere
      <4> QED BY <1>2, <1>8, <2>1, <3>1, <4>1
    <3>2. CASE c \notin Tells(x)
      <4>1. \A j : At(reply', m, j, Brings(x)) => At(reply, m, j, Brings(x))
        BY <1>3, <1>5, <3>2
      <4> QED BY <1>1, <1>2, <2>1, <4>1 DEF Once
    <3> QED BY <3>1, <3>2
  <2>2. ASSUME Somewhere(pipe', Tells(x))
        PROVE  /\ x \notin withdrawn' /\ ~Somewhere(reply', Brings(x))
               /\ \A m \in Node : ~HasPost(posts'[m], x)
    <3>1. Somewhere(pipe, Tells(x)) /\ c \notin Tells(x)
      BY <1>6, <1>7, <2>2
    <3>2. /\ x \notin withdrawn /\ ~Somewhere(reply, Brings(x))
          /\ \A m \in Node : ~HasPost(posts[m], x)
      BY <1>1, <3>1 DEF Once
    <3>3. Somewhere(reply', Brings(x)) => Somewhere(reply, Brings(x))
      BY <1>3, <1>5, <3>1 DEF Somewhere
    <3> QED BY <1>2, <3>2, <3>3
  <2> QED BY <2>1, <2>2 DEF Once
<1>10. ASSUME NEW u, Follows(x, u) PROVE c \in Tells(x) \/ Follows(x, u)'
  <2> DEFINE R == Revoked(x, u)
             P == Somewhere(pipe, Revokes(x, u))
             P1 == Somewhere(pipe', Revokes(x, u))
  <2>1. P => P1 \/ e \in R
    <3>1. c \in Revokes(x, u) => e \in R
      BY <1>3 DEF Revokes, Revoked
    <3> QED BY <1>6, <3>1
  <2>2. \A m \in Node :
          /\ HasPost(posts[m], x) => P \/ \E j : At(reply, m, j, R)
          /\ \A i : At(reply, m, i, Brings(x)) => P \/ \E j : j > i /\ At(reply, m, j, R)
    BY <1>10 DEF Follows
  <2>3. ASSUME NEW m \in Node, HasPost(posts[m], x) \/ reply[m] # <<>>
        PROVE  m \in subs
    <3>1. running[m]
      BY <1>1, <2>3 DEF Lines, Down, Loading, Listening, HasPost
    <3>2. ASSUME m \notin subs PROVE FALSE
      <4>1. Loading(n)
        BY <1>1, <1>2, <3>1, <3>2, LoadingAlone DEF Popped
      <4>2. c.op # "publish"
        BY <4>1 DEF Loading, HelloCmds, c
      <4> QED BY <1>4, <4>2
    <3> QED BY <3>2
  <2>4. Stored(stored', x) => Somewhere(pipe', Hdels(x))
    <3>1. c \notin Hdels(x)
      BY <1>4 DEF Hdels
    <3> QED BY <1>3, <1>6, <1>10, <3>1 DEF Follows
  <2> HIDE DEF R, P, P1
  <2>5. ASSUME NEW m \in Node, HasPost(posts'[m], x)
        PROVE  P1 \/ \E j : At(reply', m, j, R)
    BY <1>2, <1>5, <2>1, <2>2, <2>3, <2>5
  <2>6. ASSUME NEW m \in Node, NEW i, At(reply', m, i, Brings(x)), c \notin Tells(x)
        PROVE  P1 \/ \E j : j > i /\ At(reply', m, j, R)
    <3>1. At(reply, m, i, Brings(x))
      BY <1>3, <1>5, <2>6
    <3>2. i \in Nat /\ i < Len(reply[m]) + 1 /\ reply[m] # <<>> /\ Len(reply[m]) \in Nat
      <4>1. i \in Nat /\ reply[m] # <<>>
        BY <1>1, <3>1, AtType DEF At
      <4>2. Len(reply[m]) \in Nat
        BY <1>1 DEF TypeOK
      <4> QED BY <1>5, <3>1, <4>1, <4>2
    <3>3. CASE e \in R
      <4>1. Len(reply[m]) + 1 > i /\ At(reply', m, Len(reply[m]) + 1, R)
        BY <1>5, <2>3, <3>2, <3>3
      <4> QED BY <4>1
    <3>4. CASE e \notin R
      BY <1>5, <2>1, <2>2, <3>1, <3>4
    <3> QED BY <3>3, <3>4
  <2> QED BY <2>4, <2>5, <2>6 DEF Follows, R, P1
<1>11. Withdrawn(x)'
  <2>1. ASSUME x \in withdrawn PROVE \E u : u = published[x].from /\ Follows(x, u)
    BY <2>1 DEF GoneInv, Withdrawn
  <2>2. ASSUME x \in withdrawn PROVE \E u : u = published'[x].from /\ Follows(x, u)'
    BY <1>2, <1>8, <1>10, <2>1, <2>2
  <2> QED BY <1>2, <2>2 DEF Withdrawn
<1> QED BY <1>9, <1>11

\* Other commands bring no post; HDEL takes it out of Redis.
LEMMA ExecutedOnce ==
  ASSUME GoneInv, NEW n \in Node, Redis(n), Head(pipe[n]).op \notin {"hvals", "publish"},
         NEW x \in Id
  PROVE  Once(x)' /\ Withdrawn(x)'
<1> DEFINE c == Head(pipe[n])
<1>1. TypeOK /\ ProvInv /\ Once(x) /\ Course(x) /\ pipe \in Queues
  BY AreQueues DEF GoneInv, ShownInv, ProvInv, Inv, NewsOf
<1>2. /\ Popped(pipe, pipe', n) /\ c \in Command
      /\ Stored(stored', x) => Stored(stored, x) \/ c \in Hsets(x)
      /\ c \in Hdels(x) => ~Stored(stored', x)
      /\ UNCHANGED <<posts, published, withdrawn>>
      /\ \A m \in Node : \A i : At(reply', m, i, Brings(x)) <=> At(reply, m, i, Brings(x))
  BY <1>1, ExecEffect
<1>3. \A K : \A m \in Node : \A i : At(reply, m, i, K) => At(reply', m, i, K)
  BY <1>1, RepliesStay
<1>4. \A K : /\ Somewhere(pipe', K) => Somewhere(pipe, K)
             /\ c \in K => Somewhere(pipe, K)
             /\ Somewhere(pipe, K) => c \in K \/ Somewhere(pipe', K)
  BY <1>1, <1>2, SomewherePopped
<1>5. c.op # "publish"
  OBVIOUS
<1> HIDE DEF c
<1>6. Once(x)'
  <2>1. \A m \in Node : \A i : At(reply', m, i, Brings(x)) =>
          ~HasPost(posts'[m], x) /\ \A j : At(reply', m, j, Brings(x)) => j = i
    BY <1>1, <1>2 DEF Once
  <2>2. Somewhere(pipe', Tells(x)) =>
          /\ x \notin withdrawn' /\ ~Somewhere(reply', Brings(x))
          /\ \A m \in Node : ~HasPost(posts'[m], x)
    BY <1>1, <1>2, <1>4 DEF Once, Somewhere
  <2> QED BY <2>1, <2>2 DEF Once
<1>7. c \in Hsets(x) => x \notin withdrawn
  BY <1>1, <1>4 DEF Course, Unheard
<1>8. ASSUME NEW u, Follows(x, u), x \in withdrawn PROVE Follows(x, u)'
  <2>1. c \notin Revokes(x, u)
    BY <1>5 DEF Revokes, Withdraws
  <2>2. Somewhere(pipe, Revokes(x, u)) => Somewhere(pipe', Revokes(x, u))
    BY <1>4, <2>1
  <2>3. Stored(stored', x) => Somewhere(pipe', Hdels(x))
    BY <1>2, <1>4, <1>7, <1>8 DEF Follows
  <2> QED BY <1>2, <1>3, <1>8, <2>2, <2>3 DEF Follows
<1>9. Withdrawn(x)'
  <2>1. ASSUME x \in withdrawn PROVE \E u : u = published[x].from /\ Follows(x, u)
    BY <2>1 DEF GoneInv, Withdrawn
  <2>2. ASSUME x \in withdrawn PROVE \E u : u = published'[x].from /\ Follows(x, u)'
    BY <1>2, <1>8, <2>1, <2>2
  <2> QED BY <1>2, <2>2 DEF Withdrawn
<1> QED BY <1>6, <1>9

LEMMA RedisGone ==
  ASSUME GoneInv, NEW n \in Node, Redis(n)
  PROVE  (\A m \in Node : Single(m)') /\ \A x \in Id : Once(x)' /\ Withdrawn(x)'
<1> DEFINE c == Head(pipe[n])
<1>1. TypeOK /\ ProvInv /\ Lines /\ reply \in Queues /\ pipe \in Queues
      /\ \A m \in Node : Single(m)
  BY AreQueues DEF GoneInv, ShownInv, ProvInv, Inv
<1>2. Popped(pipe, pipe', n) /\ posts' = posts
  BY DEF Popped, Redis, workerVars, ExecHvals, ExecHgetall, ExecSubscribe, ExecHset,
         ExecArchive, ExecHdel, ExecHincrby, ExecPublish, Exec
<1>3. \A m \in Node : \A i : ~At(reply', m, i, Doubles)
  <2>1. ASSUME NEW S, NEW e \in Event, Told(reply, reply', S, e), e \notin Doubles
        PROVE  \A m \in Node : \A i : ~At(reply', m, i, Doubles)
    <3>1. e \in Command \cup Event
      OBVIOUS
    <3>2. \A m \in Node : \A i : ~At(reply, m, i, Doubles)
      BY <1>1 DEF Single
    <3>3. \A m \in Node : \A i : At(reply', m, i, Doubles) =>
            At(reply, m, i, Doubles) \/ e \in Doubles
      BY <1>1, <2>1, <3>1, ToldAt
    <3> QED BY <2>1, <3>2, <3>3
  <2>2. CASE c.op = "hvals"
    <3>1. PICK e \in Event : Told(reply, reply', {n}, e) /\ Distinct(e.posts)
      BY <1>1, <2>2, HvalsEffect
    <3>2. e \notin Doubles
      BY <3>1 DEF Doubles
    <3> QED BY <2>1, <3>1, <3>2
  <2>3. CASE c.op = "hgetall"
    <3>1. PICK e \in Event : Told(reply, reply', {n}, e) /\ e.type = "hgetall"
      BY <1>1, <2>3, HgetallEffect
    <3>2. e \notin Doubles
      BY <3>1 DEF Doubles
    <3> QED BY <2>1, <3>1, <3>2
  <2>4. CASE c.op = "publish"
    <3> DEFINE e == [type |-> "push", news |-> c.news]
    <3>1. e \in Event /\ Told(reply, reply', subs, e)
      BY <1>1, <2>4, PublishEffect
    <3>2. e \notin Doubles
      BY DEF Doubles
    <3> HIDE DEF e
    <3> QED BY <2>1, <3>1, <3>2
  <2>5. CASE c.op \notin {"hvals", "hgetall", "publish"}
    <3>1. reply' = reply
      BY <2>5 DEF Redis, ExecHvals, ExecHgetall, ExecSubscribe, ExecHset,
              ExecArchive, ExecHdel, ExecHincrby, ExecPublish, Exec
    <3> QED BY <1>1, <3>1 DEF Single
  <2> QED BY <2>2, <2>3, <2>4, <2>5
<1>4. ASSUME NEW m \in Node, pipe'[m] = HelloCmds PROVE pipe[m] = HelloCmds
  <2>1. CASE m # n
    BY <1>1, <1>2, <1>4, <2>1 DEF Popped, TypeOK
  <2>2. CASE m = n
    <3> DEFINE d == HelloCmds
    <3>1. Tail(pipe[n]) = d /\ pipe[n] # <<>> /\ pipe[n] \in Seq(Command)
      BY <1>1, <1>2, <1>4, <2>2 DEF Popped, TypeOK
    <3>2. Waits(d) /\ d # <<>> /\ d # <<[op |-> "subscribe"]>> /\ d # <<[op |-> "hgetall"]>>
      <4>1. d[1].op = "hvals" /\ <<[op |-> "subscribe"]>>[1].op = "subscribe"
            /\ <<[op |-> "hgetall"]>>[1].op = "hgetall"
        BY DEF HelloCmds
      <4>2. Waits(d) /\ d # <<>>
        BY DEF HelloCmds, Waits
      <4> QED BY <4>1, <4>2
    <3> HIDE DEF d
    <3>3. Waits(pipe[n])
      BY <3>1, <3>2, WaitsTaken
    <3>4. Loading(n)
      BY <1>1, <3>1, <3>3 DEF Lines, Down, Listening
    <3>5. pipe[n] = HelloCmds
      <4>1. /\ Tail(<<[op |-> "subscribe"]>>) = <<>>
            /\ Tail(<<[op |-> "subscribe"], [op |-> "hgetall"]>>) = <<[op |-> "hgetall"]>>
        BY OneOrTwo
      <4> QED BY <3>1, <3>2, <3>4, <4>1 DEF Loading
    <3> QED BY <2>2, <3>5
  <2> QED BY <2>1, <2>2
<1>5. \A m \in Node : Single(m)'
  BY <1>1, <1>2, <1>3, <1>4 DEF Single
<1> QED BY <1>5, HvalsOnce, PublishedOnce, ExecutedOnce

\* GoneInv is inductive when, besides, no process reconnects.
LEMMA NextGone ==
  ASSUME GoneInv, [Next]_vars, Quiet, Seen, MaxReconnects = 0
  PROVE  GoneInv'
<1>1. ShownInv'
  BY NextShown DEF GoneInv
<1> DEFINE Rest == (\A m \in Node : Single(m)) /\ \A x \in Id : Once(x) /\ Withdrawn(x)
<1>2. ASSUME UNCHANGED vars PROVE Rest'
  <2>1. \A m \in Node : Single(m)'
    BY <1>2 DEF GoneInv, vars, workerVars, Single, At
  <2>2. ASSUME NEW x \in Id PROVE Once(x)' /\ Withdrawn(x)'
    BY <1>2 DEF GoneInv, vars, workerVars, redisVars, history, Once, Withdrawn, Follows,
                Somewhere, At
  <2> QED BY <2>1, <2>2
<1>3. ASSUME NEW n \in Node, Start(n) \/ Reconnect(n) \/ Stop(n) PROVE Rest'
  BY <1>3, ConnectGone
<1>4. ASSUME NEW n \in Node, NEW b \in Bodies, OnView(n, b) PROVE Rest'
  BY <1>4, ViewGone
<1>5. ASSUME NEW n \in Node, NEW id \in Id, NEW u \in User,
             OnPublish(n, u, id) \/ OnDelete(n, u, id)
      PROVE  Rest'
  BY <1>5, PublishGone, DeleteGone
<1>6. ASSUME NEW n \in Node, OnReply(n) PROVE Rest'
  BY <1>6, ReplyGone
<1>7. ASSUME NEW n \in Node, Redis(n) PROVE Rest'
  BY <1>7, RedisGone
<1>8. Rest' => GoneInv'
  BY <1>1 DEF GoneInv
<1> HIDE DEF Rest
<1>9. CASE Next
  BY <1>3, <1>4, <1>5, <1>6, <1>7, <1>8, <1>9 DEF Next
<1>10. UNCHANGED vars => GoneInv'
  BY <1>2, <1>8
<1> QED BY <1>9, <1>10

\* With Quiet, Seen and ViewsOnly, and no process that reconnects: a post that its
\* author or the admin deleted is gone from every process that accepts requests or the
\* process is about to be told of the deletion.  remove_post() removes one post
\* only and nothing removes it later, so no process may ever have it twice and
\* none may get it behind the news.
THEOREM WithdrawnIsGone ==
  ASSUME Quiet, Seen, ViewsOnly, MaxReconnects = 0 PROVE Spec => []Gone
<1>1. Init => GoneInv
  BY InitGone
<1>2. GoneInv /\ [Next]_vars => GoneInv'
  BY NextGone
<1>3. ASSUME GoneInv, NEW n \in Node, NEW x \in withdrawn,
             NEW k \in DOMAIN posts[n], posts[n][k].id = x
      PROVE  \E u \in {published[x].from, Admin} :
               [cmd |-> "delete", id |-> x, from |-> u] \in NewsFor(n)
  <2>1. TypeOK /\ x \in Id /\ HasPost(posts[n], x)
    BY <1>3 DEF GoneInv, ShownInv, ProvInv, Inv, TypeOK, HasPost
  <2>2. PICK u : u = published[x].from /\ Follows(x, u)
    BY <1>3, <2>1 DEF GoneInv, Withdrawn
  <2>3. \/ Somewhere(pipe, Revokes(x, u))
        \/ \E j : At(reply, n, j, Revoked(x, u))
    BY <2>1, <2>2 DEF Follows
  <2>4. ASSUME NEW m \in Node, NEW i, At(pipe, m, i, Revokes(x, u))
        PROVE  \E v \in {u, Admin} : [cmd |-> "delete", id |-> x, from |-> v] \in NewsFor(n)
    <3> DEFINE c == pipe[m][i]
    <3>1. /\ i \in DOMAIN pipe[m] /\ c \in Command /\ c.op = "publish"
          /\ c.news.cmd = "delete" /\ c.news.id = x /\ c.news.from \in {u, Admin}
      BY <2>4 DEF At, Revokes, Withdraws
    <3>2. c.news \in News
      BY <3>1 DEF Command
    <3>3. c.news = [cmd |-> "delete", id |-> x, from |-> c.news.from]
      BY <3>1, <3>2 DEF News
    <3>4. c.news \in NewsFor(n)
      BY <3>1 DEF NewsFor
    <3> HIDE DEF c
    <3> QED BY <3>1, <3>3, <3>4
  <2>5. ASSUME NEW i, At(reply, n, i, Revoked(x, u))
        PROVE  \E v \in {u, Admin} : [cmd |-> "delete", id |-> x, from |-> v] \in NewsFor(n)
    <3> DEFINE e == reply[n][i]
    <3>1. /\ i \in DOMAIN reply[n] /\ e \in Event /\ e.type = "push"
          /\ e.news.cmd = "delete" /\ e.news.id = x /\ e.news.from \in {u, Admin}
      BY <2>5 DEF At, Revoked, Hears
    <3>2. e.news \in News
      BY <3>1 DEF Event
    <3>3. e.news = [cmd |-> "delete", id |-> x, from |-> e.news.from]
      BY <3>1, <3>2 DEF News
    <3>4. e.news \in NewsFor(n)
      BY <3>1 DEF NewsFor
    <3> HIDE DEF e
    <3> QED BY <3>1, <3>3, <3>4
  <2> QED BY <2>2, <2>3, <2>4, <2>5 DEF Somewhere
<1>4. GoneInv => Gone
  BY <1>3 DEF Gone
<1> QED BY <1>1, <1>2, <1>4, PTL DEF Spec
=============================================================================
