------------------------- MODULE ChatDeliveryProofs -------------------------
(***************************************************************************)
(* Proofs about what goes on between ChatWorker and Redis: the answers to  *)
(* LRANGE find the user who asked, the subscriptions follow sessions_, and *)
(* no mail waits at anyone but its addressee.                              *)
(***************************************************************************)
EXTENDS ChatWorkerProofs

-----------------------------------------------------------------------------
(* Sequences that are aligned.                                             *)

\* v is w with something that is no answer put in at place k.
Widened(w, v, k) ==
  /\ Len(v) = Len(w) + 1 /\ k \in 1 .. Len(w) + 1
  /\ v[k] = None
  /\ \A i \in 1 .. Len(w) : IF i < k THEN v[i] = w[i] ELSE v[i + 1] = w[i]

LEMMA AlignedWiden ==
  ASSUME NEW q \in Seq(Names(0 .. 1)), NEW w \in Seq(User \cup {None}),
         NEW v \in Seq(User \cup {None}), NEW k \in Nat, Widened(w, v, k),
         Aligned(q, w)
  PROVE  Aligned(q, v)
<1> DEFINE W == {i \in DOMAIN w : w[i] # None}
           V == {i \in DOMAIN v : v[i] # None}
           at(i) == IF i < k THEN i ELSE i + 1
<1>1. PICK f \in [DOMAIN q -> W] :
        /\ \A i, j \in DOMAIN q : i < j => f[i] < f[j]
        /\ \A i \in DOMAIN w : w[i] # None => \E j \in DOMAIN q : f[j] = i
        /\ \A i \in DOMAIN q : q[i].user = w[f[i]]
  BY DEF Aligned
<1>2. /\ DOMAIN w = 1 .. Len(w) /\ Len(w) \in Nat
      /\ DOMAIN v = 1 .. Len(w) + 1
      /\ k \in 1 .. Len(w) + 1 /\ v[k] = None
  BY DEF Widened
<1>3. \A i \in DOMAIN w : at(i) \in DOMAIN v /\ v[at(i)] = w[i]
  BY <1>2 DEF Widened
<1>4. \A j \in DOMAIN v : j = k \/ \E i \in DOMAIN w : at(i) = j
  <2>1. TAKE j \in DOMAIN v
  <2>2. CASE j < k
    BY <1>2, <2>2
  <2>3. CASE j > k
    <3>1. j - 1 \in DOMAIN w /\ at(j - 1) = j
      BY <1>2, <2>3
    <3> QED BY <3>1
  <2> QED BY <1>2, <2>2, <2>3
<1>5. \A i, j \in DOMAIN w : i < j => at(i) < at(j)
  BY <1>2
<1> HIDE DEF at
<1> DEFINE g == [i \in DOMAIN q |-> at(f[i])]
<1>6. g \in [DOMAIN q -> V]
  BY <1>3
<1>7. \A i, j \in DOMAIN q : i < j => g[i] < g[j]
  BY <1>1, <1>5
<1>8. \A j \in DOMAIN v : v[j] # None => \E i \in DOMAIN q : g[i] = j
  BY <1>1, <1>2, <1>3, <1>4
<1>9. \A i \in DOMAIN q : q[i].user = v[g[i]]
  BY <1>1, <1>3
<1> QED BY <1>6, <1>7, <1>8, <1>9 DEF Aligned

LEMMA AlignedNarrow ==
  ASSUME NEW q \in Seq(Names(0 .. 1)), NEW w \in Seq(User \cup {None}),
         NEW v \in Seq(User \cup {None}), NEW k \in Nat, Widened(w, v, k),
         Aligned(q, v)
  PROVE  Aligned(q, w)
<1> DEFINE W == {i \in DOMAIN w : w[i] # None}
           V == {i \in DOMAIN v : v[i] # None}
           at(j) == IF j < k THEN j ELSE j - 1
<1>1. PICK f \in [DOMAIN q -> V] :
        /\ \A i, j \in DOMAIN q : i < j => f[i] < f[j]
        /\ \A i \in DOMAIN v : v[i] # None => \E j \in DOMAIN q : f[j] = i
        /\ \A i \in DOMAIN q : q[i].user = v[f[i]]
  BY DEF Aligned
<1>2. /\ DOMAIN w = 1 .. Len(w) /\ Len(w) \in Nat
      /\ DOMAIN v = 1 .. Len(w) + 1
      /\ k \in 1 .. Len(w) + 1 /\ v[k] = None
      /\ \A i \in DOMAIN w : IF i < k THEN v[i] = w[i] ELSE v[i + 1] = w[i]
  BY DEF Widened
<1>3. \A j \in V : at(j) \in DOMAIN w /\ w[at(j)] = v[j]
  <2>1. SUFFICES ASSUME NEW j \in V PROVE at(j) \in DOMAIN w /\ w[at(j)] = v[j]
    OBVIOUS
  <2>2. j # k /\ j \in 1 .. Len(w) + 1
    BY <1>2
  <2>3. CASE j < k
    BY <1>2, <2>2, <2>3
  <2>4. CASE j > k
    <3>1. j - 1 \in DOMAIN w /\ ~(j - 1 < k) /\ at(j) = j - 1 /\ (j - 1) + 1 = j
      BY <1>2, <2>2, <2>4
    <3> QED BY <1>2, <3>1
  <2> QED BY <1>2, <2>2, <2>3, <2>4
<1>4. \A i \in DOMAIN w : w[i] # None => \E j \in V : at(j) = i
  <2>1. SUFFICES ASSUME NEW i \in DOMAIN w, w[i] # None
                 PROVE  \E j \in V : at(j) = i
    OBVIOUS
  <2>2. CASE i < k
    <3>1. i \in V /\ at(i) = i
      BY <1>2, <2>1, <2>2
    <3> QED BY <3>1
  <2>3. CASE ~(i < k)
    <3>1. i + 1 \in V /\ at(i + 1) = i
      BY <1>2, <2>1, <2>3
    <3> QED BY <3>1
  <2> QED BY <2>2, <2>3
<1>5. \A i, j \in V : i < j => at(i) < at(j)
  BY <1>2
<1> HIDE DEF at
<1> DEFINE g == [i \in DOMAIN q |-> at(f[i])]
<1>6. g \in [DOMAIN q -> W]
  BY <1>3
<1>7. \A i, j \in DOMAIN q : i < j => g[i] < g[j]
  BY <1>1, <1>5
<1>8. \A j \in DOMAIN w : w[j] # None => \E i \in DOMAIN q : g[i] = j
  BY <1>1, <1>4
<1>9. \A i \in DOMAIN q : q[i].user = w[g[i]]
  BY <1>1, <1>3
<1> QED BY <1>6, <1>7, <1>8, <1>9 DEF Aligned

\* More commands, none of which is LRANGE, come after w.
LEMMA AlignedPad ==
  ASSUME NEW q \in Seq(Names(0 .. 1)), NEW w \in Seq(User \cup {None}),
         NEW v \in Seq(User \cup {None}), Len(w) <= Len(v),
         \A i \in 1 .. Len(w) : v[i] = w[i],
         \A i \in 1 .. Len(v) : i > Len(w) => v[i] = None,
         Aligned(q, w)
  PROVE  Aligned(q, v)
<1>1. PICK f \in [DOMAIN q -> {k \in DOMAIN w : w[k] # None}] :
        /\ \A i, j \in DOMAIN q : i < j => f[i] < f[j]
        /\ \A k \in DOMAIN w : w[k] # None => \E i \in DOMAIN q : f[i] = k
        /\ \A i \in DOMAIN q : q[i].user = w[f[i]]
  BY DEF Aligned
<1>2. DOMAIN w = 1 .. Len(w) /\ DOMAIN v = 1 .. Len(v) /\ Len(w) \in Nat /\ Len(v) \in Nat
  OBVIOUS
<1>3. \A k \in DOMAIN v : v[k] # None => k \in DOMAIN w /\ w[k] # None
  BY <1>2
<1>4. \A k \in DOMAIN w : k \in DOMAIN v /\ v[k] = w[k]
  BY <1>2
<1>5. f \in [DOMAIN q -> {k \in DOMAIN v : v[k] # None}]
  BY <1>4
<1>6. \A k \in DOMAIN v : v[k] # None => \E i \in DOMAIN q : f[i] = k
  BY <1>1, <1>3
<1>7. \A i \in DOMAIN q : q[i].user = v[f[i]]
  BY <1>1, <1>4
<1> QED BY <1>1, <1>5, <1>6, <1>7 DEF Aligned

\* One LRANGE is among the commands that come after w, and its name is kept.
LEMMA AlignedAsk ==
  ASSUME NEW q \in Seq(Names(0 .. 1)), NEW w \in Seq(User \cup {None}),
         NEW v \in Seq(User \cup {None}), NEW a \in Names(0 .. 1),
         \A i \in 1 .. Len(w) : v[i] = w[i],
         NEW k \in 1 .. Len(v), k > Len(w), v[k] = a.user,
         \A i \in 1 .. Len(v) : i > Len(w) /\ i # k => v[i] = None,
         Aligned(q, w)
  PROVE  Aligned(Append(q, a), v)
<1> DEFINE V == {i \in DOMAIN v : v[i] # None}
           r == Append(q, a)
<1>1. PICK f \in [DOMAIN q -> {i \in DOMAIN w : w[i] # None}] :
        /\ \A i, j \in DOMAIN q : i < j => f[i] < f[j]
        /\ \A i \in DOMAIN w : w[i] # None => \E j \in DOMAIN q : f[j] = i
        /\ \A i \in DOMAIN q : q[i].user = w[f[i]]
  BY DEF Aligned
<1>2. /\ DOMAIN w = 1 .. Len(w) /\ DOMAIN v = 1 .. Len(v)
      /\ Len(w) \in Nat /\ Len(v) \in Nat
      /\ DOMAIN q = 1 .. Len(q) /\ Len(q) \in Nat
      /\ DOMAIN r = 1 .. Len(q) + 1
      /\ r[Len(q) + 1] = a /\ \A i \in 1 .. Len(q) : r[i] = q[i]
  OBVIOUS
<1>3. a.user # None
  BY ConstantsDiffer DEF Names
<1>4. \A i \in DOMAIN w : i \in DOMAIN v /\ v[i] = w[i] /\ i < k
  BY <1>2
<1> HIDE DEF r
<1> DEFINE g == [i \in DOMAIN r |-> IF i = Len(q) + 1 THEN k ELSE f[i]]
<1>5. \A i \in DOMAIN q : g[i] = f[i] /\ f[i] \in DOMAIN w /\ w[f[i]] # None
  BY <1>2
<1>6. g[Len(q) + 1] = k
  BY <1>2
<1>7. \A i \in DOMAIN r : i \in DOMAIN q \/ i = Len(q) + 1
  BY <1>2
<1>8. g \in [DOMAIN r -> V]
  BY <1>2, <1>3, <1>4, <1>5, <1>6, <1>7
<1>9. \A i, j \in DOMAIN r : i < j => g[i] < g[j]
  <2>1. TAKE i, j \in DOMAIN r
  <2>2. HAVE i < j
  <2>3. i \in DOMAIN q
    BY <1>2, <2>2
  <2>4. CASE j \in DOMAIN q
    BY <1>1, <1>5, <2>2, <2>3, <2>4
  <2>5. CASE j = Len(q) + 1
    BY <1>4, <1>5, <1>6, <2>3, <2>5
  <2> QED BY <1>7, <2>4, <2>5
<1>10. \A j \in DOMAIN v : v[j] # None => \E i \in DOMAIN r : g[i] = j
  <2>1. SUFFICES ASSUME NEW j \in DOMAIN v, v[j] # None
                 PROVE  \E i \in DOMAIN r : g[i] = j
    OBVIOUS
  <2>2. CASE j = k
    <3>1. Len(q) + 1 \in DOMAIN r
      BY <1>2
    <3> QED BY <1>6, <2>2, <3>1
  <2>3. CASE j # k
    <3>1. j \in DOMAIN w /\ w[j] # None
      BY <1>2, <1>4, <2>1, <2>3
    <3>2. PICK i \in DOMAIN q : f[i] = j
      BY <1>1, <3>1
    <3>3. i \in DOMAIN r
      BY <1>2
    <3> QED BY <1>5, <3>2, <3>3
  <2> QED BY <2>2, <2>3
<1>11. \A i \in DOMAIN r : r[i].user = v[g[i]]
  BY <1>1, <1>2, <1>4, <1>5, <1>6, <1>7
<1> HIDE DEF g
<1> QED BY <1>8, <1>9, <1>10, <1>11 DEF Aligned, r

\* The first in w is an answer: it is the one for the first name.
LEMMA AlignedTail ==
  ASSUME NEW q \in Seq(Names(0 .. 1)), NEW w \in Seq(User \cup {None}),
         w # <<>>, w[1] # None, Aligned(q, w)
  PROVE  q # <<>> /\ Head(q).user = w[1] /\ Aligned(Tail(q), Tail(w))
<1> DEFINE x == Tail(w)
           r == Tail(q)
<1>1. PICK f \in [DOMAIN q -> {i \in DOMAIN w : w[i] # None}] :
        /\ \A i, j \in DOMAIN q : i < j => f[i] < f[j]
        /\ \A i \in DOMAIN w : w[i] # None => \E j \in DOMAIN q : f[j] = i
        /\ \A i \in DOMAIN q : q[i].user = w[f[i]]
  BY DEF Aligned
<1>2. /\ DOMAIN w = 1 .. Len(w) /\ Len(w) \in Nat /\ Len(w) > 0
      /\ DOMAIN q = 1 .. Len(q) /\ Len(q) \in Nat
  OBVIOUS
<1>3. PICK h \in DOMAIN q : f[h] = 1
  BY <1>1, <1>2
<1>4. q # <<>> /\ 1 \in DOMAIN q /\ Len(q) > 0
  BY <1>2, <1>3
<1>5. h = 1
  <2>1. SUFFICES ASSUME h # 1 PROVE FALSE
    OBVIOUS
  <2>2. 1 < h
    BY <1>2, <2>1
  <2>3. f[1] < f[h]
    BY <1>1, <1>4, <2>2
  <2>4. f[1] \in 1 .. Len(w)
    BY <1>2, <1>4
  <2> QED BY <1>2, <1>3, <2>3, <2>4
<1>6. Head(q).user = w[1]
  BY <1>1, <1>3, <1>4, <1>5
<1>7. /\ DOMAIN x = 1 .. Len(w) - 1 /\ \A i \in 1 .. Len(w) - 1 : x[i] = w[i + 1]
      /\ DOMAIN r = 1 .. Len(q) - 1 /\ \A i \in 1 .. Len(q) - 1 : r[i] = q[i + 1]
  BY <1>2, <1>4
<1> HIDE DEF x, r
<1> DEFINE g == [i \in DOMAIN r |-> f[i + 1] - 1]
<1>8. \A i \in DOMAIN r : /\ i + 1 \in DOMAIN q /\ f[i + 1] > 1
                          /\ f[i + 1] \in DOMAIN w /\ w[f[i + 1]] # None
  BY <1>1, <1>2, <1>3, <1>5, <1>7
<1>9. \A i \in DOMAIN r : g[i] \in DOMAIN x /\ x[g[i]] = w[f[i + 1]] /\ g[i] = f[i + 1] - 1
  <2>1. TAKE i \in DOMAIN r
  <2>2. f[i + 1] - 1 \in 1 .. Len(w) - 1 /\ (f[i + 1] - 1) + 1 = f[i + 1]
    BY <1>2, <1>8
  <2> QED BY <1>7, <2>2
<1>10. g \in [DOMAIN r -> {i \in DOMAIN x : x[i] # None}]
  BY <1>8, <1>9
<1>11. \A i, j \in DOMAIN r : i < j => g[i] < g[j]
  <2>1. TAKE i, j \in DOMAIN r
  <2>2. HAVE i < j
  <2>3. i + 1 < j + 1
    BY <1>7, <2>2
  <2>4. f[i + 1] < f[j + 1]
    BY <1>1, <1>8, <2>3
  <2> QED BY <1>2, <1>8, <1>9, <2>4
<1>12. \A j \in DOMAIN x : x[j] # None => \E i \in DOMAIN r : g[i] = j
  <2>1. SUFFICES ASSUME NEW j \in DOMAIN x, x[j] # None
                 PROVE  \E i \in DOMAIN r : g[i] = j
    OBVIOUS
  <2>2. j + 1 \in DOMAIN w /\ w[j + 1] # None /\ j + 1 > 1
    BY <1>2, <1>7, <2>1
  <2>3. PICK i \in DOMAIN q : f[i] = j + 1
    BY <1>1, <2>2
  <2>4. i # 1
    BY <1>3, <1>5, <2>2, <2>3
  <2>5. i - 1 \in DOMAIN r /\ (i - 1) + 1 = i
    BY <1>2, <1>7, <2>4
  <2>6. g[i - 1] = j
    BY <1>2, <1>7, <2>3, <2>5
  <2> QED BY <2>5, <2>6
<1> HIDE DEF g
<1>13. \A i \in DOMAIN r : r[i].user = x[g[i]]
  <2>1. TAKE i \in DOMAIN r
  <2>2. r[i] = q[i + 1] /\ i + 1 \in DOMAIN q
    BY <1>7, <1>8
  <2>3. q[i + 1].user = w[f[i + 1]]
    BY <1>1, <2>2
  <2> QED BY <1>9, <2>2, <2>3
<1>14. Aligned(r, x)
  BY <1>10, <1>11, <1>12, <1>13 DEF Aligned
<1> QED BY <1>4, <1>6, <1>14 DEF x, r

-----------------------------------------------------------------------------
(* What a process waits for.                                               *)

LEMMA AwaitedType ==
  ASSUME NEW r \in Seq(Event), NEW p \in Seq(Command)
  PROVE  /\ Awaited(r, p) \in Seq(User \cup {None})
         /\ Len(Awaited(r, p)) = Len(r) + Len(p)
         /\ \A i \in 1 .. Len(r) : Awaited(r, p)[i] = AnswerFor(r[i])
         /\ \A i \in 1 .. Len(p) : Awaited(r, p)[Len(r) + i] = AskedFor(p[i])
<1>1. \A e \in Event : AnswerFor(e) \in User \cup {None}
  BY DEF AnswerFor, Event, Key, Names
<1>2. \A c \in Command : AskedFor(c) \in User \cup {None}
  BY DEF AskedFor, Command, Key, Names
<1> DEFINE w == Awaited(r, p)
           n == Len(r) + Len(p)
           val(i) == IF i <= Len(r) THEN AnswerFor(r[i]) ELSE AskedFor(p[i - Len(r)])
<1>3. w = [i \in 1 .. n |-> val(i)] /\ n \in Nat /\ Len(r) \in Nat /\ Len(p) \in Nat
  BY DEF Awaited
<1>4. \A i \in 1 .. Len(r) : val(i) = AnswerFor(r[i]) /\ r[i] \in Event
  OBVIOUS
<1>5. \A i \in 1 .. Len(p) :
        val(Len(r) + i) = AskedFor(p[i]) /\ p[i] \in Command /\ Len(r) + i \in 1 .. n
  OBVIOUS
<1>6. \A i \in 1 .. n : i \in 1 .. Len(r) \/ \E j \in 1 .. Len(p) : i = Len(r) + j
  <2>1. TAKE i \in 1 .. n
  <2>2. i \in 1 .. Len(r) \/ (i - Len(r) \in 1 .. Len(p) /\ i = Len(r) + (i - Len(r)))
    BY <1>3
  <2> QED BY <2>2
<1> HIDE DEF val
<1>7. \A i \in 1 .. n : val(i) \in User \cup {None}
  BY <1>1, <1>2, <1>4, <1>5, <1>6
<1>8. w \in Seq(User \cup {None}) /\ Len(w) = n
  BY <1>3, <1>7
<1> QED BY <1>3, <1>4, <1>5, <1>8

\* Commands of which none is LRANGE are added to the pipeline.
LEMMA AwaitedPad ==
  ASSUME NEW r \in Seq(Event), NEW p \in Seq(Command), NEW cmds \in Seq(Command),
         \A i \in 1 .. Len(cmds) : cmds[i].op # "lrange",
         NEW q \in Seq(Names(0 .. 1)), Aligned(q, Awaited(r, p))
  PROVE  Aligned(q, Awaited(r, p \o cmds))
<1> DEFINE w == Awaited(r, p)
           v == Awaited(r, p \o cmds)
<1>1. /\ p \o cmds \in Seq(Command) /\ Len(p \o cmds) = Len(p) + Len(cmds)
      /\ \A i \in 1 .. Len(p) : (p \o cmds)[i] = p[i]
      /\ \A i \in 1 .. Len(cmds) : (p \o cmds)[Len(p) + i] = cmds[i]
      /\ Len(r) \in Nat /\ Len(p) \in Nat /\ Len(cmds) \in Nat
  OBVIOUS
<1>2. /\ w \in Seq(User \cup {None}) /\ Len(w) = Len(r) + Len(p)
      /\ \A i \in 1 .. Len(r) : w[i] = AnswerFor(r[i])
      /\ \A i \in 1 .. Len(p) : w[Len(r) + i] = AskedFor(p[i])
  BY AwaitedType
<1>3. /\ v \in Seq(User \cup {None}) /\ Len(v) = Len(r) + Len(p) + Len(cmds)
      /\ \A i \in 1 .. Len(r) : v[i] = AnswerFor(r[i])
      /\ \A i \in 1 .. Len(p) + Len(cmds) : v[Len(r) + i] = AskedFor((p \o cmds)[i])
  <2> DEFINE x == p \o cmds
  <2>1. x \in Seq(Command) /\ Len(x) = Len(p) + Len(cmds)
    BY <1>1
  <2> HIDE DEF x
  <2>2. /\ Awaited(r, x) \in Seq(User \cup {None})
        /\ Len(Awaited(r, x)) = Len(r) + Len(x)
        /\ \A i \in 1 .. Len(r) : Awaited(r, x)[i] = AnswerFor(r[i])
        /\ \A i \in 1 .. Len(x) : Awaited(r, x)[Len(r) + i] = AskedFor(x[i])
    BY <2>1, AwaitedType
  <2>3. v = Awaited(r, x) /\ x = p \o cmds
    BY DEF x
  <2> QED BY <1>1, <2>1, <2>2, <2>3
<1> HIDE DEF w, v
<1>4. \A i \in 1 .. Len(w) : v[i] = w[i]
  <2>1. TAKE i \in 1 .. Len(w)
  <2>2. CASE i <= Len(r)
    BY <1>1, <1>2, <1>3, <2>2
  <2>3. CASE i > Len(r)
    <3> DEFINE j == i - Len(r)
    <3>1. j \in 1 .. Len(p) /\ j \in 1 .. Len(p) + Len(cmds) /\ i = Len(r) + j
      BY <1>1, <1>2, <2>3
    <3> HIDE DEF j
    <3>2. w[i] = AskedFor(p[j])
      BY <1>2, <3>1
    <3>3. v[i] = AskedFor(p[j])
      BY <1>1, <1>3, <3>1
    <3> QED BY <3>2, <3>3
  <2> QED BY <1>1, <1>2, <2>2, <2>3
<1>5. \A i \in 1 .. Len(v) : i > Len(w) => v[i] = None
  <2>1. SUFFICES ASSUME NEW i \in 1 .. Len(v), i > Len(w) PROVE v[i] = None
    OBVIOUS
  <2> DEFINE k == i - Len(w)
  <2>2. /\ k \in 1 .. Len(cmds) /\ Len(p) + k \in 1 .. Len(p) + Len(cmds)
        /\ i = Len(r) + (Len(p) + k)
    BY <1>1, <1>2, <1>3, <2>1
  <2>3. v[i] = AskedFor(cmds[k])
    BY <1>1, <1>3, <2>2
  <2> QED BY <2>2, <2>3 DEF AskedFor
<1>6. Len(w) <= Len(v) /\ Aligned(q, w)
  BY <1>1, <1>2, <1>3 DEF w
<1>7. Aligned(q, v)
  BY <1>2, <1>3, <1>4, <1>5, <1>6, AlignedPad
<1> QED BY <1>7 DEF v

\* An LRANGE is added to the pipeline, and its name to the queue of names.
LEMMA AwaitedAsk ==
  ASSUME NEW r \in Seq(Event), NEW p \in Seq(Command), NEW cmds \in Seq(Command),
         NEW k \in 1 .. Len(cmds), NEW a \in Names(0 .. 1),
         cmds[k].op = "lrange", cmds[k].name.user = a.user,
         \A i \in 1 .. Len(cmds) : i # k => cmds[i].op # "lrange",
         NEW q \in Seq(Names(0 .. 1)), Aligned(q, Awaited(r, p))
  PROVE  Aligned(Append(q, a), Awaited(r, p \o cmds))
<1> DEFINE w == Awaited(r, p)
           v == Awaited(r, p \o cmds)
           l == Len(r) + (Len(p) + k)
<1>1. /\ p \o cmds \in Seq(Command) /\ Len(p \o cmds) = Len(p) + Len(cmds)
      /\ \A i \in 1 .. Len(p) : (p \o cmds)[i] = p[i]
      /\ \A i \in 1 .. Len(cmds) : (p \o cmds)[Len(p) + i] = cmds[i]
      /\ Len(r) \in Nat /\ Len(p) \in Nat /\ Len(cmds) \in Nat
  OBVIOUS
<1>2. /\ w \in Seq(User \cup {None}) /\ Len(w) = Len(r) + Len(p)
      /\ \A i \in 1 .. Len(r) : w[i] = AnswerFor(r[i])
      /\ \A i \in 1 .. Len(p) : w[Len(r) + i] = AskedFor(p[i])
  BY AwaitedType
<1>3. /\ v \in Seq(User \cup {None}) /\ Len(v) = Len(r) + Len(p) + Len(cmds)
      /\ \A i \in 1 .. Len(r) : v[i] = AnswerFor(r[i])
      /\ \A i \in 1 .. Len(p) + Len(cmds) : v[Len(r) + i] = AskedFor((p \o cmds)[i])
  <2> DEFINE x == p \o cmds
  <2>1. x \in Seq(Command) /\ Len(x) = Len(p) + Len(cmds)
    BY <1>1
  <2> HIDE DEF x
  <2>2. /\ Awaited(r, x) \in Seq(User \cup {None})
        /\ Len(Awaited(r, x)) = Len(r) + Len(x)
        /\ \A i \in 1 .. Len(r) : Awaited(r, x)[i] = AnswerFor(r[i])
        /\ \A i \in 1 .. Len(x) : Awaited(r, x)[Len(r) + i] = AskedFor(x[i])
    BY <2>1, AwaitedType
  <2>3. v = Awaited(r, x) /\ x = p \o cmds
    BY DEF x
  <2> QED BY <1>1, <2>1, <2>2, <2>3
<1> HIDE DEF w, v
<1>4. \A i \in 1 .. Len(w) : v[i] = w[i]
  <2>1. TAKE i \in 1 .. Len(w)
  <2>2. CASE i <= Len(r)
    BY <1>1, <1>2, <1>3, <2>2
  <2>3. CASE i > Len(r)
    <3> DEFINE j == i - Len(r)
    <3>1. j \in 1 .. Len(p) /\ j \in 1 .. Len(p) + Len(cmds) /\ i = Len(r) + j
      BY <1>1, <1>2, <2>3
    <3> HIDE DEF j
    <3>2. w[i] = AskedFor(p[j])
      BY <1>2, <3>1
    <3>3. v[i] = AskedFor(p[j])
      BY <1>1, <1>3, <3>1
    <3> QED BY <3>2, <3>3
  <2> QED BY <1>1, <1>2, <2>2, <2>3
<1>5. \A i \in 1 .. Len(v) : i > Len(w) /\ i # l => v[i] = None
  <2>1. SUFFICES ASSUME NEW i \in 1 .. Len(v), i > Len(w), i # l PROVE v[i] = None
    OBVIOUS
  <2> DEFINE j == i - Len(w)
  <2>2. /\ j \in 1 .. Len(cmds) /\ Len(p) + j \in 1 .. Len(p) + Len(cmds)
        /\ i = Len(r) + (Len(p) + j) /\ j # k
    BY <1>1, <1>2, <1>3, <2>1
  <2>3. v[i] = AskedFor(cmds[j])
    BY <1>1, <1>3, <2>2
  <2> QED BY <2>2, <2>3 DEF AskedFor
<1>6. l \in 1 .. Len(v) /\ l > Len(w)
  BY <1>1, <1>2, <1>3
<1>7. v[l] = a.user
  <2>1. v[l] = AskedFor(cmds[k])
    <3>1. Len(p) + k \in 1 .. Len(p) + Len(cmds) /\ k \in 1 .. Len(cmds)
      BY <1>1
    <3>2. v[Len(r) + (Len(p) + k)] = AskedFor((p \o cmds)[Len(p) + k])
      BY <1>3, <3>1
    <3> QED BY <1>1, <3>1, <3>2
  <2> QED BY <2>1 DEF AskedFor
<1>8. Aligned(q, w)
  BY DEF w
<1> HIDE DEF l
<1>9. Aligned(Append(q, a), v)
  BY <1>2, <1>3, <1>4, <1>5, <1>6, <1>7, <1>8, AlignedAsk
<1> QED BY <1>9 DEF v

\* Something that is no answer to LRANGE is taken off the connection.
LEMMA AwaitedOther ==
  ASSUME NEW r \in Seq(Event), NEW p \in Seq(Command), r # <<>>,
         Head(r).type # "lrange",
         NEW q \in Seq(Names(0 .. 1)), Aligned(q, Awaited(r, p))
  PROVE  Aligned(q, Awaited(Tail(r), p))
<1> DEFINE v == Awaited(r, p)
           w == Awaited(Tail(r), p)
<1>1. /\ Tail(r) \in Seq(Event) /\ Len(Tail(r)) = Len(r) - 1
      /\ \A i \in 1 .. Len(r) - 1 : Tail(r)[i] = r[i + 1]
      /\ Len(r) \in Nat /\ Len(r) > 0 /\ Len(p) \in Nat /\ Head(r) = r[1]
  OBVIOUS
<1>2. /\ v \in Seq(User \cup {None}) /\ Len(v) = Len(r) + Len(p)
      /\ \A i \in 1 .. Len(r) : v[i] = AnswerFor(r[i])
      /\ \A i \in 1 .. Len(p) : v[Len(r) + i] = AskedFor(p[i])
  BY AwaitedType
<1>3. /\ w \in Seq(User \cup {None}) /\ Len(w) = Len(r) - 1 + Len(p)
      /\ \A i \in 1 .. Len(r) - 1 : w[i] = AnswerFor(r[i + 1])
      /\ \A i \in 1 .. Len(p) : w[Len(r) - 1 + i] = AskedFor(p[i])
  <2> DEFINE x == Tail(r)
  <2>1. /\ x \in Seq(Event) /\ Len(x) = Len(r) - 1
        /\ \A i \in 1 .. Len(r) - 1 : x[i] = r[i + 1]
    BY <1>1
  <2> HIDE DEF x
  <2>2. /\ Awaited(x, p) \in Seq(User \cup {None})
        /\ Len(Awaited(x, p)) = Len(x) + Len(p)
        /\ \A i \in 1 .. Len(x) : Awaited(x, p)[i] = AnswerFor(x[i])
        /\ \A i \in 1 .. Len(p) : Awaited(x, p)[Len(x) + i] = AskedFor(p[i])
    BY <2>1, AwaitedType
  <2>3. w = Awaited(x, p)
    BY DEF x
  <2> QED BY <1>1, <2>1, <2>2, <2>3
<1>4. Aligned(q, v)
  OBVIOUS
<1> HIDE DEF v, w
<1>5. v[1] = None
  BY <1>1, <1>2 DEF AnswerFor
<1>6. \A i \in 1 .. Len(w) : v[i + 1] = w[i]
  <2>1. TAKE i \in 1 .. Len(w)
  <2>2. CASE i <= Len(r) - 1
    <3>1. i \in 1 .. Len(r) - 1 /\ i + 1 \in 1 .. Len(r)
      BY <1>1, <2>2
    <3> QED BY <1>2, <1>3, <3>1
  <2>3. CASE i > Len(r) - 1
    <3> DEFINE j == i - (Len(r) - 1)
    <3>1. j \in 1 .. Len(p) /\ i = Len(r) - 1 + j /\ i + 1 = Len(r) + j
      BY <1>1, <1>3, <2>3
    <3> QED BY <1>2, <1>3, <3>1
  <2> QED BY <1>1, <1>3, <2>2, <2>3
<1>7. Widened(w, v, 1)
  BY <1>1, <1>2, <1>3, <1>5, <1>6 DEF Widened
<1>8. Aligned(q, w)
  BY <1>2, <1>3, <1>4, <1>7, AlignedNarrow
<1> QED BY <1>8 DEF w

\* An answer to LRANGE is taken off: it is for the first name.
LEMMA AwaitedAnswer ==
  ASSUME NEW r \in Seq(Event), NEW p \in Seq(Command), r # <<>>,
         Head(r).type = "lrange",
         NEW q \in Seq(Names(0 .. 1)), Aligned(q, Awaited(r, p))
  PROVE  /\ q # <<>> /\ Head(q).user = Head(r).name.user
         /\ Aligned(Tail(q), Awaited(Tail(r), p))
<1> DEFINE v == Awaited(r, p)
           w == Awaited(Tail(r), p)
<1>1. /\ Tail(r) \in Seq(Event) /\ Len(Tail(r)) = Len(r) - 1
      /\ \A i \in 1 .. Len(r) - 1 : Tail(r)[i] = r[i + 1]
      /\ Len(r) \in Nat /\ Len(r) > 0 /\ Len(p) \in Nat
      /\ Head(r) = r[1] /\ r[1] \in Event
  OBVIOUS
<1>2. /\ v \in Seq(User \cup {None}) /\ Len(v) = Len(r) + Len(p)
      /\ \A i \in 1 .. Len(r) : v[i] = AnswerFor(r[i])
      /\ \A i \in 1 .. Len(p) : v[Len(r) + i] = AskedFor(p[i])
  BY AwaitedType
<1>3. /\ w \in Seq(User \cup {None}) /\ Len(w) = Len(r) - 1 + Len(p)
      /\ \A i \in 1 .. Len(r) - 1 : w[i] = AnswerFor(r[i + 1])
      /\ \A i \in 1 .. Len(p) : w[Len(r) - 1 + i] = AskedFor(p[i])
  <2> DEFINE x == Tail(r)
  <2>1. /\ x \in Seq(Event) /\ Len(x) = Len(r) - 1
        /\ \A i \in 1 .. Len(r) - 1 : x[i] = r[i + 1]
    BY <1>1
  <2> HIDE DEF x
  <2>2. /\ Awaited(x, p) \in Seq(User \cup {None})
        /\ Len(Awaited(x, p)) = Len(x) + Len(p)
        /\ \A i \in 1 .. Len(x) : Awaited(x, p)[i] = AnswerFor(x[i])
        /\ \A i \in 1 .. Len(p) : Awaited(x, p)[Len(x) + i] = AskedFor(p[i])
    BY <2>1, AwaitedType
  <2>3. w = Awaited(x, p)
    BY DEF x
  <2> QED BY <1>1, <2>1, <2>2, <2>3
<1>4. Aligned(q, v)
  OBVIOUS
<1> HIDE DEF v, w
<1>5. v[1] = Head(r).name.user /\ v[1] # None
  BY <1>1, <1>2, ConstantsDiffer DEF AnswerFor, Event, Key, Names
<1>6. \A i \in 1 .. Len(w) : v[i + 1] = w[i]
  <2>1. TAKE i \in 1 .. Len(w)
  <2>2. CASE i <= Len(r) - 1
    <3>1. i \in 1 .. Len(r) - 1 /\ i + 1 \in 1 .. Len(r)
      BY <1>1, <2>2
    <3> QED BY <1>2, <1>3, <3>1
  <2>3. CASE i > Len(r) - 1
    <3> DEFINE j == i - (Len(r) - 1)
    <3>1. j \in 1 .. Len(p) /\ i = Len(r) - 1 + j /\ i + 1 = Len(r) + j
      BY <1>1, <1>3, <2>3
    <3> QED BY <1>2, <1>3, <3>1
  <2> QED BY <1>1, <1>3, <2>2, <2>3
<1>7. v # <<>> /\ Len(v) = Len(w) + 1
  BY <1>1, <1>2, <1>3
<1>8. w = Tail(v)
  BY <1>2, <1>3, <1>6, <1>7
<1>9. q # <<>> /\ Head(q).user = v[1] /\ Aligned(Tail(q), Tail(v))
  BY <1>2, <1>4, <1>5, <1>7, AlignedTail
<1> QED BY <1>5, <1>8, <1>9 DEF w

\* A push comes behind the answers.
LEMMA AwaitedPush ==
  ASSUME NEW r \in Seq(Event), NEW p \in Seq(Command), NEW e \in Event,
         e.type # "lrange",
         NEW q \in Seq(Names(0 .. 1)), Aligned(q, Awaited(r, p))
  PROVE  Aligned(q, Awaited(Append(r, e), p))
<1> DEFINE w == Awaited(r, p)
           v == Awaited(Append(r, e), p)
           k == Len(r) + 1
<1>1. /\ Append(r, e) \in Seq(Event) /\ Len(Append(r, e)) = k
      /\ \A i \in 1 .. Len(r) : Append(r, e)[i] = r[i]
      /\ Append(r, e)[k] = e
      /\ Len(r) \in Nat /\ Len(p) \in Nat
  OBVIOUS
<1>2. /\ w \in Seq(User \cup {None}) /\ Len(w) = Len(r) + Len(p)
      /\ \A i \in 1 .. Len(r) : w[i] = AnswerFor(r[i])
      /\ \A i \in 1 .. Len(p) : w[Len(r) + i] = AskedFor(p[i])
  BY AwaitedType
<1>3. /\ v \in Seq(User \cup {None}) /\ Len(v) = k + Len(p)
      /\ \A i \in 1 .. k : v[i] = AnswerFor(Append(r, e)[i])
      /\ \A i \in 1 .. Len(p) : v[k + i] = AskedFor(p[i])
  BY <1>1, AwaitedType
<1>4. Aligned(q, w)
  OBVIOUS
<1> HIDE DEF v, w
<1>5. v[k] = None
  BY <1>1, <1>3 DEF AnswerFor
<1>6. \A i \in 1 .. Len(w) : IF i < k THEN v[i] = w[i] ELSE v[i + 1] = w[i]
  <2>1. TAKE i \in 1 .. Len(w)
  <2>2. CASE i < k
    <3>1. i \in 1 .. Len(r) /\ i \in 1 .. k
      BY <1>1, <2>2
    <3> QED BY <1>1, <1>2, <1>3, <2>2, <3>1
  <2>3. CASE ~(i < k)
    <3> DEFINE j == i - Len(r)
    <3>1. j \in 1 .. Len(p) /\ i = Len(r) + j /\ i + 1 = k + j
      BY <1>1, <1>2, <2>3
    <3> QED BY <1>2, <1>3, <2>3, <3>1
  <2> QED BY <2>2, <2>3
<1>7. Widened(w, v, k) /\ k \in Nat
  BY <1>1, <1>2, <1>3, <1>5, <1>6 DEF Widened
<1>8. Aligned(q, v)
  BY <1>2, <1>3, <1>4, <1>7, AlignedWiden
<1> QED BY <1>8 DEF v

\* Redis executes a command that is not LRANGE.
LEMMA AwaitedDone ==
  ASSUME NEW r \in Seq(Event), NEW p \in Seq(Command), p # <<>>,
         Head(p).op # "lrange",
         NEW q \in Seq(Names(0 .. 1)), Aligned(q, Awaited(r, p))
  PROVE  Aligned(q, Awaited(r, Tail(p)))
<1> DEFINE v == Awaited(r, p)
           w == Awaited(r, Tail(p))
           k == Len(r) + 1
<1>1. /\ Tail(p) \in Seq(Command) /\ Len(Tail(p)) = Len(p) - 1
      /\ \A i \in 1 .. Len(p) - 1 : Tail(p)[i] = p[i + 1]
      /\ Len(p) \in Nat /\ Len(p) > 0 /\ Len(r) \in Nat /\ Head(p) = p[1]
  OBVIOUS
<1>2. /\ v \in Seq(User \cup {None}) /\ Len(v) = Len(r) + Len(p)
      /\ \A i \in 1 .. Len(r) : v[i] = AnswerFor(r[i])
      /\ \A i \in 1 .. Len(p) : v[Len(r) + i] = AskedFor(p[i])
  BY AwaitedType
<1>3. /\ w \in Seq(User \cup {None}) /\ Len(w) = Len(r) + (Len(p) - 1)
      /\ \A i \in 1 .. Len(r) : w[i] = AnswerFor(r[i])
      /\ \A i \in 1 .. Len(p) - 1 : w[Len(r) + i] = AskedFor(p[i + 1])
  <2> DEFINE x == Tail(p)
  <2>1. /\ x \in Seq(Command) /\ Len(x) = Len(p) - 1
        /\ \A i \in 1 .. Len(p) - 1 : x[i] = p[i + 1]
    BY <1>1
  <2> HIDE DEF x
  <2>2. /\ Awaited(r, x) \in Seq(User \cup {None})
        /\ Len(Awaited(r, x)) = Len(r) + Len(x)
        /\ \A i \in 1 .. Len(r) : Awaited(r, x)[i] = AnswerFor(r[i])
        /\ \A i \in 1 .. Len(x) : Awaited(r, x)[Len(r) + i] = AskedFor(x[i])
    BY <2>1, AwaitedType
  <2>3. w = Awaited(r, x)
    BY DEF x
  <2> QED BY <1>1, <2>1, <2>2, <2>3
<1>4. Aligned(q, v)
  OBVIOUS
<1> HIDE DEF v, w
<1>5. v[k] = None
  <2>1. v[Len(r) + 1] = AskedFor(p[1])
    BY <1>1, <1>2
  <2> QED BY <1>1, <2>1 DEF AskedFor
<1>6. \A i \in 1 .. Len(w) : IF i < k THEN v[i] = w[i] ELSE v[i + 1] = w[i]
  <2>1. TAKE i \in 1 .. Len(w)
  <2>2. CASE i < k
    <3>1. i \in 1 .. Len(r)
      BY <1>1, <2>2
    <3> QED BY <1>2, <1>3, <2>2, <3>1
  <2>3. CASE ~(i < k)
    <3> DEFINE j == i - Len(r)
    <3>1. /\ j \in 1 .. Len(p) - 1 /\ j + 1 \in 1 .. Len(p)
          /\ i = Len(r) + j /\ i + 1 = Len(r) + (j + 1)
      BY <1>1, <1>3, <2>3
    <3> QED BY <1>2, <1>3, <2>3, <3>1
  <2> QED BY <2>2, <2>3
<1>7. Widened(w, v, k) /\ k \in Nat
  BY <1>1, <1>2, <1>3, <1>5, <1>6 DEF Widened
<1>8. Aligned(q, w)
  BY <1>2, <1>3, <1>4, <1>7, AlignedNarrow
<1> QED BY <1>8 DEF w

\* Redis executes LRANGE: its answer takes the place of the command.
LEMMA AwaitedAnswered ==
  ASSUME NEW r \in Seq(Event), NEW p \in Seq(Command), p # <<>>, NEW e \in Event,
         Head(p).op = "lrange", e.type = "lrange", e.name = Head(p).name
  PROVE  Awaited(Append(r, e), Tail(p)) = Awaited(r, p)
<1> DEFINE v == Awaited(r, p)
           w == Awaited(Append(r, e), Tail(p))
           k == Len(r) + 1
<1>1. /\ Tail(p) \in Seq(Command) /\ Len(Tail(p)) = Len(p) - 1
      /\ \A i \in 1 .. Len(p) - 1 : Tail(p)[i] = p[i + 1]
      /\ Len(p) \in Nat /\ Len(p) > 0 /\ Len(r) \in Nat /\ Head(p) = p[1]
  OBVIOUS
<1>2. /\ Append(r, e) \in Seq(Event) /\ Len(Append(r, e)) = k
      /\ \A i \in 1 .. Len(r) : Append(r, e)[i] = r[i]
      /\ Append(r, e)[k] = e
  OBVIOUS
<1>3. /\ v \in Seq(User \cup {None}) /\ Len(v) = Len(r) + Len(p)
      /\ \A i \in 1 .. Len(r) : v[i] = AnswerFor(r[i])
      /\ \A i \in 1 .. Len(p) : v[Len(r) + i] = AskedFor(p[i])
  BY AwaitedType
<1>4. /\ w \in Seq(User \cup {None}) /\ Len(w) = k + (Len(p) - 1)
      /\ \A i \in 1 .. k : w[i] = AnswerFor(Append(r, e)[i])
      /\ \A i \in 1 .. Len(p) - 1 : w[k + i] = AskedFor(p[i + 1])
  <2> DEFINE x == Tail(p)
             y == Append(r, e)
  <2>1. /\ x \in Seq(Command) /\ Len(x) = Len(p) - 1
        /\ \A i \in 1 .. Len(p) - 1 : x[i] = p[i + 1]
        /\ y \in Seq(Event) /\ Len(y) = k
    BY <1>1, <1>2
  <2> HIDE DEF x, y
  <2>2. /\ Awaited(y, x) \in Seq(User \cup {None})
        /\ Len(Awaited(y, x)) = Len(y) + Len(x)
        /\ \A i \in 1 .. Len(y) : Awaited(y, x)[i] = AnswerFor(y[i])
        /\ \A i \in 1 .. Len(x) : Awaited(y, x)[Len(y) + i] = AskedFor(x[i])
    BY <2>1, AwaitedType
  <2>3. w = Awaited(y, x) /\ y = Append(r, e)
    BY DEF x, y
  <2> QED BY <1>1, <2>1, <2>2, <2>3
<1> HIDE DEF v, w
<1>5. \A i \in 1 .. Len(v) : v[i] = w[i]
  <2>1. TAKE i \in 1 .. Len(v)
  <2>2. CASE i <= Len(r)
    <3>1. i \in 1 .. Len(r) /\ i \in 1 .. k
      BY <1>1, <2>2
    <3> QED BY <1>2, <1>3, <1>4, <3>1
  <2>3. CASE i = k
    <3>1. v[i] = AskedFor(p[1]) /\ w[i] = AnswerFor(e)
      <4>1. k \in 1 .. k /\ 1 \in 1 .. Len(p) /\ i = Len(r) + 1
        BY <1>1, <2>3
      <4> QED BY <1>2, <1>3, <1>4, <2>3, <4>1
    <3> QED BY <1>1, <3>1 DEF AskedFor, AnswerFor
  <2>4. CASE i > k
    <3> DEFINE j == i - k
    <3>1. /\ j \in 1 .. Len(p) - 1 /\ j + 1 \in 1 .. Len(p)
          /\ i = Len(r) + (j + 1) /\ i = k + j
      BY <1>1, <1>3, <2>4
    <3> QED BY <1>3, <1>4, <3>1
  <2> QED BY <1>1, <1>3, <2>2, <2>3, <2>4
<1>6. Len(v) = Len(w)
  BY <1>1, <1>3, <1>4
<1>7. v = w
  BY <1>3, <1>4, <1>5, <1>6
<1> QED BY <1>7 DEF v, w

-----------------------------------------------------------------------------
(* Where a pipeline leads.                                                 *)

Concerns(c, u) == c.op \in {"subscribe", "unsubscribe"} /\ c.name.user = u

LEMMA AboutOf ==
  ASSUME NEW p \in Seq(Command), NEW u
  PROVE  /\ About(p, u) \subseteq 1 .. Len(p) /\ Len(p) \in Nat
         /\ \A i \in 1 .. Len(p) : i \in About(p, u) <=> Concerns(p[i], u)
  BY DEF About, Concerns

\* The commands that are added say nothing about u.
LEMMA LeadsOn ==
  ASSUME NEW p \in Seq(Command), NEW cmds \in Seq(Command), NEW u,
         \A i \in 1 .. Len(cmds) : ~Concerns(cmds[i], u),
         NEW now \in BOOLEAN, NEW then \in BOOLEAN, Leads(p, u, now, then)
  PROVE  Leads(p \o cmds, u, now, then)
<1> DEFINE v == p \o cmds
<1>1. /\ v \in Seq(Command) /\ Len(v) = Len(p) + Len(cmds)
      /\ \A i \in 1 .. Len(p) : v[i] = p[i]
      /\ \A i \in 1 .. Len(cmds) : v[Len(p) + i] = cmds[i]
      /\ Len(p) \in Nat /\ Len(cmds) \in Nat
  OBVIOUS
<1> HIDE DEF v
<1>2. \A i \in 1 .. Len(v) : i > Len(p) => ~Concerns(v[i], u)
  <2>1. SUFFICES ASSUME NEW i \in 1 .. Len(v), i > Len(p) PROVE ~Concerns(v[i], u)
    OBVIOUS
  <2>2. i - Len(p) \in 1 .. Len(cmds) /\ i = Len(p) + (i - Len(p))
    BY <1>1, <2>1
  <2>3. v[i] = cmds[i - Len(p)]
    BY <1>1, <2>2
  <2> QED BY <2>2, <2>3
<1>3. About(v, u) = About(p, u)
  <2>1. ASSUME NEW i \in About(v, u) PROVE i \in About(p, u)
    <3>1. i \in 1 .. Len(v) /\ Concerns(v[i], u)
      BY <1>1, AboutOf
    <3>2. i \in 1 .. Len(p)
      BY <1>1, <1>2, <3>1
    <3> QED BY <1>1, <3>1, <3>2, AboutOf
  <2>2. ASSUME NEW i \in About(p, u) PROVE i \in About(v, u)
    <3>1. i \in 1 .. Len(p) /\ Concerns(p[i], u) /\ i \in 1 .. Len(v)
      BY <1>1, AboutOf
    <3> QED BY <1>1, <3>1, AboutOf
  <2> QED BY <2>1, <2>2
<1>4. \A i \in About(p, u) : v[i] = p[i]
  BY <1>1, AboutOf
<1>5. Leads(v, u, now, then)
  BY <1>3, <1>4 DEF Leads
<1> QED BY <1>5 DEF v

\* The first of the commands that are added is about u, the others are not.
LEMMA LeadsTo ==
  ASSUME NEW p \in Seq(Command), NEW cmds \in Seq(Command), NEW u,
         cmds # <<>>, Concerns(cmds[1], u),
         \A i \in 1 .. Len(cmds) : i # 1 => ~Concerns(cmds[i], u),
         NEW now \in BOOLEAN
  PROVE  Leads(p \o cmds, u, now, cmds[1].op = "subscribe")
<1> DEFINE v == p \o cmds
           l == Len(p) + 1
<1>1. /\ v \in Seq(Command) /\ Len(v) = Len(p) + Len(cmds)
      /\ \A i \in 1 .. Len(p) : v[i] = p[i]
      /\ \A i \in 1 .. Len(cmds) : v[Len(p) + i] = cmds[i]
      /\ Len(p) \in Nat /\ Len(cmds) \in Nat /\ Len(cmds) > 0
  OBVIOUS
<1> HIDE DEF v
<1>2. \A i \in 1 .. Len(v) : i > l => ~Concerns(v[i], u)
  <2>1. SUFFICES ASSUME NEW i \in 1 .. Len(v), i > l PROVE ~Concerns(v[i], u)
    OBVIOUS
  <2>2. /\ i - Len(p) \in 1 .. Len(cmds) /\ i = Len(p) + (i - Len(p))
        /\ i - Len(p) # 1
    BY <1>1, <2>1
  <2>3. v[i] = cmds[i - Len(p)]
    BY <1>1, <2>2
  <2> QED BY <2>2, <2>3
<1>3. l \in 1 .. Len(v) /\ v[l] = cmds[1]
  BY <1>1
<1>4. l \in About(v, u)
  BY <1>1, <1>3, AboutOf
<1>5. \A i \in About(v, u) : i <= l
  <2>1. TAKE i \in About(v, u)
  <2>2. i \in 1 .. Len(v) /\ Concerns(v[i], u)
    BY <1>1, AboutOf
  <2> QED BY <1>1, <1>2, <2>2
<1>6. ASSUME NEW i \in About(v, u), \A j \in About(v, u) : j <= i
      PROVE  i = l
  <2>1. i \in Nat /\ i <= l /\ l <= i
    BY <1>1, <1>4, <1>5, <1>6, AboutOf
  <2> QED BY <1>1, <2>1
<1>7. Leads(v, u, now, cmds[1].op = "subscribe")
  BY <1>3, <1>4, <1>6 DEF Leads
<1> QED BY <1>7 DEF v

\* The places in a pipeline after its first command is executed.
LEMMA AboutTail ==
  ASSUME NEW p \in Seq(Command), p # <<>>, NEW u
  PROVE  /\ \A i \in About(Tail(p), u) :
              i + 1 \in About(p, u) /\ Tail(p)[i] = p[i + 1] /\ i \in Nat
         /\ \A i \in About(p, u) :
              i # 1 => i - 1 \in About(Tail(p), u) /\ i \in Nat
<1> DEFINE v == Tail(p)
<1>1. /\ v \in Seq(Command) /\ Len(v) = Len(p) - 1
      /\ \A i \in 1 .. Len(p) - 1 : v[i] = p[i + 1]
      /\ Len(p) \in Nat /\ Len(p) > 0
  OBVIOUS
<1> HIDE DEF v
<1>2. ASSUME NEW i \in About(v, u)
      PROVE  i + 1 \in About(p, u) /\ v[i] = p[i + 1] /\ i \in Nat
  <2>1. i \in 1 .. Len(p) - 1 /\ Concerns(v[i], u) /\ i + 1 \in 1 .. Len(p)
    BY <1>1, AboutOf
  <2> QED BY <1>1, <2>1, AboutOf
<1>3. ASSUME NEW i \in About(p, u), i # 1
      PROVE  i - 1 \in About(v, u) /\ i \in Nat
  <2>1. i \in 1 .. Len(p) /\ Concerns(p[i], u)
    BY AboutOf
  <2>2. i - 1 \in 1 .. Len(p) - 1 /\ (i - 1) + 1 = i
    BY <1>1, <1>3, <2>1
  <2>3. v[i - 1] = p[i]
    BY <1>1, <2>2
  <2> QED BY <1>1, <2>1, <2>2, <2>3, AboutOf
<1> QED BY <1>2, <1>3 DEF v

\* The last place about u, when it is not the first, stays the last.
LEMMA LastAboutTail ==
  ASSUME NEW p \in Seq(Command), p # <<>>, NEW u,
         NEW now \in BOOLEAN, NEW then \in BOOLEAN, Leads(p, u, now, then)
  PROVE  \A i \in About(Tail(p), u) :
           (\A j \in About(Tail(p), u) : j <= i)
           => (Tail(p)[i].op = "subscribe" <=> then)
<1>1. SUFFICES ASSUME NEW i \in About(Tail(p), u),
                      \A j \in About(Tail(p), u) : j <= i
               PROVE  Tail(p)[i].op = "subscribe" <=> then
  OBVIOUS
<1>2. i + 1 \in About(p, u) /\ Tail(p)[i] = p[i + 1] /\ i \in Nat
  BY AboutTail
<1>3. \A j \in About(p, u) : j <= i + 1
  <2>1. TAKE j \in About(p, u)
  <2>2. CASE j = 1
    BY <1>2, <2>2
  <2>3. CASE j # 1
    <3>1. j - 1 \in About(Tail(p), u) /\ j \in Nat
      BY <2>3, AboutTail
    <3>2. j - 1 <= i
      BY <1>1, <3>1
    <3> QED BY <1>2, <3>1, <3>2
  <2> QED BY <2>2, <2>3
<1> QED BY <1>2, <1>3 DEF Leads

\* The command that is executed is not about u.
LEMMA LeadsPast ==
  ASSUME NEW p \in Seq(Command), p # <<>>, NEW u, ~Concerns(Head(p), u),
         NEW now \in BOOLEAN, NEW then \in BOOLEAN, Leads(p, u, now, then)
  PROVE  Leads(Tail(p), u, now, then)
<1>1. ASSUME About(Tail(p), u) = {} PROVE now <=> then
  <2>1. About(p, u) = {}
    <3>1. SUFFICES ASSUME NEW i \in About(p, u) PROVE FALSE
      OBVIOUS
    <3>2. Len(p) \in Nat /\ Len(p) > 0 /\ Head(p) = p[1]
      OBVIOUS
    <3>3. i # 1
      BY <3>2, AboutOf
    <3> QED BY <1>1, <3>3, AboutTail
  <2> QED BY <2>1 DEF Leads
<1> QED BY <1>1, LastAboutTail DEF Leads

\* The command that is executed is about u.
LEMMA LeadsThrough ==
  ASSUME NEW p \in Seq(Command), p # <<>>, NEW u, Concerns(Head(p), u),
         NEW now \in BOOLEAN, NEW then \in BOOLEAN, Leads(p, u, now, then)
  PROVE  Leads(Tail(p), u, Head(p).op = "subscribe", then)
<1>1. ASSUME About(Tail(p), u) = {} PROVE Head(p).op = "subscribe" <=> then
  <2>1. Len(p) \in Nat /\ Len(p) > 0 /\ Head(p) = p[1] /\ 1 \in 1 .. Len(p)
    OBVIOUS
  <2>2. 1 \in About(p, u)
    BY <2>1, AboutOf
  <2>3. \A j \in About(p, u) : j <= 1
    BY <1>1, AboutTail
  <2> QED BY <2>1, <2>2, <2>3 DEF Leads
<1> QED BY <1>1, LastAboutTail DEF Leads

-----------------------------------------------------------------------------
(* The inductive invariant.  QUIT is only in the pipeline of a process that *)
(* is told to end, so that a connection that was lost is never closed: what *)
(* is said about the others does not come to include it.                   *)

NoQuit ==
  \A n \in Node : link[n] \in {"up", "renewed"} =>
    \A i \in 1 .. Len(pipe[n]) : pipe[n][i].op # "quit"

\* The session of u at n is being closed.
Shut(n, u) == sessions[n][u] # None /\ closing[sessions[n][u]]

\* SubscriptionTracksSession, with what the pipeline leads to in one formula.
Tracks ==
  \A n \in Node, u \in User :
    link[n] = "up" /\ ~Shut(n, u) =>
      Leads(pipe[n], u, u \in subs[n], sessions[n][u] # None)

Delivery == NoQuit /\ LrangeAligned /\ Tracks
DeliveryInv == MapInv /\ Delivery

LEMMA DeliveryTypes ==
  ASSUME Inv
  PROVE  /\ \A n \in Node :
              /\ pipe[n] \in Seq(Command) /\ reply[n] \in Seq(Event)
              /\ chatQueue[n] \in Seq(Names(0 .. 1)) /\ subs[n] \in SUBSET User
         /\ pipe = [n \in Node |-> pipe[n]] /\ reply = [n \in Node |-> reply[n]]
  BY DEF Inv, TypeOK, RedisTypeOK, WorkerTypeOK

\* What is being closed stays so.
Closes == \A s \in Session : closing[s] => closing'[s]

LEMMA StepCloses ==
  ASSUME Inv, [Next]_vars
  PROVE  Closes
<1>1. \A S : Shutdown(S) => Closes
  BY DEF Shutdown, Closes
<1>2. UNCHANGED closing => Closes
  BY DEF Closes
<1>3. ASSUME NEW s \in Session, SessionStep(s) PROVE Closes
  BY <1>1, <1>2, <1>3
  DEF SessionStep, SessionRun, OnRun, SessionWrite, OnWrite, SessionWriteError,
      OnWriteError, SessionPong, OnPong, OnReadError, Finish, OnAppLoginFail,
      OnAppUnknown, OnAppLogin, OnAppLoginThrows, OnAppChat, OnAppPresence,
      OnAppPublish
<1>4. ASSUME NEW n \in Node, ShutdownImpl(n) \/ OnReply(n) \/ Redis(n) \/ LinkLost(n)
      PROVE  Closes
  BY <1>1, <1>2, <1>4
  DEF ShutdownImpl, OnReply, OnPushRpush, OnLrange, OnDbPresence, Redis, LinkLost,
      sessionVars
<1>5. ASSUME NEW key \in Key, ListExpires(key) PROVE Closes
  BY <1>2, <1>5 DEF ListExpires, sessionVars
<1>6. CASE UNCHANGED vars
  BY <1>2, <1>6 DEF vars, sessionVars
<1> QED BY <1>3, <1>4, <1>5, <1>6 DEF Next

LEMMA ShutStays ==
  ASSUME Inv, Closes, NEW n \in Node, NEW u \in User,
         sessions'[n][u] = sessions[n][u], Shut(n, u)
  PROVE  Shut(n, u)'
<1>1. sessions[n][u] \in Session
  BY DEF Shut, Inv, TypeOK, WorkerTypeOK
<1> QED BY <1>1 DEF Shut, Closes

LEMMA DeliveryUnchanged ==
  ASSUME Inv, Closes, Delivery, UNCHANGED <<subs, pipe, reply, link, workerVars>>
  PROVE  Delivery'
<1>1. NoQuit' /\ LrangeAligned'
  BY DEF Delivery, NoQuit, LrangeAligned, workerVars
<1>2. Tracks'
  <2>1. SUFFICES ASSUME NEW i \in Node, NEW u \in User,
                        link[i] = "up", ~Shut(i, u)'
                 PROVE  Leads(pipe[i], u, u \in subs[i], sessions[i][u] # None)
    BY DEF Tracks, workerVars
  <2>2. ~Shut(i, u)
    BY <2>1, ShutStays DEF workerVars
  <2> QED BY <2>1, <2>2 DEF Delivery, Tracks
<1> QED BY <1>1, <1>2 DEF Delivery

LEMMA InitDelivery == Init => DeliveryInv
<1> SUFFICES ASSUME Init PROVE DeliveryInv
  OBVIOUS
<1>1. MapInv
  BY InitMapInv
<1>2. \A n \in Node : /\ pipe[n] = <<>> /\ reply[n] = <<>> /\ chatQueue[n] = <<>>
                      /\ subs[n] = {} /\ \A u \in User : sessions[n][u] = None
  BY DEF Init, RedisInit
<1>3. NoQuit
  BY <1>2 DEF NoQuit
<1>4. LrangeAligned
  <2>1. SUFFICES Aligned(<<>>, Awaited(<<>>, <<>>))
    BY <1>2 DEF LrangeAligned
  <2>2. <<>> \in Seq(Event) /\ <<>> \in Seq(Command) /\ Len(<<>>) = 0
    OBVIOUS
  <2> DEFINE w == Awaited(<<>>, <<>>)
  <2> HIDE DEF w
  <2>3. w \in Seq(User \cup {None}) /\ Len(w) = 0
    <3>1. ASSUME NEW r \in Seq(Event), NEW p \in Seq(Command), Len(r) = 0, Len(p) = 0
          PROVE  Awaited(r, p) \in Seq(User \cup {None}) /\ Len(Awaited(r, p)) = 0
      <4>1. /\ Awaited(r, p) \in Seq(User \cup {None})
            /\ Len(Awaited(r, p)) = Len(r) + Len(p)
        BY AwaitedType
      <4> QED BY <3>1, <4>1
    <3> QED BY <2>2, <3>1 DEF w
  <2>4. DOMAIN w = {} /\ DOMAIN <<>> = {}
    BY <2>3
  <2>5. [i \in {} |-> i] \in [DOMAIN <<>> -> {k \in DOMAIN w : w[k] # None}]
    BY <2>4
  <2>6. Aligned(<<>>, w)
    BY <2>4, <2>5 DEF Aligned
  <2> QED BY <2>6 DEF w
<1>5. Tracks
  <2>1. \A u : About(<<>>, u) = {}
    BY DEF About
  <2> QED BY <1>2, <2>1 DEF Tracks, Leads
<1> QED BY <1>1, <1>3, <1>4, <1>5 DEF DeliveryInv, Delivery

\* What a request does to the pipelines.
LEMMA RequestEffect ==
  ASSUME Inv, NEW n \in Node, NEW cmds, Request(n, cmds)
  PROVE  /\ pipe'[n] = pipe[n] \o cmds
         /\ \A i \in Node : i # n => pipe'[i] = pipe[i]
  BY DEF Inv, TypeOK, RedisTypeOK, Request

LEMMA NoQuitRequest ==
  ASSUME Inv, NoQuit, NEW n \in Node, NEW cmds \in Seq(Command),
         \A i \in 1 .. Len(cmds) : cmds[i].op # "quit",
         Request(n, cmds), link' = link
  PROVE  NoQuit'
<1>1. SUFFICES ASSUME NEW i \in Node, link[i] \in {"up", "renewed"},
                      NEW j \in 1 .. Len(pipe'[i])
               PROVE  pipe'[i][j].op # "quit"
  BY DEF NoQuit
<1>2. pipe[i] \in Seq(Command) /\ \A k \in 1 .. Len(pipe[i]) : pipe[i][k].op # "quit"
  BY <1>1, DeliveryTypes DEF NoQuit
<1>3. CASE i # n
  BY <1>1, <1>2, <1>3, RequestEffect
<1>4. CASE i = n
  <2>1. pipe'[i] = pipe[i] \o cmds
    BY <1>4, RequestEffect
  <2>2. CASE j <= Len(pipe[i])
    BY <1>1, <1>2, <2>1, <2>2
  <2>3. CASE j > Len(pipe[i])
    <3>1. j - Len(pipe[i]) \in 1 .. Len(cmds) /\ pipe'[i][j] = cmds[j - Len(pipe[i])]
      BY <1>1, <1>2, <2>1, <2>3
    <3> QED BY <3>1
  <2> QED BY <1>1, <1>2, <2>2, <2>3
<1> QED BY <1>3, <1>4

\* Commands that neither ask for an answer nor subscribe.
Plain(cmds) == \A i \in 1 .. Len(cmds) : cmds[i].op \in {"rpush", "publish"}

LEMMA PlainCmds ==
  /\ \A name, msgs : Plain(StoreCmds(name, msgs))
  /\ \A name, msgs : Plain(<<Cmd("publish", name, msgs)>>)
  /\ Plain(<<>>)
  BY DEF Plain, StoreCmds, Cmd

\* Subscriptions are not touched by plain commands, nor by reading lists.
LEMMA TracksRequest ==
  ASSUME Inv, Closes, Tracks, NEW n \in Node, NEW cmds \in Seq(Command),
         \A i \in 1 .. Len(cmds) : cmds[i].op \notin {"subscribe", "unsubscribe"},
         Request(n, cmds), UNCHANGED <<subs, sessions>>,
         \A i \in Node : link'[i] = "up" => link[i] = "up"
  PROVE  Tracks'
<1>1. SUFFICES ASSUME NEW i \in Node, NEW u \in User, link[i] = "up", ~Shut(i, u)'
               PROVE  Leads(pipe'[i], u, u \in subs[i], sessions[i][u] # None)
  BY DEF Tracks
<1>2. Leads(pipe[i], u, u \in subs[i], sessions[i][u] # None)
  BY <1>1, ShutStays DEF Tracks
<1>3. pipe[i] \in Seq(Command)
  BY DeliveryTypes
<1> DEFINE now == u \in subs[i]
           then == sessions[i][u] # None
<1>4. now \in BOOLEAN /\ then \in BOOLEAN
  OBVIOUS
<1>5. \A k \in 1 .. Len(cmds) : ~Concerns(cmds[k], u)
  BY DEF Concerns
<1> HIDE DEF now, then
<1>6. Leads(pipe[i], u, now, then)
  BY <1>2 DEF now, then
<1>7. Leads(pipe[i] \o cmds, u, now, then)
  BY <1>3, <1>4, <1>5, <1>6, LeadsOn
<1> QED BY <1>6, <1>7, RequestEffect DEF now, then

LEMMA AlignedRequest ==
  ASSUME Inv, LrangeAligned, NEW n \in Node, NEW cmds \in Seq(Command),
         \A i \in 1 .. Len(cmds) : cmds[i].op # "lrange",
         Request(n, cmds), UNCHANGED <<reply, chatQueue>>,
         \A i \in Node : link'[i] # "renewed" => link[i] # "renewed"
  PROVE  LrangeAligned'
<1>1. SUFFICES ASSUME NEW i \in Node, link[i] # "renewed"
               PROVE  Aligned(chatQueue[i], Awaited(reply[i], pipe'[i]))
  BY DEF LrangeAligned
<1>2. Aligned(chatQueue[i], Awaited(reply[i], pipe[i]))
  BY <1>1 DEF LrangeAligned
<1>3. Aligned(chatQueue[i], Awaited(reply[i], pipe[i] \o cmds))
  BY <1>2, DeliveryTypes, AwaitedPad
<1> QED BY <1>2, <1>3, RequestEffect

LEMMA PlainRequest ==
  ASSUME Inv, Closes, Delivery, NEW n \in Node, NEW cmds \in Seq(Command), Plain(cmds),
         Request(n, cmds), UNCHANGED <<subs, reply, link, workerVars>>
  PROVE  Delivery'
<1>1. NoQuit' /\ LrangeAligned' /\ Tracks'
  BY NoQuitRequest, AlignedRequest, TracksRequest DEF Plain, Delivery, workerVars
<1> QED BY <1>1 DEF Delivery

-----------------------------------------------------------------------------
(* The handlers of the worker.                                             *)

\* The handlers of a session that leave Redis and the maps alone.
LEMMA SessionOnlyDelivery ==
  ASSUME Inv, Closes, Delivery, NEW s \in Session,
         \/ OnAppLoginFail(s) \/ OnAppUnknown(s)
         \/ SessionWrite(s) \/ SessionWriteError(s) \/ SessionPong(s)
         \/ \E n \in Node : SessionRun(s, n)
         \/ \E m \in Msg : OnAppPublish(s, m)
  PROVE  Delivery'
<1>1. UNCHANGED <<redisVars, workerVars>>
  BY DEF OnAppLoginFail, OnAppUnknown, SessionWrite, SessionWriteError,
         SessionPong, SessionRun, OnAppPublish
<1> QED BY <1>1, DeliveryUnchanged DEF redisVars

LEMMA ChatDelivery ==
  ASSUME Inv, Closes, Delivery, NEW s \in Session, NEW m \in Msg, NEW u \in User,
         NEW complete \in BOOLEAN, OnAppChat(s, m, u, complete)
  PROVE  Delivery'
<1> DEFINE n == home[s]
           name == UserId(u)
           cmds == IF Found(n, name) THEN <<>> ELSE StoreCmds(name, <<m>>)
<1>1. /\ n \in Node /\ Request(n, cmds)
      /\ UNCHANGED <<subs, reply, link, workerVars>>
  BY DEF OnAppChat, Open, Inv, TypeOK, SessionTypeOK
<1>2. cmds \in Seq(Command)
  <2>1. <<m>> \in Seq(Msg) /\ name \in Names(0 .. 1)
    BY NameTypes
  <2>2. StoreCmds(name, <<m>>) \in Seq(Command)
    BY <2>1, StoreCmdsType
  <2> QED BY <2>2
<1>3. Plain(cmds)
  BY PlainCmds
<1> HIDE DEF cmds
<1> QED BY <1>1, <1>2, <1>3, PlainRequest

LEMMA PresenceDelivery ==
  ASSUME Inv, Closes, Delivery, NEW s \in Session, NEW m \in Msg, NEW u \in User,
         OnAppPresence(s, m, u)
  PROVE  Delivery'
<1> DEFINE n == home[s]
           name == UserId(u)
           cmds == IF Found(n, name) THEN <<>> ELSE <<Cmd("publish", name, <<m>>)>>
<1>1. /\ n \in Node /\ Request(n, cmds)
      /\ UNCHANGED <<subs, reply, link, workerVars>>
  BY DEF OnAppPresence, Open, Inv, TypeOK, SessionTypeOK
<1>2. cmds \in Seq(Command)
  <2>1. <<m>> \in Seq(Msg) /\ name \in Names({0})
    BY NameTypes
  <2>2. Cmd("publish", name, <<m>>) \in Command
    BY <2>1, CmdTypes
  <2>3. <<Cmd("publish", name, <<m>>)>> \in Seq(Command)
    BY <2>2
  <2> QED BY <2>3
<1>3. Plain(cmds)
  BY PlainCmds
<1> HIDE DEF cmds
<1> QED BY <1>1, <1>2, <1>3, PlainRequest

\* The commands of a login: SUBSCRIBE, LRANGE and DEL.
LEMMA LoginCmdsAre ==
  ASSUME NEW u \in User
  PROVE  LET cmds == LoginCmds(u)
         IN  /\ cmds \in Seq(Command) /\ Len(cmds) = 3
             /\ cmds[1].op = "subscribe" /\ cmds[1].name.user = u
             /\ cmds[2].op = "lrange" /\ cmds[2].name.user = u
             /\ cmds[3].op = "del"
<1>1. LoginCmds(u) \in Seq(Command)
  BY LoginCmdsType
<1>2. ChatKey(UserId(u)).user = u /\ UserId(u).user = u
  BY DEF ChatKey, UserId
<1> QED BY <1>1, <1>2 DEF LoginCmds, Cmd

LEMMA LoginDelivery ==
  ASSUME Inv, Closes, Delivery, NEW s \in Session, NEW u \in User, OnAppLogin(s, u)
  PROVE  Delivery'
<1> DEFINE n == home[s]
           cmds == LoginCmds(u)
<1>1. /\ n \in Node /\ Request(n, cmds) /\ UNCHANGED <<subs, reply, link>>
      /\ chatQueue' = [chatQueue EXCEPT ![n] = Append(@, UserId(u))]
      /\ sessions' = [sessions EXCEPT ![n][u] = s]
  BY DEF OnAppLogin, TakeEntry, Open, Inv, TypeOK, SessionTypeOK
<1>2. /\ cmds \in Seq(Command) /\ Len(cmds) = 3
      /\ cmds[1].op = "subscribe" /\ cmds[1].name.user = u
      /\ cmds[2].op = "lrange" /\ cmds[2].name.user = u
      /\ cmds[3].op = "del"
  BY LoginCmdsAre
<1>3. \A i \in 1 .. Len(cmds) : i = 1 \/ i = 2 \/ i = 3
  BY <1>2
<1> HIDE DEF n, cmds
<1>4. NoQuit'
  <2>1. \A i \in 1 .. Len(cmds) : cmds[i].op # "quit"
    BY <1>2, <1>3
  <2> QED BY <1>1, <1>2, <2>1, NoQuitRequest DEF Delivery
<1>5. LrangeAligned'
  <2>1. SUFFICES ASSUME NEW i \in Node, link[i] # "renewed"
                 PROVE  Aligned(chatQueue'[i], Awaited(reply[i], pipe'[i]))
    BY <1>1 DEF LrangeAligned
  <2>2. Aligned(chatQueue[i], Awaited(reply[i], pipe[i]))
    BY <2>1 DEF Delivery, LrangeAligned
  <2>3. CASE i # n
    BY <1>1, <2>2, <2>3, RequestEffect
  <2>4. CASE i = n
    <3>1. chatQueue'[i] = Append(chatQueue[i], UserId(u))
      BY <1>1, <2>4 DEF Inv, TypeOK, WorkerTypeOK
    <3>2. UserId(u) \in Names(0 .. 1) /\ UserId(u).user = u
      BY NameTypes DEF UserId
    <3>3. 2 \in 1 .. Len(cmds) /\ \A j \in 1 .. Len(cmds) : j # 2 => cmds[j].op # "lrange"
      BY <1>2, <1>3
    <3>4. Aligned(Append(chatQueue[i], UserId(u)), Awaited(reply[i], pipe[i] \o cmds))
      BY <1>2, <2>2, <3>2, <3>3, DeliveryTypes, AwaitedAsk
    <3> QED BY <1>1, <2>4, <3>1, <3>4, RequestEffect
  <2> QED BY <2>3, <2>4
<1>6. Tracks'
  <2>1. SUFFICES ASSUME NEW i \in Node, NEW v \in User, link[i] = "up", ~Shut(i, v)'
                 PROVE  Leads(pipe'[i], v, v \in subs[i], sessions'[i][v] # None)
    BY <1>1 DEF Tracks
  <2> DEFINE now == v \in subs[i]
             then == sessions[i][v] # None
  <2>2. ~(i = n /\ v = u) => Leads(pipe[i], v, now, then)
    <3>1. SUFFICES ASSUME ~(i = n /\ v = u) PROVE Leads(pipe[i], v, now, then)
      OBVIOUS
    <3>2. sessions'[i][v] = sessions[i][v]
      BY <1>1, <3>1 DEF Inv, TypeOK, WorkerTypeOK
    <3> QED BY <2>1, <3>2, ShutStays DEF Delivery, Tracks
  <2>3. now \in BOOLEAN /\ then \in BOOLEAN
    OBVIOUS
  <2> HIDE DEF now
  <2>4. CASE i # n
    <3>1. sessions'[i][v] = sessions[i][v] /\ pipe'[i] = pipe[i]
      BY <1>1, <2>4, RequestEffect DEF Inv, TypeOK, WorkerTypeOK
    <3> QED BY <2>2, <2>4, <3>1 DEF now
  <2>5. CASE i = n /\ v # u
    <3>1. sessions'[i][v] = sessions[i][v] /\ pipe'[i] = pipe[i] \o cmds
      BY <1>1, <2>5, RequestEffect DEF Inv, TypeOK, WorkerTypeOK
    <3>2. \A j \in 1 .. Len(cmds) : ~Concerns(cmds[j], v)
      BY <1>2, <1>3, <2>5 DEF Concerns
    <3> HIDE DEF then
    <3>3. Leads(pipe[i] \o cmds, v, now, then)
      BY <1>2, <2>2, <2>3, <2>5, <3>2, DeliveryTypes, LeadsOn
    <3> QED BY <3>1, <3>3 DEF now, then
  <2>6. CASE i = n /\ v = u
    <3>1. sessions'[i][v] # None /\ pipe'[i] = pipe[i] \o cmds
      BY <1>1, <2>6, RequestEffect, ConstantsDiffer DEF Inv, TypeOK, WorkerTypeOK
    <3>2. /\ Concerns(cmds[1], v)
          /\ \A j \in 1 .. Len(cmds) : j # 1 => ~Concerns(cmds[j], v)
      BY <1>2, <1>3, <2>6 DEF Concerns
    <3>5. cmds # <<>>
      <4>1. Len(cmds) = 3 => cmds # <<>>
        OBVIOUS
      <4> QED BY <1>2, <4>1
    <3>3. Leads(pipe[i] \o cmds, v, now, cmds[1].op = "subscribe")
      BY <1>2, <2>3, <3>2, <3>5, DeliveryTypes, LeadsTo
    <3>4. (cmds[1].op = "subscribe") = (sessions'[i][v] # None)
      BY <1>2, <3>1
    <3> QED BY <3>1, <3>3, <3>4 DEF now
  <2> QED BY <2>4, <2>5, <2>6
<1> QED BY <1>4, <1>5, <1>6 DEF Delivery

\* A login that ends in an exception leaves an entry of a session that closes.
LEMMA LoginThrowsDelivery ==
  ASSUME Inv, Closes, Delivery, NEW s \in Session, NEW u \in User,
         OnAppLoginThrows(s, u)
  PROVE  Delivery'
<1> DEFINE n == home[s]
<1>1. /\ n \in Node /\ closing'[s] /\ UNCHANGED <<pipe, subs, reply, link, chatQueue>>
      /\ sessions' = [sessions EXCEPT ![n][u] = s]
  BY DEF OnAppLoginThrows, TakeEntry, Shutdown, redisVars, Open, Inv, TypeOK,
         SessionTypeOK
<1> HIDE DEF n
<1>2. NoQuit' /\ LrangeAligned'
  BY <1>1 DEF Delivery, NoQuit, LrangeAligned
<1>3. Tracks'
  <2>1. SUFFICES ASSUME NEW i \in Node, NEW v \in User, link[i] = "up", ~Shut(i, v)'
                 PROVE  Leads(pipe[i], v, v \in subs[i], sessions'[i][v] # None)
    BY <1>1 DEF Tracks
  <2>2. ~(i = n /\ v = u)
    <3>1. SUFFICES ASSUME i = n, v = u PROVE FALSE
      OBVIOUS
    <3>2. sessions'[i][v] = s
      BY <1>1, <3>1 DEF Inv, TypeOK, WorkerTypeOK
    <3> QED BY <1>1, <2>1, <3>2, ConstantsDiffer DEF Shut
  <2>3. sessions'[i][v] = sessions[i][v]
    BY <1>1, <2>2 DEF Inv, TypeOK, WorkerTypeOK
  <2> QED BY <2>1, <2>3, ShutStays DEF Delivery, Tracks
<1> QED BY <1>2, <1>3 DEF Delivery

\* The commands of a logout: UNSUBSCRIBE and at most one RPUSH.
LEMMA LogoutCmdsAre ==
  ASSUME NEW u \in User, NEW msgs \in Seq(Msg)
  PROVE  LET cmds == LogoutCmds(u, msgs)
         IN  /\ cmds \in Seq(Command) /\ cmds # <<>>
             /\ cmds[1].op = "unsubscribe" /\ cmds[1].name.user = u
             /\ \A i \in 1 .. Len(cmds) : i # 1 => cmds[i].op = "rpush"
<1> DEFINE c == Cmd("unsubscribe", UserId(u), <<>>)
           y == StoreCmds(UserId(u), msgs)
           v == <<c>> \o y
<1>1. c \in Command /\ y \in Seq(Command)
  <2>1. <<>> \in Seq(Msg)
    OBVIOUS
  <2> QED BY <2>1, NameTypes, CmdTypes, StoreCmdsType
<1>2. c.op = "unsubscribe" /\ c.name.user = u
  BY DEF Cmd, UserId
<1>3. \A i \in 1 .. Len(y) : y[i].op = "rpush"
  BY DEF StoreCmds, Cmd
<1>4. LogoutCmds(u, msgs) = v
  BY DEF LogoutCmds
<1> HIDE DEF c, y
<1>5. v \in Seq(Command) /\ Len(v) = 1 + Len(y) /\ v[1] = c /\ Len(y) \in Nat
  BY <1>1
<1>6. \A i \in 1 .. Len(v) : i # 1 => i - 1 \in 1 .. Len(y) /\ v[i] = y[i - 1]
  BY <1>1
<1>7. v # <<>>
  BY <1>5
<1> HIDE DEF v
<1> QED BY <1>2, <1>3, <1>4, <1>5, <1>6, <1>7

LEMMA ReadErrorDelivery ==
  ASSUME Inv, Closes, Delivery, NEW s \in Session, OnReadError(s)
  PROVE  Delivery'
<1> DEFINE n == home[s]
           u == hash[s]
           cmds == LogoutCmds(u, Unsent(s))
<1>1. n \in Node /\ UNCHANGED <<chatQueue, subs, reply, link>>
  BY DEF OnReadError, Finish, Open, Inv, TypeOK, SessionTypeOK
<1>2. CASE ~(LoggedIn(s) /\ Found(n, UserId(u)))
  <2>1. UNCHANGED <<sessions, pipe>>
    BY <1>2 DEF OnReadError
  <2> QED BY <1>1, <2>1, DeliveryUnchanged DEF workerVars
<1>3. CASE LoggedIn(s) /\ Found(n, UserId(u))
  <2>1. /\ Request(n, cmds) /\ sessions' = [sessions EXCEPT ![n][u] = None]
        /\ u \in User
    BY <1>3 DEF OnReadError, LoggedIn, Inv, TypeOK, SessionTypeOK
  <2>2. /\ cmds \in Seq(Command) /\ cmds # <<>>
        /\ cmds[1].op = "unsubscribe" /\ cmds[1].name.user = u
        /\ \A i \in 1 .. Len(cmds) : i # 1 => cmds[i].op = "rpush"
    <3>1. Unsent(s) \in Seq(Msg)
      BY UnsentType DEF Inv, TypeOK, SessionTypeOK
    <3> QED BY <2>1, <3>1, LogoutCmdsAre
  <2> HIDE DEF n, u, cmds
  <2>3. NoQuit'
    <3>1. \A i \in 1 .. Len(cmds) : cmds[i].op # "quit"
      BY <2>2
    <3> QED BY <1>1, <2>1, <2>2, <3>1, NoQuitRequest DEF Delivery
  <2>4. LrangeAligned'
    <3>1. \A i \in 1 .. Len(cmds) : cmds[i].op # "lrange"
      BY <2>2
    <3> QED BY <1>1, <2>1, <2>2, <3>1, AlignedRequest DEF Delivery
  <2>5. Tracks'
    <3>1. SUFFICES ASSUME NEW i \in Node, NEW v \in User, link[i] = "up", ~Shut(i, v)'
                   PROVE  Leads(pipe'[i], v, v \in subs[i], sessions'[i][v] # None)
      BY <1>1 DEF Tracks
    <3> DEFINE now == v \in subs[i]
               then == sessions[i][v] # None
    <3>2. ~(i = n /\ v = u) => Leads(pipe[i], v, now, then)
      <4>1. SUFFICES ASSUME ~(i = n /\ v = u) PROVE Leads(pipe[i], v, now, then)
        OBVIOUS
      <4>2. sessions'[i][v] = sessions[i][v]
        BY <2>1, <4>1 DEF Inv, TypeOK, WorkerTypeOK
      <4> QED BY <3>1, <4>2, ShutStays DEF Delivery, Tracks
    <3>3. now \in BOOLEAN /\ then \in BOOLEAN
      OBVIOUS
    <3> HIDE DEF now
    <3>4. CASE i # n
      <4>1. sessions'[i][v] = sessions[i][v] /\ pipe'[i] = pipe[i]
        BY <1>1, <2>1, <3>4, RequestEffect DEF Inv, TypeOK, WorkerTypeOK
      <4> QED BY <3>2, <3>4, <4>1 DEF now
    <3>5. CASE i = n /\ v # u
      <4>1. sessions'[i][v] = sessions[i][v] /\ pipe'[i] = pipe[i] \o cmds
        BY <1>1, <2>1, <3>5, RequestEffect DEF Inv, TypeOK, WorkerTypeOK
      <4>2. \A j \in 1 .. Len(cmds) : ~Concerns(cmds[j], v)
        BY <2>2, <3>5 DEF Concerns
      <4> HIDE DEF then
      <4>3. Leads(pipe[i] \o cmds, v, now, then)
        BY <2>2, <3>2, <3>3, <3>5, <4>2, DeliveryTypes, LeadsOn
      <4> QED BY <4>1, <4>3 DEF now, then
    <3>6. CASE i = n /\ v = u
      <4>1. sessions'[i][v] = None /\ pipe'[i] = pipe[i] \o cmds
        BY <1>1, <2>1, <3>6, RequestEffect DEF Inv, TypeOK, WorkerTypeOK
      <4>2. /\ Concerns(cmds[1], v)
            /\ \A j \in 1 .. Len(cmds) : j # 1 => ~Concerns(cmds[j], v)
        BY <2>2, <3>6 DEF Concerns
      <4>3. Leads(pipe[i] \o cmds, v, now, cmds[1].op = "subscribe")
        BY <2>2, <3>3, <4>2, DeliveryTypes, LeadsTo
      <4>4. (cmds[1].op = "subscribe") = (sessions'[i][v] # None)
        BY <2>2, <4>1
      <4> QED BY <4>1, <4>3, <4>4 DEF now
    <3> QED BY <3>4, <3>5, <3>6
  <2> QED BY <2>3, <2>4, <2>5 DEF Delivery
<1> QED BY <1>2, <1>3

LEMMA ShutdownDelivery ==
  ASSUME Inv, Closes, Delivery, NEW n \in Node, ShutdownImpl(n)
  PROVE  Delivery'
<1> DEFINE cmds == <<[op |-> "quit"]>>
<1>1. /\ Request(n, cmds) /\ UNCHANGED <<subs, reply, chatQueue, sessions>>
      /\ link[n] = "up" /\ link'[n] = "leaving"
      /\ \A i \in Node : i # n => link'[i] = link[i]
  BY DEF ShutdownImpl, workerVars, Inv, TypeOK, RedisTypeOK
<1>2. cmds \in Seq(Command) /\ Len(cmds) = 1 /\ cmds[1].op = "quit"
  <2>1. [op |-> "quit"] \in Command
    BY DEF Command
  <2> QED BY <2>1
<1> HIDE DEF cmds
<1>3. \A i \in 1 .. Len(cmds) : cmds[i].op = "quit"
  BY <1>2
<1>4. NoQuit'
  BY <1>1, RequestEffect DEF Delivery, NoQuit
<1>5. LrangeAligned'
  BY <1>1, <1>2, <1>3, AlignedRequest DEF Delivery
<1>6. Tracks'
  BY <1>1, <1>2, <1>3, TracksRequest DEF Delivery
<1> QED BY <1>4, <1>5, <1>6 DEF Delivery

-----------------------------------------------------------------------------
(* Replies and pushes.                                                     *)

LEMMA ReceiveEffect ==
  ASSUME Inv, NEW n \in Node, NEW type, Receive(n, type)
  PROVE  /\ reply[n] # <<>> /\ Head(reply[n]).type = type
         /\ Head(reply[n]) \in Event
         /\ reply'[n] = Tail(reply[n])
         /\ \A i \in Node : i # n => reply'[i] = reply[i]
<1>1. reply[n] # <<>> /\ reply[n] \in Seq(Event)
  BY DeliveryTypes DEF Receive
<1>2. Head(reply[n]) \in Event
  BY <1>1
<1> QED BY <1>1, <1>2 DEF Receive, Inv, TypeOK, RedisTypeOK

LEMMA PushRpushDelivery ==
  ASSUME Inv, Closes, Delivery, NEW n \in Node, OnPushRpush(n)
  PROVE  Delivery'
<1> DEFINE key == Head(reply[n]).name
           cmds == <<Cmd("lrange", key, <<>>), Cmd("del", key, <<>>)>>
<1>1. /\ Request(n, cmds) /\ UNCHANGED <<subs, link, sessions>>
      /\ chatQueue' = [chatQueue EXCEPT ![n] = Append(@, key)]
      /\ Receive(n, "rpush")
  BY DEF OnPushRpush
<1>2. /\ reply[n] # <<>> /\ Head(reply[n]).type = "rpush"
      /\ reply'[n] = Tail(reply[n])
      /\ \A i \in Node : i # n => reply'[i] = reply[i]
      /\ Head(reply[n]) \in Event
  BY <1>1, ReceiveEffect
<1>3. key \in Names(0 .. 1)
  BY <1>2, EventTypes, NameTypes
<1>4. /\ cmds \in Seq(Command) /\ Len(cmds) = 2 /\ cmds[1].op = "lrange"
      /\ cmds[1].name.user = key.user /\ cmds[2].op = "del"
  <2>1. <<>> \in Seq(Msg) /\ key \in Key
    BY <1>2, EventTypes, NameTypes
  <2>2. Cmd("lrange", key, <<>>) \in Command /\ Cmd("del", key, <<>>) \in Command
    BY <2>1, CmdTypes
  <2> QED BY <2>2 DEF Cmd
<1> HIDE DEF key, cmds
<1>5. \A i \in 1 .. Len(cmds) : i = 1 \/ i = 2
  BY <1>4
<1>6. NoQuit'
  <2>1. \A i \in 1 .. Len(cmds) : cmds[i].op # "quit"
    BY <1>4, <1>5
  <2> QED BY <1>1, <1>4, <2>1, NoQuitRequest DEF Delivery
<1>7. Tracks'
  <2>1. \A i \in 1 .. Len(cmds) : cmds[i].op \notin {"subscribe", "unsubscribe"}
    BY <1>4, <1>5
  <2> QED BY <1>1, <1>4, <2>1, TracksRequest DEF Delivery
<1>8. LrangeAligned'
  <2>1. SUFFICES ASSUME NEW i \in Node, link[i] # "renewed"
                 PROVE  Aligned(chatQueue'[i], Awaited(reply'[i], pipe'[i]))
    BY <1>1 DEF LrangeAligned
  <2>2. Aligned(chatQueue[i], Awaited(reply[i], pipe[i]))
    BY <2>1 DEF Delivery, LrangeAligned
  <2>3. CASE i # n
    <3>1. chatQueue'[i] = chatQueue[i] /\ pipe'[i] = pipe[i] /\ reply'[i] = reply[i]
      BY <1>1, <1>2, <2>3, RequestEffect DEF Inv, TypeOK, WorkerTypeOK
    <3> QED BY <2>2, <3>1
  <2>4. CASE i = n
    <3>1. /\ chatQueue'[i] = Append(chatQueue[i], key)
          /\ pipe'[i] = pipe[i] \o cmds /\ reply'[i] = Tail(reply[i])
      BY <1>1, <1>2, <2>4, RequestEffect DEF Inv, TypeOK, WorkerTypeOK
    <3>2. Aligned(chatQueue[i], Awaited(Tail(reply[i]), pipe[i]))
      BY <1>2, <2>2, <2>4, DeliveryTypes, AwaitedOther
    <3>3. Tail(reply[i]) \in Seq(Event)
      BY <1>2, <2>4, DeliveryTypes
    <3>4. 1 \in 1 .. Len(cmds) /\ \A j \in 1 .. Len(cmds) : j # 1 => cmds[j].op # "lrange"
      BY <1>4, <1>5
    <3>5. Aligned(Append(chatQueue[i], key), Awaited(Tail(reply[i]), pipe[i] \o cmds))
      BY <1>3, <1>4, <3>2, <3>3, <3>4, DeliveryTypes, AwaitedAsk
    <3> QED BY <3>1, <3>5
  <2> QED BY <2>3, <2>4
<1> QED BY <1>6, <1>7, <1>8 DEF Delivery

\* on_lrange() is called with the name of the user whose list it was given.
LEMMA LrangeName ==
  ASSUME Inv, LrangeAligned, NEW n \in Node, OnLrange(n), link[n] # "renewed"
  PROVE  /\ Head(chatQueue[n]).user = Head(reply[n]).name.user
         /\ Aligned(Tail(chatQueue[n]), Awaited(Tail(reply[n]), pipe[n]))
<1>1. reply[n] # <<>> /\ Head(reply[n]).type = "lrange"
  BY ReceiveEffect DEF OnLrange
<1>2. Aligned(chatQueue[n], Awaited(reply[n], pipe[n]))
  BY DEF LrangeAligned
<1> QED BY <1>1, <1>2, DeliveryTypes, AwaitedAnswer

LEMMA LrangeDelivery ==
  ASSUME Inv, Closes, Delivery, NEW n \in Node, OnLrange(n)
  PROVE  Delivery'
<1> DEFINE name == Head(chatQueue[n])
           msgs == Head(reply[n]).msgs
           cmds == IF Found(n, name) THEN <<>> ELSE StoreCmds(name, msgs)
<1>1. /\ Request(n, cmds) /\ UNCHANGED <<subs, link, sessions>>
      /\ chatQueue[n] # <<>> /\ chatQueue' = [chatQueue EXCEPT ![n] = Tail(@)]
      /\ Receive(n, "lrange")
  BY DEF OnLrange, PopName
<1>2. /\ reply[n] # <<>> /\ Head(reply[n]) \in Event
      /\ reply'[n] = Tail(reply[n])
      /\ \A i \in Node : i # n => reply'[i] = reply[i]
  BY <1>1, ReceiveEffect
<1>3. cmds \in Seq(Command)
  <2>1. chatQueue[n] \in Seq(Names(0 .. 1))
    BY DeliveryTypes
  <2>2. name \in Names(0 .. 1) /\ msgs \in Seq(Msg)
    BY <1>1, <1>2, <2>1, TailType, EventTypes
  <2>3. StoreCmds(name, msgs) \in Seq(Command) /\ <<>> \in Seq(Command)
    BY <2>2, StoreCmdsType
  <2> QED BY <2>3
<1>4. Plain(cmds)
  BY PlainCmds
<1> HIDE DEF cmds
<1>5. NoQuit' /\ Tracks'
  BY <1>1, <1>3, <1>4, NoQuitRequest, TracksRequest DEF Delivery, Plain
<1>6. LrangeAligned'
  <2>1. SUFFICES ASSUME NEW i \in Node, link[i] # "renewed"
                 PROVE  Aligned(chatQueue'[i], Awaited(reply'[i], pipe'[i]))
    BY <1>1 DEF LrangeAligned
  <2>2. CASE i # n
    <3>1. chatQueue'[i] = chatQueue[i] /\ pipe'[i] = pipe[i] /\ reply'[i] = reply[i]
      BY <1>1, <1>2, <2>2, RequestEffect DEF Inv, TypeOK, WorkerTypeOK
    <3> QED BY <2>1, <3>1 DEF Delivery, LrangeAligned
  <2>3. CASE i = n
    <3>1. /\ chatQueue'[i] = Tail(chatQueue[i])
          /\ pipe'[i] = pipe[i] \o cmds /\ reply'[i] = Tail(reply[i])
      BY <1>1, <1>2, <2>3, RequestEffect DEF Inv, TypeOK, WorkerTypeOK
    <3>2. Aligned(Tail(chatQueue[i]), Awaited(Tail(reply[i]), pipe[i]))
      BY <2>1, <2>3, LrangeName DEF Delivery
    <3>3. Tail(reply[i]) \in Seq(Event) /\ Tail(chatQueue[i]) \in Seq(Names(0 .. 1))
      <4>1. reply[i] \in Seq(Event) /\ chatQueue[i] \in Seq(Names(0 .. 1))
        BY DeliveryTypes
      <4> QED BY <1>1, <1>2, <2>3, <4>1, TailType
    <3>4. \A j \in 1 .. Len(cmds) : cmds[j].op # "lrange"
      BY <1>4 DEF Plain
    <3>5. Aligned(Tail(chatQueue[i]), Awaited(Tail(reply[i]), pipe[i] \o cmds))
      BY <1>3, <3>2, <3>3, <3>4, DeliveryTypes, AwaitedPad
    <3> QED BY <3>1, <3>5
  <2> QED BY <2>2, <2>3
<1> QED BY <1>5, <1>6 DEF Delivery

LEMMA DbPresenceDelivery ==
  ASSUME Inv, Closes, Delivery, NEW n \in Node, OnDbPresence(n)
  PROVE  Delivery'
<1>1. Receive(n, "presence") /\ UNCHANGED <<workerVars, subs, link, pipe>>
  BY DEF OnDbPresence
<1>2. /\ reply[n] # <<>> /\ Head(reply[n]).type = "presence"
      /\ reply'[n] = Tail(reply[n])
      /\ \A i \in Node : i # n => reply'[i] = reply[i]
  BY <1>1, ReceiveEffect
<1>3. LrangeAligned'
  <2>1. SUFFICES ASSUME NEW i \in Node, link[i] # "renewed"
                 PROVE  Aligned(chatQueue[i], Awaited(reply'[i], pipe[i]))
    BY <1>1 DEF LrangeAligned, workerVars
  <2>2. Aligned(chatQueue[i], Awaited(reply[i], pipe[i]))
    BY <2>1 DEF Delivery, LrangeAligned
  <2>3. CASE i # n
    BY <1>2, <2>2, <2>3
  <2>4. CASE i = n
    BY <1>2, <2>2, <2>4, DeliveryTypes, AwaitedOther
  <2> QED BY <2>3, <2>4
<1>4. NoQuit' /\ Tracks'
  <2>1. NoQuit'
    BY <1>1 DEF Delivery, NoQuit
  <2>2. Tracks'
    <3>1. SUFFICES ASSUME NEW i \in Node, NEW u \in User, link[i] = "up", ~Shut(i, u)'
                   PROVE  Leads(pipe[i], u, u \in subs[i], sessions[i][u] # None)
      BY <1>1 DEF Tracks, workerVars
    <3> QED BY <1>1, <3>1, ShutStays DEF Delivery, Tracks, workerVars
  <2> QED BY <2>1, <2>2
<1> QED BY <1>3, <1>4 DEF Delivery

-----------------------------------------------------------------------------
(* Redis.                                                                  *)

LEMMA ExecEffect ==
  ASSUME Inv, NEW n \in Node, NEW op, Exec(n, op)
  PROVE  /\ pipe[n] # <<>> /\ Head(pipe[n]) \in Command /\ Head(pipe[n]).op = op
         /\ pipe'[n] = Tail(pipe[n])
         /\ \A i \in Node : i # n => pipe'[i] = pipe[i]
<1>1. pipe[n] # <<>> /\ pipe[n] \in Seq(Command)
  BY DeliveryTypes DEF Exec
<1>2. Head(pipe[n]) \in Command
  BY <1>1, TailType
<1> QED BY <1>1, <1>2 DEF Exec, Inv, TypeOK, RedisTypeOK

\* A command other than QUIT that is taken off brings none in.
LEMMA NoQuitExec ==
  ASSUME Inv, NoQuit, NEW n \in Node, NEW op, Exec(n, op),
         \A i \in Node : link'[i] \in {"up", "renewed"} => link[i] \in {"up", "renewed"}
  PROVE  NoQuit'
<1>1. SUFFICES ASSUME NEW i \in Node, link[i] \in {"up", "renewed"},
                      NEW j \in 1 .. Len(pipe'[i])
               PROVE  pipe'[i][j].op # "quit"
  BY DEF NoQuit
<1>2. pipe[i] \in Seq(Command) /\ \A k \in 1 .. Len(pipe[i]) : pipe[i][k].op # "quit"
  BY <1>1, DeliveryTypes DEF NoQuit
<1>3. CASE i # n
  BY <1>1, <1>2, <1>3, ExecEffect
<1>4. CASE i = n
  <2>1. pipe'[i] = Tail(pipe[i]) /\ pipe[i] # <<>>
    BY <1>4, ExecEffect
  <2>2. j + 1 \in 1 .. Len(pipe[i]) /\ pipe'[i][j] = pipe[i][j + 1]
    BY <1>1, <1>2, <2>1
  <2> QED BY <1>2, <2>2
<1> QED BY <1>3, <1>4

\* The answers to commands other than LRANGE do not count.
LEMMA AlignedExec ==
  ASSUME Inv, LrangeAligned, NEW n \in Node, NEW op, op # "lrange", Exec(n, op),
         chatQueue' = chatQueue,
         \A i \in Node : link'[i] # "renewed" => link[i] # "renewed",
         \A i \in Node : \/ reply'[i] = reply[i]
                         \/ \E e \in Event : /\ e.type # "lrange"
                                             /\ reply'[i] = Append(reply[i], e)
  PROVE  LrangeAligned'
<1>1. SUFFICES ASSUME NEW i \in Node, link[i] # "renewed"
               PROVE  Aligned(chatQueue[i], Awaited(reply'[i], pipe'[i]))
  BY DEF LrangeAligned
<1>2. Aligned(chatQueue[i], Awaited(reply[i], pipe[i]))
  BY <1>1 DEF LrangeAligned
<1>3. /\ pipe[i] \in Seq(Command) /\ reply[i] \in Seq(Event)
      /\ chatQueue[i] \in Seq(Names(0 .. 1))
  BY DeliveryTypes
<1>4. pipe'[i] \in Seq(Command) /\ Aligned(chatQueue[i], Awaited(reply[i], pipe'[i]))
  <2>1. CASE i # n
    BY <1>2, <1>3, <2>1, ExecEffect
  <2>2. CASE i = n
    <3>1. /\ pipe[i] # <<>> /\ Head(pipe[i]).op # "lrange"
          /\ pipe'[i] = Tail(pipe[i])
      BY <2>2, ExecEffect
    <3>2. Aligned(chatQueue[i], Awaited(reply[i], Tail(pipe[i])))
      BY <1>2, <1>3, <3>1, AwaitedDone
    <3>3. Tail(pipe[i]) \in Seq(Command)
      BY <1>3, <3>1, TailType
    <3> QED BY <3>1, <3>2, <3>3
  <2> QED BY <2>1, <2>2
<1>5. ASSUME NEW e \in Event, e.type # "lrange", reply'[i] = Append(reply[i], e)
      PROVE  Aligned(chatQueue[i], Awaited(reply'[i], pipe'[i]))
  <2>1. Aligned(chatQueue[i], Awaited(Append(reply[i], e), pipe'[i]))
    BY <1>3, <1>4, <1>5, AwaitedPush
  <2> QED BY <1>5, <2>1
<1> QED BY <1>4, <1>5

\* Commands that do not subscribe are passed over.
LEMMA TracksExec ==
  ASSUME Inv, Closes, Tracks, NEW n \in Node, NEW op,
         op \notin {"subscribe", "unsubscribe"}, Exec(n, op),
         UNCHANGED <<subs, sessions, link>>
  PROVE  Tracks'
<1>1. SUFFICES ASSUME NEW i \in Node, NEW u \in User, link[i] = "up", ~Shut(i, u)'
               PROVE  Leads(pipe'[i], u, u \in subs[i], sessions[i][u] # None)
  BY DEF Tracks
<1> DEFINE now == u \in subs[i]
           then == sessions[i][u] # None
<1>2. Leads(pipe[i], u, now, then)
  BY <1>1, ShutStays DEF Tracks
<1>3. now \in BOOLEAN /\ then \in BOOLEAN /\ pipe[i] \in Seq(Command)
  BY DeliveryTypes
<1> HIDE DEF now, then
<1>4. Leads(pipe'[i], u, now, then)
  <2>1. CASE i # n
    BY <1>2, <2>1, ExecEffect
  <2>2. CASE i = n
    <3>1. /\ pipe[i] # <<>> /\ ~Concerns(Head(pipe[i]), u)
          /\ pipe'[i] = Tail(pipe[i])
      BY <2>2, ExecEffect DEF Concerns
    <3>2. Leads(Tail(pipe[i]), u, now, then)
      BY <1>2, <1>3, <3>1, LeadsPast
    <3> QED BY <3>1, <3>2
  <2> QED BY <2>1, <2>2
<1> QED BY <1>4 DEF now, then

\* SUBSCRIBE and UNSUBSCRIBE bring about what the pipeline led to.
LEMMA TracksSubscribe ==
  ASSUME Inv, Closes, Tracks, NEW n \in Node, NEW op,
         op \in {"subscribe", "unsubscribe"}, Exec(n, op),
         subs' = [subs EXCEPT ![n] =
                    IF op = "subscribe" THEN @ \cup {Head(pipe[n]).name.user}
                                        ELSE @ \ {Head(pipe[n]).name.user}],
         UNCHANGED <<sessions, link>>
  PROVE  Tracks'
<1>1. SUFFICES ASSUME NEW i \in Node, NEW u \in User, link[i] = "up", ~Shut(i, u)'
               PROVE  Leads(pipe'[i], u, u \in subs'[i], sessions[i][u] # None)
  BY DEF Tracks
<1> DEFINE now == u \in subs[i]
           then == sessions[i][u] # None
<1>2. Leads(pipe[i], u, now, then)
  BY <1>1, ShutStays DEF Tracks
<1>3. now \in BOOLEAN /\ then \in BOOLEAN /\ pipe[i] \in Seq(Command)
  BY DeliveryTypes
<1> HIDE DEF then
<1>4. CASE i # n
  <2>1. subs'[i] = subs[i] /\ pipe'[i] = pipe[i]
    BY <1>4, ExecEffect DEF Inv, TypeOK, RedisTypeOK
  <2> QED BY <1>2, <2>1 DEF then
<1>5. CASE i = n /\ Head(pipe[n]).name.user # u
  <2>1. u \in subs'[i] <=> u \in subs[i]
    BY <1>5 DEF Inv, TypeOK, RedisTypeOK
  <2>2. pipe[i] # <<>> /\ ~Concerns(Head(pipe[i]), u) /\ pipe'[i] = Tail(pipe[i])
    BY <1>5, ExecEffect DEF Concerns
  <2> HIDE DEF now
  <2>3. Leads(Tail(pipe[i]), u, now, then)
    BY <1>2, <1>3, <2>2, LeadsPast
  <2>4. Leads(Tail(pipe[i]), u, u \in subs'[i], then)
    BY <2>1, <2>3 DEF now
  <2> QED BY <2>2, <2>4 DEF then
<1>6. CASE i = n /\ Head(pipe[n]).name.user = u
  <2>1. (u \in subs'[i]) = (op = "subscribe")
    BY <1>6 DEF Inv, TypeOK, RedisTypeOK
  <2>2. /\ pipe[i] # <<>> /\ Concerns(Head(pipe[i]), u) /\ pipe'[i] = Tail(pipe[i])
        /\ Head(pipe[i]).op = op
    BY <1>6, ExecEffect DEF Concerns
  <2> HIDE DEF now
  <2>3. Leads(Tail(pipe[i]), u, Head(pipe[i]).op = "subscribe", then)
    BY <1>2, <1>3, <2>2, LeadsThrough
  <2>4. Leads(Tail(pipe[i]), u, u \in subs'[i], then)
    BY <2>1, <2>2, <2>3
  <2> QED BY <2>2, <2>4 DEF then
<1> QED BY <1>4, <1>5, <1>6

LEMMA PushedTo ==
  ASSUME Inv, NEW u, NEW e \in Event, PushTo(u, e)
  PROVE  \A i \in Node : reply'[i] = reply[i] \/ reply'[i] = Append(reply[i], e)
  BY DEF PushTo

LEMMA RedisDelivery ==
  ASSUME Inv, Closes, Delivery, NEW n \in Node, Redis(n)
  PROVE  Delivery'
<1> DEFINE c == Head(pipe[n])
<1>1. RedisStep(n) /\ UNCHANGED <<chatQueue, sessions>>
  BY DEF Redis, workerVars
<1>2. NoQuit /\ LrangeAligned /\ Tracks
  BY DEF Delivery
<1>3. CASE ExecSubscribe(n)
  <2>1. /\ Exec(n, "subscribe") /\ UNCHANGED <<reply, link>>
        /\ subs' = [subs EXCEPT ![n] = @ \cup {c.name.user}]
    BY <1>3 DEF ExecSubscribe
  <2>2. NoQuit' /\ LrangeAligned' /\ Tracks'
    BY <1>1, <1>2, <2>1, NoQuitExec, AlignedExec, TracksSubscribe
  <2> QED BY <2>2 DEF Delivery
<1>4. CASE ExecUnsubscribe(n)
  <2>1. /\ Exec(n, "unsubscribe") /\ UNCHANGED <<reply, link>>
        /\ subs' = [subs EXCEPT ![n] = @ \ {c.name.user}]
    BY <1>4 DEF ExecUnsubscribe
  <2>2. NoQuit' /\ LrangeAligned' /\ Tracks'
    BY <1>1, <1>2, <2>1, NoQuitExec, AlignedExec, TracksSubscribe
  <2> QED BY <2>2 DEF Delivery
<1>5. CASE ExecLrange(n)
  <2> DEFINE e == Evt("lrange", c.name, lists[c.name])
  <2>1. /\ Exec(n, "lrange") /\ UNCHANGED <<lists, subs, link>>
        /\ reply' = [reply EXCEPT ![n] = Append(@, e)]
    BY <1>5 DEF ExecLrange
  <2>2. /\ pipe[n] # <<>> /\ c \in Command /\ c.op = "lrange"
        /\ pipe'[n] = Tail(pipe[n])
        /\ \A i \in Node : i # n => pipe'[i] = pipe[i]
    BY <2>1, ExecEffect
  <2>3. e \in Event /\ e.type = "lrange" /\ e.name = c.name
    <3>1. c.name \in Key
      BY <2>2 DEF Command
    <3>2. lists[c.name] \in Seq(Msg)
      BY <3>1 DEF Inv, TypeOK, RedisTypeOK
    <3> QED BY <3>1, <3>2 DEF Evt, Event
  <2>4. LrangeAligned'
    <3>1. SUFFICES ASSUME NEW i \in Node, link[i] # "renewed"
                   PROVE  Aligned(chatQueue[i], Awaited(reply'[i], pipe'[i]))
      BY <1>1, <2>1 DEF LrangeAligned
    <3>2. Aligned(chatQueue[i], Awaited(reply[i], pipe[i]))
      BY <1>2, <3>1 DEF LrangeAligned
    <3>3. CASE i # n
      BY <2>1, <2>2, <3>2, <3>3 DEF Inv, TypeOK, RedisTypeOK
    <3>4. CASE i = n
      <4>1. reply'[i] = Append(reply[i], e)
        BY <2>1, <3>4 DEF Inv, TypeOK, RedisTypeOK
      <4> HIDE DEF e
      <4>2. Awaited(Append(reply[i], e), Tail(pipe[i])) = Awaited(reply[i], pipe[i])
        BY <2>2, <2>3, <3>4, DeliveryTypes, AwaitedAnswered
      <4> QED BY <2>2, <3>2, <3>4, <4>1, <4>2
    <3> QED BY <3>3, <3>4
  <2>5. NoQuit' /\ Tracks'
    BY <1>1, <1>2, <2>1, NoQuitExec, TracksExec
  <2> QED BY <2>4, <2>5 DEF Delivery
<1>6. CASE ExecDel(n)
  <2>1. Exec(n, "del") /\ UNCHANGED <<subs, reply, link>>
    BY <1>6 DEF ExecDel
  <2>2. NoQuit' /\ LrangeAligned' /\ Tracks'
    BY <1>1, <1>2, <2>1, NoQuitExec, AlignedExec, TracksExec
  <2> QED BY <2>2 DEF Delivery
<1>7. CASE ExecRpush(n)
  <2>1. Exec(n, "rpush") /\ UNCHANGED <<subs, link>>
    BY <1>7 DEF ExecRpush
  <2>2. \A i \in Node : \/ reply'[i] = reply[i]
                        \/ \E e \in Event : /\ e.type # "lrange"
                                            /\ reply'[i] = Append(reply[i], e)
    <3>1. CASE c.name.depth = 1
      <4> DEFINE e == Evt("rpush", c.name, <<>>)
      <4>1. PushTo(c.name.user, e)
        BY <1>7, <3>1 DEF ExecRpush
      <4>2. e \in Event /\ e.type # "lrange"
        <5>1. c \in Command /\ c.op = "rpush"
          BY <2>1, ExecEffect
        <5>2. c.name \in Key /\ <<>> \in Seq(Msg)
          BY <5>1 DEF Command
        <5> QED BY <3>1, <5>2 DEF Evt, Event, Key, Names
      <4> HIDE DEF e
      <4> QED BY <4>1, <4>2, PushedTo
    <3>2. CASE c.name.depth # 1
      BY <1>7, <3>2 DEF ExecRpush
    <3> QED BY <3>1, <3>2
  <2>3. NoQuit' /\ LrangeAligned' /\ Tracks'
    BY <1>1, <1>2, <2>1, <2>2, NoQuitExec, AlignedExec, TracksExec
  <2> QED BY <2>3 DEF Delivery
<1>8. CASE ExecPublish(n)
  <2> DEFINE e == Evt("presence", c.name, c.msgs)
  <2>1. Exec(n, "publish") /\ UNCHANGED <<subs, link>> /\ PushTo(c.name.user, e)
    BY <1>8 DEF ExecPublish
  <2>2. e \in Event /\ e.type # "lrange"
    <3>1. c \in Command /\ c.op = "publish"
      BY <2>1, ExecEffect
    <3> QED BY <3>1 DEF Evt, Event, Command
  <2> HIDE DEF e
  <2>3. NoQuit' /\ LrangeAligned' /\ Tracks'
    BY <1>1, <1>2, <2>1, <2>2, PushedTo, NoQuitExec, AlignedExec, TracksExec
  <2> QED BY <2>3 DEF Delivery
<1>9. CASE ExecQuit(n)
  <2>1. /\ Exec(n, "quit") /\ UNCHANGED reply
        /\ link' = [link EXCEPT ![n] = "closed"]
        /\ subs' = [subs EXCEPT ![n] = {}]
    BY <1>9 DEF ExecQuit
  <2>2. link[n] \notin {"up", "renewed"}
    <3>1. pipe[n] # <<>> /\ pipe[n] \in Seq(Command) /\ Head(pipe[n]).op = "quit"
      BY <2>1, ExecEffect, DeliveryTypes
    <3>2. 1 \in 1 .. Len(pipe[n]) /\ Head(pipe[n]) = pipe[n][1]
      BY <3>1
    <3> QED BY <1>2, <3>1, <3>2 DEF NoQuit
  <2>3. /\ link'[n] = "closed" /\ \A i \in Node : i # n => link'[i] = link[i]
        /\ \A i \in Node : i # n => subs'[i] = subs[i]
    BY <2>1 DEF Inv, TypeOK, RedisTypeOK
  <2>4. NoQuit' /\ LrangeAligned'
    BY <1>1, <1>2, <2>1, <2>2, <2>3, NoQuitExec, AlignedExec
  <2>5. Tracks'
    <3>1. SUFFICES ASSUME NEW i \in Node, NEW u \in User,
                          link'[i] = "up", ~Shut(i, u)'
                   PROVE  Leads(pipe'[i], u, u \in subs'[i], sessions[i][u] # None)
      BY <1>1 DEF Tracks
    <3>2. /\ i # n /\ link[i] = "up" /\ pipe'[i] = pipe[i] /\ subs'[i] = subs[i]
      BY <2>1, <2>3, <3>1, ExecEffect
    <3> QED BY <1>1, <1>2, <3>1, <3>2, ShutStays DEF Tracks
  <2> QED BY <2>4, <2>5 DEF Delivery
<1> QED BY <1>1, <1>3, <1>4, <1>5, <1>6, <1>7, <1>8, <1>9 DEF RedisStep

LEMMA LinkLostDelivery ==
  ASSUME Inv, Closes, Delivery, NEW n \in Node, LinkLost(n)
  PROVE  Delivery'
<1>1. /\ UNCHANGED <<chatQueue, sessions>>
      /\ link'[n] = "renewed" /\ pipe'[n] = <<>>
      /\ \A i \in Node : i # n => /\ link'[i] = link[i] /\ pipe'[i] = pipe[i]
                                  /\ reply'[i] = reply[i] /\ subs'[i] = subs[i]
  BY DEF LinkLost, Lose, workerVars, Inv, TypeOK, RedisTypeOK
<1>2. NoQuit'
  <2>1. Len(<<>>) = 0
    OBVIOUS
  <2> QED BY <1>1, <2>1 DEF Delivery, NoQuit
<1>3. LrangeAligned'
  BY <1>1 DEF Delivery, LrangeAligned
<1>4. Tracks'
  <2>1. SUFFICES ASSUME NEW i \in Node, NEW u \in User,
                        link'[i] = "up", ~Shut(i, u)'
                 PROVE  Leads(pipe'[i], u, u \in subs'[i], sessions[i][u] # None)
    BY <1>1 DEF Tracks
  <2>2. i # n
    BY <1>1, <2>1
  <2> QED BY <1>1, <2>1, <2>2, ShutStays DEF Delivery, Tracks
<1> QED BY <1>2, <1>3, <1>4 DEF Delivery

LEMMA NextDelivery == DeliveryInv /\ [Next]_vars => DeliveryInv'
<1> SUFFICES ASSUME DeliveryInv, [Next]_vars PROVE DeliveryInv'
  OBVIOUS
<1>1. MapInv' /\ Inv /\ Delivery /\ Closes
  BY NextMapInv, StepCloses DEF DeliveryInv, MapInv
<1>2. ASSUME NEW s \in Session, SessionStep(s) PROVE Delivery'
  <2>1. ASSUME NEW u \in User, OnAppLogin(s, u) \/ OnAppLoginThrows(s, u)
        PROVE  Delivery'
    BY <1>1, <2>1, LoginDelivery, LoginThrowsDelivery
  <2>2. CASE OnReadError(s)
    BY <1>1, <2>2, ReadErrorDelivery
  <2>3. ASSUME NEW u \in User, NEW m \in Msg, NEW complete \in BOOLEAN,
               OnAppChat(s, m, u, complete)
        PROVE  Delivery'
    BY <1>1, <2>3, ChatDelivery
  <2>4. ASSUME NEW u \in User, NEW m \in Msg, OnAppPresence(s, m, u) PROVE Delivery'
    BY <1>1, <2>4, PresenceDelivery
  <2>5. CASE \/ OnAppLoginFail(s) \/ OnAppUnknown(s)
             \/ SessionWrite(s) \/ SessionWriteError(s) \/ SessionPong(s)
             \/ \E n \in Node : SessionRun(s, n)
             \/ \E m \in Msg : OnAppPublish(s, m)
    BY <1>1, <2>5, SessionOnlyDelivery
  <2> QED BY <1>2, <2>1, <2>2, <2>3, <2>4, <2>5 DEF SessionStep
<1>3. ASSUME NEW n \in Node, OnReply(n) PROVE Delivery'
  BY <1>1, <1>3, PushRpushDelivery, LrangeDelivery, DbPresenceDelivery DEF OnReply
<1>4. ASSUME NEW n \in Node, Redis(n) PROVE Delivery'
  BY <1>1, <1>4, RedisDelivery
<1>5. ASSUME NEW n \in Node, ShutdownImpl(n) PROVE Delivery'
  BY <1>1, <1>5, ShutdownDelivery
<1>6. ASSUME NEW n \in Node, LinkLost(n) PROVE Delivery'
  BY <1>1, <1>6, LinkLostDelivery
<1>7. ASSUME NEW key \in Key, ListExpires(key) PROVE Delivery'
  BY <1>1, <1>7, DeliveryUnchanged DEF ListExpires, Expire
<1>8. ASSUME UNCHANGED vars PROVE Delivery'
  BY <1>1, <1>8, DeliveryUnchanged DEF vars, redisVars
<1>9. Delivery'
  BY <1>2, <1>3, <1>4, <1>5, <1>6, <1>7, <1>8 DEF Next
<1> QED BY <1>1, <1>9 DEF DeliveryInv

\* As long as no connection was lost, the names in user_ids_chat_queue are
\* those of the LRANGE requests that are not answered, in the same order:
\* on_lrange() hands every answer to the user whose list it is, and its assert
\* holds.
THEOREM AnswersFindTheirNames == Spec => []LrangeAligned
<1>1. DeliveryInv => LrangeAligned
  BY DEF DeliveryInv, Delivery
<1> QED BY InitDelivery, NextDelivery, <1>1, PTL DEF Spec

\* Logins, logouts and overrides in any order leave the pipeline of a process
\* such that, once Redis has executed it, the process is subscribed to every
\* user it has in sessions_ whose session is not being closed, and to no user it
\* does not have there, also when logins end in an exception half way.
THEOREM SubscriptionsFollow == Spec => []SubscriptionTracksSession
<1>1. DeliveryInv => SubscriptionTracksSession
  <2>1. SUFFICES ASSUME DeliveryInv, NEW n \in Node, NEW u \in User, link[n] = "up"
                 PROVE  /\ sessions[n][u] = None
                           => Leads(pipe[n], u, u \in subs[n], FALSE)
                        /\ sessions[n][u] # None /\ ~closing[sessions[n][u]]
                           => Leads(pipe[n], u, u \in subs[n], TRUE)
    BY DEF SubscriptionTracksSession
  <2>2. ~Shut(n, u) => Leads(pipe[n], u, u \in subs[n], sessions[n][u] # None)
    BY <2>1 DEF DeliveryInv, Delivery, Tracks
  <2>3. CASE sessions[n][u] = None
    <3>1. (sessions[n][u] # None) = FALSE /\ ~Shut(n, u)
      BY <2>3 DEF Shut
    <3> QED BY <2>2, <2>3, <3>1
  <2>4. CASE sessions[n][u] # None /\ ~closing[sessions[n][u]]
    <3>1. (sessions[n][u] # None) = TRUE /\ ~Shut(n, u)
      BY <2>4 DEF Shut
    <3> QED BY <2>2, <2>4, <3>1
  <2> QED BY <2>3, <2>4
<1> QED BY InitDelivery, NextDelivery, <1>1, PTL DEF Spec

-----------------------------------------------------------------------------
(* The mail in sequences of messages and of frames.                        *)

LEMMA MailIn ==
  ASSUME NEW q, NEW m
  PROVE  m \in Mails(q) <=> m \in Mail /\ \E i \in 1 .. Len(q) : q[i] = m
  BY DEF Mails

LEMMA MailConcat ==
  ASSUME NEW S, NEW q \in Seq(S), NEW r \in Seq(S)
  PROVE  Mails(q \o r) = Mails(q) \cup Mails(r)
<1>1. /\ Len(q \o r) = Len(q) + Len(r) /\ Len(q) \in Nat /\ Len(r) \in Nat
      /\ \A i \in 1 .. Len(q) : (q \o r)[i] = q[i]
      /\ \A i \in 1 .. Len(r) : (q \o r)[Len(q) + i] = r[i]
  OBVIOUS
<1> DEFINE v == q \o r
<1> HIDE DEF v
<1>2. ASSUME NEW m \in Mails(v) PROVE m \in Mails(q) \cup Mails(r)
  <2>1. PICK i \in 1 .. Len(v) : m \in Mail /\ v[i] = m
    BY MailIn
  <2>2. CASE i <= Len(q)
    <3>1. i \in 1 .. Len(q) /\ q[i] = m
      BY <1>1, <2>1, <2>2 DEF v
    <3> QED BY <2>1, <3>1, MailIn
  <2>3. CASE i > Len(q)
    <3>1. i - Len(q) \in 1 .. Len(r) /\ r[i - Len(q)] = m
      BY <1>1, <2>1, <2>3 DEF v
    <3> QED BY <2>1, <3>1, MailIn
  <2> QED BY <1>1, <2>2, <2>3
<1>3. ASSUME NEW m \in Mails(q) PROVE m \in Mails(v)
  <2>1. PICK i \in 1 .. Len(q) : m \in Mail /\ q[i] = m
    BY MailIn
  <2>2. i \in 1 .. Len(v) /\ v[i] = m
    BY <1>1, <2>1 DEF v
  <2> QED BY <2>1, <2>2, MailIn
<1>4. ASSUME NEW m \in Mails(r) PROVE m \in Mails(v)
  <2>1. PICK i \in 1 .. Len(r) : m \in Mail /\ r[i] = m
    BY MailIn
  <2>2. Len(q) + i \in 1 .. Len(v) /\ v[Len(q) + i] = m
    BY <1>1, <2>1 DEF v
  <2> QED BY <2>1, <2>2, MailIn
<1> QED BY <1>2, <1>3, <1>4 DEF v

LEMMA MailTail ==
  ASSUME NEW S, NEW q \in Seq(S), q # <<>>
  PROVE  Mails(Tail(q)) \subseteq Mails(q)
<1>1. /\ Len(Tail(q)) = Len(q) - 1 /\ Len(q) \in Nat
      /\ \A i \in 1 .. Len(q) - 1 : Tail(q)[i] = q[i + 1]
  OBVIOUS
<1>2. SUFFICES ASSUME NEW m \in Mails(Tail(q)) PROVE m \in Mails(q)
  OBVIOUS
<1>3. PICK i \in 1 .. Len(Tail(q)) : m \in Mail /\ Tail(q)[i] = m
  BY <1>2, MailIn
<1>4. i + 1 \in 1 .. Len(q) /\ q[i + 1] = m
  BY <1>1, <1>3
<1> QED BY <1>3, <1>4, MailIn

LEMMA MailNone ==
  /\ Mails(<<>>) = {}
  /\ Mails(<<Ack>>) = {}
  /\ \A m \in Presence : Mails(<<m>>) = {}
  /\ \A m : Mails(<<m>>) \subseteq {m}
<1>1. Len(<<>>) = 0 /\ \A m : Len(<<m>>) = 1 /\ <<m>>[1] = m
  OBVIOUS
<1>2. Mails(<<>>) = {}
  BY <1>1, MailIn
<1>3. \A m : Mails(<<m>>) \subseteq {m} \cap Mail
  BY <1>1 DEF Mails
<1> QED BY <1>2, <1>3, ConstantsDiffer DEF Msg

LEMMA MailFramed ==
  ASSUME NEW q \in Seq(Entry), NEW m
  PROVE  m \in Mails(Frames(q)) <=> m \in Mail /\ \E i \in 1 .. Len(q) : q[i].msg = m
<1>1. Frames(q) = [i \in 1 .. Len(q) |-> q[i].msg] /\ Len(q) \in Nat
  BY DEF Frames
<1> DEFINE f == Frames(q)
<1>2. DOMAIN f = 1 .. Len(q) /\ Len(f) = Len(q) /\ \A i \in 1 .. Len(q) : f[i] = q[i].msg
  BY <1>1
<1> HIDE DEF f
<1>3. m \in Mails(f) <=> m \in Mail /\ \E i \in 1 .. Len(f) : f[i] = m
  BY MailIn
<1>4. m \in Mails(f) <=> m \in Mail /\ \E i \in 1 .. Len(q) : q[i].msg = m
  BY <1>2, <1>3
<1> QED BY <1>4 DEF f

LEMMA MailFramedNone == Mails(Frames(<<>>)) = {}
<1>1. <<>> \in Seq(Entry) /\ Len(<<>>) = 0
  OBVIOUS
<1>2. ASSUME NEW q \in Seq(Entry), Len(q) = 0, NEW m \in Mails(Frames(q)) PROVE FALSE
  <2>1. PICK i \in 1 .. Len(q) : q[i].msg = m
    BY MailFramed
  <2> QED BY <1>2, <2>1
<1> QED BY <1>1, <1>2

LEMMA MailFramedConcat ==
  ASSUME NEW q \in Seq(Entry), NEW r \in Seq(Entry)
  PROVE  Mails(Frames(q \o r)) = Mails(Frames(q)) \cup Mails(Frames(r))
<1> DEFINE v == q \o r
<1>1. /\ v \in Seq(Entry) /\ Len(v) = Len(q) + Len(r)
      /\ Len(q) \in Nat /\ Len(r) \in Nat
      /\ \A i \in 1 .. Len(q) : v[i] = q[i]
      /\ \A i \in 1 .. Len(r) : v[Len(q) + i] = r[i]
  OBVIOUS
<1> HIDE DEF v
<1>2. ASSUME NEW m \in Mails(Frames(v)) PROVE m \in Mails(Frames(q)) \cup Mails(Frames(r))
  <2>1. PICK i \in 1 .. Len(v) : m \in Mail /\ v[i].msg = m
    BY <1>1, MailFramed
  <2>2. CASE i <= Len(q)
    <3>1. i \in 1 .. Len(q) /\ q[i].msg = m
      BY <1>1, <2>1, <2>2
    <3> QED BY <2>1, <3>1, MailFramed
  <2>3. CASE i > Len(q)
    <3>1. i - Len(q) \in 1 .. Len(r) /\ r[i - Len(q)].msg = m
      BY <1>1, <2>1, <2>3
    <3> QED BY <2>1, <3>1, MailFramed
  <2> QED BY <1>1, <2>2, <2>3
<1>3. ASSUME NEW m \in Mails(Frames(q)) PROVE m \in Mails(Frames(v))
  <2>1. PICK i \in 1 .. Len(q) : m \in Mail /\ q[i].msg = m
    BY MailFramed
  <2>2. i \in 1 .. Len(v) /\ v[i].msg = m
    BY <1>1, <2>1
  <2> QED BY <1>1, <2>1, <2>2, MailFramed
<1>4. ASSUME NEW m \in Mails(Frames(r)) PROVE m \in Mails(Frames(v))
  <2>1. PICK i \in 1 .. Len(r) : m \in Mail /\ r[i].msg = m
    BY MailFramed
  <2>2. Len(q) + i \in 1 .. Len(v) /\ v[Len(q) + i].msg = m
    BY <1>1, <2>1
  <2> QED BY <1>1, <2>1, <2>2, MailFramed
<1> QED BY <1>2, <1>3, <1>4 DEF v

\* The mail in a queue to which messages were pushed.
LEMMA MailPushed ==
  ASSUME NEW q \in [Session -> Seq(Entry)], NEW S, NEW msgs,
         NEW persist \in BOOLEAN,
         msgs \in Seq(Msg) \/ (msgs = <<Ack>> /\ persist = FALSE),
         NEW s \in Session
  PROVE  /\ Mails(Frames(PushAll(q, S, msgs, persist)[s]))
              \subseteq Mails(Frames(q[s])) \cup Mails(msgs)
         /\ s \notin S => Mails(Frames(PushAll(q, S, msgs, persist)[s]))
                            \subseteq Mails(Frames(q[s]))
<1> DEFINE new == [i \in 1 .. Len(msgs) |-> [msg |-> msgs[i], persist |-> persist]]
           v == PushAll(q, S, msgs, persist)[s]
<1>1. v = IF s \in S THEN q[s] \o new ELSE q[s]
  BY DEF PushAll
<1>2. new \in Seq(Entry)
  BY FramesOf
<1>3. Len(msgs) \in Nat
  OBVIOUS
<1>4. Len(new) = Len(msgs) /\ \A i \in 1 .. Len(msgs) : new[i].msg = msgs[i]
  BY <1>3
<1> HIDE DEF new, v
<1>5. \A m : m \in Mails(Frames(new)) <=> m \in Mails(msgs)
  BY <1>2, <1>4, MailFramed, MailIn
<1>6. Mails(Frames(new)) = Mails(msgs)
  BY <1>5
<1>7. Mails(Frames(q[s] \o new)) = Mails(Frames(q[s])) \cup Mails(Frames(new))
  BY <1>2, MailFramedConcat
<1>8. /\ Mails(Frames(v)) \subseteq Mails(Frames(q[s])) \cup Mails(msgs)
      /\ s \notin S => Mails(Frames(v)) \subseteq Mails(Frames(q[s]))
  BY <1>1, <1>6, <1>7
<1> QED BY <1>8 DEF v

\* What finish() hands over was in the queue.
LEMMA MailUnsent ==
  ASSUME queue \in [Session -> Seq(Entry)], NEW s \in Session
  PROVE  Mails(Unsent(s)) \subseteq Mails(Frames(queue[s]))
<1> DEFINE q == queue[s]
           c == Cardinality(Kept(s))
           at == Ascending(Kept(s))
<1>1. q \in Seq(Entry) /\ Len(q) \in Nat
  OBVIOUS
<1>2. Kept(s) \in SUBSET (1 .. Len(q))
  BY DEF Kept
<1>3. c \in Nat /\ at \in [1 .. c -> Kept(s)]
  BY <1>1, <1>2, AscendingType
<1>4. Unsent(s) = [i \in 1 .. c |-> q[at[i]].msg]
  BY DEF Unsent
<1> HIDE DEF q, c, at
<1>6. SUFFICES ASSUME NEW m \in Mails(Unsent(s)) PROVE m \in Mails(Frames(q))
  BY DEF q
<1>7. PICK i \in 1 .. Len(Unsent(s)) : m \in Mail /\ Unsent(s)[i] = m
  BY <1>6, MailIn
<1>8. i \in 1 .. c /\ q[at[i]].msg = m
  BY <1>3, <1>4, <1>7
<1>9. at[i] \in 1 .. Len(q)
  BY <1>2, <1>3, <1>8
<1> QED BY <1>1, <1>7, <1>8, <1>9, MailFramed

-----------------------------------------------------------------------------
(* The inductive invariant: mail on its way to or from Redis is under the  *)
(* name of its addressee, too, and a session that is not logged in holds   *)
(* only mail that was given up.                                            *)

\* The mail in msgs is meant for u, when t are the addressees and d is mail
\* that was given up.
Meant(msgs, u, t, d) ==
  \A m \in Mails(msgs) : m \notin d => u # None /\ t[m] = u
MeantQueues(q, h, t, d) == \A s \in Session : Meant(Frames(q[s]), h[s], t, d)
MeantCmds(cmds, t, d) ==
  \A i \in 1 .. Len(cmds) :
    cmds[i].op # "quit" => Meant(cmds[i].msgs, cmds[i].name.user, t, d)
MeantEvents(evts, t, d) ==
  \A i \in 1 .. Len(evts) : Meant(evts[i].msgs, evts[i].name.user, t, d)

AllMeant ==
  /\ MeantQueues(queue, hash, to, givenUp)
  /\ \A key \in Key : Meant(lists[key], key.user, to, givenUp)
  /\ \A n \in Node : MeantCmds(pipe[n], to, givenUp)
  /\ \A n \in Node : MeantEvents(reply[n], to, givenUp)

\* Who got a message is its addressee.
DeliveredRight == \A d \in delivered : to[d.mail] = d.user /\ d.user # None

\* What was sent stays sent, and what was given up stays given up.
Grows ==
  /\ givenUp \subseteq givenUp'
  /\ \A m \in Msg : to[m] # None => to'[m] = to[m]

LEMMA MeantStays ==
  ASSUME Grows
  PROVE  /\ \A msgs, u : Meant(msgs, u, to, givenUp)
                         => Meant(msgs, u, to', givenUp')
         /\ \A q, h : MeantQueues(q, h, to, givenUp)
                      => MeantQueues(q, h, to', givenUp')
         /\ \A cmds : MeantCmds(cmds, to, givenUp)
                      => MeantCmds(cmds, to', givenUp')
         /\ \A evts : MeantEvents(evts, to, givenUp)
                      => MeantEvents(evts, to', givenUp')
<1>1. ASSUME NEW msgs, NEW u, Meant(msgs, u, to, givenUp)
      PROVE  Meant(msgs, u, to', givenUp')
  <2>1. \A m \in Mails(msgs) : m \in Msg
    BY MailsType DEF Msg
  <2> QED BY <1>1, <2>1 DEF Meant, Grows
<1> QED BY <1>1 DEF MeantQueues, MeantCmds, MeantEvents

LEMMA MeantNone ==
  ASSUME NEW u, NEW t, NEW d
  PROVE  /\ Meant(<<>>, u, t, d) /\ Meant(<<Ack>>, u, t, d)
         /\ \A m \in Presence : Meant(<<m>>, u, t, d)
         /\ \A m : u # None /\ t[m] = u => Meant(<<m>>, u, t, d)
  BY MailNone DEF Meant

LEMMA MeantPushed ==
  ASSUME NEW q \in [Session -> Seq(Entry)], NEW S, NEW msgs,
         NEW persist \in BOOLEAN,
         msgs \in Seq(Msg) \/ (msgs = <<Ack>> /\ persist = FALSE),
         NEW h, NEW t, NEW d, MeantQueues(q, h, t, d),
         \A s \in Session : s \in S => Meant(msgs, h[s], t, d)
  PROVE  MeantQueues(PushAll(q, S, msgs, persist), h, t, d)
<1>1. SUFFICES ASSUME NEW s \in Session
               PROVE  Meant(Frames(PushAll(q, S, msgs, persist)[s]), h[s], t, d)
  BY DEF MeantQueues
<1>2. /\ Mails(Frames(PushAll(q, S, msgs, persist)[s]))
           \subseteq Mails(Frames(q[s])) \cup Mails(msgs)
      /\ s \notin S => Mails(Frames(PushAll(q, S, msgs, persist)[s]))
                         \subseteq Mails(Frames(q[s]))
  BY MailPushed
<1>3. Meant(Frames(q[s]), h[s], t, d)
  BY DEF MeantQueues
<1> QED BY <1>2, <1>3 DEF Meant

LEMMA MeantAck ==
  ASSUME NEW q \in [Session -> Seq(Entry)], NEW s \in Session,
         NEW h, NEW t, NEW d, MeantQueues(q, h, t, d)
  PROVE  MeantQueues(SendAck(q, s), h, t, d)
<1>1. FALSE \in BOOLEAN /\ <<Ack>> = <<Ack>>
  OBVIOUS
<1>2. \A x \in Session : x \in {s} => Meant(<<Ack>>, h[x], t, d)
  BY MeantNone
<1>3. MeantQueues(PushAll(q, {s}, <<Ack>>, FALSE), h, t, d)
  BY <1>1, <1>2, MeantPushed
<1> QED BY <1>3 DEF SendAck

LEMMA MeantCmdsConcat ==
  ASSUME NEW p \in Seq(Command), NEW cmds \in Seq(Command), NEW t, NEW d,
         MeantCmds(p, t, d), MeantCmds(cmds, t, d)
  PROVE  MeantCmds(p \o cmds, t, d)
<1> DEFINE v == p \o cmds
<1>1. /\ Len(v) = Len(p) + Len(cmds) /\ Len(p) \in Nat /\ Len(cmds) \in Nat
      /\ \A i \in 1 .. Len(p) : v[i] = p[i]
      /\ \A i \in 1 .. Len(cmds) : v[Len(p) + i] = cmds[i]
  OBVIOUS
<1> HIDE DEF v
<1>2. SUFFICES ASSUME NEW i \in 1 .. Len(v), v[i].op # "quit"
               PROVE  Meant(v[i].msgs, v[i].name.user, t, d)
  BY DEF MeantCmds, v
<1>3. CASE i <= Len(p)
  <2>1. i \in 1 .. Len(p) /\ v[i] = p[i]
    BY <1>1, <1>3
  <2> QED BY <1>2, <2>1 DEF MeantCmds
<1>4. CASE i > Len(p)
  <2>1. i - Len(p) \in 1 .. Len(cmds) /\ v[i] = cmds[i - Len(p)]
    BY <1>1, <1>2, <1>4
  <2> QED BY <1>2, <2>1 DEF MeantCmds
<1> QED BY <1>1, <1>3, <1>4

LEMMA MeantCmdsTail ==
  ASSUME NEW p \in Seq(Command), p # <<>>, NEW t, NEW d, MeantCmds(p, t, d)
  PROVE  /\ MeantCmds(Tail(p), t, d)
         /\ Head(p).op # "quit" => Meant(Head(p).msgs, Head(p).name.user, t, d)
<1>1. /\ Len(Tail(p)) = Len(p) - 1 /\ Len(p) \in Nat /\ Len(p) > 0
      /\ \A i \in 1 .. Len(p) - 1 : Tail(p)[i] = p[i + 1] /\ i + 1 \in 1 .. Len(p)
      /\ Head(p) = p[1] /\ 1 \in 1 .. Len(p)
  OBVIOUS
<1> QED BY <1>1 DEF MeantCmds

LEMMA MeantEventsTail ==
  ASSUME NEW r \in Seq(Event), r # <<>>, NEW t, NEW d, MeantEvents(r, t, d)
  PROVE  /\ MeantEvents(Tail(r), t, d)
         /\ Meant(Head(r).msgs, Head(r).name.user, t, d)
<1>1. /\ Len(Tail(r)) = Len(r) - 1 /\ Len(r) \in Nat /\ Len(r) > 0
      /\ \A i \in 1 .. Len(r) - 1 : Tail(r)[i] = r[i + 1] /\ i + 1 \in 1 .. Len(r)
      /\ Head(r) = r[1] /\ 1 \in 1 .. Len(r)
  OBVIOUS
<1> QED BY <1>1 DEF MeantEvents

LEMMA MeantEventsAppend ==
  ASSUME NEW r \in Seq(Event), NEW e \in Event, NEW t, NEW d,
         MeantEvents(r, t, d), Meant(e.msgs, e.name.user, t, d)
  PROVE  MeantEvents(Append(r, e), t, d)
<1>1. /\ Len(Append(r, e)) = Len(r) + 1 /\ Len(r) \in Nat
      /\ \A i \in 1 .. Len(r) : Append(r, e)[i] = r[i]
      /\ Append(r, e)[Len(r) + 1] = e
      /\ \A i \in 1 .. Len(r) + 1 : i \in 1 .. Len(r) \/ i = Len(r) + 1
  OBVIOUS
<1> QED BY <1>1 DEF MeantEvents

\* The commands the handlers request.
LEMMA MeantRequests ==
  ASSUME NEW t, NEW d
  PROVE  /\ MeantCmds(<<>>, t, d)
         /\ \A name \in Names(0 .. 1) : \A msgs :
              Meant(msgs, name.user, t, d) => MeantCmds(StoreCmds(name, msgs), t, d)
         /\ \A u \in User : MeantCmds(LoginCmds(u), t, d)
         /\ \A name : MeantCmds(<<Cmd("lrange", name, <<>>), Cmd("del", name, <<>>)>>, t, d)
         /\ \A name, m : Meant(<<m>>, name.user, t, d)
                         => MeantCmds(<<Cmd("publish", name, <<m>>)>>, t, d)
         /\ MeantCmds(<<[op |-> "quit"]>>, t, d)
<1>1. \A u : Meant(<<>>, u, t, d)
  BY MeantNone
<1>2. MeantCmds(<<>>, t, d)
  BY DEF MeantCmds
<1>3. ASSUME NEW name \in Names(0 .. 1), NEW msgs, Meant(msgs, name.user, t, d)
      PROVE  MeantCmds(StoreCmds(name, msgs), t, d)
  <2>1. CASE msgs = <<>>
    BY <1>2, <2>1 DEF StoreCmds
  <2>2. CASE msgs # <<>>
    <3> DEFINE c == Cmd("rpush", ChatKey(name), msgs)
    <3>1. c.msgs = msgs /\ c.name = ChatKey(name)
      BY DEF Cmd
    <3>2. StoreCmds(name, msgs) = <<c>>
      BY <2>2 DEF StoreCmds
    <3>3. ChatKey(name).user = name.user
      BY DEF ChatKey, Names
    <3> HIDE DEF c
    <3> QED BY <1>3, <3>1, <3>2, <3>3 DEF MeantCmds
  <2> QED BY <2>1, <2>2
<1>4. \A u \in User : MeantCmds(LoginCmds(u), t, d)
  BY <1>1 DEF MeantCmds, LoginCmds, Cmd
<1>5. \A name : MeantCmds(<<Cmd("lrange", name, <<>>), Cmd("del", name, <<>>)>>, t, d)
  BY <1>1 DEF MeantCmds, Cmd
<1>6. \A name, m : Meant(<<m>>, name.user, t, d)
                   => MeantCmds(<<Cmd("publish", name, <<m>>)>>, t, d)
  BY DEF MeantCmds, Cmd
<1>7. MeantCmds(<<[op |-> "quit"]>>, t, d)
  BY DEF MeantCmds
<1> QED BY <1>2, <1>3, <1>4, <1>5, <1>6, <1>7

-----------------------------------------------------------------------------
(* Every step keeps mail where it is meant to be.                          *)

LEMMA FreshGrows ==
  ASSUME NEW m \in Msg, NEW u, Fresh(m, u), UNCHANGED givenUp, Inv
  PROVE  Grows /\ to'[m] = u
  BY DEF Fresh, Grows, Inv, TypeOK, WorkerTypeOK

LEMMA SameGrows == UNCHANGED <<to, givenUp>> => Grows
  BY DEF Grows

\* A request of commands whose mail is meant for whom they name.
LEMMA MeantRequest ==
  ASSUME Inv, AllMeant, Grows, NEW n \in Node, NEW cmds \in Seq(Command),
         Request(n, cmds), MeantCmds(cmds, to', givenUp')
  PROVE  \A i \in Node : MeantCmds(pipe'[i], to', givenUp')
<1>1. SUFFICES ASSUME NEW i \in Node PROVE MeantCmds(pipe'[i], to', givenUp')
  OBVIOUS
<1>2. MeantCmds(pipe[i], to', givenUp') /\ pipe[i] \in Seq(Command)
  BY MeantStays, DeliveryTypes DEF AllMeant
<1>3. MeantCmds(pipe[i] \o cmds, to', givenUp')
  BY <1>2, MeantCmdsConcat
<1> QED BY <1>2, <1>3, RequestEffect

LEMMA MeantUnchanged ==
  ASSUME AllMeant, UNCHANGED <<queue, hash, lists, pipe, reply, to, givenUp>>
  PROVE  AllMeant'
  BY DEF AllMeant, MeantQueues, MeantCmds, MeantEvents, Meant

\* The parts of AllMeant that a step does not touch.
LEMMA MeantRest ==
  ASSUME AllMeant, Grows
  PROVE  /\ UNCHANGED <<queue, hash>> => MeantQueues(queue', hash', to', givenUp')
         /\ UNCHANGED lists =>
              \A key \in Key : Meant(lists'[key], key.user, to', givenUp')
         /\ UNCHANGED pipe => \A n \in Node : MeantCmds(pipe'[n], to', givenUp')
         /\ UNCHANGED reply => \A n \in Node : MeantEvents(reply'[n], to', givenUp')
<1>1. UNCHANGED <<queue, hash>> => MeantQueues(queue', hash', to', givenUp')
  BY MeantStays DEF AllMeant
<1>2. UNCHANGED lists =>
        \A key \in Key : Meant(lists'[key], key.user, to', givenUp')
  BY MeantStays DEF AllMeant
<1>3. UNCHANGED pipe => \A n \in Node : MeantCmds(pipe'[n], to', givenUp')
  BY MeantStays DEF AllMeant
<1>4. UNCHANGED reply => \A n \in Node : MeantEvents(reply'[n], to', givenUp')
  BY MeantStays DEF AllMeant
<1> QED BY <1>1, <1>2, <1>3, <1>4

LEMMA MeantTogether ==
  ASSUME MeantQueues(queue', hash', to', givenUp'),
         \A key \in Key : Meant(lists'[key], key.user, to', givenUp'),
         \A n \in Node : MeantCmds(pipe'[n], to', givenUp'),
         \A n \in Node : MeantEvents(reply'[n], to', givenUp')
  PROVE  AllMeant'
  BY DEF AllMeant, MeantQueues, MeantCmds, MeantEvents, Meant

LEMMA QueueType ==
  ASSUME Inv
  PROVE  queue \in [Session -> Seq(Entry)] /\ hash \in [Session -> User \cup {None}]
  BY DEF Inv, TypeOK, SessionTypeOK

\* Steps of a session that add nothing to any queue but acks.
LEMMA SessionOnlyMeant ==
  ASSUME Inv, AllMeant, NEW s \in Session,
         \/ OnAppLoginFail(s) \/ OnAppUnknown(s)
         \/ SessionWrite(s) \/ SessionWriteError(s) \/ SessionPong(s)
         \/ \E n \in Node : SessionRun(s, n)
  PROVE  AllMeant'
<1>1. UNCHANGED <<redisVars, hash, to, givenUp>>
  BY DEF OnAppLoginFail, OnAppUnknown, SessionWrite, OnWrite, SessionWriteError,
         OnWriteError, SessionPong, OnPong, SessionRun, OnRun, history
<1>2. MeantQueues(queue, hash, to, givenUp)
  BY DEF AllMeant
<1>3. CASE OnAppLoginFail(s)
  <2>1. queue' = SendAck(queue, s)
    BY <1>3 DEF OnAppLoginFail, Send
  <2>2. MeantQueues(SendAck(queue, s), hash, to, givenUp)
    BY <1>2, MeantAck, QueueType
  <2> QED BY <1>1, <2>1, <2>2, SameGrows, MeantRest, MeantTogether DEF redisVars
<1>4. CASE SessionWrite(s)
  <2>1. queue' = [queue EXCEPT ![s] = Tail(@)] /\ queue[s] # <<>>
    BY <1>4 DEF SessionWrite, OnWrite, Inv, OneWriter, TypeOK, SessionTypeOK
  <2>2. MeantQueues(queue', hash, to, givenUp)
    <3>1. SUFFICES ASSUME NEW x \in Session
                   PROVE  Meant(Frames(queue'[x]), hash[x], to, givenUp)
      BY DEF MeantQueues
    <3>2. Meant(Frames(queue[x]), hash[x], to, givenUp) /\ queue[x] \in Seq(Entry)
      BY <1>2, QueueType DEF MeantQueues
    <3>3. CASE x = s
      <4> DEFINE q == queue[s]
                 v == Tail(q)
      <4>1. /\ v \in Seq(Entry) /\ Len(v) = Len(q) - 1 /\ Len(q) \in Nat
            /\ \A i \in 1 .. Len(v) : v[i] = q[i + 1] /\ i + 1 \in 1 .. Len(q)
            /\ q \in Seq(Entry)
        BY <2>1, <3>2, <3>3
      <4> HIDE DEF q, v
      <4>2. Mails(Frames(v)) \subseteq Mails(Frames(q))
        BY <4>1, MailFramed
      <4>3. queue'[x] = v /\ queue[x] = q
        BY <2>1, <3>3, QueueType DEF q, v
      <4> QED BY <3>2, <4>2, <4>3 DEF Meant
    <3>4. CASE x # s
      BY <2>1, <3>2, <3>4, QueueType
    <3> QED BY <3>3, <3>4
  <2> QED BY <1>1, <2>2, SameGrows, MeantRest, MeantTogether DEF redisVars
<1>5. CASE \/ OnAppUnknown(s) \/ SessionWriteError(s) \/ SessionPong(s)
           \/ \E n \in Node : SessionRun(s, n)
  <2>1. UNCHANGED queue
    BY <1>5 DEF OnAppUnknown, SessionWriteError, OnWriteError, SessionPong,
                OnPong, SessionRun, OnRun
  <2> QED BY <1>1, <2>1, MeantUnchanged DEF redisVars
<1> QED BY <1>3, <1>4, <1>5

LEMMA PublishMeant ==
  ASSUME Inv, AllMeant, NEW s \in Session, NEW m \in Msg, OnAppPublish(s, m)
  PROVE  AllMeant'
<1>1. /\ Fresh(m, hash[s]) /\ hash[s] # None
      /\ queue' = PushAll(queue, {s}, <<m>>, TRUE)
      /\ UNCHANGED <<hash, redisVars, givenUp>>
  BY DEF OnAppPublish, Send, LoggedIn
<1>2. Grows /\ to'[m] = hash[s]
  BY <1>1, FreshGrows
<1>3. MeantQueues(queue, hash, to', givenUp')
  BY <1>2, MeantStays DEF AllMeant
<1>4. \A x \in Session : x \in {s} => Meant(<<m>>, hash[x], to', givenUp')
  BY <1>1, <1>2, MeantNone
<1>5. <<m>> \in Seq(Msg) /\ TRUE \in BOOLEAN
  OBVIOUS
<1>6. MeantQueues(PushAll(queue, {s}, <<m>>, TRUE), hash, to', givenUp')
  BY <1>3, <1>4, <1>5, MeantPushed, QueueType
<1> QED BY <1>1, <1>2, <1>6, MeantRest, MeantTogether DEF redisVars

\* Whoever is sent what is for a user is logged in as that user.
LEMMA PeersAre ==
  ASSUME MapInv, NEW n \in Node, NEW name \in Names(0 .. 1), NEW x \in Session,
         x \in Peers(n, name)
  PROVE  hash[x] = name.user /\ name.user # None
<1>1. name.user \in User /\ name.user # None
  BY ConstantsDiffer DEF Names
<1>2. x = sessions[n][name.user] /\ sessions[n][name.user] # None
  BY DEF Peers, Found
<1> QED BY <1>1, <1>2 DEF MapInv, MapSound, EntryIsSession

LEMMA ChatMeant ==
  ASSUME MapInv, AllMeant, NEW s \in Session, NEW m \in Msg, NEW u \in User,
         NEW complete \in BOOLEAN, OnAppChat(s, m, u, complete)
  PROVE  AllMeant'
<1> DEFINE n == home[s]
           name == UserId(u)
           forwarded == PushAll(queue, Peers(n, name), <<m>>, TRUE)
           cmds == IF Found(n, name) THEN <<>> ELSE StoreCmds(name, <<m>>)
<1>1. /\ n \in Node /\ Request(n, cmds) /\ Fresh(m, u) /\ Inv
      /\ queue' = IF complete THEN SendAck(forwarded, s) ELSE forwarded
      /\ UNCHANGED <<hash, lists, reply, givenUp>>
  BY DEF OnAppChat, Open, Send, MapInv, Inv, TypeOK, SessionTypeOK
<1>2. Grows /\ to'[m] = u /\ u # None
  BY <1>1, FreshGrows, ConstantsDiffer
<1>3. name \in Names(0 .. 1) /\ name.user = u /\ <<m>> \in Seq(Msg)
  BY NameTypes DEF UserId
<1>4. Meant(<<m>>, u, to', givenUp')
  BY <1>2, MeantNone
<1>5. MeantQueues(queue', hash', to', givenUp')
  <2>1. MeantQueues(queue, hash, to', givenUp') /\ TRUE \in BOOLEAN
    BY <1>2, MeantStays DEF AllMeant
  <2>2. \A x \in Session :
          x \in Peers(n, name) => Meant(<<m>>, hash[x], to', givenUp')
    BY <1>1, <1>3, <1>4, PeersAre
  <2>3. MeantQueues(forwarded, hash, to', givenUp')
    BY <1>1, <1>3, <2>1, <2>2, MeantPushed, QueueType
  <2>4. forwarded \in [Session -> Seq(Entry)]
    BY <1>1, <1>3, PushAllType, QueueType
  <2> HIDE DEF forwarded
  <2>5. MeantQueues(SendAck(forwarded, s), hash, to', givenUp')
    BY <2>3, <2>4, MeantAck
  <2> QED BY <1>1, <2>3, <2>5
<1>6. \A i \in Node : MeantCmds(pipe'[i], to', givenUp')
  <2>1. cmds \in Seq(Command)
    <3>1. StoreCmds(name, <<m>>) \in Seq(Command)
      BY <1>3, StoreCmdsType
    <3> QED BY <3>1
  <2>2. MeantCmds(cmds, to', givenUp')
    BY <1>3, <1>4, MeantRequests
  <2> HIDE DEF cmds
  <2> QED BY <1>1, <1>2, <2>1, <2>2, MeantRequest
<1> QED BY <1>1, <1>2, <1>5, <1>6, MeantRest, MeantTogether

LEMMA PresenceMeant ==
  ASSUME MapInv, AllMeant, NEW s \in Session, NEW m \in Msg, NEW u \in User,
         OnAppPresence(s, m, u)
  PROVE  AllMeant'
<1> DEFINE n == home[s]
           name == UserId(u)
           forwarded == PushAll(queue, Peers(n, name), <<m>>, FALSE)
           cmds == IF Found(n, name) THEN <<>> ELSE <<Cmd("publish", name, <<m>>)>>
<1>1. /\ n \in Node /\ Request(n, cmds) /\ Fresh(m, u) /\ Inv
      /\ queue' = forwarded /\ m \in Presence
      /\ UNCHANGED <<hash, lists, reply, givenUp>>
  BY DEF OnAppPresence, Open, Send, MapInv, Inv, TypeOK, SessionTypeOK
<1>2. Grows
  BY <1>1, FreshGrows
<1>3. name \in Names({0}) /\ <<m>> \in Seq(Msg) /\ FALSE \in BOOLEAN
  BY NameTypes
<1>4. \A x : Meant(<<m>>, x, to', givenUp')
  BY <1>1, MeantNone
<1>5. MeantQueues(queue', hash', to', givenUp')
  <2>1. MeantQueues(queue, hash, to', givenUp')
    BY <1>2, MeantStays DEF AllMeant
  <2>2. MeantQueues(forwarded, hash, to', givenUp')
    BY <1>1, <1>3, <1>4, <2>1, MeantPushed, QueueType
  <2> QED BY <1>1, <2>2
<1>6. \A i \in Node : MeantCmds(pipe'[i], to', givenUp')
  <2>1. cmds \in Seq(Command)
    <3>1. Cmd("publish", name, <<m>>) \in Command
      BY <1>3, CmdTypes
    <3>2. <<Cmd("publish", name, <<m>>)>> \in Seq(Command)
      BY <3>1
    <3> QED BY <3>2
  <2>2. MeantCmds(cmds, to', givenUp')
    BY <1>4, MeantRequests
  <2> HIDE DEF cmds
  <2> QED BY <1>1, <1>2, <2>1, <2>2, MeantRequest
<1> QED BY <1>1, <1>2, <1>5, <1>6, MeantRest, MeantTogether

\* Whoever takes the entry of u had no mail, and what those who had it hold is
\* given up.
LEMMA EntryMeant ==
  ASSUME Inv, AllMeant, NEW s \in Session, NEW u \in User, hash[s] = None,
         NEW old, TakeEntry(s, u, old), UNCHANGED to
  PROVE  Grows /\ MeantQueues(queue, hash', to', givenUp')
<1> DEFINE left == UNION {Mails(Frames(queue[x])) : x \in old}
<1>1. /\ hash' = [x \in Session |-> IF x = s THEN u ELSE IF x \in old THEN None ELSE hash[x]]
      /\ givenUp' = givenUp \cup left
  BY DEF TakeEntry, HashAfterLogin
<1>2. Grows
  BY <1>1 DEF Grows
<1>3. SUFFICES ASSUME NEW x \in Session
               PROVE  Meant(Frames(queue[x]), hash'[x], to', givenUp')
  BY <1>2 DEF MeantQueues
<1>4. Meant(Frames(queue[x]), hash[x], to', givenUp')
  BY <1>2, MeantStays DEF AllMeant, MeantQueues
<1>5. CASE x = s
  <2>1. Mails(Frames(queue[x])) \subseteq givenUp'
    BY <1>4, <1>5 DEF Meant
  <2> QED BY <2>1 DEF Meant
<1>6. CASE x # s /\ x \in old
  <2>1. Mails(Frames(queue[x])) \subseteq left
    BY <1>6
  <2> HIDE DEF left
  <2>2. Mails(Frames(queue[x])) \subseteq givenUp'
    BY <1>1, <2>1
  <2> QED BY <2>2 DEF Meant
<1>7. CASE x # s /\ x \notin old
  BY <1>1, <1>4, <1>7
<1> QED BY <1>5, <1>6, <1>7

LEMMA LoginThrowsMeant ==
  ASSUME MapInv, AllMeant, NEW s \in Session, NEW u \in User, OnAppLoginThrows(s, u)
  PROVE  AllMeant'
<1>1. Inv /\ hash[s] = None /\ UNCHANGED <<queue, lists, pipe, reply, to>>
  BY DEF OnAppLoginThrows, LoggedIn, redisVars, MapInv
<1>2. Grows /\ MeantQueues(queue', hash', to', givenUp')
  BY <1>1, EntryMeant DEF OnAppLoginThrows
<1> QED BY <1>1, <1>2, MeantRest, MeantTogether

LEMMA LoginMeant ==
  ASSUME MapInv, AllMeant, NEW s \in Session, NEW u \in User, OnAppLogin(s, u)
  PROVE  AllMeant'
<1> DEFINE n == home[s]
           old == Peers(n, UserId(u))
           left == UNION {Mails(Frames(queue[x])) : x \in old}
<1>1. /\ n \in Node /\ Inv /\ hash[s] = None /\ Request(n, LoginCmds(u))
      /\ hash' = [x \in Session |-> IF x = s THEN u ELSE IF x \in old THEN None ELSE hash[x]]
      /\ queue' = SendAck(queue, s) /\ givenUp' = givenUp \cup left
      /\ UNCHANGED <<lists, reply, to>>
  BY DEF OnAppLogin, TakeEntry, Open, LoggedIn, HashAfterLogin, Send, MapInv, Inv,
         TypeOK, SessionTypeOK
<1>2. Grows
  BY <1>1 DEF Grows
<1>3. MeantQueues(queue', hash', to', givenUp')
  <2>1. MeantQueues(queue, hash', to', givenUp')
    BY <1>1, EntryMeant DEF OnAppLogin
  <2>2. MeantQueues(SendAck(queue, s), hash', to', givenUp')
    BY <1>1, <2>1, MeantAck, QueueType
  <2> QED BY <1>1, <2>2
<1>4. \A i \in Node : MeantCmds(pipe'[i], to', givenUp')
  <2>1. MeantCmds(LoginCmds(u), to', givenUp') /\ LoginCmds(u) \in Seq(Command)
    BY MeantRequests, LoginCmdsType
  <2> QED BY <1>1, <1>2, <2>1, MeantRequest
<1> QED BY <1>1, <1>2, <1>3, <1>4, MeantRest, MeantTogether

LEMMA ReadErrorMeant ==
  ASSUME Inv, AllMeant, NEW s \in Session, OnReadError(s)
  PROVE  AllMeant'
<1> DEFINE n == home[s]
           u == hash[s]
           cmds == LogoutCmds(u, Unsent(s))
<1>1. /\ n \in Node /\ UNCHANGED <<hash, lists, reply, to, givenUp>>
      /\ queue' = [queue EXCEPT ![s] = <<>>]
  BY DEF OnReadError, Finish, Open, history, Inv, TypeOK, SessionTypeOK
<1>2. Grows
  BY <1>1, SameGrows
<1>3. MeantQueues(queue', hash', to', givenUp')
  <2>1. SUFFICES ASSUME NEW x \in Session
                 PROVE  Meant(Frames(queue'[x]), hash'[x], to', givenUp')
    BY DEF MeantQueues
  <2>2. Meant(Frames(queue[x]), hash[x], to', givenUp')
    BY <1>2, MeantStays DEF AllMeant, MeantQueues
  <2>3. CASE x = s
    <3>1. queue'[x] = <<>>
      BY <1>1, <2>3, QueueType
    <3> QED BY <3>1, MailFramedNone DEF Meant
  <2>4. CASE x # s
    BY <1>1, <2>2, <2>4, QueueType
  <2> QED BY <2>3, <2>4
<1>4. \A i \in Node : MeantCmds(pipe'[i], to', givenUp')
  <2>1. CASE ~(LoggedIn(s) /\ Found(n, UserId(u)))
    <3>1. UNCHANGED pipe
      BY <2>1 DEF OnReadError
    <3> QED BY <1>2, <3>1, MeantRest
  <2>2. CASE LoggedIn(s) /\ Found(n, UserId(u))
    <3>1. Request(n, cmds) /\ u \in User /\ Unsent(s) \in Seq(Msg)
      BY <2>2, UnsentType, QueueType DEF OnReadError, LoggedIn
    <3>2. Meant(Unsent(s), u, to', givenUp')
      <4>1. Meant(Frames(queue[s]), u, to', givenUp')
        BY <1>2, MeantStays DEF AllMeant, MeantQueues
      <4>2. Mails(Unsent(s)) \subseteq Mails(Frames(queue[s]))
        BY MailUnsent, QueueType
      <4> QED BY <4>1, <4>2 DEF Meant
    <3> DEFINE c == Cmd("unsubscribe", UserId(u), <<>>)
               y == StoreCmds(UserId(u), Unsent(s))
    <3>3. c \in Command /\ y \in Seq(Command) /\ cmds \in Seq(Command)
      <4>1. <<>> \in Seq(Msg)
        OBVIOUS
      <4> QED BY <3>1, <4>1, NameTypes, CmdTypes, StoreCmdsType, LogoutCmdsType
    <3>4. MeantCmds(y, to', givenUp')
      <4>1. UserId(u) \in Names(0 .. 1) /\ UserId(u).user = u
        BY <3>1, NameTypes DEF UserId
      <4> QED BY <3>2, <4>1, MeantRequests
    <3>5. c.msgs = <<>>
      BY DEF Cmd
    <3>6. cmds = <<c>> \o y
      BY DEF LogoutCmds
    <3> HIDE DEF c, y, cmds
    <3>7. MeantCmds(<<c>>, to', givenUp')
      BY <3>5, MeantNone DEF MeantCmds
    <3>8. MeantCmds(cmds, to', givenUp')
      <4>1. <<c>> \in Seq(Command)
        BY <3>3
      <4> QED BY <3>3, <3>4, <3>6, <3>7, <4>1, MeantCmdsConcat
    <3> QED BY <1>1, <1>2, <3>1, <3>3, <3>8, MeantRequest
  <2> QED BY <2>1, <2>2
<1> QED BY <1>1, <1>2, <1>3, <1>4, MeantRest, MeantTogether

LEMMA ShutdownMeant ==
  ASSUME Inv, AllMeant, NEW n \in Node, ShutdownImpl(n)
  PROVE  AllMeant'
<1>1. /\ Request(n, <<[op |-> "quit"]>>)
      /\ UNCHANGED <<queue, hash, lists, reply, to, givenUp>>
  BY DEF ShutdownImpl, workerVars, history
<1>2. Grows
  BY <1>1, SameGrows
<1>3. <<[op |-> "quit"]>> \in Seq(Command)
  <2>1. [op |-> "quit"] \in Command
    BY DEF Command
  <2> QED BY <2>1
<1>4. \A i \in Node : MeantCmds(pipe'[i], to', givenUp')
  BY <1>1, <1>2, <1>3, MeantRequests, MeantRequest
<1> QED BY <1>1, <1>2, <1>4, MeantRest, MeantTogether

\* Whatever was received is taken off, and what it brought is meant for the
\* user it names.
LEMMA MeantReceive ==
  ASSUME Inv, AllMeant, Grows, NEW n \in Node, NEW type, Receive(n, type)
  PROVE  /\ \A i \in Node : MeantEvents(reply'[i], to', givenUp')
         /\ Meant(Head(reply[n]).msgs, Head(reply[n]).name.user, to', givenUp')
<1>1. \A i \in Node : MeantEvents(reply[i], to', givenUp')
  BY MeantStays DEF AllMeant
<1>2. /\ reply[n] # <<>> /\ reply[n] \in Seq(Event) /\ reply'[n] = Tail(reply[n])
      /\ \A i \in Node : i # n => reply'[i] = reply[i]
  BY ReceiveEffect, DeliveryTypes
<1>3. /\ MeantEvents(Tail(reply[n]), to', givenUp')
      /\ Meant(Head(reply[n]).msgs, Head(reply[n]).name.user, to', givenUp')
  BY <1>1, <1>2, MeantEventsTail
<1> QED BY <1>1, <1>2, <1>3

LEMMA PushRpushMeant ==
  ASSUME Inv, AllMeant, NEW n \in Node, OnPushRpush(n)
  PROVE  AllMeant'
<1> DEFINE key == Head(reply[n]).name
           cmds == <<Cmd("lrange", key, <<>>), Cmd("del", key, <<>>)>>
<1>1. /\ Receive(n, "rpush") /\ Request(n, cmds)
      /\ UNCHANGED <<queue, hash, lists, to, givenUp>>
  BY DEF OnPushRpush, sessionVars, history
<1>2. Grows
  BY <1>1, SameGrows
<1>3. \A i \in Node : MeantEvents(reply'[i], to', givenUp')
  BY <1>1, <1>2, MeantReceive
<1>4. \A i \in Node : MeantCmds(pipe'[i], to', givenUp')
  <2>1. cmds \in Seq(Command)
    <3>1. key \in Key /\ <<>> \in Seq(Msg)
      BY <1>1, ReceiveEffect, EventTypes, NameTypes
    <3>2. Cmd("lrange", key, <<>>) \in Command /\ Cmd("del", key, <<>>) \in Command
      BY <3>1, CmdTypes
    <3> QED BY <3>2
  <2>2. MeantCmds(cmds, to', givenUp')
    BY MeantRequests
  <2> HIDE DEF cmds
  <2> QED BY <1>1, <1>2, <2>1, <2>2, MeantRequest
<1> QED BY <1>1, <1>2, <1>3, <1>4, MeantRest, MeantTogether

\* The answer is for the user whose name comes first: this is what
\* LrangeAligned is needed for.  Otherwise what it brings is given up.
LEMMA LrangeMeant ==
  ASSUME MapInv, AllMeant, LrangeAligned, NEW n \in Node, OnLrange(n)
  PROVE  AllMeant'
<1> DEFINE name == Head(chatQueue[n])
           msgs == Head(reply[n]).msgs
           cmds == IF Found(n, name) THEN <<>> ELSE StoreCmds(name, msgs)
<1>1. /\ Inv /\ Receive(n, "lrange") /\ Request(n, cmds) /\ chatQueue[n] # <<>>
      /\ queue' = PushAll(queue, Peers(n, name), msgs, TRUE)
      /\ UNCHANGED <<hash, lists, to>>
      /\ givenUp' = givenUp \cup (IF Misled(n) THEN Mails(msgs) ELSE {})
  BY DEF OnLrange, Send, MapInv
<1>2. Grows
  BY <1>1 DEF Grows
<1>3. /\ \A i \in Node : MeantEvents(reply'[i], to', givenUp')
      /\ Meant(msgs, Head(reply[n]).name.user, to', givenUp')
  BY <1>1, <1>2, MeantReceive
<1>4. name \in Names(0 .. 1) /\ msgs \in Seq(Msg)
  <2>1. chatQueue[n] \in Seq(Names(0 .. 1)) /\ Head(reply[n]) \in Event
    BY <1>1, DeliveryTypes, ReceiveEffect
  <2> QED BY <1>1, <2>1, TailType, EventTypes
<1>5. Meant(msgs, name.user, to', givenUp')
  <2>1. CASE Misled(n)
    <3>1. Mails(msgs) \subseteq givenUp'
      BY <1>1, <2>1
    <3> QED BY <3>1 DEF Meant
  <2>2. CASE ~Misled(n)
    <3>1. name.user = Head(reply[n]).name.user
      BY <1>1, <2>2, LrangeName DEF Misled
    <3> QED BY <1>3, <3>1
  <2> QED BY <2>1, <2>2
<1>6. MeantQueues(queue', hash', to', givenUp')
  <2>1. MeantQueues(queue, hash, to', givenUp') /\ TRUE \in BOOLEAN
    BY <1>2, MeantStays DEF AllMeant
  <2>2. \A x \in Session :
          x \in Peers(n, name) => Meant(msgs, hash[x], to', givenUp')
    BY <1>4, <1>5, PeersAre
  <2> HIDE DEF name, msgs
  <2>3. MeantQueues(PushAll(queue, Peers(n, name), msgs, TRUE), hash, to', givenUp')
    BY <1>1, <1>4, <2>1, <2>2, MeantPushed, QueueType
  <2> QED BY <1>1, <2>3
<1>7. \A i \in Node : MeantCmds(pipe'[i], to', givenUp')
  <2>1. StoreCmds(name, msgs) \in Seq(Command)
    BY <1>4, StoreCmdsType
  <2>2. cmds \in Seq(Command)
    BY <2>1
  <2>3. MeantCmds(cmds, to', givenUp')
    BY <1>4, <1>5, MeantRequests
  <2> HIDE DEF cmds
  <2> QED BY <1>1, <1>2, <2>2, <2>3, MeantRequest
<1> QED BY <1>1, <1>2, <1>3, <1>6, <1>7, MeantRest, MeantTogether

LEMMA DbPresenceMeant ==
  ASSUME MapInv, AllMeant, NEW n \in Node, OnDbPresence(n)
  PROVE  AllMeant'
<1> DEFINE e == Head(reply[n])
<1>1. /\ Inv /\ Receive(n, "presence")
      /\ queue' = PushAll(queue, Peers(n, e.name), e.msgs, FALSE)
      /\ UNCHANGED <<hash, lists, pipe, to, givenUp>>
  BY DEF OnDbPresence, Send, history, MapInv
<1>2. Grows
  BY <1>1, SameGrows
<1>3. /\ \A i \in Node : MeantEvents(reply'[i], to', givenUp')
      /\ Meant(e.msgs, e.name.user, to', givenUp')
  BY <1>1, <1>2, MeantReceive
<1>4. e.name \in Names(0 .. 1) /\ e.msgs \in Seq(Msg)
  <2>1. e \in Event /\ e.type = "presence"
    BY <1>1, ReceiveEffect
  <2>2. e.name \in Names({0})
    BY <2>1 DEF Event
  <2> QED BY <2>1, <2>2, EventTypes, NameTypes
<1>5. MeantQueues(queue', hash', to', givenUp')
  <2>1. MeantQueues(queue, hash, to', givenUp') /\ FALSE \in BOOLEAN
    BY <1>2, MeantStays DEF AllMeant
  <2>2. \A x \in Session :
          x \in Peers(n, e.name) => Meant(e.msgs, hash[x], to', givenUp')
    BY <1>3, <1>4, PeersAre
  <2> HIDE DEF e
  <2>3. MeantQueues(PushAll(queue, Peers(n, e.name), e.msgs, FALSE), hash, to', givenUp')
    BY <1>1, <1>4, <2>1, <2>2, MeantPushed, QueueType
  <2> QED BY <1>1, <2>3
<1> QED BY <1>1, <1>2, <1>3, <1>5, MeantRest, MeantTogether

-----------------------------------------------------------------------------
(* Redis.                                                                  *)

LEMMA MeantExec ==
  ASSUME Inv, AllMeant, Grows, NEW n \in Node, NEW op, Exec(n, op)
  PROVE  /\ \A i \in Node : MeantCmds(pipe'[i], to', givenUp')
         /\ op # "quit" =>
              Meant(Head(pipe[n]).msgs, Head(pipe[n]).name.user, to', givenUp')
<1>1. \A i \in Node : MeantCmds(pipe[i], to', givenUp')
  BY MeantStays DEF AllMeant
<1>2. /\ pipe[n] # <<>> /\ pipe[n] \in Seq(Command) /\ pipe'[n] = Tail(pipe[n])
      /\ Head(pipe[n]).op = op
      /\ \A i \in Node : i # n => pipe'[i] = pipe[i]
  BY ExecEffect, DeliveryTypes
<1>3. /\ MeantCmds(Tail(pipe[n]), to', givenUp')
      /\ op # "quit" =>
           Meant(Head(pipe[n]).msgs, Head(pipe[n]).name.user, to', givenUp')
  BY <1>1, <1>2, MeantCmdsTail
<1> QED BY <1>1, <1>2, <1>3

LEMMA MeantPushTo ==
  ASSUME Inv, AllMeant, Grows, NEW u, NEW e \in Event, PushTo(u, e),
         Meant(e.msgs, e.name.user, to', givenUp')
  PROVE  \A i \in Node : MeantEvents(reply'[i], to', givenUp')
<1>1. SUFFICES ASSUME NEW i \in Node PROVE MeantEvents(reply'[i], to', givenUp')
  OBVIOUS
<1>2. MeantEvents(reply[i], to', givenUp') /\ reply[i] \in Seq(Event)
  BY MeantStays, DeliveryTypes DEF AllMeant
<1>3. MeantEvents(Append(reply[i], e), to', givenUp')
  BY <1>2, MeantEventsAppend
<1> QED BY <1>2, <1>3, PushedTo

LEMMA RedisMeant ==
  ASSUME Inv, AllMeant, NEW n \in Node, Redis(n)
  PROVE  AllMeant'
<1> DEFINE c == Head(pipe[n])
<1>1. /\ RedisStep(n) /\ UNCHANGED <<queue, hash, to, givenUp>>
      /\ lists \in [Key -> Seq(Msg)]
  BY DEF Redis, sessionVars, history, Inv, TypeOK, RedisTypeOK
<1>2. Grows
  BY <1>1, SameGrows
<1>3. \A key \in Key : Meant(lists[key], key.user, to', givenUp')
  BY <1>2, MeantStays DEF AllMeant
<1>4. CASE ExecSubscribe(n) \/ ExecUnsubscribe(n) \/ ExecQuit(n)
  <2>1. UNCHANGED <<lists, reply>> /\ \E op : Exec(n, op)
    BY <1>4 DEF ExecSubscribe, ExecUnsubscribe, ExecQuit
  <2>2. \A i \in Node : MeantCmds(pipe'[i], to', givenUp')
    BY <1>2, <2>1, MeantExec
  <2> QED BY <1>1, <1>2, <2>1, <2>2, MeantRest, MeantTogether
<1>5. CASE ExecLrange(n)
  <2> DEFINE e == Evt("lrange", c.name, lists[c.name])
  <2>1. /\ Exec(n, "lrange") /\ UNCHANGED lists
        /\ reply' = [reply EXCEPT ![n] = Append(@, e)]
    BY <1>5 DEF ExecLrange
  <2>2. c \in Command /\ c.op = "lrange"
    BY <2>1, ExecEffect
  <2>3. c.name \in Key
    BY <2>2 DEF Command
  <2>4. e \in Event /\ Meant(e.msgs, e.name.user, to', givenUp')
    BY <1>1, <1>3, <2>3 DEF Evt, Event
  <2>5. \A i \in Node : MeantEvents(reply'[i], to', givenUp')
    <3>1. SUFFICES ASSUME NEW i \in Node PROVE MeantEvents(reply'[i], to', givenUp')
      OBVIOUS
    <3>2. MeantEvents(reply[i], to', givenUp') /\ reply[i] \in Seq(Event)
      BY <1>2, MeantStays, DeliveryTypes DEF AllMeant
    <3>3. reply'[i] = IF i = n THEN Append(reply[i], e) ELSE reply[i]
      BY <2>1 DEF Inv, TypeOK, RedisTypeOK
    <3> HIDE DEF e
    <3>4. MeantEvents(Append(reply[i], e), to', givenUp')
      BY <2>4, <3>2, MeantEventsAppend
    <3> QED BY <3>2, <3>3, <3>4
  <2>6. \A i \in Node : MeantCmds(pipe'[i], to', givenUp')
    BY <1>2, <2>1, MeantExec
  <2> QED BY <1>1, <1>2, <2>1, <2>5, <2>6, MeantRest, MeantTogether
<1>6. CASE ExecDel(n)
  <2>1. /\ Exec(n, "del") /\ UNCHANGED reply
        /\ lists' = [lists EXCEPT ![c.name] = <<>>]
    BY <1>6 DEF ExecDel
  <2>2. \A key \in Key : Meant(lists'[key], key.user, to', givenUp')
    <3>1. TAKE key \in Key
    <3>2. lists'[key] = <<>> \/ lists'[key] = lists[key]
      BY <1>1, <2>1
    <3> QED BY <1>3, <3>2, MeantNone
  <2>3. \A i \in Node : MeantCmds(pipe'[i], to', givenUp')
    BY <1>2, <2>1, MeantExec
  <2> QED BY <1>1, <1>2, <2>1, <2>2, <2>3, MeantRest, MeantTogether
<1>7. CASE ExecRpush(n)
  <2>1. Exec(n, "rpush") /\ lists' = [lists EXCEPT ![c.name] = @ \o c.msgs]
    BY <1>7 DEF ExecRpush
  <2>2. /\ \A i \in Node : MeantCmds(pipe'[i], to', givenUp')
        /\ Meant(c.msgs, c.name.user, to', givenUp')
    BY <1>2, <2>1, MeantExec
  <2>3. c.name \in Key /\ c.msgs \in Seq(Msg)
    <3>1. c \in Command /\ c.op = "rpush"
      BY <2>1, ExecEffect
    <3> QED BY <3>1 DEF Command
  <2>4. \A key \in Key : Meant(lists'[key], key.user, to', givenUp')
    <3>1. TAKE key \in Key
    <3>2. CASE key = c.name
      <4>1. lists'[key] = lists[key] \o c.msgs /\ lists[key] \in Seq(Msg)
        BY <1>1, <2>1, <3>2
      <4>2. Mails(lists[key] \o c.msgs) = Mails(lists[key]) \cup Mails(c.msgs)
        BY <2>3, <4>1, MailConcat
      <4>3. \A m \in Mails(lists'[key]) : m \in Mails(lists[key]) \/ m \in Mails(c.msgs)
        BY <4>1, <4>2
      <4> QED BY <1>3, <2>2, <3>2, <4>3 DEF Meant
    <3>3. CASE key # c.name
      <4>1. lists'[key] = lists[key]
        BY <1>1, <2>1, <3>3
      <4> QED BY <1>3, <4>1
    <3> QED BY <3>2, <3>3
  <2>5. \A i \in Node : MeantEvents(reply'[i], to', givenUp')
    <3>1. CASE c.name.depth = 1
      <4> DEFINE e == Evt("rpush", c.name, <<>>)
      <4>1. PushTo(c.name.user, e)
        BY <1>7, <3>1 DEF ExecRpush
      <4>2. e \in Event /\ e.msgs = <<>>
        <5>1. <<>> \in Seq(Msg)
          OBVIOUS
        <5> QED BY <2>3, <3>1, <5>1 DEF Evt, Event, Key, Names
      <4> HIDE DEF e
      <4>3. Meant(e.msgs, e.name.user, to', givenUp')
        BY <4>2, MeantNone
      <4> QED BY <1>2, <4>1, <4>2, <4>3, MeantPushTo
    <3>2. CASE c.name.depth # 1
      <4>1. UNCHANGED reply
        BY <1>7, <3>2 DEF ExecRpush
      <4> QED BY <1>2, <4>1, MeantRest
    <3> QED BY <3>1, <3>2
  <2> QED BY <1>1, <1>2, <2>2, <2>4, <2>5, MeantRest, MeantTogether
<1>8. CASE ExecPublish(n)
  <2> DEFINE e == Evt("presence", c.name, c.msgs)
  <2>1. Exec(n, "publish") /\ PushTo(c.name.user, e) /\ UNCHANGED lists
    BY <1>8 DEF ExecPublish
  <2>2. /\ \A i \in Node : MeantCmds(pipe'[i], to', givenUp')
        /\ Meant(c.msgs, c.name.user, to', givenUp')
    BY <1>2, <2>1, MeantExec
  <2>3. e \in Event /\ e.msgs = c.msgs /\ e.name = c.name
    <3>1. c \in Command /\ c.op = "publish"
      BY <2>1, ExecEffect
    <3> QED BY <3>1 DEF Evt, Event, Command
  <2> HIDE DEF e
  <2>4. \A i \in Node : MeantEvents(reply'[i], to', givenUp')
    BY <1>2, <2>1, <2>2, <2>3, MeantPushTo
  <2> QED BY <1>1, <1>2, <2>1, <2>2, <2>4, MeantRest, MeantTogether
<1> QED BY <1>1, <1>4, <1>5, <1>6, <1>7, <1>8 DEF RedisStep

LEMMA ExpireMeant ==
  ASSUME Inv, AllMeant, NEW key \in Key, ListExpires(key)
  PROVE  AllMeant'
<1>1. /\ UNCHANGED <<queue, hash, pipe, reply, to, givenUp>>
      /\ lists' = [lists EXCEPT ![key] = <<>>] /\ lists \in [Key -> Seq(Msg)]
  BY DEF ListExpires, Expire, sessionVars, Inv, TypeOK, RedisTypeOK
<1>2. Grows
  BY <1>1, SameGrows
<1>3. \A k \in Key : Meant(lists'[k], k.user, to', givenUp')
  <2>1. TAKE k \in Key
  <2>2. lists'[k] = <<>> \/ lists'[k] = lists[k]
    BY <1>1
  <2>3. Meant(lists[k], k.user, to', givenUp')
    BY <1>2, MeantStays DEF AllMeant
  <2> QED BY <2>2, <2>3, MeantNone
<1> QED BY <1>1, <1>2, <1>3, MeantRest, MeantTogether

-----------------------------------------------------------------------------
(* The theorem.                                                            *)

AddressInv == DeliveryInv /\ AllMeant /\ DeliveredRight

\* What is under way when a connection is lost is gone.
LEMMA LinkLostMeant ==
  ASSUME Inv, AllMeant, NEW n \in Node, LinkLost(n)
  PROVE  AllMeant'
<1>1. /\ UNCHANGED <<queue, hash, lists, to, givenUp>>
      /\ pipe'[n] = <<>> /\ reply'[n] = <<>>
      /\ \A i \in Node : i # n => pipe'[i] = pipe[i] /\ reply'[i] = reply[i]
  BY DEF LinkLost, Lose, sessionVars, Inv, TypeOK, RedisTypeOK
<1>2. Grows
  BY <1>1, SameGrows
<1>3. MeantCmds(<<>>, to', givenUp') /\ MeantEvents(<<>>, to', givenUp')
  BY DEF MeantCmds, MeantEvents
<1>4. /\ \A i \in Node : MeantCmds(pipe[i], to', givenUp')
      /\ \A i \in Node : MeantEvents(reply[i], to', givenUp')
  BY <1>2, MeantStays DEF AllMeant
<1>5. /\ \A i \in Node : MeantCmds(pipe'[i], to', givenUp')
      /\ \A i \in Node : MeantEvents(reply'[i], to', givenUp')
  BY <1>1, <1>3, <1>4
<1> QED BY <1>1, <1>2, <1>5, MeantRest, MeantTogether

LEMMA InitAddress == Init => AddressInv
<1> SUFFICES ASSUME Init PROVE AddressInv
  OBVIOUS
<1>1. DeliveryInv
  BY InitDelivery
<1>2. AllMeant
  <2>1. /\ Len(<<>>) = 0
        /\ \A s \in Session : queue[s] = <<>>
        /\ \A key \in Key : lists[key] = <<>>
        /\ \A n \in Node : pipe[n] = <<>> /\ reply[n] = <<>>
    BY DEF Init, SessionInit, RedisInit
  <2>3. MeantQueues(queue, hash, to, givenUp)
    BY <2>1, MailFramedNone DEF MeantQueues, Meant
  <2>4. \A key \in Key : Meant(lists[key], key.user, to, givenUp)
    BY <2>1, MeantNone
  <2> QED BY <2>1, <2>3, <2>4 DEF AllMeant, MeantCmds, MeantEvents
<1>3. DeliveredRight
  BY DEF Init, DeliveredRight
<1> QED BY <1>1, <1>2, <1>3 DEF AddressInv

LEMMA NextMeant ==
  ASSUME DeliveryInv, AllMeant, [Next]_vars
  PROVE  AllMeant'
<1>1. MapInv /\ Inv /\ LrangeAligned
  BY DEF DeliveryInv, MapInv, Delivery
<1>2. ASSUME NEW s \in Session, SessionStep(s) PROVE AllMeant'
  <2>1. ASSUME NEW u \in User, OnAppLogin(s, u) \/ OnAppLoginThrows(s, u)
        PROVE  AllMeant'
    BY <1>1, <2>1, LoginMeant, LoginThrowsMeant
  <2>2. CASE OnReadError(s)
    BY <1>1, <2>2, ReadErrorMeant
  <2>3. ASSUME NEW u \in User, NEW m \in Msg, NEW complete \in BOOLEAN,
               OnAppChat(s, m, u, complete)
        PROVE  AllMeant'
    BY <1>1, <2>3, ChatMeant
  <2>4. ASSUME NEW u \in User, NEW m \in Msg, OnAppPresence(s, m, u)
        PROVE  AllMeant'
    BY <1>1, <2>4, PresenceMeant
  <2>5. ASSUME NEW m \in Msg, OnAppPublish(s, m) PROVE AllMeant'
    BY <1>1, <2>5, PublishMeant
  <2>6. CASE \/ OnAppLoginFail(s) \/ OnAppUnknown(s)
             \/ SessionWrite(s) \/ SessionWriteError(s) \/ SessionPong(s)
             \/ \E n \in Node : SessionRun(s, n)
    BY <1>1, <2>6, SessionOnlyMeant
  <2> QED BY <1>2, <2>1, <2>2, <2>3, <2>4, <2>5, <2>6 DEF SessionStep
<1>3. ASSUME NEW n \in Node, OnReply(n) PROVE AllMeant'
  BY <1>1, <1>3, PushRpushMeant, LrangeMeant, DbPresenceMeant DEF OnReply
<1>4. ASSUME NEW n \in Node, Redis(n) PROVE AllMeant'
  BY <1>1, <1>4, RedisMeant
<1>5. ASSUME NEW n \in Node, ShutdownImpl(n) PROVE AllMeant'
  BY <1>1, <1>5, ShutdownMeant
<1>6. ASSUME NEW n \in Node, LinkLost(n) PROVE AllMeant'
  BY <1>1, <1>6, LinkLostMeant
<1>7. ASSUME NEW key \in Key, ListExpires(key) PROVE AllMeant'
  BY <1>1, <1>7, ExpireMeant
<1>8. CASE UNCHANGED vars
  BY <1>8, MeantUnchanged DEF vars, sessionVars, redisVars, history
<1> QED BY <1>2, <1>3, <1>4, <1>5, <1>6, <1>7, <1>8 DEF Next

\* A message has one addressee for ever, and what was given up stays so.
LEMMA StepGrows ==
  ASSUME Inv, [Next]_vars
  PROVE  Grows
<1>1. ASSUME NEW s \in Session, SessionStep(s) PROVE Grows
  <2>1. ASSUME NEW u \in User, OnAppLogin(s, u) \/ OnAppLoginThrows(s, u)
        PROVE  Grows
    BY <2>1 DEF OnAppLogin, OnAppLoginThrows, TakeEntry, Grows
  <2>2. ASSUME NEW u \in User, NEW m \in Msg, NEW complete \in BOOLEAN,
               OnAppChat(s, m, u, complete) \/ OnAppPresence(s, m, u)
        PROVE  Grows
    BY <2>2, FreshGrows DEF OnAppChat, OnAppPresence
  <2>3. ASSUME NEW m \in Msg, OnAppPublish(s, m) PROVE Grows
    BY <2>3, FreshGrows DEF OnAppPublish
  <2>4. CASE \/ OnAppLoginFail(s) \/ OnAppUnknown(s) \/ OnReadError(s)
             \/ SessionWrite(s) \/ SessionWriteError(s) \/ SessionPong(s)
             \/ \E n \in Node : SessionRun(s, n)
    BY <2>4, SameGrows DEF OnAppLoginFail, OnAppUnknown, OnReadError, SessionWrite,
       SessionWriteError, SessionPong, SessionRun, history
  <2> QED BY <1>1, <2>1, <2>2, <2>3, <2>4 DEF SessionStep
<1>2. ASSUME NEW n \in Node, OnReply(n) PROVE Grows
  BY <1>2 DEF OnReply, OnPushRpush, OnLrange, OnDbPresence, history, Grows
<1>3. ASSUME NEW n \in Node, Redis(n) \/ ShutdownImpl(n) \/ LinkLost(n) PROVE Grows
  BY <1>3, SameGrows DEF Redis, ShutdownImpl, LinkLost, history
<1>4. ASSUME NEW key \in Key, ListExpires(key) PROVE Grows
  BY <1>4, SameGrows DEF ListExpires
<1>5. CASE UNCHANGED vars
  BY <1>5, SameGrows DEF vars, history
<1> QED BY <1>1, <1>2, <1>3, <1>4, <1>5 DEF Next

\* Only a write that is complete delivers.
LEMMA OnlyWritesDeliver ==
  ASSUME [Next]_vars
  PROVE  delivered' = delivered \/ \E s \in Session : SessionWrite(s)
<1>1. ASSUME NEW s \in Session, SessionStep(s), ~SessionWrite(s)
      PROVE  delivered' = delivered
  BY <1>1 DEF SessionStep, SessionRun, SessionWriteError, SessionPong, OnReadError,
     OnAppLoginFail, OnAppUnknown, OnAppLogin, OnAppLoginThrows, OnAppChat,
     OnAppPresence, OnAppPublish, history
<1>2. ASSUME NEW n \in Node, ShutdownImpl(n) \/ OnReply(n) \/ Redis(n) \/ LinkLost(n)
      PROVE  delivered' = delivered
  BY <1>2 DEF ShutdownImpl, OnReply, OnPushRpush, OnLrange, OnDbPresence, Redis,
     LinkLost, history
<1>3. ASSUME NEW key \in Key, ListExpires(key) PROVE delivered' = delivered
  BY <1>3 DEF ListExpires
<1>4. CASE UNCHANGED vars
  BY <1>4 DEF vars, history
<1> QED BY <1>1, <1>2, <1>3, <1>4 DEF Next

\* What SessionWrite() counts as delivered.
LEMMA WriteDelivers ==
  ASSUME Inv, AllMeant, NEW s \in Session, SessionWrite(s),
         NEW d \in delivered', d \notin delivered
  PROVE  /\ d.user = hash[s] /\ hash[s] # None /\ to[d.mail] = hash[s]
         /\ d.mail \in Mail /\ d.mail \notin givenUp
         /\ d.mail \in Mails(Frames(queue[s]))
<1>1. queue[s] \in Seq(Entry) /\ queue[s] # <<>>
  BY DEF SessionWrite, OnWrite, Inv, OneWriter, TypeOK, SessionTypeOK
<1>2. PICK m \in ({Head(queue[s]).msg} \cap Mail) \ (givenUp \cup expired) :
        d = [user |-> hash[s], mail |-> m]
  BY DEF SessionWrite
<1>3. 1 \in 1 .. Len(queue[s]) /\ Head(queue[s]) = queue[s][1]
  BY <1>1
<1>4. m \in Mails(Frames(queue[s]))
  BY <1>1, <1>2, <1>3, MailFramed
<1>5. Meant(Frames(queue[s]), hash[s], to, givenUp)
  BY DEF AllMeant, MeantQueues
<1> QED BY <1>2, <1>4, <1>5 DEF Meant

LEMMA NextAddress == AddressInv /\ [Next]_vars => AddressInv'
<1> SUFFICES ASSUME AddressInv, [Next]_vars PROVE AddressInv'
  OBVIOUS
<1>1. DeliveryInv' /\ DeliveryInv /\ Inv /\ AllMeant /\ DeliveredRight
  BY NextDelivery DEF AddressInv, DeliveryInv, MapInv
<1>2. AllMeant'
  BY <1>1, NextMeant
<1>3. DeliveredRight'
  <2>1. SUFFICES ASSUME NEW d \in delivered' PROVE to'[d.mail] = d.user /\ d.user # None
    BY DEF DeliveredRight
  <2>2. CASE d \in delivered
    <3>1. to[d.mail] = d.user /\ d.user # None /\ d.mail \in Msg
      BY <1>1, <2>2 DEF DeliveredRight, Inv, TypeOK, WorkerTypeOK, Msg
    <3> QED BY <1>1, <3>1, StepGrows DEF Grows
  <2>3. CASE d \notin delivered
    <3>1. PICK s \in Session : SessionWrite(s)
      BY <2>1, <2>3, OnlyWritesDeliver
    <3>2. to' = to
      BY <3>1 DEF SessionWrite
    <3> QED BY <1>1, <2>1, <2>3, <3>1, <3>2, WriteDelivers
  <2> QED BY <2>2, <2>3
<1> QED BY <1>1, <1>2, <1>3 DEF AddressInv

\* No message waits in the queue of a session of someone else than its addressee
\* or in a list under another user's key, and none is written to the websocket of
\* another user, except what an override left behind or what on_lrange() was
\* misled to hand on by a name that a lost connection left over.
THEOREM MailOnlyAtAddressee == Spec => []OnlyAddressee
<1>1. AddressInv => OnlyAddressee
  BY DEF AddressInv, AllMeant, MeantQueues, Meant, DeliveredRight, OnlyAddressee
<1> QED BY InitAddress, NextAddress, <1>1, PTL DEF Spec
=============================================================================
