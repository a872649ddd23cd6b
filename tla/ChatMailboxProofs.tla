------------------------- MODULE ChatMailboxProofs -------------------------
(***************************************************************************)
(* Proof that with one process the chat path of ChatWorker implements the  *)
(* abstract Mailbox: a persistent message is in one place at most between  *)
(* its acceptance and its delivery, that place belongs to its addressee,   *)
(* and it never comes back.                                                *)
(***************************************************************************)
EXTENDS ChatDeliveryProofs

-----------------------------------------------------------------------------
(* A message in a sequence, and in a family of sequences.                  *)

In(v, m) == \E i \in 1 .. Len(v) : v[i] = m
Once(v, m) == \A i, j \in 1 .. Len(v) : v[i] = m /\ v[j] = m => i = j

Has(f, m) == \E x \in DOMAIN f : In(f[x], m)
\* m is in one place of the family at most.
Single(f, m) ==
  \A x, y \in DOMAIN f : In(f[x], m) /\ In(f[y], m) => x = y /\ Once(f[x], m)

LEMMA InMails == \A q : \A m \in Mail : In(q, m) <=> m \in Mails(q)
  BY MailIn DEF In

LEMMA InNone == \A m : ~In(<<>>, m) /\ Once(<<>>, m)
<1>1. Len(<<>>) = 0
  OBVIOUS
<1> QED BY <1>1 DEF In, Once

LEMMA InOne == \A v, m : (In(<<v>>, m) <=> v = m) /\ Once(<<v>>, m)
<1>1. TAKE v, m
<1>2. Len(<<v>>) = 1 /\ <<v>>[1] = v
  OBVIOUS
<1> QED BY <1>2 DEF In, Once

LEMMA InConcat ==
  ASSUME NEW S, NEW q \in Seq(S), NEW r \in Seq(S), NEW m
  PROVE  /\ In(q \o r, m) <=> In(q, m) \/ In(r, m)
         /\ Once(q, m) /\ Once(r, m) /\ ~(In(q, m) /\ In(r, m)) => Once(q \o r, m)
<1> DEFINE v == q \o r
<1>1. /\ Len(v) = Len(q) + Len(r) /\ Len(q) \in Nat /\ Len(r) \in Nat
      /\ \A i \in 1 .. Len(q) : v[i] = q[i]
      /\ \A i \in 1 .. Len(r) : v[Len(q) + i] = r[i]
  OBVIOUS
<1> HIDE DEF v
\* A place in v is one in q or one in r.
<1>2. ASSUME NEW i \in 1 .. Len(v)
      PROVE  \/ i \in 1 .. Len(q) /\ v[i] = q[i]
             \/ i - Len(q) \in 1 .. Len(r) /\ v[i] = r[i - Len(q)]
  <2>1. CASE i <= Len(q)
    BY <1>1, <1>2, <2>1
  <2>2. CASE i > Len(q)
    BY <1>1, <1>2, <2>2
  <2> QED BY <1>1, <1>2, <2>1, <2>2
<1>3. In(v, m) => In(q, m) \/ In(r, m)
  BY <1>2 DEF In
<1>4. In(q, m) => In(v, m)
  BY <1>1 DEF In
<1>5. In(r, m) => In(v, m)
  <2>1. \A i \in 1 .. Len(r) : Len(q) + i \in 1 .. Len(v)
    BY <1>1
  <2> QED BY <1>1, <2>1 DEF In
<1>6. ASSUME Once(q, m), Once(r, m), ~(In(q, m) /\ In(r, m)) PROVE Once(v, m)
  <2>1. SUFFICES ASSUME NEW i \in 1 .. Len(v), NEW j \in 1 .. Len(v), v[i] = m, v[j] = m
                 PROVE  i = j
    BY DEF Once
  <2>2. CASE In(q, m)
    <3>1. i \in 1 .. Len(q) /\ q[i] = m /\ j \in 1 .. Len(q) /\ q[j] = m
      BY <1>2, <1>6, <2>1, <2>2 DEF In
    <3> QED BY <1>6, <3>1 DEF Once
  <2>3. CASE ~In(q, m)
    <3>1. /\ i - Len(q) \in 1 .. Len(r) /\ r[i - Len(q)] = m
          /\ j - Len(q) \in 1 .. Len(r) /\ r[j - Len(q)] = m
      BY <1>2, <2>1, <2>3 DEF In
    <3>2. i - Len(q) = j - Len(q)
      BY <1>6, <3>1 DEF Once
    <3> QED BY <1>1, <2>1, <3>2
  <2> QED BY <2>2, <2>3
<1> QED BY <1>3, <1>4, <1>5, <1>6 DEF v

LEMMA InTail ==
  ASSUME NEW S, NEW q \in Seq(S), q # <<>>, NEW m
  PROVE  /\ In(q, m) <=> In(Tail(q), m) \/ In(<<Head(q)>>, m)
         /\ Once(q, m) => Once(Tail(q), m) /\ ~(In(Tail(q), m) /\ In(<<Head(q)>>, m))
<1> DEFINE t == Tail(q)
<1>1. /\ Len(t) = Len(q) - 1 /\ Len(q) \in Nat /\ Len(q) > 0 /\ Head(q) = q[1]
      /\ \A i \in 1 .. Len(q) - 1 : t[i] = q[i + 1]
  OBVIOUS
<1> HIDE DEF t
<1>2. \A i \in 1 .. Len(t) : t[i] = q[i + 1] /\ i + 1 \in 1 .. Len(q) /\ i + 1 # 1
  BY <1>1
<1>3. ASSUME NEW i \in 1 .. Len(q), i # 1 PROVE i - 1 \in 1 .. Len(t) /\ q[i] = t[i - 1]
  <2>1. i - 1 \in 1 .. Len(q) - 1 /\ (i - 1) + 1 = i
    BY <1>1, <1>3
  <2> QED BY <1>1, <2>1
<1>4. 1 \in 1 .. Len(q)
  BY <1>1
<1> HIDE DEF t
<1>5. In(<<Head(q)>>, m) <=> q[1] = m
  BY <1>1, InOne
<1>6. In(q, m) <=> In(t, m) \/ q[1] = m
  BY <1>1, <1>2, <1>3, <1>4 DEF In
<1>7. ASSUME Once(q, m) PROVE Once(t, m) /\ ~(In(t, m) /\ q[1] = m)
  <2>1. ASSUME NEW i \in 1 .. Len(t), NEW j \in 1 .. Len(t), t[i] = m, t[j] = m PROVE i = j
    <3>1. i + 1 = j + 1
      BY <1>1, <1>2, <1>7, <2>1 DEF Once
    <3> QED BY <1>1, <2>1, <3>1
  <2>2. ~(In(t, m) /\ q[1] = m)
    BY <1>2, <1>4, <1>7 DEF In, Once
  <2> QED BY <2>1, <2>2 DEF Once
<1> QED BY <1>5, <1>6, <1>7 DEF t

-----------------------------------------------------------------------------
(* What a step does to a family: nothing to m, or the messages v join it   *)
(* or leave it.                                                            *)

Same(f, g, m) ==
  /\ Has(g, m) <=> Has(f, m)
  /\ Single(f, m) => Single(g, m)
Plus(f, v, g, m) ==
  /\ Has(g, m) <=> Has(f, m) \/ In(v, m)
  /\ Single(f, m) /\ Once(v, m) /\ ~(Has(f, m) /\ In(v, m)) => Single(g, m)
Minus(f, v, g, m) ==
  /\ Has(f, m) <=> Has(g, m) \/ In(v, m)
  /\ Single(f, m) => Single(g, m) /\ Once(v, m) /\ ~(Has(g, m) /\ In(v, m))

LEMMA PlusNone ==
  ASSUME NEW f, NEW v, NEW g, NEW m, Plus(f, v, g, m), ~In(v, m)
  PROVE  Same(f, g, m)
<1>1. Once(v, m)
  BY DEF In, Once
<1> QED BY <1>1 DEF Plus, Same

LEMMA MinusNone ==
  ASSUME NEW f, NEW v, NEW g, NEW m, Minus(f, v, g, m), ~In(v, m)
  PROVE  Same(f, g, m)
  BY DEF Minus, Same

\* One sequence of the family is replaced.
Replaced(f, x, v, g) ==
  /\ x \in DOMAIN f /\ DOMAIN g = DOMAIN f
  /\ g[x] = v
  /\ \A y \in DOMAIN f : y # x => g[y] = f[y]

LEMMA ReplacedHas ==
  ASSUME NEW f, NEW x, NEW v, NEW g, NEW m, Replaced(f, x, v, g)
  PROVE  /\ Has(f, m) <=> In(f[x], m) \/ \E y \in DOMAIN f : y # x /\ In(f[y], m)
         /\ Has(g, m) <=> In(v, m) \/ \E y \in DOMAIN f : y # x /\ In(f[y], m)
  BY DEF Replaced, Has

LEMMA PlusAppend ==
  ASSUME NEW S, NEW f, NEW x, NEW v \in Seq(S), NEW g, NEW m,
         f[x] \in Seq(S), Replaced(f, x, f[x] \o v, g)
  PROVE  Plus(f, v, g, m)
<1> DEFINE w == f[x] \o v
<1>1. /\ In(w, m) <=> In(f[x], m) \/ In(v, m)
      /\ Once(f[x], m) /\ Once(v, m) /\ ~(In(f[x], m) /\ In(v, m)) => Once(w, m)
  BY InConcat
<1> HIDE DEF w
<1>2. Replaced(f, x, w, g)
  BY DEF w
<1>3. Has(g, m) <=> Has(f, m) \/ In(v, m)
  BY <1>1, <1>2, ReplacedHas
<1>4. ASSUME Single(f, m), Once(v, m), ~(Has(f, m) /\ In(v, m))
      PROVE  Single(g, m)
  <2>1. SUFFICES ASSUME NEW y \in DOMAIN f, NEW z \in DOMAIN f, In(g[y], m), In(g[z], m)
                 PROVE  y = z /\ Once(g[y], m)
    BY <1>2 DEF Single, Replaced
  <2>2. CASE In(v, m)
    <3>1. \A a \in DOMAIN f : ~In(f[a], m)
      BY <1>4, <2>2 DEF Has
    <3>2. y = x /\ z = x
      BY <1>2, <2>1, <3>1 DEF Replaced
    <3>3. Once(f[x], m)
      BY <1>2, <3>1 DEF In, Once, Replaced
    <3> QED BY <1>1, <1>2, <1>4, <3>1, <3>2, <3>3 DEF Replaced
  <2>3. CASE ~In(v, m)
    <3>1. \A a \in DOMAIN f : In(g[a], m) => In(f[a], m)
      BY <1>1, <1>2, <2>3 DEF Replaced
    <3>2. y = z /\ Once(f[y], m)
      BY <1>4, <2>1, <3>1 DEF Single
    <3> QED BY <1>1, <1>2, <1>4, <2>1, <2>3, <3>1, <3>2 DEF Replaced
  <2> QED BY <2>2, <2>3
<1> QED BY <1>3, <1>4 DEF Plus

\* The sequence v that is taken away from f[x] leaves w.
LEMMA MinusReplaced ==
  ASSUME NEW f, NEW x, NEW v, NEW w, NEW g, NEW m, Replaced(f, x, w, g),
         In(f[x], m) <=> In(w, m) \/ In(v, m),
         Once(f[x], m) => Once(w, m) /\ Once(v, m) /\ ~(In(w, m) /\ In(v, m))
  PROVE  Minus(f, v, g, m)
<1>1. Has(f, m) <=> Has(g, m) \/ In(v, m)
  BY ReplacedHas
<1>2. ASSUME Single(f, m) PROVE Single(g, m)
  <2>1. SUFFICES ASSUME NEW y \in DOMAIN f, NEW z \in DOMAIN f, In(g[y], m), In(g[z], m)
                 PROVE  y = z /\ Once(g[y], m)
    BY DEF Single, Replaced
  <2>2. In(f[y], m) /\ In(f[z], m)
    BY <2>1 DEF Replaced
  <2>3. y = z /\ Once(f[y], m)
    BY <1>2, <2>2 DEF Single
  <2> QED BY <2>3 DEF Replaced
<1>3. ASSUME Single(f, m), In(v, m) PROVE Once(v, m) /\ ~Has(g, m)
  <2>1. In(f[x], m) /\ x \in DOMAIN f
    BY <1>3 DEF Replaced
  <2>2. Once(f[x], m) /\ \A y \in DOMAIN f : In(f[y], m) => y = x
    BY <1>3, <2>1 DEF Single
  <2> QED BY <1>3, <2>2, ReplacedHas
<1>4. ~In(v, m) => Once(v, m)
  BY DEF In, Once
<1> QED BY <1>1, <1>2, <1>3, <1>4 DEF Minus

LEMMA MinusClear ==
  ASSUME NEW f, NEW x, NEW g, NEW m, Replaced(f, x, <<>>, g)
  PROVE  Minus(f, f[x], g, m)
<1> DEFINE v == f[x]
           w == <<>>
<1>1. ~In(w, m) /\ Once(w, m)
  BY InNone
<1> HIDE DEF w
<1>2. Replaced(f, x, w, g)
  BY DEF w
<1>3. v = f[x]
  OBVIOUS
<1> HIDE DEF v
<1>4. Minus(f, v, g, m)
  BY <1>1, <1>2, <1>3, MinusReplaced
<1> QED BY <1>4 DEF v

LEMMA MinusTail ==
  ASSUME NEW S, NEW f, NEW x, NEW g, NEW m, f[x] \in Seq(S), f[x] # <<>>,
         Replaced(f, x, Tail(f[x]), g)
  PROVE  Minus(f, <<Head(f[x])>>, g, m)
<1> DEFINE v == <<Head(f[x])>>
           w == Tail(f[x])
<1>1. /\ In(f[x], m) <=> In(w, m) \/ In(v, m)
      /\ Once(f[x], m) => Once(w, m) /\ ~(In(w, m) /\ In(v, m))
  BY InTail
<1>2. Once(v, m)
  BY InOne
<1> HIDE DEF v, w
<1>3. Replaced(f, x, w, g)
  BY DEF w
<1>4. Minus(f, v, g, m)
  BY <1>1, <1>2, <1>3, MinusReplaced
<1> QED BY <1>4 DEF v

\* Families that are sequences of sequences.
LEMMA PlusConcat ==
  ASSUME NEW S, NEW f \in Seq(S), NEW c \in Seq(S), NEW v, NEW m,
         Has(c, m) <=> In(v, m), Once(v, m) => Single(c, m)
  PROVE  Plus(f, v, f \o c, m)
<1> DEFINE g == f \o c
<1>1. /\ Len(g) = Len(f) + Len(c) /\ Len(f) \in Nat /\ Len(c) \in Nat
      /\ DOMAIN f = 1 .. Len(f) /\ DOMAIN c = 1 .. Len(c) /\ DOMAIN g = 1 .. Len(g)
      /\ \A i \in 1 .. Len(f) : g[i] = f[i]
      /\ \A i \in 1 .. Len(c) : g[Len(f) + i] = c[i]
  OBVIOUS
<1> HIDE DEF g
<1>2. ASSUME NEW i \in DOMAIN g
      PROVE  \/ i \in DOMAIN f /\ g[i] = f[i]
             \/ i - Len(f) \in DOMAIN c /\ g[i] = c[i - Len(f)]
  <2>1. CASE i <= Len(f)
    BY <1>1, <1>2, <2>1
  <2>2. CASE i > Len(f)
    BY <1>1, <1>2, <2>2
  <2> QED BY <1>1, <1>2, <2>1, <2>2
<1>3. Has(g, m) => Has(f, m) \/ Has(c, m)
  BY <1>2 DEF Has
<1>4. Has(f, m) => Has(g, m)
  BY <1>1 DEF Has
<1>5. Has(c, m) => Has(g, m)
  <2>1. \A i \in DOMAIN c : Len(f) + i \in DOMAIN g
    BY <1>1
  <2> QED BY <1>1, <2>1 DEF Has
<1>6. ASSUME Single(f, m), Once(v, m), ~(Has(f, m) /\ In(v, m))
      PROVE  Single(g, m)
  <2>1. SUFFICES ASSUME NEW i \in DOMAIN g, NEW j \in DOMAIN g, In(g[i], m), In(g[j], m)
                 PROVE  i = j /\ Once(g[i], m)
    BY DEF Single
  <2>2. CASE Has(f, m)
    <3>1. i \in DOMAIN f /\ g[i] = f[i] /\ j \in DOMAIN f /\ g[j] = f[j]
      BY <1>2, <1>6, <2>1, <2>2 DEF Has
    <3> QED BY <1>6, <2>1, <3>1 DEF Single
  <2>3. CASE ~Has(f, m)
    <3> DEFINE a == i - Len(f)
               b == j - Len(f)
    <3>1. /\ a \in DOMAIN c /\ g[i] = c[a]
          /\ b \in DOMAIN c /\ g[j] = c[b]
      BY <1>2, <2>1, <2>3 DEF Has
    <3>2. (a = b => i = j) /\ Single(c, m)
      BY <1>1, <1>6, <2>1
    <3> HIDE DEF a, b
    <3> QED BY <2>1, <3>1, <3>2 DEF Single
  <2> QED BY <2>2, <2>3
<1> QED BY <1>3, <1>4, <1>5, <1>6 DEF Plus, g

LEMMA MinusFirst ==
  ASSUME NEW S, NEW f \in Seq(S), f # <<>>, NEW m
  PROVE  Minus(f, Head(f), Tail(f), m)
<1> DEFINE g == Tail(f)
           v == Head(f)
<1>1. /\ Len(g) = Len(f) - 1 /\ Len(f) \in Nat /\ Len(f) > 0 /\ v = f[1]
      /\ DOMAIN f = 1 .. Len(f) /\ DOMAIN g = 1 .. Len(g)
      /\ \A i \in 1 .. Len(f) - 1 : g[i] = f[i + 1]
  OBVIOUS
<1> HIDE DEF g, v
<1>2. \A i \in DOMAIN g : g[i] = f[i + 1] /\ i + 1 \in DOMAIN f /\ i + 1 # 1
  BY <1>1
<1>3. ASSUME NEW i \in DOMAIN f, i # 1 PROVE i - 1 \in DOMAIN g /\ f[i] = g[i - 1]
  <2>1. i - 1 \in 1 .. Len(f) - 1 /\ (i - 1) + 1 = i
    BY <1>1, <1>3
  <2> QED BY <1>1, <2>1
<1>4. 1 \in DOMAIN f
  BY <1>1
<1>5. Has(f, m) <=> Has(g, m) \/ In(v, m)
  BY <1>1, <1>2, <1>3, <1>4 DEF Has
<1>6. ASSUME Single(f, m) PROVE Single(g, m)
  <2>1. SUFFICES ASSUME NEW i \in DOMAIN g, NEW j \in DOMAIN g, In(g[i], m), In(g[j], m)
                 PROVE  i = j /\ Once(g[i], m)
    BY DEF Single
  <2>2. i + 1 = j + 1 /\ Once(g[i], m)
    BY <1>2, <1>6, <2>1 DEF Single
  <2> QED BY <1>1, <2>1, <2>2
<1>7. ASSUME Single(f, m), In(v, m) PROVE Once(v, m) /\ ~Has(g, m)
  BY <1>1, <1>2, <1>4, <1>7 DEF Single, Has
<1>8. ~In(v, m) => Once(v, m)
  BY DEF In, Once
<1>9. Minus(f, v, g, m)
  BY <1>5, <1>6, <1>7, <1>8 DEF Minus
<1> QED BY <1>9 DEF g, v

-----------------------------------------------------------------------------
(* The queues of the sessions as a family.                                 *)

Frame == Msg \cup {Ack}
Framed(q) == [s \in Session |-> Frames(q[s])]

LEMMA FramesType ==
  ASSUME NEW q \in Seq(Entry)
  PROVE  /\ Frames(q) \in Seq(Frame) /\ Len(Frames(q)) = Len(q)
         /\ \A i \in 1 .. Len(q) : Frames(q)[i] = q[i].msg
<1>1. \A e \in Entry : e.msg \in Frame
  BY DEF Entry, Frame
<1>2. Len(q) \in Nat /\ \A i \in 1 .. Len(q) : q[i] \in Entry
  OBVIOUS
<1>3. \A i \in 1 .. Len(q) : q[i].msg \in Frame
  BY <1>1, <1>2
<1> QED BY <1>2, <1>3 DEF Frames

LEMMA FramesConcat ==
  ASSUME NEW q \in Seq(Entry), NEW r \in Seq(Entry)
  PROVE  Frames(q \o r) = Frames(q) \o Frames(r)
<1> DEFINE v == q \o r
           a == Frames(q)
           b == Frames(r)
<1>1. /\ v \in Seq(Entry) /\ Len(v) = Len(q) + Len(r)
      /\ Len(q) \in Nat /\ Len(r) \in Nat
      /\ \A i \in 1 .. Len(q) : v[i] = q[i]
      /\ \A i \in 1 .. Len(r) : v[Len(q) + i] = r[i]
  OBVIOUS
<1>2. /\ a \in Seq(Frame) /\ Len(a) = Len(q)
      /\ \A i \in 1 .. Len(q) : a[i] = q[i].msg
      /\ b \in Seq(Frame) /\ Len(b) = Len(r)
      /\ \A i \in 1 .. Len(r) : b[i] = r[i].msg
  BY FramesType
<1> HIDE DEF v, a, b
<1> DEFINE c == Frames(v)
<1>3. /\ c \in Seq(Frame) /\ Len(c) = Len(v)
      /\ \A i \in 1 .. Len(v) : c[i] = v[i].msg
  BY <1>1, FramesType
<1> HIDE DEF c
<1>4. /\ a \o b \in Seq(Frame) /\ Len(a \o b) = Len(c)
      /\ \A i \in 1 .. Len(q) : (a \o b)[i] = a[i]
      /\ \A i \in 1 .. Len(r) : (a \o b)[Len(q) + i] = b[i]
  <2>1. a \in Seq(Frame) /\ b \in Seq(Frame)
    BY <1>2
  <2>2. /\ a \o b \in Seq(Frame) /\ Len(a \o b) = Len(a) + Len(b)
        /\ \A i \in 1 .. Len(a) : (a \o b)[i] = a[i]
        /\ \A i \in 1 .. Len(b) : (a \o b)[Len(a) + i] = b[i]
    BY <2>1
  <2> QED BY <1>1, <1>2, <1>3, <2>2
<1>5. ASSUME NEW i \in 1 .. Len(c) PROVE (a \o b)[i] = c[i]
  <2>1. CASE i <= Len(q)
    <3>1. i \in 1 .. Len(q) /\ i \in 1 .. Len(v)
      BY <1>1, <1>3, <1>5, <2>1
    <3>2. (a \o b)[i] = q[i].msg
      BY <1>2, <1>4, <3>1
    <3>3. c[i] = q[i].msg
      BY <1>1, <1>3, <3>1
    <3> QED BY <3>2, <3>3
  <2>2. CASE ~(i <= Len(q))
    <3>1. PICK j \in 1 .. Len(r) : i = Len(q) + j
      <4>1. i - Len(q) \in 1 .. Len(r) /\ i = Len(q) + (i - Len(q))
        BY <1>1, <1>3, <1>5, <2>2
      <4> QED BY <4>1
    <3>2. (a \o b)[i] = r[j].msg
      BY <1>2, <1>4, <3>1
    <3>3. c[i] = r[j].msg
      BY <1>1, <1>3, <1>5, <3>1
    <3> QED BY <3>2, <3>3
  <2> QED BY <1>1, <1>3, <1>5, <2>1, <2>2
<1>6. a \o b = c
  <2> DEFINE w == a \o b
  <2>1. w \in Seq(Frame) /\ Len(w) = Len(c)
    BY <1>4
  <2> HIDE DEF w
  <2>2. \A i \in 1 .. Len(c) : w[i] = c[i]
    BY <1>5 DEF w
  <2>3. w = c
    BY <1>3, <2>1, <2>2
  <2> QED BY <2>3 DEF w
<1> QED BY <1>6 DEF v, a, b, c

LEMMA FramesTail ==
  ASSUME NEW q \in Seq(Entry), q # <<>>
  PROVE  /\ Frames(Tail(q)) = Tail(Frames(q))
         /\ Frames(q) # <<>> /\ Head(Frames(q)) = Head(q).msg
<1> DEFINE t == Tail(q)
           f == Frames(q)
           g == Frames(t)
<1>1. /\ t \in Seq(Entry) /\ Len(t) = Len(q) - 1 /\ Len(q) \in Nat /\ Len(q) > 0
      /\ \A i \in 1 .. Len(q) - 1 : t[i] = q[i + 1]
      /\ Head(q) = q[1]
  OBVIOUS
<1>2. /\ f \in Seq(Frame) /\ Len(f) = Len(q)
      /\ \A i \in 1 .. Len(q) : f[i] = q[i].msg
  BY FramesType
<1> HIDE DEF t
<1>3. /\ g \in Seq(Frame) /\ Len(g) = Len(t)
      /\ \A i \in 1 .. Len(t) : g[i] = t[i].msg
  BY <1>1, FramesType
<1> HIDE DEF f, g
<1>4. /\ Tail(f) \in Seq(Frame) /\ Len(Tail(f)) = Len(f) - 1
      /\ \A i \in 1 .. Len(f) - 1 : Tail(f)[i] = f[i + 1]
      /\ f # <<>> /\ Head(f) = f[1]
  BY <1>1, <1>2
<1>5. ASSUME NEW i \in 1 .. Len(t) PROVE g[i] = Tail(f)[i]
  <2>1. i \in 1 .. Len(q) - 1 /\ i + 1 \in 1 .. Len(q)
    BY <1>1
  <2>2. g[i] = q[i + 1].msg
    BY <1>1, <1>3, <2>1
  <2>3. Tail(f)[i] = q[i + 1].msg
    BY <1>2, <1>4, <2>1
  <2> QED BY <2>2, <2>3
<1>6. g = Tail(f)
  <2> DEFINE w == Tail(f)
  <2>1. w \in Seq(Frame) /\ Len(w) = Len(g) /\ Len(g) = Len(t)
    BY <1>1, <1>2, <1>3, <1>4
  <2>2. \A i \in 1 .. Len(g) : g[i] = w[i]
    BY <1>3, <1>5
  <2> HIDE DEF w
  <2>3. g = w
    BY <1>3, <2>1, <2>2
  <2> QED BY <2>3 DEF w
<1>7. Head(f) = Head(q).msg
  BY <1>1, <1>2, <1>4
<1>8. g = Tail(f) /\ f # <<>> /\ Head(f) = Head(q).msg
  BY <1>4, <1>6, <1>7
<1> QED BY <1>8 DEF f, g, t

LEMMA FramesEmpty == Frames(<<>>) = <<>>
<1>1. Len(<<>>) = 0 /\ <<>> \in Seq(Entry)
  OBVIOUS
<1>2. \A i \in 1 .. 0 : FALSE
  OBVIOUS
<1>3. Frames(<<>>) \in Seq(Frame) /\ Len(Frames(<<>>)) = 0
  BY <1>1, FramesType
<1> QED BY <1>3

\* The frames push() makes of msgs.
LEMMA FramesNew ==
  ASSUME NEW msgs, NEW persist \in BOOLEAN,
         msgs \in Seq(Msg) \/ (msgs = <<Ack>> /\ persist = FALSE),
         NEW new, new = [i \in 1 .. Len(msgs) |-> [msg |-> msgs[i], persist |-> persist]]
  PROVE  new \in Seq(Entry) /\ Frames(new) = msgs /\ msgs \in Seq(Frame)
<1>1. new \in Seq(Entry)
  BY FramesOf
<1>2. msgs \in Seq(Frame) /\ Len(msgs) \in Nat
  BY DEF Frame
<1>3. Len(new) = Len(msgs) /\ \A i \in 1 .. Len(msgs) : new[i].msg = msgs[i]
  BY <1>2
<1> DEFINE f == Frames(new)
<1>4. /\ f \in Seq(Frame) /\ Len(f) = Len(new)
      /\ \A i \in 1 .. Len(new) : f[i] = new[i].msg
  BY <1>1, FramesType
<1> HIDE DEF f
<1>5. f = msgs
  BY <1>2, <1>3, <1>4
<1> QED BY <1>1, <1>2, <1>5 DEF f

\* The messages v join the sequences of S.
Joined(f, S, v, g) ==
  /\ DOMAIN f = Session /\ DOMAIN g = Session /\ v \in Seq(Frame)
  /\ \A s \in Session : f[s] \in Seq(Frame)
  /\ \A s \in Session : s \in S => g[s] = f[s] \o v
  /\ \A s \in Session : s \notin S => g[s] = f[s]

LEMMA FramedPushed ==
  ASSUME NEW q \in [Session -> Seq(Entry)], NEW S, NEW msgs,
         NEW persist \in BOOLEAN,
         msgs \in Seq(Msg) \/ (msgs = <<Ack>> /\ persist = FALSE)
  PROVE  Joined(Framed(q), S, msgs, Framed(PushAll(q, S, msgs, persist)))
<1> DEFINE new == [i \in 1 .. Len(msgs) |-> [msg |-> msgs[i], persist |-> persist]]
           p == PushAll(q, S, msgs, persist)
<1>1. new \in Seq(Entry) /\ Frames(new) = msgs /\ msgs \in Seq(Frame)
  BY FramesNew
<1>2. p = [x \in Session |-> IF x \in S THEN q[x] \o new ELSE q[x]]
  BY DEF PushAll
<1> HIDE DEF new, p
<1>3. ASSUME NEW s \in Session
      PROVE  /\ Frames(q[s]) \in Seq(Frame)
             /\ s \in S => Frames(p[s]) = Frames(q[s]) \o msgs
             /\ s \notin S => Frames(p[s]) = Frames(q[s])
  <2>1. q[s] \in Seq(Entry)
    OBVIOUS
  <2>2. Frames(q[s] \o new) = Frames(q[s]) \o msgs /\ Frames(q[s]) \in Seq(Frame)
    BY <1>1, <2>1, FramesConcat, FramesType
  <2>3. (s \in S => p[s] = q[s] \o new) /\ (s \notin S => p[s] = q[s])
    BY <1>2
  <2> QED BY <2>2, <2>3
<1>4. Joined(Framed(q), S, msgs, Framed(p))
  BY <1>1, <1>3 DEF Joined, Framed
<1> QED BY <1>4 DEF p

\* Frames without m leave m where it is, whoever gets them.
LEMMA PushOthers ==
  ASSUME NEW q \in [Session -> Seq(Entry)], NEW S, NEW msgs,
         NEW persist \in BOOLEAN,
         msgs \in Seq(Msg) \/ (msgs = <<Ack>> /\ persist = FALSE),
         NEW m, ~In(msgs, m)
  PROVE  Same(Framed(q), Framed(PushAll(q, S, msgs, persist)), m)
<1> DEFINE f == Framed(q)
           g == Framed(PushAll(q, S, msgs, persist))
<1>1. Joined(f, S, msgs, g)
  BY FramedPushed
<1> HIDE DEF f, g
<1>2. ASSUME NEW s \in Session
      PROVE  (In(g[s], m) <=> In(f[s], m)) /\ (Once(f[s], m) => Once(g[s], m))
  <2>1. /\ s \in S => g[s] = f[s] \o msgs
        /\ s \notin S => g[s] = f[s]
        /\ f[s] \in Seq(Frame) /\ msgs \in Seq(Frame)
    BY <1>1 DEF Joined
  <2>2. /\ In(f[s] \o msgs, m) <=> In(f[s], m) \/ In(msgs, m)
        /\ Once(f[s], m) /\ Once(msgs, m) => Once(f[s] \o msgs, m)
    BY <2>1, InConcat
  <2>3. Once(msgs, m)
    BY DEF In, Once
  <2> QED BY <2>1, <2>2, <2>3
<1>3. Same(f, g, m)
  BY <1>1, <1>2 DEF Same, Has, Single, Joined
<1> QED BY <1>3 DEF f, g

LEMMA PushPeer ==
  ASSUME NEW q \in [Session -> Seq(Entry)], NEW x \in Session, NEW msgs,
         NEW persist \in BOOLEAN,
         msgs \in Seq(Msg) \/ (msgs = <<Ack>> /\ persist = FALSE),
         NEW m
  PROVE  Plus(Framed(q), msgs, Framed(PushAll(q, {x}, msgs, persist)), m)
<1> DEFINE f == Framed(q)
           S == {x}
           g == Framed(PushAll(q, S, msgs, persist))
<1>1. Joined(f, S, msgs, g)
  BY FramedPushed
<1>2. x \in S /\ \A s \in Session : s # x => s \notin S
  OBVIOUS
<1> HIDE DEF S
<1> HIDE DEF f, g
<1>4. Replaced(f, x, f[x] \o msgs, g) /\ f[x] \in Seq(Frame)
  BY <1>1, <1>2 DEF Replaced, Joined
<1>5. Plus(f, msgs, g, m)
  BY <1>1, <1>4, PlusAppend DEF Joined
<1> QED BY <1>5 DEF f, g, S

LEMMA QueuePop ==
  ASSUME queue \in [Session -> Seq(Entry)], NEW s \in Session, queue[s] # <<>>,
         queue' = [queue EXCEPT ![s] = Tail(@)], NEW m
  PROVE  Minus(Framed(queue), <<Head(queue[s]).msg>>, Framed(queue'), m)
<1> DEFINE f == Framed(queue)
           g == Framed(queue')
<1>1. queue[s] \in Seq(Entry)
  OBVIOUS
<1>2. /\ Frames(Tail(queue[s])) = Tail(Frames(queue[s]))
      /\ Frames(queue[s]) # <<>> /\ Head(Frames(queue[s])) = Head(queue[s]).msg
      /\ Frames(queue[s]) \in Seq(Frame)
  BY <1>1, FramesTail, FramesType
<1>3. DOMAIN f = Session /\ DOMAIN g = Session /\ f[s] = Frames(queue[s])
  BY DEF Framed
<1>4. \A x \in Session : g[x] = IF x = s THEN Tail(f[s]) ELSE f[x]
  BY <1>2 DEF Framed
<1> HIDE DEF f, g
<1>5. Replaced(f, s, Tail(f[s]), g) /\ f[s] \in Seq(Frame) /\ f[s] # <<>>
  BY <1>2, <1>3, <1>4 DEF Replaced
<1>6. Minus(f, <<Head(f[s])>>, g, m)
  BY <1>5, MinusTail
<1> QED BY <1>2, <1>3, <1>6 DEF f, g

LEMMA QueueClear ==
  ASSUME queue \in [Session -> Seq(Entry)], NEW s \in Session,
         queue' = [queue EXCEPT ![s] = <<>>], NEW m
  PROVE  Minus(Framed(queue), Frames(queue[s]), Framed(queue'), m)
<1> DEFINE f == Framed(queue)
           g == Framed(queue')
<1>1. DOMAIN f = Session /\ DOMAIN g = Session /\ f[s] = Frames(queue[s])
  BY DEF Framed
<1>2. \A x \in Session : g[x] = IF x = s THEN <<>> ELSE f[x]
  BY FramesEmpty DEF Framed
<1> HIDE DEF f, g
<1>3. Replaced(f, s, <<>>, g)
  BY <1>1, <1>2 DEF Replaced
<1>4. Minus(f, f[s], g, m)
  BY <1>3, MinusClear
<1> QED BY <1>1, <1>4 DEF f, g

\* finish() hands over every message of the queue that persists, once.
LEMMA AscendingOnto ==
  ASSUME NEW n \in Nat, NEW K \in SUBSET (1 .. n)
  PROVE  \A k \in K : \E i \in 1 .. Cardinality(K) : Ascending(K)[i] = k
<1> DEFINE c == Cardinality(K)
           at == Ascending(K)
<1>1. IsFiniteSet(1 .. n)
  BY FS_Interval
<1>2. IsFiniteSet(K) /\ c \in Nat
  BY <1>1, FS_Subset, FS_CardinalityType
<1>3. at \in [1 .. c -> K] /\ \A i, j \in 1 .. c : i < j => at[i] < at[j]
  <2>1. \E f \in [1 .. c -> K] : \A i, j \in 1 .. c : i < j => f[i] < f[j]
    BY AscendingExists
  <2> QED BY <2>1 DEF Ascending
<1>4. SUFFICES ASSUME NEW k \in K, \A i \in 1 .. c : at[i] # k PROVE FALSE
  OBVIOUS
<1> DEFINE T == K \ {k}
<1>5. IsFiniteSet(T) /\ Cardinality(T) = c - 1
  BY <1>2, FS_RemoveElement
<1>6. IsFiniteSet(1 .. c) /\ Cardinality(1 .. c) = c
  BY <1>2, FS_Interval
<1>7. at \in [1 .. c -> T]
  BY <1>3, <1>4
<1> HIDE DEF T, at, c
<1>8. \A i \in 1 .. c : at[i] \in Nat
  <2>1. \A x \in K : x \in Nat
    OBVIOUS
  <2> QED BY <1>3, <2>1
<1>9. \E i, j \in 1 .. c : i # j /\ at[i] = at[j]
  BY <1>2, <1>5, <1>6, <1>7, FS_PigeonHole
<1>10. PICK i \in 1 .. c, j \in 1 .. c : i # j /\ at[i] = at[j]
  BY <1>9
<1>11. i < j \/ j < i
  BY <1>2, <1>10
<1> QED BY <1>3, <1>8, <1>10, <1>11

LEMMA UnsentKeeps ==
  ASSUME queue \in [Session -> Seq(Entry)], NEW s \in Session, NEW m \in Mail,
         \A i \in 1 .. Len(queue[s]) : queue[s][i].msg = m => queue[s][i].persist
  PROVE  /\ In(Unsent(s), m) <=> In(Frames(queue[s]), m)
         /\ Once(Frames(queue[s]), m) => Once(Unsent(s), m)
<1> DEFINE q == queue[s]
           K == Kept(s)
           c == Cardinality(K)
           at == Ascending(K)
           f == Frames(q)
           u == Unsent(s)
<1>1. q \in Seq(Entry) /\ Len(q) \in Nat
  OBVIOUS
<1>2. K \in SUBSET (1 .. Len(q)) /\ \A i \in 1 .. Len(q) : q[i].msg = m => i \in K
  BY DEF Kept
<1>3. c \in Nat /\ at \in [1 .. c -> K]
  BY <1>1, <1>2, AscendingType
<1>4. \A i, j \in 1 .. c : at[i] = at[j] => i = j
  <2>1. \E g \in [1 .. c -> K] : \A i, j \in 1 .. c : i < j => g[i] < g[j]
    BY <1>1, <1>2, AscendingExists
  <2>2. \A i, j \in 1 .. c : i < j => at[i] < at[j]
    BY <2>1 DEF Ascending
  <2>3. \A i \in 1 .. c : at[i] \in Nat
    BY <1>1, <1>2, <1>3
  <2> HIDE DEF at, c, K
  <2> QED BY <1>3, <2>2, <2>3
<1>5. \A k \in K : \E i \in 1 .. c : at[i] = k
  BY <1>1, <1>2, AscendingOnto
<1>6. u = [i \in 1 .. c |-> q[at[i]].msg]
  BY DEF Unsent
<1>7. Len(u) = c /\ \A i \in 1 .. c : u[i] = q[at[i]].msg
  BY <1>3, <1>6
<1>8. Len(f) = Len(q) /\ \A i \in 1 .. Len(q) : f[i] = q[i].msg
  BY <1>1, FramesType
<1> HIDE DEF q, K, c, at, f, u
<1>9. \A i \in 1 .. c : at[i] \in 1 .. Len(f) /\ f[at[i]] = u[i]
  BY <1>2, <1>3, <1>7, <1>8
<1>10. In(u, m) => In(f, m)
  BY <1>7, <1>9 DEF In
<1>11. In(f, m) => In(u, m)
  <2>1. SUFFICES ASSUME NEW k \in 1 .. Len(f), f[k] = m PROVE In(u, m)
    BY DEF In
  <2>2. k \in K
    BY <1>2, <1>8, <2>1
  <2>3. PICK i \in 1 .. c : at[i] = k
    BY <1>5, <2>2
  <2> QED BY <1>7, <1>9, <2>1, <2>3 DEF In
<1>12. Once(f, m) => Once(u, m)
  BY <1>4, <1>7, <1>9 DEF Once
<1> QED BY <1>10, <1>11, <1>12 DEF q, f, u

-----------------------------------------------------------------------------
(* The commands of a pipeline, the answers on a connection and the lists   *)
(* as families.                                                            *)

Content(c) == IF c.op = "rpush" THEN c.msgs ELSE <<>>
Contents(p) == [i \in 1 .. Len(p) |-> Content(p[i])]
Answers(r) == [i \in 1 .. Len(r) |-> r[i].msgs]

\* The commands cmds store the messages v, as far as m is concerned.
Store(cmds, v, m) ==
  /\ Has(Contents(cmds), m) <=> In(v, m)
  /\ Once(v, m) => Single(Contents(cmds), m)

LEMMA ContentType ==
  ASSUME NEW c \in Command
  PROVE  Content(c) \in Seq(Msg)
<1>1. <<>> \in Seq(Msg)
  OBVIOUS
<1>2. c.op = "rpush" => c.msgs \in Seq(Msg)
  BY DEF Command
<1> QED BY <1>1, <1>2 DEF Content

LEMMA ContentsType ==
  ASSUME NEW p \in Seq(Command)
  PROVE  /\ Contents(p) \in Seq(Seq(Msg)) /\ Len(Contents(p)) = Len(p)
         /\ \A i \in 1 .. Len(p) : Contents(p)[i] = Content(p[i])
<1>1. Len(p) \in Nat /\ \A i \in 1 .. Len(p) : p[i] \in Command
  OBVIOUS
<1>2. \A i \in 1 .. Len(p) : Content(p[i]) \in Seq(Msg)
  BY <1>1, ContentType
<1>3. Contents(p) = [i \in 1 .. Len(p) |-> Content(p[i])]
  BY DEF Contents
<1> DEFINE S == Seq(Msg)
<1> HIDE DEF S
<1>4. \A i \in 1 .. Len(p) : Content(p[i]) \in S
  BY <1>2 DEF S
<1>5. Contents(p) \in Seq(S) /\ Len(Contents(p)) = Len(p)
  BY <1>1, <1>3, <1>4
<1> QED BY <1>3, <1>5 DEF S

LEMMA ContentsConcat ==
  ASSUME NEW p \in Seq(Command), NEW c \in Seq(Command)
  PROVE  Contents(p \o c) = Contents(p) \o Contents(c)
<1> DEFINE S == Seq(Msg)
           v == p \o c
           f == Contents(p)
           g == Contents(c)
           h == Contents(v)
<1>1. /\ v \in Seq(Command) /\ Len(v) = Len(p) + Len(c)
      /\ Len(p) \in Nat /\ Len(c) \in Nat
      /\ \A i \in 1 .. Len(p) : v[i] = p[i]
      /\ \A i \in 1 .. Len(c) : v[Len(p) + i] = c[i]
  OBVIOUS
<1>2. /\ f \in Seq(S) /\ Len(f) = Len(p)
      /\ \A i \in 1 .. Len(p) : f[i] = Content(p[i])
  BY ContentsType
<1>3. /\ g \in Seq(S) /\ Len(g) = Len(c)
      /\ \A i \in 1 .. Len(c) : g[i] = Content(c[i])
  BY ContentsType
<1> HIDE DEF v
<1>4. /\ h \in Seq(S) /\ Len(h) = Len(v)
      /\ \A i \in 1 .. Len(v) : h[i] = Content(v[i])
  BY <1>1, ContentsType
<1> HIDE DEF S, f, g, h
<1>5. /\ f \o g \in Seq(S) /\ Len(f \o g) = Len(f) + Len(g)
      /\ \A i \in 1 .. Len(f) : (f \o g)[i] = f[i]
      /\ \A i \in 1 .. Len(g) : (f \o g)[Len(f) + i] = g[i]
  BY <1>2, <1>3
<1>6. ASSUME NEW i \in 1 .. Len(h) PROVE (f \o g)[i] = h[i]
  <2>1. CASE i <= Len(p)
    <3>1. i \in 1 .. Len(p) /\ i \in 1 .. Len(v)
      BY <1>1, <1>4, <1>6, <2>1
    <3>2. (f \o g)[i] = Content(p[i])
      BY <1>2, <1>5, <3>1
    <3>3. h[i] = Content(p[i])
      BY <1>1, <1>4, <3>1
    <3> QED BY <3>2, <3>3
  <2>2. CASE ~(i <= Len(p))
    <3>1. PICK j \in 1 .. Len(c) : i = Len(p) + j
      <4>1. i - Len(p) \in 1 .. Len(c) /\ i = Len(p) + (i - Len(p))
        BY <1>1, <1>4, <1>6, <2>2
      <4> QED BY <4>1
    <3>2. (f \o g)[i] = Content(c[j])
      BY <1>2, <1>3, <1>5, <3>1
    <3>3. h[i] = Content(c[j])
      BY <1>1, <1>4, <1>6, <3>1
    <3> QED BY <3>2, <3>3
  <2> QED BY <2>1, <2>2
<1>7. f \o g = h
  <2> DEFINE w == f \o g
  <2>1. w \in Seq(S) /\ Len(w) = Len(h)
    BY <1>1, <1>2, <1>3, <1>4, <1>5
  <2> HIDE DEF w
  <2>2. \A i \in 1 .. Len(h) : w[i] = h[i]
    BY <1>6 DEF w
  <2>3. w = h
    BY <1>4, <2>1, <2>2
  <2> QED BY <2>3 DEF w
<1> QED BY <1>7 DEF f, g, h, v

LEMMA PipeRequest ==
  ASSUME NEW p \in Seq(Command), NEW cmds \in Seq(Command), NEW v, NEW m,
         Store(cmds, v, m)
  PROVE  Plus(Contents(p), v, Contents(p \o cmds), m)
<1> DEFINE S == Seq(Msg)
           f == Contents(p)
           c == Contents(cmds)
<1>1. f \in Seq(S) /\ c \in Seq(S)
  BY ContentsType
<1>2. (Has(c, m) <=> In(v, m)) /\ (Once(v, m) => Single(c, m))
  BY DEF Store
<1> HIDE DEF S, f, c
<1>3. Plus(f, v, f \o c, m)
  BY <1>1, <1>2, PlusConcat
<1> QED BY <1>3, ContentsConcat DEF f, c

LEMMA PipeTaken ==
  ASSUME NEW p \in Seq(Command), p # <<>>, NEW m
  PROVE  Minus(Contents(p), Content(Head(p)), Contents(Tail(p)), m)
<1> DEFINE S == Seq(Msg)
           f == Contents(p)
           t == Tail(p)
           g == Contents(t)
<1>1. /\ t \in Seq(Command) /\ Len(t) = Len(p) - 1 /\ Len(p) \in Nat /\ Len(p) > 0
      /\ \A i \in 1 .. Len(p) - 1 : t[i] = p[i + 1]
      /\ Head(p) = p[1]
  OBVIOUS
<1>2. f \in Seq(S) /\ Len(f) = Len(p) /\ \A i \in 1 .. Len(p) : f[i] = Content(p[i])
  BY ContentsType
<1> HIDE DEF t
<1>3. g \in Seq(S) /\ Len(g) = Len(t) /\ \A i \in 1 .. Len(t) : g[i] = Content(t[i])
  BY <1>1, ContentsType
<1> HIDE DEF S, f, g
<1>4. /\ f # <<>> /\ Head(f) = f[1] /\ Tail(f) \in Seq(S)
      /\ Len(Tail(f)) = Len(f) - 1
      /\ \A i \in 1 .. Len(f) - 1 : Tail(f)[i] = f[i + 1]
  BY <1>1, <1>2
<1>5. g = Tail(f)
  <2> DEFINE w == Tail(f)
  <2>1. w \in Seq(S) /\ Len(w) = Len(g) /\ Len(g) = Len(p) - 1
    BY <1>1, <1>2, <1>3, <1>4
  <2>2. ASSUME NEW i \in 1 .. Len(g) PROVE w[i] = g[i]
    <3>1. i \in 1 .. Len(p) - 1 /\ i + 1 \in 1 .. Len(p)
      BY <1>1, <2>1
    <3>2. w[i] = Content(p[i + 1])
      BY <1>2, <1>4, <3>1
    <3>3. g[i] = Content(p[i + 1])
      BY <1>1, <1>3, <3>1
    <3> QED BY <3>2, <3>3
  <2> HIDE DEF w
  <2>3. w = g
    BY <1>3, <2>1, <2>2
  <2> QED BY <2>3 DEF w
<1>6. Head(f) = Content(Head(p))
  BY <1>1, <1>2, <1>4
<1>7. Minus(f, Head(f), Tail(f), m)
  BY <1>2, <1>4, MinusFirst
<1> QED BY <1>5, <1>6, <1>7 DEF f, g, t

LEMMA AnswersType ==
  ASSUME NEW r \in Seq(Event)
  PROVE  /\ Answers(r) \in Seq(Seq(Msg)) /\ Len(Answers(r)) = Len(r)
         /\ \A i \in 1 .. Len(r) : Answers(r)[i] = r[i].msgs
<1>1. Len(r) \in Nat /\ \A i \in 1 .. Len(r) : r[i] \in Event
  OBVIOUS
<1> DEFINE S == Seq(Msg)
<1>2. \A i \in 1 .. Len(r) : r[i].msgs \in S
  BY <1>1, EventTypes
<1>3. Answers(r) = [i \in 1 .. Len(r) |-> r[i].msgs]
  BY DEF Answers
<1> HIDE DEF S
<1>4. Answers(r) \in Seq(S) /\ Len(Answers(r)) = Len(r)
  BY <1>1, <1>2, <1>3
<1> QED BY <1>3, <1>4 DEF S

LEMMA AppendIs ==
  ASSUME NEW S, NEW f \in Seq(S), NEW v \in S
  PROVE  f \o <<v>> = Append(f, v)
  OBVIOUS

LEMMA AnswerSent ==
  ASSUME NEW r \in Seq(Event), NEW e \in Event, NEW m
  PROVE  Plus(Answers(r), e.msgs, Answers(Append(r, e)), m)
<1> DEFINE S == Seq(Msg)
           f == Answers(r)
           t == Append(r, e)
           g == Answers(t)
           v == e.msgs
           c == <<v>>
<1>1. /\ t \in Seq(Event) /\ Len(t) = Len(r) + 1 /\ Len(r) \in Nat
      /\ \A i \in 1 .. Len(r) : t[i] = r[i]
      /\ t[Len(r) + 1] = e
  OBVIOUS
<1>2. f \in Seq(S) /\ Len(f) = Len(r) /\ \A i \in 1 .. Len(r) : f[i] = r[i].msgs
  BY AnswersType
<1>3. v \in S
  BY EventTypes
<1> HIDE DEF t
<1>4. g \in Seq(S) /\ Len(g) = Len(t) /\ \A i \in 1 .. Len(t) : g[i] = t[i].msgs
  BY <1>1, AnswersType
<1>5. t[Len(r) + 1].msgs = v
  BY <1>1
<1> HIDE DEF S, f, g, v
<1>6. c \in Seq(S) /\ DOMAIN c = {1} /\ c[1] = v
  BY <1>3
<1>7. (Has(c, m) <=> In(v, m)) /\ (Once(v, m) => Single(c, m))
  <2> HIDE DEF c
  <2> QED BY <1>6 DEF Has, Single
<1> HIDE DEF c
<1>8. Plus(f, v, f \o c, m)
  BY <1>2, <1>6, <1>7, PlusConcat
<1>9. g = f \o c
  <2> DEFINE w == Append(f, v)
  <2>1. f \o c = w
    BY <1>2, <1>3, AppendIs DEF c
  <2>2. /\ w \in Seq(S) /\ Len(w) = Len(f) + 1
        /\ \A i \in 1 .. Len(f) : w[i] = f[i]
        /\ w[Len(f) + 1] = v
    BY <1>2, <1>3
  <2> HIDE DEF w
  <2>3. Len(w) = Len(g)
    BY <1>1, <1>2, <1>4, <2>2
  <2>4. ASSUME NEW i \in 1 .. Len(g) PROVE w[i] = g[i]
    <3>1. CASE i \in 1 .. Len(r)
      <4>1. i \in 1 .. Len(t)
        BY <1>1, <3>1
      <4> QED BY <1>1, <1>2, <1>4, <2>2, <3>1, <4>1
    <3>2. CASE i = Len(r) + 1
      <4>1. g[i] = v
        BY <1>1, <1>4, <1>5, <2>4, <3>2
      <4>2. w[i] = v
        BY <1>2, <2>2, <3>2
      <4> QED BY <4>1, <4>2
    <3>3. i \in 1 .. Len(r) \/ i = Len(r) + 1
      BY <1>1, <1>4
    <3> QED BY <3>1, <3>2, <3>3
  <2>5. w = g
    BY <1>4, <2>2, <2>3, <2>4
  <2> QED BY <2>1, <2>5
<1> QED BY <1>8, <1>9 DEF f, g, t, v

LEMMA AnswerTaken ==
  ASSUME NEW r \in Seq(Event), r # <<>>, NEW m
  PROVE  Minus(Answers(r), Head(r).msgs, Answers(Tail(r)), m)
<1> DEFINE S == Seq(Msg)
           f == Answers(r)
           t == Tail(r)
           g == Answers(t)
<1>1. /\ t \in Seq(Event) /\ Len(t) = Len(r) - 1 /\ Len(r) \in Nat /\ Len(r) > 0
      /\ \A i \in 1 .. Len(r) - 1 : t[i] = r[i + 1]
      /\ Head(r) = r[1]
  OBVIOUS
<1>2. f \in Seq(S) /\ Len(f) = Len(r) /\ \A i \in 1 .. Len(r) : f[i] = r[i].msgs
  BY AnswersType
<1> HIDE DEF t
<1>3. g \in Seq(S) /\ Len(g) = Len(t) /\ \A i \in 1 .. Len(t) : g[i] = t[i].msgs
  BY <1>1, AnswersType
<1> HIDE DEF S, f, g
<1>4. /\ f # <<>> /\ Head(f) = f[1] /\ Tail(f) \in Seq(S)
      /\ Len(Tail(f)) = Len(f) - 1
      /\ \A i \in 1 .. Len(f) - 1 : Tail(f)[i] = f[i + 1]
  BY <1>1, <1>2
<1>5. g = Tail(f)
  <2> DEFINE w == Tail(f)
  <2>1. w \in Seq(S) /\ Len(w) = Len(g) /\ Len(g) = Len(r) - 1
    BY <1>1, <1>2, <1>3, <1>4
  <2>2. ASSUME NEW i \in 1 .. Len(g) PROVE w[i] = g[i]
    <3>1. i \in 1 .. Len(r) - 1 /\ i + 1 \in 1 .. Len(r)
      BY <1>1, <2>1
    <3>2. w[i] = r[i + 1].msgs
      BY <1>2, <1>4, <3>1
    <3>3. g[i] = r[i + 1].msgs
      BY <1>1, <1>3, <3>1
    <3> QED BY <3>2, <3>3
  <2> HIDE DEF w
  <2>3. w = g
    BY <1>3, <2>1, <2>2
  <2> QED BY <2>3 DEF w
<1>6. Head(f) = Head(r).msgs
  BY <1>1, <1>2, <1>4
<1>7. Minus(f, Head(f), Tail(f), m)
  BY <1>2, <1>4, MinusFirst
<1> QED BY <1>5, <1>6, <1>7 DEF f, g, t

-----------------------------------------------------------------------------
(* The order of the commands in a pipeline: DEL follows its LRANGE, and    *)
(* only RPUSH and the answer to LRANGE carry mail.                         *)

Tidy(p) ==
  \A i \in 1 .. Len(p) :
    /\ p[i].op = "lrange" =>
         i < Len(p) /\ p[i + 1].op = "del" /\ p[i + 1].name = p[i].name
    /\ p[i].op = "del" /\ i > 1 =>
         p[i - 1].op = "lrange" /\ p[i - 1].name = p[i].name
    /\ p[i].op = "publish" => Mails(p[i].msgs) = {}
Bare(r) == \A i \in 1 .. Len(r) : r[i].type # "lrange" => Mails(r[i].msgs) = {}

\* What a handler requests.
Proper(cmds) ==
  cmds \in Seq(Command) /\ Tidy(cmds) /\ (cmds # <<>> => cmds[1].op # "del")

LEMMA TidyConcat ==
  ASSUME NEW p \in Seq(Command), Tidy(p), NEW cmds, Proper(cmds)
  PROVE  Tidy(p \o cmds) /\ p \o cmds \in Seq(Command)
<1> DEFINE v == p \o cmds
           k == Len(p)
<1>1. /\ v \in Seq(Command) /\ Len(v) = k + Len(cmds) /\ k \in Nat /\ Len(cmds) \in Nat
      /\ \A i \in 1 .. k : v[i] = p[i]
      /\ \A i \in 1 .. Len(cmds) : v[k + i] = cmds[i]
      /\ cmds \in Seq(Command)
  BY DEF Proper
<1> HIDE DEF v
<1>2. SUFFICES ASSUME NEW i \in 1 .. Len(v)
      PROVE /\ v[i].op = "lrange" =>
                 i < Len(v) /\ v[i + 1].op = "del" /\ v[i + 1].name = v[i].name
            /\ v[i].op = "del" /\ i > 1 =>
                 v[i - 1].op = "lrange" /\ v[i - 1].name = v[i].name
            /\ v[i].op = "publish" => Mails(v[i].msgs) = {}
  BY <1>1 DEF Tidy, v
<1>3. CASE i <= k
  <2>1. (i \in 1 .. k /\ v[i] = p[i] /\ i < Len(v)) \/ i = Len(v)
    BY <1>1, <1>2, <1>3
  <2>2. i \in 1 .. k /\ v[i] = p[i]
    BY <1>1, <1>2, <1>3
  <2>3. ASSUME v[i].op = "lrange"
        PROVE  i < Len(v) /\ v[i + 1].op = "del" /\ v[i + 1].name = v[i].name
    <3>1. i < k /\ p[i + 1].op = "del" /\ p[i + 1].name = p[i].name
      BY <2>2, <2>3 DEF Tidy
    <3>2. i + 1 \in 1 .. k /\ i < Len(v)
      BY <1>1, <2>2, <3>1
    <3>3. v[i + 1] = p[i + 1]
      BY <1>1, <3>2
    <3> QED BY <2>2, <3>1, <3>2, <3>3
  <2>4. ASSUME v[i].op = "del", i > 1
        PROVE  v[i - 1].op = "lrange" /\ v[i - 1].name = v[i].name
    <3>1. p[i - 1].op = "lrange" /\ p[i - 1].name = p[i].name
      BY <2>2, <2>4 DEF Tidy
    <3>2. i - 1 \in 1 .. k
      BY <1>1, <2>2, <2>4
    <3>3. v[i - 1] = p[i - 1]
      BY <1>1, <3>2
    <3> QED BY <2>2, <3>1, <3>3
  <2>5. v[i].op = "publish" => Mails(v[i].msgs) = {}
    BY <2>2 DEF Tidy
  <2> QED BY <2>3, <2>4, <2>5
<1>4. CASE ~(i <= k)
  <2>1. PICK j \in 1 .. Len(cmds) : i = k + j
    <3>1. i - k \in 1 .. Len(cmds) /\ i = k + (i - k)
      BY <1>1, <1>2, <1>4
    <3> QED BY <3>1
  <2>2. v[i] = cmds[j] /\ Tidy(cmds) /\ cmds[1].op # "del"
    <3>1. cmds # <<>>
      BY <1>1, <2>1
    <3> QED BY <1>1, <2>1, <3>1 DEF Proper
  <2>3. ASSUME v[i].op = "lrange"
        PROVE  i < Len(v) /\ v[i + 1].op = "del" /\ v[i + 1].name = v[i].name
    <3>1. j < Len(cmds) /\ cmds[j + 1].op = "del" /\ cmds[j + 1].name = cmds[j].name
      BY <2>2, <2>3 DEF Tidy
    <3>2. j + 1 \in 1 .. Len(cmds) /\ i < Len(v) /\ i + 1 = k + (j + 1)
      BY <1>1, <2>1, <3>1
    <3>3. v[i + 1] = cmds[j + 1]
      BY <1>1, <3>2
    <3> QED BY <2>2, <3>1, <3>2, <3>3
  <2>4. ASSUME v[i].op = "del", i > 1
        PROVE  v[i - 1].op = "lrange" /\ v[i - 1].name = v[i].name
    <3>1. j > 1
      BY <1>1, <2>1, <2>2, <2>4
    <3>2. cmds[j - 1].op = "lrange" /\ cmds[j - 1].name = cmds[j].name
      BY <2>2, <2>4, <3>1 DEF Tidy
    <3>3. j - 1 \in 1 .. Len(cmds) /\ i - 1 = k + (j - 1)
      BY <1>1, <2>1, <3>1
    <3>4. v[i - 1] = cmds[j - 1]
      BY <1>1, <3>3
    <3> QED BY <2>2, <3>2, <3>4
  <2>5. v[i].op = "publish" => Mails(v[i].msgs) = {}
    BY <2>2 DEF Tidy
  <2> QED BY <2>3, <2>4, <2>5
<1> QED BY <1>3, <1>4

\* How the pipeline goes on when its first command is taken.
LEMMA TidyTail ==
  ASSUME NEW p \in Seq(Command), p # <<>>, Tidy(p)
  PROVE  /\ Tidy(Tail(p)) /\ Tail(p) \in Seq(Command)
         /\ Head(p).op = "publish" => Mails(Head(p).msgs) = {}
         /\ Head(p).op = "lrange" =>
              Tail(p) # <<>> /\ Head(Tail(p)).op = "del" /\ Head(Tail(p)).name = Head(p).name
         /\ Tail(p) # <<>> /\ Head(Tail(p)).op = "del" =>
              Head(p).op = "lrange" /\ Head(Tail(p)).name = Head(p).name
<1> DEFINE t == Tail(p)
<1>1. /\ t \in Seq(Command) /\ Len(t) = Len(p) - 1 /\ Len(p) \in Nat /\ Len(p) > 0
      /\ \A i \in 1 .. Len(p) - 1 : t[i] = p[i + 1]
      /\ Head(p) = p[1]
  OBVIOUS
<1>2. (t # <<>> <=> Len(p) > 1) /\ (t # <<>> => Head(t) = t[1])
  <2>1. (t # <<>> <=> Len(t) > 0) /\ (t # <<>> => Head(t) = t[1])
    <3>1. t \in Seq(Command)
      BY <1>1
    <3> HIDE DEF t
    <3> QED BY <3>1
  <2> QED BY <1>1, <2>1
<1>3. t # <<>> => Head(t) = p[2] /\ 2 \in 1 .. Len(p)
  <2>1. SUFFICES ASSUME t # <<>> PROVE Head(t) = p[2] /\ 2 \in 1 .. Len(p)
    OBVIOUS
  <2>2. Head(t) = t[1]
    BY <1>2, <2>1
  <2>3. 1 \in 1 .. Len(p) - 1 /\ 1 + 1 = 2
    BY <1>1, <1>2, <2>1
  <2>4. t[1] = p[2]
    BY <1>1, <2>3
  <2> HIDE DEF t
  <2> QED BY <2>2, <2>3, <2>4
<1> HIDE DEF t
<1>4. 1 \in 1 .. Len(p)
  BY <1>1
<1>5. Head(p).op = "publish" => Mails(Head(p).msgs) = {}
  BY <1>1, <1>4 DEF Tidy
<1>6. ASSUME Head(p).op = "lrange"
      PROVE  t # <<>> /\ Head(t).op = "del" /\ Head(t).name = Head(p).name
  <2>1. 1 < Len(p) /\ p[1 + 1].op = "del" /\ p[1 + 1].name = p[1].name
    BY <1>1, <1>4, <1>6 DEF Tidy
  <2>2. 1 + 1 = 2
    OBVIOUS
  <2> QED BY <1>1, <1>2, <1>3, <2>1, <2>2
<1>7. ASSUME t # <<>>, Head(t).op = "del"
      PROVE  Head(p).op = "lrange" /\ Head(t).name = Head(p).name
  <2>1. p[2].op = "del" /\ 2 \in 1 .. Len(p) /\ 2 > 1
    BY <1>3, <1>7
  <2>2. p[2 - 1].op = "lrange" /\ p[2 - 1].name = p[2].name
    BY <2>1 DEF Tidy
  <2>3. 2 - 1 = 1
    OBVIOUS
  <2> QED BY <1>1, <1>3, <1>7, <2>2, <2>3
<1>8. Tidy(t)
  <2>1. SUFFICES ASSUME NEW i \in 1 .. Len(t)
        PROVE /\ t[i].op = "lrange" =>
                   i < Len(t) /\ t[i + 1].op = "del" /\ t[i + 1].name = t[i].name
              /\ t[i].op = "del" /\ i > 1 =>
                   t[i - 1].op = "lrange" /\ t[i - 1].name = t[i].name
              /\ t[i].op = "publish" => Mails(t[i].msgs) = {}
    BY DEF Tidy
  <2> DEFINE j == i + 1
  <2>2. /\ j \in 1 .. Len(p) /\ t[i] = p[j]
        /\ j < Len(p) => i < Len(t) /\ t[i + 1] = p[j + 1]
        /\ i > 1 => j > 1 /\ t[i - 1] = p[j - 1]
    <3>1. i \in 1 .. Len(p) - 1
      BY <1>1
    <3>2. j \in 1 .. Len(p) /\ t[i] = p[j]
      BY <1>1, <3>1
    <3>3. ASSUME j < Len(p) PROVE i < Len(t) /\ t[i + 1] = p[j + 1]
      <4>1. i + 1 \in 1 .. Len(p) - 1
        BY <1>1, <3>1, <3>3
      <4> QED BY <1>1, <4>1
    <3>4. ASSUME i > 1 PROVE j > 1 /\ t[i - 1] = p[j - 1]
      <4>1. i - 1 \in 1 .. Len(p) - 1 /\ (i - 1) + 1 = j - 1 /\ j > 1
        BY <1>1, <3>1, <3>4
      <4> QED BY <1>1, <4>1
    <3> QED BY <3>2, <3>3, <3>4
  <2> HIDE DEF j
  <2>3. /\ p[j].op = "lrange" =>
             j < Len(p) /\ p[j + 1].op = "del" /\ p[j + 1].name = p[j].name
        /\ p[j].op = "del" /\ j > 1 =>
             p[j - 1].op = "lrange" /\ p[j - 1].name = p[j].name
        /\ p[j].op = "publish" => Mails(p[j].msgs) = {}
    BY <2>2 DEF Tidy
  <2> QED BY <2>2, <2>3
<1>9. /\ Tidy(t) /\ t \in Seq(Command)
      /\ Head(p).op = "publish" => Mails(Head(p).msgs) = {}
      /\ Head(p).op = "lrange" =>
           t # <<>> /\ Head(t).op = "del" /\ Head(t).name = Head(p).name
      /\ t # <<>> /\ Head(t).op = "del" =>
           Head(p).op = "lrange" /\ Head(t).name = Head(p).name
  BY <1>1, <1>5, <1>6, <1>7, <1>8
<1> QED BY <1>9 DEF t

LEMMA BareAppend ==
  ASSUME NEW r \in Seq(Event), Bare(r), NEW e \in Event,
         e.type # "lrange" => Mails(e.msgs) = {}
  PROVE  Bare(Append(r, e))
<1>1. /\ Len(Append(r, e)) = Len(r) + 1 /\ Len(r) \in Nat
      /\ \A i \in 1 .. Len(r) : Append(r, e)[i] = r[i]
      /\ Append(r, e)[Len(r) + 1] = e
      /\ \A i \in 1 .. Len(r) + 1 : i \in 1 .. Len(r) \/ i = Len(r) + 1
  OBVIOUS
<1> QED BY <1>1 DEF Bare

LEMMA BareTail ==
  ASSUME NEW r \in Seq(Event), r # <<>>, Bare(r)
  PROVE  /\ Bare(Tail(r))
         /\ Head(r).type # "lrange" => Mails(Head(r).msgs) = {}
<1>1. /\ Len(Tail(r)) = Len(r) - 1 /\ Len(r) \in Nat /\ Len(r) > 0
      /\ \A i \in 1 .. Len(r) - 1 : Tail(r)[i] = r[i + 1] /\ i + 1 \in 1 .. Len(r)
      /\ Head(r) = r[1] /\ 1 \in 1 .. Len(r)
  OBVIOUS
<1> QED BY <1>1 DEF Bare

\* The commands the handlers request, and the mail they store.
LEMMA StoreNone ==
  ASSUME NEW cmds \in Seq(Command), \A i \in 1 .. Len(cmds) : cmds[i].op # "rpush", NEW m
  PROVE  Store(cmds, <<>>, m)
<1>1. DOMAIN Contents(cmds) = 1 .. Len(cmds)
      /\ \A i \in 1 .. Len(cmds) : Contents(cmds)[i] = <<>>
  BY DEF Contents, Content
<1> QED BY <1>1, InNone DEF Store, Has, Single

LEMMA StoreOne ==
  ASSUME NEW name, NEW msgs, NEW m
  PROVE  Store(StoreCmds(name, msgs), msgs, m)
<1>1. CASE msgs = <<>>
  <2>1. StoreCmds(name, msgs) = <<>> /\ Len(<<>>) = 0
    BY <1>1 DEF StoreCmds
  <2>2. DOMAIN Contents(<<>>) = {}
    BY DEF Contents
  <2> QED BY <1>1, <2>1, <2>2, InNone DEF Store, Has, Single
<1>2. CASE msgs # <<>>
  <2> DEFINE c == Cmd("rpush", ChatKey(name), msgs)
             f == Contents(<<c>>)
  <2>1. c.op = "rpush" /\ c.msgs = msgs
    BY DEF Cmd
  <2>2. StoreCmds(name, msgs) = <<c>>
    BY <1>2 DEF StoreCmds
  <2> HIDE DEF c
  <2>3. Len(<<c>>) = 1 /\ <<c>>[1] = c
    OBVIOUS
  <2>4. DOMAIN f = {1} /\ f[1] = msgs
    BY <2>1, <2>3 DEF Contents, Content
  <2> HIDE DEF f
  <2>5. (Has(f, m) <=> In(msgs, m)) /\ (Once(msgs, m) => Single(f, m))
    BY <2>4 DEF Has, Single
  <2> QED BY <2>2, <2>5 DEF Store, f
<1> QED BY <1>1, <1>2

LEMMA ProperNone == Proper(<<>>) /\ \A m : Store(<<>>, <<>>, m)
<1>1. <<>> \in Seq(Command) /\ Len(<<>>) = 0
  OBVIOUS
<1> DEFINE c == <<>>
<1>2. c \in Seq(Command) /\ \A i \in 1 .. Len(c) : c[i].op # "rpush"
  BY <1>1
<1>3. Tidy(c)
  BY <1>1 DEF Tidy
<1>4. Proper(c)
  BY <1>2, <1>3 DEF Proper
<1> HIDE DEF c
<1>5. \A m : Store(c, <<>>, m)
  BY <1>2, StoreNone
<1> QED BY <1>4, <1>5 DEF c

LEMMA ProperStore ==
  ASSUME NEW name \in Names(0 .. 1), NEW msgs \in Seq(Msg)
  PROVE  Proper(StoreCmds(name, msgs))
<1>1. CASE msgs = <<>>
  BY <1>1, ProperNone DEF StoreCmds
<1>2. CASE msgs # <<>>
  <2> DEFINE c == Cmd("rpush", ChatKey(name), msgs)
             cmds == <<c>>
  <2>1. c \in Command /\ c.op = "rpush"
    BY NameTypes, CmdTypes DEF Cmd
  <2> HIDE DEF c
  <2>2. cmds \in Seq(Command) /\ Len(cmds) = 1 /\ cmds[1] = c
    BY <2>1
  <2> HIDE DEF cmds
  <2>3. Proper(cmds)
    BY <2>1, <2>2 DEF Proper, Tidy
  <2> QED BY <1>2, <2>3 DEF StoreCmds, cmds, c
<1> QED BY <1>1, <1>2

LEMMA ProperLogin ==
  ASSUME NEW u \in User
  PROVE  Proper(LoginCmds(u)) /\ \A m : Store(LoginCmds(u), <<>>, m)
<1> DEFINE c == LoginCmds(u)
<1>1. c \in Seq(Command)
  BY LoginCmdsType
<1>2. /\ Len(c) = 3 /\ c[1].op = "subscribe" /\ c[2].op = "lrange"
      /\ c[3].op = "del" /\ c[3].name = c[2].name
  BY DEF LoginCmds, Cmd
<1> HIDE DEF c
<1>3. \A i \in 1 .. Len(c) : i = 1 \/ i = 2 \/ i = 3
  BY <1>2
<1>4. Tidy(c)
  <2>1. SUFFICES ASSUME NEW i \in 1 .. Len(c)
        PROVE /\ c[i].op = "lrange" =>
                   i < Len(c) /\ c[i + 1].op = "del" /\ c[i + 1].name = c[i].name
              /\ c[i].op = "del" /\ i > 1 =>
                   c[i - 1].op = "lrange" /\ c[i - 1].name = c[i].name
              /\ c[i].op = "publish" => Mails(c[i].msgs) = {}
    BY DEF Tidy
  <2>2. 2 + 1 = 3 /\ 3 - 1 = 2
    OBVIOUS
  <2> QED BY <1>2, <1>3, <2>2
<1>5. \A i \in 1 .. Len(c) : c[i].op # "rpush"
  BY <1>2, <1>3
<1>6. Proper(c) /\ \A m : Store(c, <<>>, m)
  BY <1>1, <1>2, <1>4, <1>5, StoreNone DEF Proper
<1> QED BY <1>6 DEF c

LEMMA ProperRead ==
  ASSUME NEW key \in Key, NEW c, c = <<Cmd("lrange", key, <<>>), Cmd("del", key, <<>>)>>
  PROVE  Proper(c) /\ \A m : Store(c, <<>>, m)
<1>1. c \in Seq(Command)
  <2>1. <<>> \in Seq(Msg)
    OBVIOUS
  <2>2. Cmd("lrange", key, <<>>) \in Command /\ Cmd("del", key, <<>>) \in Command
    BY <2>1, CmdTypes
  <2> QED BY <2>2
<1>2. /\ Len(c) = 2 /\ c[1].op = "lrange"
      /\ c[2].op = "del" /\ c[2].name = c[1].name
  BY DEF Cmd
<1>3. \A i \in 1 .. Len(c) : i = 1 \/ i = 2
  BY <1>2
<1>4. Tidy(c)
  <2>1. SUFFICES ASSUME NEW i \in 1 .. Len(c)
        PROVE /\ c[i].op = "lrange" =>
                   i < Len(c) /\ c[i + 1].op = "del" /\ c[i + 1].name = c[i].name
              /\ c[i].op = "del" /\ i > 1 =>
                   c[i - 1].op = "lrange" /\ c[i - 1].name = c[i].name
              /\ c[i].op = "publish" => Mails(c[i].msgs) = {}
    BY DEF Tidy
  <2>2. 1 + 1 = 2 /\ 2 - 1 = 1
    OBVIOUS
  <2> QED BY <1>2, <1>3, <2>2
<1>5. \A i \in 1 .. Len(c) : c[i].op # "rpush"
  BY <1>2, <1>3
<1> QED BY <1>1, <1>2, <1>4, <1>5, StoreNone DEF Proper

\* A request of one command.
LEMMA ProperSingle ==
  ASSUME NEW c \in Command, c.op \in {"unsubscribe", "publish", "quit"},
         c.op = "publish" => Mails(c.msgs) = {}
  PROVE  Proper(<<c>>) /\ \A m : Store(<<c>>, <<>>, m)
<1> DEFINE cmds == <<c>>
<1>1. cmds \in Seq(Command) /\ Len(cmds) = 1 /\ cmds[1] = c
  OBVIOUS
<1> HIDE DEF cmds
<1>2. \A i \in 1 .. Len(cmds) : cmds[i] = c
  BY <1>1
<1>3. Tidy(cmds) /\ \A i \in 1 .. Len(cmds) : cmds[i].op # "rpush"
  BY <1>2 DEF Tidy
<1>4. Proper(cmds) /\ \A m : Store(cmds, <<>>, m)
  BY <1>1, <1>3, StoreNone DEF Proper
<1> QED BY <1>4 DEF cmds

LEMMA ProperLogout ==
  ASSUME NEW u \in User, NEW msgs \in Seq(Msg)
  PROVE  Proper(LogoutCmds(u, msgs)) /\ \A m : Store(LogoutCmds(u, msgs), msgs, m)
<1> DEFINE c == Cmd("unsubscribe", UserId(u), <<>>)
           p == <<c>>
           q == StoreCmds(UserId(u), msgs)
<1>1. c \in Command /\ c.op = "unsubscribe"
  <2>1. <<>> \in Seq(Msg)
    OBVIOUS
  <2> QED BY <2>1, NameTypes, CmdTypes DEF Cmd
<1>2. LogoutCmds(u, msgs) = p \o q
  BY DEF LogoutCmds
<1>3. Proper(q) /\ \A m : Store(q, msgs, m)
  BY NameTypes, ProperStore, StoreOne
<1>4. p # <<>> /\ p[1] = c /\ Len(p) = 1
  OBVIOUS
<1> HIDE DEF c
<1>5. Proper(p) /\ \A m : Store(p, <<>>, m)
  BY <1>1, ProperSingle
<1> HIDE DEF p, q
<1>6. Tidy(p \o q) /\ p \o q \in Seq(Command)
  BY <1>3, <1>5, TidyConcat DEF Proper
<1>7. p \o q # <<>> /\ (p \o q)[1] = c
  <2>1. p \in Seq(Command) /\ q \in Seq(Command)
    BY <1>3, <1>5 DEF Proper
  <2> QED BY <1>4, <2>1
<1>8. Proper(p \o q)
  BY <1>1, <1>6, <1>7 DEF Proper
<1>9. ASSUME NEW m PROVE Store(p \o q, msgs, m)
  <2>1. Plus(Contents(p), msgs, Contents(p \o q), m)
    BY <1>3, <1>5, PipeRequest DEF Proper
  <2>2. ~Has(Contents(p), m) /\ Single(Contents(p), m)
    BY <1>5, InNone DEF Store
  <2> QED BY <2>1, <2>2 DEF Plus, Store
<1> QED BY <1>2, <1>8, <1>9

-----------------------------------------------------------------------------
(* The one process, and the places where its mail is.                      *)

TheNode == CHOOSE n \in Node : TRUE
OneProcess == Node = {TheNode}

\* A DEL of key is the next command that Redis executes.
Front(p, k, key) ==
  p # <<>> /\ k # "closed" /\ Head(p).op = "del" /\ Head(p).name = key
ListedOf(l, p, k) == [key \in Key |-> IF Front(p, k, key) THEN <<>> ELSE l[key]]

Queued == Framed(queue)
Listed == ListedOf(lists, pipe[TheNode], link[TheNode])
Piped == Contents(pipe[TheNode])
Replied == Answers(reply[TheNode])

Somewhere(m) ==
  Has(Queued, m) \/ Has(Listed, m) \/ Has(Piped, m) \/ Has(Replied, m)
\* m is in one place at most.
Alone(m) ==
  /\ Single(Queued, m) /\ Single(Listed, m) /\ Single(Piped, m) /\ Single(Replied, m)
  /\ ~(Has(Queued, m) /\ Has(Listed, m))
  /\ ~(Has(Queued, m) /\ Has(Piped, m))
  /\ ~(Has(Queued, m) /\ Has(Replied, m))
  /\ ~(Has(Listed, m) /\ Has(Piped, m))
  /\ ~(Has(Listed, m) /\ Has(Replied, m))
  /\ ~(Has(Piped, m) /\ Has(Replied, m))

LEMMA DoomedIs ==
  ASSUME OneProcess
  PROVE  /\ \A key : Doomed(key) <=> Front(pipe[TheNode], link[TheNode], key)
         /\ \A key : Doomed(key)' <=> Front(pipe'[TheNode], link'[TheNode], key)
         /\ TheNode \in Node /\ \A n \in Node : n = TheNode
<1>1. TheNode \in Node /\ \A n \in Node : n = TheNode
  BY DEF OneProcess
<1>2. \A key : Doomed(key) <=> DoomedBy(TheNode, key)
  BY <1>1 DEF Doomed
<1>3. \A key : Doomed(key)' <=> DoomedBy(TheNode, key)'
  BY <1>1 DEF Doomed
<1> QED BY <1>1, <1>2, <1>3 DEF DoomedBy, Front

\* What is requested does not change what is executed next.
LEMMA FrontRequest ==
  ASSUME NEW p \in Seq(Command), NEW cmds, Proper(cmds), NEW k
  PROVE  \A key : Front(p \o cmds, k, key) <=> Front(p, k, key)
<1> DEFINE v == p \o cmds
<1>1. cmds \in Seq(Command) /\ (cmds # <<>> => cmds[1].op # "del")
  BY DEF Proper
<1>2. CASE p = <<>>
  <2>1. v = cmds
    BY <1>1, <1>2
  <2>2. v # <<>> => Head(v) = v[1]
    BY <1>1, <2>1
  <2> HIDE DEF v
  <2>3. \A key : ~Front(v, k, key)
    BY <1>1, <2>1, <2>2 DEF Front
  <2>4. \A key : ~Front(p, k, key)
    BY <1>2 DEF Front
  <2> QED BY <2>3, <2>4 DEF v
<1>3. CASE p # <<>>
  <2>1. v # <<>> /\ Head(v) = Head(p)
    BY <1>1, <1>3
  <2> HIDE DEF v
  <2>2. \A key : Front(v, k, key) <=> Front(p, k, key)
    BY <1>3, <2>1 DEF Front
  <2> QED BY <2>2 DEF v
<1> QED BY <1>2, <1>3

\* The next command is DEL only after the LRANGE of the same list.
LEMMA FrontTail ==
  ASSUME NEW p \in Seq(Command), p # <<>>, Tidy(p), NEW k
  PROVE  \A key : Front(Tail(p), k, key) <=>
                    k # "closed" /\ Head(p).op = "lrange" /\ Head(p).name = key
  BY TidyTail DEF Front

-----------------------------------------------------------------------------
(* The inductive invariant.                                                *)

PipeInv == \A n \in Node : Tidy(pipe[n]) /\ Bare(reply[n])

\* A process that leaves has QUIT before it; a connection is lost only once.
Quits(p) == \E i \in 1 .. Len(p) : p[i].op = "quit"
LinkInv ==
  \A n \in Node :
    /\ link[n] # "renewed" => severed = {}
    /\ link[n] = "leaving" => Quits(pipe[n])

\* Mail in a queue persists, and the mail of a session that is not logged in
\* was given up when it was overridden.
QueueOk(q, h, d) ==
  \A s \in Session : \A i \in 1 .. Len(q[s]) :
    q[s][i].msg \in Mail =>
      q[s][i].persist /\ (h[s] = None => q[s][i].msg \in d)
QueueInv == QueueOk(queue, hash, givenUp)

\* Nothing is anywhere that was not sent.
InDoomed(m) == \E key \in Key : Doomed(key) /\ In(lists[key], m)
SentInv ==
  \A m \in Mail :
    Somewhere(m) \/ InDoomed(m) \/ m \in Settled \cup severed => to[m] # None

\* Mail that was neither given up nor severed is in one place, until it is
\* delivered or expires, and then it is nowhere.
Gone == Delivered \cup expired
Clean(m) ==
  /\ Alone(m)
  /\ to[m] # None => Somewhere(m) \/ m \in Gone
  /\ m \in Gone => ~Somewhere(m)
CleanInv == \A m \in Mail \ (givenUp \cup severed) : Clean(m)

MailboxInv ==
  /\ DeliveryInv /\ AllMeant /\ DeliveredRight
  /\ PipeInv /\ LinkInv /\ QueueInv /\ SentInv /\ CleanInv

\* What a step may do to a message that was sent before, and to the one that it
\* accepts.
Fate(m) ==
  /\ Alone(m) => Alone(m)'
  /\ Somewhere(m)' => Somewhere(m)
  /\ Somewhere(m) => Somewhere(m)' \/ m \in Gone'
  /\ m \in Gone' /\ m \notin Gone => Somewhere(m) /\ (Alone(m) => ~Somewhere(m)')
Enters(m) == ~Somewhere(m) => Alone(m)' /\ Somewhere(m)'

LEMMA MailboxTypes ==
  ASSUME DeliveryInv
  PROVE  /\ Inv /\ MapSound
         /\ queue \in [Session -> Seq(Entry)] /\ lists \in [Key -> Seq(Msg)]
         /\ link \in [Node -> {"up", "renewed", "leaving", "closed"}]
         /\ \A n \in Node :
              /\ pipe[n] \in Seq(Command) /\ reply[n] \in Seq(Event)
              /\ chatQueue[n] \in Seq(Names(0 .. 1))
<1>1. Inv /\ MapSound
  BY DEF DeliveryInv, MapInv
<1>2. /\ queue \in [Session -> Seq(Entry)] /\ lists \in [Key -> Seq(Msg)]
      /\ link \in [Node -> {"up", "renewed", "leaving", "closed"}]
  BY <1>1 DEF Inv, TypeOK, SessionTypeOK, RedisTypeOK
<1> QED BY <1>1, <1>2, DeliveryTypes

LEMMA SameSelf == \A f, m : Same(f, f, m)
  BY DEF Same

\* m stays where it is.
LEMMA FateStill ==
  ASSUME NEW m, Same(Queued, Queued', m), Same(Listed, Listed', m),
         Same(Piped, Piped', m), Same(Replied, Replied', m), m \in Gone' => m \in Gone
  PROVE  Fate(m)
  BY DEF Fate, Same, Somewhere, Alone

\* What a user is sent is pushed to his session or stored in his list.
Handed(v, m) ==
  \/ Plus(Queued, v, Queued', m) /\ Same(Piped, Piped', m)
  \/ Same(Queued, Queued', m) /\ Plus(Piped, v, Piped', m)

LEMMA FateEnters ==
  ASSUME NEW m, Handed(<<m>>, m), Same(Listed, Listed', m), Same(Replied, Replied', m)
  PROVE  Enters(m)
<1>1. In(<<m>>, m) /\ Once(<<m>>, m)
  BY InOne
<1> DEFINE v == <<m>>
<1> HIDE DEF v
<1>2. In(v, m) /\ Once(v, m) /\ Handed(v, m)
  BY <1>1 DEF v
<1>3. \A f : ~Has(f, m) => Single(f, m)
  BY DEF Has, Single
<1> QED BY <1>2, <1>3 DEF Enters, Handed, Plus, Same, Somewhere, Alone

LEMMA FateOther ==
  ASSUME NEW v, NEW m, Handed(v, m), ~In(v, m),
         Same(Listed, Listed', m), Same(Replied, Replied', m), m \in Gone' => m \in Gone
  PROVE  Fate(m)
<1>1. Same(Queued, Queued', m) /\ Same(Piped, Piped', m)
  BY PlusNone DEF Handed
<1> QED BY <1>1, FateStill

\* An answer is handed on.
LEMMA FateAnswered ==
  ASSUME NEW v, NEW m, Handed(v, m), Same(Listed, Listed', m),
         Minus(Replied, v, Replied', m), m \in Gone' => m \in Gone
  PROVE  Fate(m)
<1>1. CASE Plus(Queued, v, Queued', m) /\ Same(Piped, Piped', m)
  BY <1>1 DEF Fate, Plus, Minus, Same, Somewhere, Alone
<1>2. CASE Same(Queued, Queued', m) /\ Plus(Piped, v, Piped', m)
  BY <1>2 DEF Fate, Plus, Minus, Same, Somewhere, Alone
<1> QED BY <1>1, <1>2 DEF Handed

\* What a session leaves unsent is stored: v in its queue, w in the commands.
LEMMA FateStored ==
  ASSUME NEW v, NEW w, NEW m, In(w, m) <=> In(v, m), Once(v, m) => Once(w, m),
         Minus(Queued, v, Queued', m), Plus(Piped, w, Piped', m),
         Same(Listed, Listed', m), Same(Replied, Replied', m), m \in Gone' => m \in Gone
  PROVE  Fate(m)
  BY DEF Fate, Plus, Minus, Same, Somewhere, Alone

LEMMA FateWritten ==
  ASSUME NEW v, NEW m, Minus(Queued, v, Queued', m),
         In(v, m) => m \in Gone', m \in Gone' /\ m \notin Gone => In(v, m),
         Same(Piped, Piped', m), Same(Listed, Listed', m), Same(Replied, Replied', m)
  PROVE  Fate(m)
  BY DEF Fate, Minus, Same, Somewhere, Alone

LEMMA FateExpired ==
  ASSUME NEW v, NEW m, Minus(Listed, v, Listed', m),
         In(v, m) => m \in Gone', m \in Gone' /\ m \notin Gone => In(v, m),
         Same(Piped, Piped', m), Same(Queued, Queued', m), Same(Replied, Replied', m)
  PROVE  Fate(m)
  BY DEF Fate, Minus, Same, Somewhere, Alone

LEMMA FateRead ==
  ASSUME NEW v, NEW m, Minus(Listed, v, Listed', m), Plus(Replied, v, Replied', m),
         Same(Piped, Piped', m), Same(Queued, Queued', m), m \in Gone' => m \in Gone
  PROVE  Fate(m)
  BY DEF Fate, Plus, Minus, Same, Somewhere, Alone

LEMMA FateRpush ==
  ASSUME NEW v, NEW m, Minus(Piped, v, Piped', m), Plus(Listed, v, Listed', m),
         Same(Queued, Queued', m), Same(Replied, Replied', m), m \in Gone' => m \in Gone
  PROVE  Fate(m)
  BY DEF Fate, Plus, Minus, Same, Somewhere, Alone

-----------------------------------------------------------------------------
(* What a step does to the commands of the process and their order.        *)

\* A step that leaves the pipeline in order.
Orderly ==
  /\ PipeInv' /\ LinkInv'
  /\ \A m \in Mail : InDoomed(m)' => Somewhere(m) \/ InDoomed(m)

LEMMA SameRedis ==
  ASSUME OneProcess, PipeInv, LinkInv, UNCHANGED <<lists, pipe, reply, link, severed>>
  PROVE  Orderly /\ UNCHANGED <<Listed, Piped, Replied>>
<1>1. PipeInv' /\ LinkInv'
  BY DEF PipeInv, LinkInv
<1>2. UNCHANGED <<Listed, Piped, Replied>>
  BY DEF Listed, ListedOf, Piped, Replied
<1>3. \A key : Doomed(key)' => Doomed(key)
  BY DoomedIs
<1>4. \A m \in Mail : InDoomed(m)' => InDoomed(m)
  BY <1>3 DEF InDoomed
<1> QED BY <1>1, <1>2, <1>4 DEF Orderly

LEMMA LinkStays ==
  ASSUME LinkInv, UNCHANGED <<link, severed>>,
         \A n \in Node : Quits(pipe[n]) => Quits(pipe'[n])
  PROVE  LinkInv'
  BY DEF LinkInv

LEMMA QuitsConcat ==
  ASSUME NEW p \in Seq(Command), NEW c \in Seq(Command)
  PROVE  Quits(p \o c) <=> Quits(p) \/ Quits(c)
<1>1. \A i \in 1 .. Len(p) : i \in 1 .. Len(p \o c) /\ (p \o c)[i] = p[i]
  OBVIOUS
<1>2. \A i \in 1 .. Len(c) : Len(p) + i \in 1 .. Len(p \o c) /\ (p \o c)[Len(p) + i] = c[i]
  OBVIOUS
<1>3. \A i \in 1 .. Len(p \o c) :
        \/ i \in 1 .. Len(p) /\ (p \o c)[i] = p[i]
        \/ i - Len(p) \in 1 .. Len(c) /\ (p \o c)[i] = c[i - Len(p)]
  OBVIOUS
<1> DEFINE v == p \o c
<1> HIDE DEF v
<1>4. /\ \A i \in 1 .. Len(p) : i \in 1 .. Len(v) /\ v[i] = p[i]
      /\ \A i \in 1 .. Len(c) : Len(p) + i \in 1 .. Len(v) /\ v[Len(p) + i] = c[i]
      /\ \A i \in 1 .. Len(v) :
        \/ i \in 1 .. Len(p) /\ v[i] = p[i]
        \/ i - Len(p) \in 1 .. Len(c) /\ v[i] = c[i - Len(p)]
  BY <1>1, <1>2, <1>3 DEF v
<1>5. Quits(p) => Quits(v)
  BY <1>4 DEF Quits
<1>6. Quits(c) => Quits(v)
  BY <1>4 DEF Quits
<1>7. Quits(v) => Quits(p) \/ Quits(c)
  BY <1>4 DEF Quits
<1> QED BY <1>5, <1>6, <1>7 DEF v

\* A request comes behind what is in the pipeline.
LEMMA Requested ==
  ASSUME OneProcess, Inv, PipeInv, NEW n \in Node, NEW cmds, Proper(cmds),
         Request(n, cmds), UNCHANGED lists,
         link'[n] = "closed" <=> link[n] = "closed"
  PROVE  /\ Listed' = Listed
         /\ \A m : InDoomed(m)' => InDoomed(m)
         /\ \A i \in Node : Tidy(pipe'[i])
         /\ \A i \in Node : Quits(pipe[i]) => Quits(pipe'[i])
         /\ \A v, m : Store(cmds, v, m) => Plus(Piped, v, Piped', m)
<1>1. n = TheNode /\ \A i \in Node : i = n
  BY DoomedIs
<1>2. pipe'[n] = pipe[n] \o cmds /\ pipe[n] \in Seq(Command)
  BY RequestEffect, DeliveryTypes
<1>3. cmds \in Seq(Command) /\ Tidy(pipe[n])
  BY DEF Proper, PipeInv
<1>4. \A key : Front(pipe'[n], link'[n], key) <=> Front(pipe[n], link[n], key)
  <2>1. \A key : Front(pipe'[n], link'[n], key) <=> Front(pipe'[n], link[n], key)
    BY DEF Front
  <2>2. \A key : Front(pipe[n] \o cmds, link[n], key) <=> Front(pipe[n], link[n], key)
    BY <1>2, FrontRequest
  <2> QED BY <1>2, <2>1, <2>2
<1>5. Listed' = Listed
  BY <1>1, <1>4 DEF Listed, ListedOf
<1>6. \A m : InDoomed(m)' => InDoomed(m)
  <2>1. \A key : Doomed(key)' => Doomed(key)
    BY <1>1, <1>4, DoomedIs
  <2> QED BY <2>1 DEF InDoomed
<1>7. Tidy(pipe'[n])
  BY <1>2, <1>3, TidyConcat
<1>8. Quits(pipe[n]) => Quits(pipe'[n])
  BY <1>2, <1>3, QuitsConcat
<1>9. ASSUME NEW v, NEW m, Store(cmds, v, m) PROVE Plus(Piped, v, Piped', m)
  <2>1. Plus(Contents(pipe[n]), v, Contents(pipe[n] \o cmds), m)
    BY <1>2, <1>3, <1>9, PipeRequest
  <2> QED BY <1>1, <1>2, <2>1 DEF Piped
<1> QED BY <1>1, <1>5, <1>6, <1>7, <1>8, <1>9

\* A request when Redis does nothing.
LEMMA RequestOrderly ==
  ASSUME OneProcess, Inv, PipeInv, LinkInv, NEW n \in Node, NEW cmds, Proper(cmds),
         Request(n, cmds), UNCHANGED <<lists, link, severed>>,
         \A i \in Node : Bare(reply'[i])
  PROVE  /\ Orderly /\ Listed' = Listed
         /\ \A v, m : Store(cmds, v, m) => Plus(Piped, v, Piped', m)
<1>1. /\ Listed' = Listed
      /\ \A m : InDoomed(m)' => InDoomed(m)
      /\ \A i \in Node : Tidy(pipe'[i])
      /\ \A i \in Node : Quits(pipe[i]) => Quits(pipe'[i])
      /\ \A v, m : Store(cmds, v, m) => Plus(Piped, v, Piped', m)
  BY Requested
<1>2. LinkInv'
  BY <1>1, LinkStays
<1>3. PipeInv'
  BY <1>1 DEF PipeInv
<1> QED BY <1>1, <1>2, <1>3 DEF Orderly

\* An answer or a push is taken off the connection.
LEMMA Received ==
  ASSUME OneProcess, Inv, PipeInv, NEW n \in Node, NEW type, Receive(n, type)
  PROVE  /\ \A i \in Node : Bare(reply'[i])
         /\ Head(reply[n]) \in Event /\ Head(reply[n]).msgs \in Seq(Msg)
         /\ Head(reply[n]).type # "lrange" => Mails(Head(reply[n]).msgs) = {}
         /\ \A m : Minus(Replied, Head(reply[n]).msgs, Replied', m)
<1>1. n = TheNode /\ \A i \in Node : i = n
  BY DoomedIs
<1>2. /\ reply[n] \in Seq(Event) /\ reply[n] # <<>> /\ Bare(reply[n])
      /\ Head(reply[n]).type = type
  BY DeliveryTypes DEF Receive, PipeInv
<1>3. reply'[n] = Tail(reply[n])
  BY DEF Receive, Inv, TypeOK, RedisTypeOK
<1>4. Bare(reply'[n]) /\ (Head(reply[n]).type # "lrange" => Mails(Head(reply[n]).msgs) = {})
  BY <1>2, <1>3, BareTail
<1>5. Head(reply[n]) \in Event /\ Head(reply[n]).msgs \in Seq(Msg)
  BY <1>2, EventTypes
<1>6. \A m : Minus(Replied, Head(reply[n]).msgs, Replied', m)
  BY <1>1, <1>2, <1>3, AnswerTaken DEF Replied
<1> QED BY <1>1, <1>4, <1>5, <1>6

-----------------------------------------------------------------------------
(* What a step does to the queues.                                         *)

\* Where user name is found, one session is sent what is for him.
LEMMA PeersFound ==
  ASSUME Inv, MapSound, NEW n \in Node, NEW name \in Names(0 .. 1)
  PROVE  /\ ~Found(n, name) => Peers(n, name) = {}
         /\ Found(n, name) => \E x \in Session : Peers(n, name) = {x} /\ hash[x] # None
<1>1. ~Found(n, name) => Peers(n, name) = {}
  BY DEF Peers
<1>2. ASSUME Found(n, name)
      PROVE  \E x \in Session : Peers(n, name) = {x} /\ hash[x] # None
  <2> DEFINE x == sessions[n][name.user]
  <2>1. name.user \in User
    BY DEF Names
  <2>2. x \in Session
    <3>1. x # None
      BY <1>2 DEF Found
    <3> QED BY <2>1, <3>1 DEF Inv, TypeOK, WorkerTypeOK
  <2>3. Open(x) /\ hash[x] = name.user
    BY <1>2, <2>1 DEF Found, MapSound, EntryIsSession
  <2>4. hash[x] # None
    BY <2>1, <2>3, ConstantsDiffer
  <2>5. Peers(n, name) = {x}
    BY <1>2, <2>2, <2>3 DEF Peers
  <2> HIDE DEF x
  <2> QED BY <2>2, <2>4, <2>5
<1> QED BY <1>1, <1>2

LEMMA PushNobody ==
  ASSUME NEW q \in [Session -> Seq(Entry)], NEW msgs, NEW persist
  PROVE  PushAll(q, {}, msgs, persist) = q
  BY DEF PushAll

\* An entry of a queue is one that was there, or one that is new.
Pushed(q, S, msgs, persist, r) ==
  \A s \in Session : \A i \in 1 .. Len(r[s]) :
    \/ i \in 1 .. Len(q[s]) /\ r[s][i] = q[s][i]
    \/ /\ s \in S /\ r[s][i].persist = persist
       /\ \E k \in 1 .. Len(msgs) : r[s][i].msg = msgs[k]

LEMMA PushedEntries ==
  ASSUME NEW q \in [Session -> Seq(Entry)], NEW S, NEW msgs,
         NEW persist \in BOOLEAN,
         msgs \in Seq(Msg) \/ (msgs = <<Ack>> /\ persist = FALSE)
  PROVE  Pushed(q, S, msgs, persist, PushAll(q, S, msgs, persist))
<1> SUFFICES ASSUME NEW s \in Session, NEW i \in 1 .. Len(PushAll(q, S, msgs, persist)[s])
    PROVE  \/ i \in 1 .. Len(q[s]) /\ PushAll(q, S, msgs, persist)[s][i] = q[s][i]
           \/ /\ s \in S
              /\ PushAll(q, S, msgs, persist)[s][i].persist = persist
              /\ \E k \in 1 .. Len(msgs) : PushAll(q, S, msgs, persist)[s][i].msg = msgs[k]
  BY DEF Pushed
<1> DEFINE new == [k \in 1 .. Len(msgs) |-> [msg |-> msgs[k], persist |-> persist]]
<1>1. new \in Seq(Entry) /\ Len(msgs) \in Nat
  <2>1. new \in Seq(Entry)
    BY FramesOf
  <2> QED BY <2>1
<1>2. /\ Len(new) = Len(msgs)
      /\ \A k \in 1 .. Len(msgs) : new[k].msg = msgs[k] /\ new[k].persist = persist
  BY <1>1
<1>3. q[s] \in Seq(Entry)
  OBVIOUS
<1>4. PushAll(q, S, msgs, persist)[s] = IF s \in S THEN q[s] \o new ELSE q[s]
  BY DEF PushAll
<1> HIDE DEF new
<1>5. CASE s \notin S
  BY <1>4, <1>5
<1>6. CASE s \in S
  <2> DEFINE v == q[s] \o new
  <2>1. PushAll(q, S, msgs, persist)[s] = v
    BY <1>4, <1>6
  <2>2. \/ i \in 1 .. Len(q[s]) /\ v[i] = q[s][i]
        \/ i - Len(q[s]) \in 1 .. Len(new) /\ v[i] = new[i - Len(q[s])]
    BY <1>1, <1>3, <2>1
  <2> HIDE DEF v
  <2> QED BY <1>2, <1>6, <2>1, <2>2
<1> QED BY <1>5, <1>6

LEMMA QueuePushed ==
  ASSUME NEW q \in [Session -> Seq(Entry)], NEW S, NEW msgs,
         NEW persist \in BOOLEAN,
         msgs \in Seq(Msg) \/ (msgs = <<Ack>> /\ persist = FALSE),
         NEW h, NEW d, QueueOk(q, h, d),
         Mails(msgs) = {} \/ (persist = TRUE /\ \A s \in S : h[s] # None)
  PROVE  QueueOk(PushAll(q, S, msgs, persist), h, d)
<1> DEFINE r == PushAll(q, S, msgs, persist)
<1>1. Pushed(q, S, msgs, persist, r)
  BY PushedEntries
<1>2. Mails(msgs) = {} => \A k \in 1 .. Len(msgs) : msgs[k] \notin Mail
  BY MailIn
<1> HIDE DEF r
<1>3. QueueOk(r, h, d)
  BY <1>1, <1>2 DEF QueueOk, Pushed
<1> QED BY <1>3 DEF r

\* An acknowledgement carries no mail.
LEMMA AckStill ==
  ASSUME NEW q \in [Session -> Seq(Entry)], NEW s \in Session
  PROVE  /\ \A m \in Mail : Same(Framed(q), Framed(SendAck(q, s)), m)
         /\ \A h, d : QueueOk(q, h, d) => QueueOk(SendAck(q, s), h, d)
<1> DEFINE S == {s}
           msgs == <<Ack>>
<1>1. Mails(msgs) = {} /\ FALSE \in BOOLEAN
  BY MailNone
<1>2. \A m \in Mail : ~In(msgs, m)
  BY <1>1, InMails
<1>3. SendAck(q, s) = PushAll(q, S, msgs, FALSE)
  BY DEF SendAck
<1>4. msgs = <<Ack>>
  OBVIOUS
<1> HIDE DEF S, msgs
<1>5. \A m \in Mail : Same(Framed(q), Framed(PushAll(q, S, msgs, FALSE)), m)
  BY <1>1, <1>2, <1>4, PushOthers
<1>6. \A h, d : QueueOk(q, h, d) => QueueOk(PushAll(q, S, msgs, FALSE), h, d)
  BY <1>1, <1>4, QueuePushed
<1> QED BY <1>3, <1>5, <1>6

LEMMA SameThen ==
  ASSUME NEW f, NEW g, NEW h, NEW m, Same(g, h, m)
  PROVE  /\ Same(f, g, m) => Same(f, h, m)
         /\ \A v : Plus(f, v, g, m) => Plus(f, v, h, m)
  BY DEF Same, Plus

\* What a user is sent is pushed to his session if he is found; else it is
\* stored in his list.
LEMMA HandedOn ==
  ASSUME OneProcess, Inv, MapSound, PipeInv, QueueInv, NEW n \in Node,
         NEW name \in Names(0 .. 1), NEW msgs \in Seq(Msg),
         Request(n, IF Found(n, name) THEN <<>> ELSE StoreCmds(name, msgs)),
         NEW q, q = PushAll(queue, Peers(n, name), msgs, TRUE),
         queue' = q \/ \E s \in Session : queue' = SendAck(q, s),
         UNCHANGED <<lists, hash>>, givenUp \subseteq givenUp',
         link'[n] = "closed" <=> link[n] = "closed"
  PROVE  /\ \A m \in Mail : Handed(msgs, m)
         /\ QueueInv'
<1> DEFINE cmds == IF Found(n, name) THEN <<>> ELSE StoreCmds(name, msgs)
<1>1. queue \in [Session -> Seq(Entry)] /\ QueueOk(queue, hash, givenUp) /\ TRUE \in BOOLEAN
  BY DEF Inv, TypeOK, SessionTypeOK, QueueInv
<1>2. q \in [Session -> Seq(Entry)]
  BY <1>1, PushAllType
<1>3. /\ \A m \in Mail : Same(Framed(q), Queued', m)
      /\ QueueOk(q, hash, givenUp) => QueueInv'
  <2>1. \A x : QueueOk(x, hash, givenUp) => QueueOk(x, hash, givenUp')
    BY DEF QueueOk
  <2> QED BY <1>2, <2>1, AckStill, SameSelf DEF Queued, QueueInv
<1>4. CASE Found(n, name)
  <2>1. cmds = <<>>
    BY <1>4
  <2>2. PICK x \in Session : Peers(n, name) = {x} /\ hash[x] # None
    BY <1>4, PeersFound
  <2> DEFINE S == {x}
  <2>3. Peers(n, name) = S /\ \A s \in S : hash[s] # None
    BY <2>2
  <2>4. \A m \in Mail : Plus(Framed(queue), msgs, Framed(PushAll(queue, S, msgs, TRUE)), m)
    BY <1>1, PushPeer
  <2> HIDE DEF S
  <2>5. QueueInv'
    BY <1>1, <1>3, <2>3, QueuePushed
  <2>6. \A m \in Mail : Plus(Queued, msgs, Queued', m)
    BY <1>3, <2>3, <2>4, SameThen DEF Queued
  <2>7. Proper(<<>>) /\ \A m : Store(<<>>, <<>>, m)
    BY ProperNone
  <2>8. \A m \in Mail : Plus(Piped, <<>>, Piped', m)
    BY <1>4, <2>7, Requested
  <2>9. \A m \in Mail : Same(Piped, Piped', m)
    BY <2>8, PlusNone, InNone
  <2> QED BY <2>5, <2>6, <2>9 DEF Handed
<1>5. CASE ~Found(n, name)
  <2>1. Proper(StoreCmds(name, msgs)) /\ \A m : Store(StoreCmds(name, msgs), msgs, m)
    BY ProperStore, StoreOne
  <2>2. Request(n, StoreCmds(name, msgs))
    BY <1>5
  <2>3. \A m \in Mail : Plus(Piped, msgs, Piped', m)
    BY <2>1, <2>2, Requested
  <2>4. q = queue
    BY <1>1, <1>5, PeersFound, PushNobody
  <2>5. QueueInv' /\ \A m \in Mail : Same(Queued, Queued', m)
    BY <1>1, <1>3, <2>4 DEF Queued
  <2> QED BY <2>3, <2>5 DEF Handed
<1> QED BY <1>4, <1>5

-----------------------------------------------------------------------------
(* The steps that accept no message.                                       *)

\* Order is kept, and the messages of F that were sent before are somewhere or
\* have been delivered or expired.
Keeps(F) == Orderly /\ QueueInv' /\ \A m \in F : Fate(m)

LEMMA QuietKeeps ==
  ASSUME OneProcess, MailboxInv, UNCHANGED <<queue, hash, redisVars, history>>
  PROVE  Keeps(Mail)
<1>1. UNCHANGED <<lists, pipe, reply, link, severed, delivered, expired, givenUp>>
  BY DEF redisVars, history
<1>2. Orderly /\ UNCHANGED <<Listed, Piped, Replied>>
  BY <1>1, SameRedis DEF MailboxInv
<1>3. QueueInv' /\ Queued' = Queued /\ Gone' = Gone
  BY <1>1 DEF MailboxInv, QueueInv, Queued, Gone, Delivered
<1>4. ASSUME NEW m PROVE Fate(m)
  BY <1>2, <1>3, SameSelf, FateStill
<1> QED BY <1>2, <1>3, <1>4 DEF Keeps

LEMMA SessionOnlyKeeps ==
  ASSUME OneProcess, MailboxInv, NEW s \in Session,
         \/ OnAppUnknown(s) \/ SessionWriteError(s) \/ SessionPong(s)
         \/ \E n \in Node : SessionRun(s, n)
  PROVE  Keeps(Mail)
<1>1. UNCHANGED <<queue, hash, redisVars, history>>
  BY DEF OnAppUnknown, SessionWriteError, OnWriteError, SessionPong, OnPong,
         SessionRun, OnRun, workerVars
<1> QED BY <1>1, QuietKeeps

LEMMA LoginFailKeeps ==
  ASSUME OneProcess, MailboxInv, NEW s \in Session, OnAppLoginFail(s)
  PROVE  Keeps(Mail)
<1>1. /\ UNCHANGED <<lists, pipe, reply, link, severed, delivered, expired, givenUp, hash>>
      /\ queue' = SendAck(queue, s) /\ queue \in [Session -> Seq(Entry)]
  BY MailboxTypes DEF OnAppLoginFail, Send, redisVars, MailboxInv
<1>2. Orderly /\ UNCHANGED <<Listed, Piped, Replied>>
  BY <1>1, SameRedis DEF MailboxInv
<1>3. Gone' = Gone
  BY <1>1 DEF Gone, Delivered
<1>4. QueueInv' /\ \A m \in Mail : Same(Queued, Queued', m)
  BY <1>1, AckStill DEF MailboxInv, QueueInv, Queued
<1>5. ASSUME NEW m \in Mail PROVE Fate(m)
  BY <1>2, <1>3, <1>4, SameSelf, FateStill
<1> QED BY <1>2, <1>4, <1>5 DEF Keeps

\* The front of the queue was written to the websocket.
LEMMA WriteKeeps ==
  ASSUME OneProcess, MailboxInv, NEW s \in Session, SessionWrite(s)
  PROVE  Keeps(Mail \ givenUp)
<1> DEFINE f == Head(queue[s]).msg
           v == <<f>>
           new == ({f} \cap Mail) \ (givenUp \cup expired)
<1>1. /\ UNCHANGED <<lists, pipe, reply, link, severed, expired, givenUp, hash>>
      /\ queue' = [queue EXCEPT ![s] = Tail(@)] /\ writes[s] > 0
      /\ delivered' = delivered \cup {[user |-> hash[s], mail |-> m] : m \in new}
  BY DEF SessionWrite, OnWrite, redisVars
<1>2. Inv /\ queue \in [Session -> Seq(Entry)]
  BY MailboxTypes DEF MailboxInv
<1>3. queue[s] # <<>>
  BY <1>1, <1>2 DEF Inv, TypeOK, SessionTypeOK, OneWriter
<1>4. Orderly /\ UNCHANGED <<Listed, Piped, Replied>>
  BY <1>1, SameRedis DEF MailboxInv
<1>5. \A m \in Mail \ givenUp : m \in Gone' <=> m \in Gone \/ m = f
  <2> HIDE DEF f, new, v
  <2>1. \A m \in new : [user |-> hash[s], mail |-> m] \in delivered'
    BY <1>1
  <2>2. \A d \in delivered' : d \in delivered \/ d.mail \in new
    BY <1>1
  <2>3. Delivered' = Delivered \cup new
    <3>1. \A m \in new : m \in Delivered'
      <4>1. TAKE m \in new
      <4> DEFINE d == [user |-> hash[s], mail |-> m]
      <4>2. d \in delivered' /\ d.mail = m
        BY <2>1
      <4> HIDE DEF d
      <4> QED BY <4>2 DEF Delivered
    <3>2. Delivered \subseteq Delivered'
      BY <1>1 DEF Delivered
    <3>3. Delivered' \subseteq Delivered \cup new
      BY <2>2 DEF Delivered
    <3> QED BY <3>1, <3>2, <3>3
  <2> QED BY <1>1, <2>3 DEF Gone, new
<1>6. QueueInv'
  <2>1. \A x \in Session : \A i \in 1 .. Len(queue'[x]) :
          \E j \in 1 .. Len(queue[x]) : queue'[x][i] = queue[x][j]
    <3>1. TAKE x \in Session
    <3>2. CASE x # s
      BY <1>1, <1>2, <3>2
    <3>3. CASE x = s
      <4>1. queue[s] \in Seq(Entry) /\ queue'[x] = Tail(queue[s])
        BY <1>1, <1>2, <3>3
      <4> DEFINE q == queue[s]
      <4> HIDE DEF q
      <4>2. \A i \in 1 .. Len(Tail(q)) : i + 1 \in 1 .. Len(q) /\ Tail(q)[i] = q[i + 1]
        BY <1>3, <4>1 DEF q
      <4> QED BY <3>3, <4>1, <4>2 DEF q
    <3> QED BY <3>2, <3>3
  <2> QED BY <1>1, <2>1 DEF MailboxInv, QueueInv, QueueOk
<1>7. ASSUME NEW m \in Mail \ givenUp PROVE Fate(m)
  <2>1. In(v, m) <=> f = m
    BY InOne
  <2>2. Minus(Queued, v, Queued', m)
    BY <1>1, <1>2, <1>3, QueuePop DEF Queued
  <2> HIDE DEF v, f, new
  <2> QED BY <1>4, <1>5, <2>1, <2>2, SameSelf, FateWritten
<1> QED BY <1>4, <1>6, <1>7 DEF Keeps

LEMMA PresenceBare ==
  ASSUME NEW m \in Presence
  PROVE  Mails(<<m>>) = {} /\ <<m>> \in Seq(Msg) /\ \A x \in Mail : ~In(<<m>>, x)
<1>1. Mails(<<m>>) = {} /\ <<m>> \in Seq(Msg)
  BY MailNone DEF Msg
<1> QED BY <1>1, InMails

\* Frames without mail.
LEMMA BarePushed ==
  ASSUME Inv, QueueInv, NEW S, NEW msgs \in Seq(Msg), Mails(msgs) = {},
         queue' = PushAll(queue, S, msgs, FALSE), UNCHANGED <<hash, givenUp>>
  PROVE  QueueInv' /\ \A m \in Mail : Same(Queued, Queued', m)
<1>1. queue \in [Session -> Seq(Entry)] /\ FALSE \in BOOLEAN
  BY DEF Inv, TypeOK, SessionTypeOK
<1>2. \A m \in Mail : ~In(msgs, m)
  BY InMails
<1>3. \A m \in Mail : Same(Queued, Queued', m)
  BY <1>1, <1>2, PushOthers DEF Queued
<1>4. QueueInv'
  BY <1>1, QueuePushed DEF QueueInv
<1> QED BY <1>3, <1>4

LEMMA PresenceKeeps ==
  ASSUME OneProcess, MailboxInv, NEW s \in Session, NEW m \in Msg, NEW u \in User,
         OnAppPresence(s, m, u)
  PROVE  Keeps(Mail)
<1> DEFINE n == home[s]
           name == UserId(u)
           msgs == <<m>>
           S == Peers(n, name)
           c == Cmd("publish", name, msgs)
           cmds == IF Found(n, name) THEN <<>> ELSE <<c>>
<1>1. /\ UNCHANGED <<lists, reply, link, severed, delivered, expired, givenUp, hash>>
      /\ queue' = PushAll(queue, S, msgs, FALSE) /\ Request(n, cmds)
      /\ m \in Presence /\ Open(s)
  BY DEF OnAppPresence, Send
<1>2. Inv /\ PipeInv /\ LinkInv /\ QueueInv /\ n \in Node
  BY <1>1, MailboxTypes DEF MailboxInv, Inv, TypeOK, SessionTypeOK, Open
<1>3. Mails(msgs) = {} /\ msgs \in Seq(Msg)
  BY <1>1, PresenceBare
<1>4. Proper(cmds) /\ \A x : Store(cmds, <<>>, x)
  <2>1. c \in Command /\ c.op = "publish" /\ c.msgs = msgs
    BY <1>3, NameTypes, CmdTypes DEF Cmd
  <2> HIDE DEF c
  <2>2. Proper(<<c>>) /\ \A x : Store(<<c>>, <<>>, x)
    BY <1>3, <2>1, ProperSingle
  <2>3. CASE Found(n, name)
    BY <2>3, ProperNone
  <2>4. CASE ~Found(n, name)
    BY <2>2, <2>4
  <2> QED BY <2>3, <2>4
<1> HIDE DEF cmds, msgs, S, n
<1>5. QueueInv' /\ \A x \in Mail : Same(Queued, Queued', x)
  BY <1>1, <1>2, <1>3, BarePushed
<1>6. \A i \in Node : Bare(reply'[i])
  BY <1>1, <1>2 DEF PipeInv
<1>7. /\ Orderly /\ Listed' = Listed
      /\ \A v, x : Store(cmds, v, x) => Plus(Piped, v, Piped', x)
  BY <1>1, <1>2, <1>4, <1>6, RequestOrderly
<1>8. \A x : Same(Piped, Piped', x)
  BY <1>4, <1>7, PlusNone, InNone
<1>9. Replied' = Replied /\ Gone' = Gone
  BY <1>1 DEF Replied, Gone, Delivered
<1>10. ASSUME NEW x \in Mail PROVE Fate(x)
  BY <1>5, <1>7, <1>8, <1>9, SameSelf, FateStill
<1> QED BY <1>5, <1>7, <1>10 DEF Keeps

-----------------------------------------------------------------------------
(* The steps that accept a message.                                        *)

\* Order is kept, m enters and every other message stays where it was sent.
Accepts(m) ==
  Orderly /\ QueueInv' /\ Enters(m) /\ \A x \in Mail \ {m} : Fate(x)

LEMMA ProperHanded ==
  ASSUME NEW b, NEW name \in Names(0 .. 1), NEW msgs \in Seq(Msg)
  PROVE  Proper(IF b THEN <<>> ELSE StoreCmds(name, msgs))
<1>1. CASE b
  BY <1>1, ProperNone
<1>2. CASE ~b
  BY <1>2, ProperStore
<1> QED BY <1>1, <1>2

LEMMA AcceptedIs ==
  ASSUME NEW m \in Mail, Orderly, QueueInv', \A x \in Mail : Handed(<<m>>, x),
         UNCHANGED <<Listed, Replied, Gone>>
  PROVE  Accepts(m)
<1>1. Enters(m)
  BY SameSelf, FateEnters
<1>2. ASSUME NEW x \in Mail \ {m} PROVE Fate(x)
  <2>1. ~In(<<m>>, x)
    BY InOne
  <2> QED BY <2>1, SameSelf, FateOther
<1> QED BY <1>1, <1>2 DEF Accepts

LEMMA ChatAccepts ==
  ASSUME OneProcess, MailboxInv, NEW s \in Session, NEW m \in Msg, NEW u \in User,
         NEW complete \in BOOLEAN, OnAppChat(s, m, u, complete)
  PROVE  m \in Mail /\ Accepts(m)
<1> DEFINE n == home[s]
           name == UserId(u)
           msgs == <<m>>
           q == PushAll(queue, Peers(n, name), msgs, TRUE)
           cmds == IF Found(n, name) THEN <<>> ELSE StoreCmds(name, msgs)
<1>1. /\ UNCHANGED <<lists, reply, link, severed, delivered, expired, givenUp, hash>>
      /\ queue' = q \/ \E x \in Session : queue' = SendAck(q, x)
      /\ Request(n, cmds) /\ m \in Mail /\ Open(s)
  BY DEF OnAppChat, Send, Mail
<1>2. /\ Inv /\ MapSound /\ PipeInv /\ LinkInv /\ QueueInv /\ n \in Node
      /\ name \in Names(0 .. 1) /\ msgs \in Seq(Msg)
  BY <1>1, MailboxTypes, NameTypes DEF MailboxInv, Inv, TypeOK, SessionTypeOK, Open
<1> HIDE DEF n, name, msgs
<1>3. QueueInv' /\ \A x \in Mail : Handed(msgs, x)
  BY <1>1, <1>2, HandedOn
<1>4. Proper(cmds)
  BY <1>2, ProperHanded
<1>5. \A i \in Node : Bare(reply'[i])
  BY <1>1, <1>2 DEF PipeInv
<1>6. Orderly /\ Listed' = Listed
  BY <1>1, <1>2, <1>4, <1>5, RequestOrderly
<1>7. Replied' = Replied /\ Gone' = Gone
  BY <1>1 DEF Replied, Gone, Delivered
<1>8. Accepts(m)
  BY <1>1, <1>3, <1>6, <1>7, AcceptedIs DEF msgs
<1> QED BY <1>1, <1>8

LEMMA PublishAccepts ==
  ASSUME OneProcess, MailboxInv, NEW s \in Session, NEW m \in Msg, OnAppPublish(s, m)
  PROVE  m \in Mail /\ Accepts(m)
<1> DEFINE msgs == <<m>>
           S == {s}
<1>1. /\ UNCHANGED <<lists, pipe, reply, link, severed, delivered, expired, givenUp, hash>>
      /\ queue' = PushAll(queue, S, msgs, TRUE) /\ m \in Mail /\ LoggedIn(s)
  BY DEF OnAppPublish, Send, Mail, redisVars
<1>2. /\ PipeInv /\ LinkInv /\ QueueOk(queue, hash, givenUp) /\ TRUE \in BOOLEAN
      /\ queue \in [Session -> Seq(Entry)] /\ msgs \in Seq(Msg)
  BY MailboxTypes DEF MailboxInv, QueueInv
<1>3. \A x \in Mail : Plus(Queued, msgs, Queued', x)
  BY <1>1, <1>2, PushPeer DEF Queued
<1>4. \A x \in S : hash[x] # None
  BY <1>1 DEF LoggedIn
<1> HIDE DEF S, msgs
<1>5. QueueInv'
  BY <1>1, <1>2, <1>4, QueuePushed DEF QueueInv
<1>6. Orderly /\ UNCHANGED <<Listed, Piped, Replied>>
  BY <1>1, <1>2, SameRedis
<1>7. \A x \in Mail : Handed(msgs, x)
  BY <1>3, <1>6, SameSelf DEF Handed
<1>8. Gone' = Gone
  BY <1>1 DEF Gone, Delivered
<1>9. Accepts(m)
  BY <1>1, <1>5, <1>6, <1>7, <1>8, AcceptedIs DEF msgs
<1> QED BY <1>1, <1>9

-----------------------------------------------------------------------------
(* The login, the end of a session and the shutdown.                       *)

\* A login gives up what the session it overrides holds.
LEMMA EntryKeeps ==
  ASSUME Inv, QueueInv, NEW s \in Session, NEW u \in User, NEW old \in SUBSET Session,
         TakeEntry(s, u, old)
  PROVE  /\ QueueOk(queue, hash', givenUp') /\ givenUp \subseteq givenUp'
         /\ \A m \in Mail : m \in givenUp' /\ m \notin givenUp => Somewhere(m)
<1>1. /\ hash' = HashAfterLogin(s, u, old)
      /\ givenUp' = givenUp \cup UNION {Mails(Frames(queue[x])) : x \in old}
  BY DEF TakeEntry
<1>2. queue \in [Session -> Seq(Entry)] /\ QueueOk(queue, hash, givenUp)
  BY DEF QueueInv, Inv, TypeOK, SessionTypeOK
<1>3. QueueOk(queue, hash', givenUp')
  <2>1. SUFFICES ASSUME NEW x \in Session, NEW i \in 1 .. Len(queue[x]),
                        queue[x][i].msg \in Mail
        PROVE  queue[x][i].persist /\ (hash'[x] = None => queue[x][i].msg \in givenUp')
    BY DEF QueueOk
  <2>2. queue[x][i].persist /\ (hash[x] = None => queue[x][i].msg \in givenUp')
    BY <1>1, <1>2, <2>1 DEF QueueOk
  <2>3. hash'[x] = None => hash[x] = None \/ x \in old
    BY <1>1, ConstantsDiffer DEF HashAfterLogin
  <2>4. queue[x][i].msg \in Mails(Frames(queue[x]))
    BY <1>2, <2>1, MailFramed
  <2> QED BY <1>1, <2>2, <2>3, <2>4
<1>4. ASSUME NEW m \in Mail, m \in givenUp', m \notin givenUp PROVE Somewhere(m)
  <2>1. PICK x \in old : m \in Mails(Frames(queue[x]))
    BY <1>1, <1>4
  <2>2. In(Queued[x], m) /\ x \in DOMAIN Queued
    BY <2>1, InMails DEF Queued, Framed
  <2> QED BY <2>2 DEF Has, Somewhere
<1> QED BY <1>1, <1>3, <1>4

LEMMA LoginKeeps ==
  ASSUME OneProcess, MailboxInv, NEW s \in Session, NEW u \in User, OnAppLogin(s, u)
  PROVE  /\ Keeps(Mail) /\ givenUp \subseteq givenUp'
         /\ \A m \in Mail : m \in givenUp' /\ m \notin givenUp => Somewhere(m)
<1> DEFINE n == home[s]
           cmds == LoginCmds(u)
           old == Peers(n, UserId(u))
<1>1. /\ UNCHANGED <<lists, reply, link, severed, delivered, expired>>
      /\ queue' = SendAck(queue, s) /\ Request(n, cmds) /\ Open(s)
      /\ TakeEntry(s, u, old)
  BY DEF OnAppLogin, Send
<1>2. /\ Inv /\ PipeInv /\ LinkInv /\ QueueInv /\ n \in Node
      /\ queue \in [Session -> Seq(Entry)]
  BY <1>1, MailboxTypes DEF MailboxInv, Inv, TypeOK, SessionTypeOK, Open
<1>3. Proper(cmds) /\ \A m : Store(cmds, <<>>, m)
  BY ProperLogin
<1>4. \A i \in Node : Bare(reply'[i])
  BY <1>1, <1>2 DEF PipeInv
<1>5. old \in SUBSET Session
  BY DEF Peers
<1> HIDE DEF cmds, old, n
<1>6. /\ Orderly /\ Listed' = Listed
      /\ \A v, m : Store(cmds, v, m) => Plus(Piped, v, Piped', m)
  BY <1>1, <1>2, <1>3, <1>4, RequestOrderly
<1>7. \A m : Same(Piped, Piped', m)
  BY <1>3, <1>6, PlusNone, InNone
<1>8. Replied' = Replied /\ Gone' = Gone
  BY <1>1 DEF Replied, Gone, Delivered
<1>9. /\ \A m \in Mail : Same(Queued, Queued', m)
      /\ \A h, d : QueueOk(queue, h, d) => QueueOk(queue', h, d)
  BY <1>1, <1>2, AckStill DEF Queued
<1>10. /\ QueueOk(queue, hash', givenUp') /\ givenUp \subseteq givenUp'
       /\ \A m \in Mail : m \in givenUp' /\ m \notin givenUp => Somewhere(m)
  BY <1>1, <1>2, <1>5, EntryKeeps
<1>11. QueueInv'
  BY <1>9, <1>10 DEF QueueInv
<1>12. ASSUME NEW m \in Mail PROVE Fate(m)
  BY <1>6, <1>7, <1>8, <1>9, SameSelf, FateStill
<1> QED BY <1>6, <1>10, <1>11, <1>12 DEF Keeps

LEMMA LoginThrowsKeeps ==
  ASSUME OneProcess, MailboxInv, NEW s \in Session, NEW u \in User,
         OnAppLoginThrows(s, u)
  PROVE  /\ Keeps(Mail) /\ givenUp \subseteq givenUp'
         /\ \A m \in Mail : m \in givenUp' /\ m \notin givenUp => Somewhere(m)
<1> DEFINE old == Peers(home[s], UserId(u))
<1>1. /\ UNCHANGED <<queue, lists, pipe, reply, link, severed, delivered, expired>>
      /\ TakeEntry(s, u, old)
  BY DEF OnAppLoginThrows, redisVars
<1>2. Inv /\ PipeInv /\ LinkInv /\ QueueInv
  BY MailboxTypes DEF MailboxInv
<1>3. old \in SUBSET Session
  BY DEF Peers
<1> HIDE DEF old
<1>4. Orderly /\ UNCHANGED <<Listed, Piped, Replied>>
  BY <1>1, <1>2, SameRedis
<1>5. Queued' = Queued /\ Gone' = Gone
  BY <1>1 DEF Queued, Gone, Delivered
<1>6. /\ QueueOk(queue, hash', givenUp') /\ givenUp \subseteq givenUp'
      /\ \A m \in Mail : m \in givenUp' /\ m \notin givenUp => Somewhere(m)
  BY <1>1, <1>2, <1>3, EntryKeeps
<1>7. QueueInv'
  BY <1>1, <1>6 DEF QueueInv
<1>8. ASSUME NEW m \in Mail PROVE Fate(m)
  BY <1>4, <1>5, SameSelf, FateStill
<1> QED BY <1>4, <1>6, <1>7, <1>8 DEF Keeps

\* A session that ends hands over what persists, unless no one is logged in.
LEMMA ReadErrorKeeps ==
  ASSUME OneProcess, MailboxInv, NEW s \in Session, OnReadError(s)
  PROVE  Keeps(Mail \ givenUp)
<1> DEFINE n == home[s]
           v == Frames(queue[s])
           w == Unsent(s)
           cmds == LogoutCmds(hash[s], w)
<1>1. /\ UNCHANGED <<lists, reply, link, hash, severed, delivered, expired, givenUp>>
      /\ queue' = [queue EXCEPT ![s] = <<>>] /\ Open(s)
      /\ IF LoggedIn(s) /\ Found(n, UserId(hash[s]))
         THEN Request(n, cmds) ELSE pipe' = pipe
  BY DEF OnReadError, Finish, history
<1>2. /\ Inv /\ MapSound /\ PipeInv /\ LinkInv /\ n \in Node
      /\ queue \in [Session -> Seq(Entry)] /\ QueueOk(queue, hash, givenUp)
  BY <1>1, MailboxTypes DEF MailboxInv, QueueInv, Inv, TypeOK, SessionTypeOK, Open
<1>3. QueueInv'
  <2>1. \A x \in Session : queue'[x] = queue[x] \/ queue'[x] = <<>>
    BY <1>1, <1>2
  <2>2. Len(<<>>) = 0
    OBVIOUS
  <2> QED BY <1>1, <1>2, <2>1, <2>2 DEF QueueInv, QueueOk
<1>4. Replied' = Replied /\ Gone' = Gone
  BY <1>1 DEF Replied, Gone, Delivered
<1>5. \A m : Minus(Queued, v, Queued', m)
  BY <1>1, <1>2, QueueClear DEF Queued
<1>6. CASE LoggedIn(s)
  <2>1. hash[s] \in User
    BY <1>2, <1>6 DEF LoggedIn, Inv, TypeOK, SessionTypeOK
  <2>2. Found(n, UserId(hash[s]))
    <3>1. sessions[n][hash[s]] = s
      BY <1>1, <1>2, <1>6 DEF MapSound, SessionIsEntry
    <3> QED BY <3>1, ConstantsDiffer DEF Found, UserId
  <2>3. Request(n, cmds)
    BY <1>1, <1>6, <2>2
  <2>4. w \in Seq(Msg)
    BY <1>2, UnsentType
  <2>5. Proper(cmds) /\ \A m : Store(cmds, w, m)
    BY <2>1, <2>4, ProperLogout
  <2>6. \A i \in Node : Bare(reply'[i])
    BY <1>1, <1>2 DEF PipeInv
  <2>7. \A m \in Mail : (In(w, m) <=> In(v, m)) /\ (Once(v, m) => Once(w, m))
    <3>1. TAKE m \in Mail
    <3>2. \A i \in 1 .. Len(queue[s]) : queue[s][i].msg = m => queue[s][i].persist
      BY <1>2 DEF QueueOk
    <3> QED BY <1>2, <3>2, UnsentKeeps
  <2> HIDE DEF cmds, n, v, w
  <2>8. /\ Orderly /\ Listed' = Listed
        /\ \A x, m : Store(cmds, x, m) => Plus(Piped, x, Piped', m)
    BY <1>1, <1>2, <2>3, <2>5, <2>6, RequestOrderly
  <2>9. ASSUME NEW m \in Mail PROVE Fate(m)
    <3>1. Plus(Piped, w, Piped', m)
      BY <2>5, <2>8
    <3> QED BY <1>4, <1>5, <2>7, <2>8, <3>1, SameSelf, FateStored
  <2> QED BY <1>3, <2>8, <2>9 DEF Keeps
<1>7. CASE ~LoggedIn(s)
  <2>1. Orderly /\ UNCHANGED <<Listed, Piped, Replied>>
    BY <1>1, <1>2, <1>7, SameRedis
  <2>2. ASSUME NEW m \in Mail \ givenUp PROVE Fate(m)
    <3>1. m \notin Mails(v)
      BY <1>2, <1>7, MailFramed DEF QueueOk, LoggedIn
    <3>2. ~In(v, m)
      BY <3>1, InMails
    <3>3. Same(Queued, Queued', m)
      BY <1>5, <3>2, MinusNone
    <3> QED BY <1>4, <2>1, <3>3, SameSelf, FateStill
  <2> QED BY <1>3, <2>1, <2>2 DEF Keeps
<1> QED BY <1>6, <1>7

LEMMA ShutdownKeeps ==
  ASSUME OneProcess, MailboxInv, NEW n \in Node, ShutdownImpl(n)
  PROVE  Keeps(Mail)
<1> DEFINE c == [op |-> "quit"]
           cmds == <<c>>
<1>1. /\ UNCHANGED <<lists, reply, hash, severed, delivered, expired, givenUp, queue>>
      /\ Request(n, cmds) /\ link[n] = "up" /\ link' = [link EXCEPT ![n] = "leaving"]
  BY DEF ShutdownImpl, history
<1>2. /\ Inv /\ PipeInv /\ LinkInv /\ pipe[n] \in Seq(Command)
      /\ link \in [Node -> {"up", "renewed", "leaving", "closed"}]
  BY MailboxTypes DEF MailboxInv
<1>3. c \in Command /\ c.op = "quit"
  BY DEF Command
<1>4. cmds \in Seq(Command) /\ Len(cmds) = 1 /\ cmds[1].op = "quit"
  BY <1>3
<1> HIDE DEF c
<1>5. Proper(cmds) /\ \A m : Store(cmds, <<>>, m)
  BY <1>3, ProperSingle
<1> HIDE DEF cmds
<1>6. /\ Listed' = Listed
      /\ \A m : InDoomed(m)' => InDoomed(m)
      /\ \A i \in Node : Tidy(pipe'[i])
      /\ \A i \in Node : Quits(pipe[i]) => Quits(pipe'[i])
      /\ \A v, m : Store(cmds, v, m) => Plus(Piped, v, Piped', m)
  BY <1>1, <1>2, <1>5, Requested
<1>7. \A m : Same(Piped, Piped', m)
  BY <1>5, <1>6, PlusNone, InNone
<1>8. LinkInv'
  <2>1. \A i \in Node : i = n
    BY DoomedIs
  <2>2. pipe'[n] = pipe[n] \o cmds
    BY <1>1, <1>2, RequestEffect
  <2>3. Quits(cmds)
    BY <1>4 DEF Quits
  <2>4. Quits(pipe'[n])
    BY <1>2, <1>4, <2>2, <2>3, QuitsConcat
  <2> QED BY <1>1, <1>2, <2>1, <2>4 DEF LinkInv
<1>9. PipeInv'
  BY <1>1, <1>2, <1>6 DEF PipeInv
<1>10. Queued' = Queued /\ Replied' = Replied /\ Gone' = Gone /\ QueueInv'
  BY <1>1 DEF Queued, Replied, Gone, Delivered, QueueInv, MailboxInv
<1>11. ASSUME NEW m \in Mail PROVE Fate(m)
  BY <1>6, <1>7, <1>10, SameSelf, FateStill
<1> QED BY <1>6, <1>8, <1>9, <1>10, <1>11 DEF Keeps, Orderly

-----------------------------------------------------------------------------
(* Answers and pushes.                                                     *)

LEMMA PushRpushKeeps ==
  ASSUME OneProcess, MailboxInv, NEW n \in Node, OnPushRpush(n)
  PROVE  Keeps(Mail)
<1> DEFINE key == Head(reply[n]).name
           cmds == <<Cmd("lrange", key, <<>>), Cmd("del", key, <<>>)>>
           v == Head(reply[n]).msgs
<1>1. /\ UNCHANGED <<lists, link, queue, hash, severed, delivered, expired, givenUp>>
      /\ Receive(n, "rpush") /\ Request(n, cmds)
  BY DEF OnPushRpush, sessionVars, history
<1>2. Inv /\ PipeInv /\ LinkInv /\ QueueInv
  BY MailboxTypes DEF MailboxInv
<1>3. /\ \A i \in Node : Bare(reply'[i])
      /\ Mails(v) = {} /\ \A m : Minus(Replied, v, Replied', m)
  <2>1. Head(reply[n]).type # "lrange"
    BY <1>1 DEF Receive
  <2> QED BY <1>1, <1>2, <2>1, Received
<1>4. key \in Key
  <2>1. Head(reply[n]) \in Event /\ Head(reply[n]).type = "rpush"
    BY <1>1, <1>2, Received DEF Receive
  <2> QED BY <2>1, EventTypes, NameTypes
<1>5. Proper(cmds) /\ \A m : Store(cmds, <<>>, m)
  BY <1>4, ProperRead
<1> HIDE DEF cmds, v
<1>6. /\ Orderly /\ Listed' = Listed
      /\ \A x, m : Store(cmds, x, m) => Plus(Piped, x, Piped', m)
  BY <1>1, <1>2, <1>3, <1>5, RequestOrderly
<1>7. \A m : Same(Piped, Piped', m)
  BY <1>5, <1>6, PlusNone, InNone
<1>8. \A m \in Mail : Same(Replied, Replied', m)
  BY <1>3, InMails, MinusNone
<1>9. Queued' = Queued /\ Gone' = Gone /\ QueueInv'
  BY <1>1, <1>2 DEF Queued, Gone, Delivered, QueueInv
<1>10. ASSUME NEW m \in Mail PROVE Fate(m)
  BY <1>6, <1>7, <1>8, <1>9, SameSelf, FateStill
<1> QED BY <1>6, <1>9, <1>10 DEF Keeps

LEMMA LrangeKeeps ==
  ASSUME OneProcess, MailboxInv, NEW n \in Node, OnLrange(n)
  PROVE  /\ Keeps(Mail) /\ givenUp \subseteq givenUp'
         /\ \A m \in Mail : m \in givenUp' /\ m \notin givenUp => Somewhere(m)
<1> DEFINE name == Head(chatQueue[n])
           msgs == Head(reply[n]).msgs
           cmds == IF Found(n, name) THEN <<>> ELSE StoreCmds(name, msgs)
           q == PushAll(queue, Peers(n, name), msgs, TRUE)
<1>1. /\ UNCHANGED <<lists, link, hash, severed, delivered, expired>>
      /\ Receive(n, "lrange") /\ Request(n, cmds) /\ chatQueue[n] # <<>>
      /\ queue' = q
      /\ givenUp' = givenUp \/ givenUp' = givenUp \cup Mails(msgs)
  BY DEF OnLrange, Send
<1>2. Inv /\ MapSound /\ PipeInv /\ LinkInv /\ QueueInv
  BY MailboxTypes DEF MailboxInv
<1>3. /\ \A i \in Node : Bare(reply'[i]) /\ msgs \in Seq(Msg)
      /\ \A m : Minus(Replied, msgs, Replied', m)
  BY <1>1, <1>2, Received
<1>4. name \in Names(0 .. 1) /\ msgs \in Seq(Msg)
  <2>1. chatQueue[n] \in Seq(Names(0 .. 1))
    BY <1>2, DeliveryTypes
  <2>2. msgs \in Seq(Msg)
    BY <1>1, <1>2, Received
  <2> QED BY <1>1, <2>1, <2>2, TailType
<1>5. Proper(cmds)
  BY <1>4, ProperHanded
<1>6. ASSUME NEW m \in Mail, m \in givenUp', m \notin givenUp PROVE Somewhere(m)
  <2>1. In(msgs, m)
    BY <1>1, <1>6, InMails
  <2>2. 1 \in DOMAIN Replied /\ Replied[1] = msgs
    <3>1. reply[n] \in Seq(Event) /\ reply[n] # <<>> /\ n = TheNode
      BY <1>1, <1>2, DoomedIs, DeliveryTypes DEF Receive
    <3> QED BY <3>1 DEF Replied, Answers
  <2> HIDE DEF msgs
  <2>3. Has(Replied, m)
    BY <2>1, <2>2 DEF Has
  <2> QED BY <2>3 DEF Somewhere
<1> HIDE DEF name, msgs
<1>7. QueueInv' /\ \A m \in Mail : Handed(msgs, m)
  BY <1>1, <1>2, <1>4, HandedOn
<1>8. Orderly /\ Listed' = Listed
  BY <1>1, <1>2, <1>3, <1>5, RequestOrderly
<1>9. Gone' = Gone
  BY <1>1 DEF Gone, Delivered
<1>10. ASSUME NEW m \in Mail PROVE Fate(m)
  BY <1>3, <1>7, <1>8, <1>9, SameSelf, FateAnswered
<1> QED BY <1>1, <1>6, <1>7, <1>8, <1>10 DEF Keeps

LEMMA DbPresenceKeeps ==
  ASSUME OneProcess, MailboxInv, NEW n \in Node, OnDbPresence(n)
  PROVE  Keeps(Mail)
<1> DEFINE v == Head(reply[n]).msgs
           S == Peers(n, Head(reply[n]).name)
<1>1. /\ UNCHANGED <<lists, pipe, link, hash, severed, delivered, expired, givenUp>>
      /\ Receive(n, "presence") /\ queue' = PushAll(queue, S, v, FALSE)
  BY DEF OnDbPresence, Send, history
<1>2. Inv /\ PipeInv /\ LinkInv /\ QueueInv
  BY MailboxTypes DEF MailboxInv
<1>3. /\ \A i \in Node : Bare(reply'[i])
      /\ v \in Seq(Msg) /\ Mails(v) = {} /\ \A m : Minus(Replied, v, Replied', m)
  <2>1. /\ \A i \in Node : Bare(reply'[i])
        /\ v \in Seq(Msg) /\ \A m : Minus(Replied, v, Replied', m)
    BY <1>1, <1>2, Received
  <2>2. Head(reply[n]).type # "lrange"
    BY <1>1 DEF Receive
  <2>3. Mails(v) = {}
    BY <1>1, <1>2, <2>2, Received
  <2> QED BY <2>1, <2>3
<1> HIDE DEF v, S
<1>4. QueueInv' /\ \A m \in Mail : Same(Queued, Queued', m)
  BY <1>1, <1>2, <1>3, BarePushed
<1>5. PipeInv' /\ LinkInv'
  BY <1>1, <1>2, <1>3 DEF PipeInv, LinkInv
<1>6. UNCHANGED <<Listed, Piped, Gone>>
  BY <1>1 DEF Listed, ListedOf, Piped, Gone, Delivered
<1>7. \A m : InDoomed(m)' => InDoomed(m)
  <2>1. \A key : Doomed(key)' => Doomed(key)
    BY <1>1, DoomedIs
  <2> QED BY <1>1, <2>1 DEF InDoomed
<1>8. \A m \in Mail : Same(Replied, Replied', m)
  BY <1>3, InMails, MinusNone
<1>9. ASSUME NEW m \in Mail PROVE Fate(m)
  BY <1>4, <1>6, <1>8, SameSelf, FateStill
<1> QED BY <1>4, <1>5, <1>7, <1>9 DEF Keeps, Orderly

LEMMA ReplyKeeps ==
  ASSUME OneProcess, MailboxInv, NEW n \in Node, OnReply(n)
  PROVE  /\ Keeps(Mail) /\ givenUp \subseteq givenUp'
         /\ \A m \in Mail : m \in givenUp' /\ m \notin givenUp => Somewhere(m)
<1>1. CASE OnPushRpush(n) \/ OnDbPresence(n)
  <2>1. givenUp' = givenUp
    BY <1>1 DEF OnPushRpush, OnDbPresence, history
  <2> QED BY <1>1, <2>1, PushRpushKeeps, DbPresenceKeeps
<1>2. CASE OnLrange(n)
  BY <1>2, LrangeKeeps
<1> QED BY <1>1, <1>2 DEF OnReply

-----------------------------------------------------------------------------
(* Redis executes a command.                                               *)

LEMMA QuitsTail ==
  ASSUME NEW p \in Seq(Command), p # <<>>, Head(p).op # "quit", Quits(p)
  PROVE  Quits(Tail(p))
<1>1. PICK i \in 1 .. Len(p) : p[i].op = "quit"
  BY DEF Quits
<1>2. i # 1
  BY <1>1
<1>3. i - 1 \in 1 .. Len(Tail(p)) /\ Tail(p)[i - 1] = p[i]
  <2>1. i - 1 \in 1 .. Len(Tail(p)) /\ Tail(p)[i - 1] = p[(i - 1) + 1]
    BY <1>2
  <2>2. (i - 1) + 1 = i
    BY <1>2
  <2> QED BY <2>1, <2>2
<1> DEFINE q == Tail(p)
<1> HIDE DEF q
<1>4. i - 1 \in 1 .. Len(q) /\ q[i - 1].op = "quit"
  BY <1>1, <1>3 DEF q
<1> QED BY <1>4 DEF Quits, q

LEMMA Executed ==
  ASSUME OneProcess, Inv, PipeInv, NEW n \in Node, NEW op, Exec(n, op)
  PROVE  /\ \A i \in Node : Tidy(pipe'[i])
         /\ \A m : Minus(Piped, Content(Head(pipe[n])), Piped', m)
         /\ op # "quit" => \A i \in Node : Quits(pipe[i]) => Quits(pipe'[i])
         /\ \A key : Front(pipe'[n], link'[n], key) <=>
              link'[n] # "closed" /\ op = "lrange" /\ Head(pipe[n]).name = key
         /\ \A key : Front(pipe[n], link[n], key) <=>
              op = "del" /\ Head(pipe[n]).name = key
         /\ op = "publish" => Mails(Head(pipe[n]).msgs) = {}
<1>1. n = TheNode /\ \A i \in Node : i = n
  BY DoomedIs
<1>2. /\ pipe[n] \in Seq(Command) /\ pipe[n] # <<>> /\ Tidy(pipe[n])
      /\ Head(pipe[n]).op = op /\ link[n] # "closed"
      /\ pipe'[n] = Tail(pipe[n])
  BY DeliveryTypes, ExecEffect DEF Exec, PipeInv
<1>3. /\ Tidy(pipe'[n])
      /\ op = "publish" => Mails(Head(pipe[n]).msgs) = {}
  BY <1>2, TidyTail
<1>4. \A m : Minus(Piped, Content(Head(pipe[n])), Piped', m)
  BY <1>1, <1>2, PipeTaken DEF Piped
<1>5. op # "quit" /\ Quits(pipe[n]) => Quits(pipe'[n])
  BY <1>2, QuitsTail
<1>6. \A key : Front(pipe'[n], link'[n], key) <=>
        link'[n] # "closed" /\ op = "lrange" /\ Head(pipe[n]).name = key
  BY <1>2, FrontTail
<1>7. \A key : Front(pipe[n], link[n], key) <=> op = "del" /\ Head(pipe[n]).name = key
  BY <1>2 DEF Front
<1> QED BY <1>1, <1>3, <1>4, <1>5, <1>6, <1>7

\* The list of key is what it was unless a DEL of key comes next.
LEMMA ListedIs ==
  ASSUME OneProcess
  PROVE  /\ DOMAIN Listed = Key /\ DOMAIN Listed' = Key
         /\ \A key \in Key : Listed[key] =
              IF Front(pipe[TheNode], link[TheNode], key) THEN <<>> ELSE lists[key]
         /\ \A key \in Key : Listed'[key] =
              IF Front(pipe'[TheNode], link'[TheNode], key) THEN <<>> ELSE lists'[key]
  BY DEF Listed, ListedOf

LEMMA ListedSame ==
  ASSUME OneProcess, \A key \in Key : Listed'[key] = Listed[key]
  PROVE  Listed' = Listed
  BY DEF Listed, ListedOf

\* An event without mail is pushed, or nothing.
LEMMA BareEvent ==
  ASSUME OneProcess, Inv, PipeInv, NEW e \in Event, Mails(e.msgs) = {},
         \A i \in Node : reply'[i] = reply[i] \/ reply'[i] = Append(reply[i], e)
  PROVE  /\ \A i \in Node : Bare(reply'[i])
         /\ \A m \in Mail : Same(Replied, Replied', m)
<1>1. TheNode \in Node /\ reply[TheNode] \in Seq(Event)
  BY DoomedIs, DeliveryTypes
<1>2. ASSUME NEW i \in Node PROVE Bare(reply'[i])
  <2>1. Bare(reply[i]) /\ reply[i] \in Seq(Event)
    BY DeliveryTypes DEF PipeInv
  <2> QED BY <2>1, BareAppend
<1>3. ASSUME NEW m \in Mail PROVE Same(Replied, Replied', m)
  <2>1. CASE reply'[TheNode] = reply[TheNode]
    BY <2>1, SameSelf DEF Replied
  <2>2. CASE reply'[TheNode] = Append(reply[TheNode], e)
    <3>1. Plus(Replied, e.msgs, Replied', m)
      BY <1>1, <2>2, AnswerSent DEF Replied
    <3>2. ~In(e.msgs, m)
      BY InMails
    <3> QED BY <3>1, <3>2, PlusNone
  <2> QED BY <1>1, <2>1, <2>2
<1> QED BY <1>2, <1>3

\* What Redis does leaves the sessions alone.
LEMMA RedisQueues ==
  ASSUME MailboxInv, NEW n \in Node, Redis(n)
  PROVE  /\ Queued' = Queued /\ Gone' = Gone /\ QueueInv' /\ UNCHANGED severed
         /\ Inv /\ PipeInv /\ LinkInv /\ NoQuit
  BY MailboxTypes DEF MailboxInv, Redis, sessionVars, history, Queued, Gone, Delivered, QueueInv,
     DeliveryInv, Delivery

LEMMA LinkExec ==
  ASSUME OneProcess, Inv, PipeInv, LinkInv, NEW n \in Node, NEW op, op # "quit",
         Exec(n, op), UNCHANGED <<link, severed>>
  PROVE  LinkInv'
<1>1. \A i \in Node : Quits(pipe[i]) => Quits(pipe'[i])
  BY Executed
<1> QED BY <1>1, LinkStays

\* Commands that concern no list.
LEMMA ExecOther ==
  ASSUME OneProcess, Inv, PipeInv, NEW n \in Node, NEW op, Exec(n, op),
         op \in {"subscribe", "unsubscribe", "publish", "quit"}, UNCHANGED lists
  PROVE  /\ Listed' = Listed /\ \A m : ~InDoomed(m)'
         /\ \A m : Same(Piped, Piped', m)
<1>1. n = TheNode /\ TheNode \in Node
  BY DoomedIs
<1>2. Head(pipe[n]).op = op
  BY DEF Exec
<1>3. \A key : ~Front(pipe[n], link[n], key) /\ ~Front(pipe'[n], link'[n], key)
  <2>1. op # "lrange" /\ op # "del"
    OBVIOUS
  <2> QED BY <2>1, Executed
<1>4. Listed' = Listed
  BY <1>1, <1>3, ListedIs, ListedSame
<1>5. \A m : ~InDoomed(m)'
  <2>1. \A key : ~Doomed(key)'
    BY <1>1, <1>3, DoomedIs
  <2> QED BY <2>1 DEF InDoomed
<1>6. Content(Head(pipe[n])) = <<>>
  BY <1>2 DEF Content
<1>7. \A m : Same(Piped, Piped', m)
  <2>1. \A m : Minus(Piped, <<>>, Piped', m)
    BY <1>6, Executed
  <2> QED BY <2>1, InNone, MinusNone
<1> QED BY <1>4, <1>5, <1>7

LEMMA ExecSubscriptionKeeps ==
  ASSUME OneProcess, MailboxInv, NEW n \in Node, Redis(n),
         ExecSubscribe(n) \/ ExecUnsubscribe(n)
  PROVE  Keeps(Mail)
<1>1. /\ Queued' = Queued /\ Gone' = Gone /\ QueueInv' /\ UNCHANGED severed
      /\ Inv /\ PipeInv /\ LinkInv
  BY RedisQueues
<1>2. PICK op \in {"subscribe", "unsubscribe"} :
        Exec(n, op) /\ UNCHANGED <<lists, reply, link>>
  BY DEF ExecSubscribe, ExecUnsubscribe
<1>3. op \in {"subscribe", "unsubscribe", "publish", "quit"} /\ op # "quit"
  BY <1>2
<1>4. /\ Listed' = Listed /\ \A m : ~InDoomed(m)'
      /\ \A m : Same(Piped, Piped', m)
  BY <1>1, <1>2, <1>3, ExecOther
<1>5. LinkInv'
  BY <1>1, <1>2, <1>3, LinkExec
<1>6. PipeInv' /\ Replied' = Replied
  BY <1>1, <1>2, Executed DEF PipeInv, Replied
<1>7. ASSUME NEW m PROVE Fate(m)
  BY <1>1, <1>4, <1>6, SameSelf, FateStill
<1> QED BY <1>1, <1>4, <1>5, <1>6, <1>7 DEF Keeps, Orderly

LEMMA ExecPublishKeeps ==
  ASSUME OneProcess, MailboxInv, NEW n \in Node, Redis(n), ExecPublish(n)
  PROVE  Keeps(Mail)
<1> DEFINE c == Head(pipe[n])
           e == Evt("presence", c.name, c.msgs)
<1>1. /\ Queued' = Queued /\ Gone' = Gone /\ QueueInv' /\ UNCHANGED severed
      /\ Inv /\ PipeInv /\ LinkInv
  BY RedisQueues
<1>2. Exec(n, "publish") /\ UNCHANGED <<lists, link>> /\ PushTo(c.name.user, e)
  BY DEF ExecPublish
<1>3. /\ Listed' = Listed /\ \A m : ~InDoomed(m)'
      /\ \A m : Same(Piped, Piped', m)
  BY <1>1, <1>2, ExecOther
<1>4. LinkInv'
  BY <1>1, <1>2, LinkExec
<1>5. e \in Event /\ e.msgs = c.msgs
  <2>1. c \in Command /\ c.op = "publish"
    BY <1>1, <1>2, ExecEffect
  <2> QED BY <2>1 DEF Command, Event, Evt
<1>6. Mails(c.msgs) = {}
  BY <1>1, <1>2, Executed
<1> HIDE DEF e
<1>7. \A i \in Node : reply'[i] = reply[i] \/ reply'[i] = Append(reply[i], e)
  BY <1>1, <1>2, <1>5, PushedTo
<1>8. /\ \A i \in Node : Bare(reply'[i])
      /\ \A m \in Mail : Same(Replied, Replied', m)
  BY <1>1, <1>5, <1>6, <1>7, BareEvent
<1>9. PipeInv'
  BY <1>1, <1>2, <1>8, Executed DEF PipeInv
<1>10. ASSUME NEW m \in Mail PROVE Fate(m)
  BY <1>1, <1>3, <1>8, SameSelf, FateStill
<1> QED BY <1>1, <1>3, <1>4, <1>9, <1>10 DEF Keeps, Orderly

LEMMA ExecQuitKeeps ==
  ASSUME OneProcess, MailboxInv, NEW n \in Node, Redis(n), ExecQuit(n)
  PROVE  Keeps(Mail)
<1>1. /\ Queued' = Queued /\ Gone' = Gone /\ QueueInv' /\ UNCHANGED severed
      /\ Inv /\ PipeInv /\ LinkInv /\ NoQuit
  BY RedisQueues
<1>2. /\ Exec(n, "quit") /\ UNCHANGED <<lists, reply>>
      /\ link' = [link EXCEPT ![n] = "closed"]
  BY DEF ExecQuit
<1>3. /\ Listed' = Listed /\ \A m : ~InDoomed(m)'
      /\ \A m : Same(Piped, Piped', m)
  BY <1>1, <1>2, ExecOther
<1>4. LinkInv'
  <2>1. \A i \in Node : i = n
    BY DoomedIs
  <2>2. link'[n] = "closed"
    BY <1>1, <1>2 DEF Inv, TypeOK, RedisTypeOK
  <2>3. link[n] # "renewed"
    <3>1. pipe[n] \in Seq(Command) /\ pipe[n] # <<>> /\ Head(pipe[n]).op = "quit"
      BY <1>1, <1>2, DeliveryTypes DEF Exec
    <3>2. 1 \in 1 .. Len(pipe[n]) /\ pipe[n][1].op = "quit"
      BY <3>1
    <3> QED BY <1>1, <3>2 DEF NoQuit
  <2> QED BY <1>1, <2>1, <2>2, <2>3 DEF LinkInv
<1>5. PipeInv' /\ Replied' = Replied
  BY <1>1, <1>2, Executed DEF PipeInv, Replied
<1>6. ASSUME NEW m PROVE Fate(m)
  BY <1>1, <1>3, <1>5, SameSelf, FateStill
<1> QED BY <1>1, <1>3, <1>4, <1>5, <1>6 DEF Keeps, Orderly

LEMMA ExecLrangeKeeps ==
  ASSUME OneProcess, MailboxInv, NEW n \in Node, Redis(n), ExecLrange(n)
  PROVE  Keeps(Mail)
<1> DEFINE key == Head(pipe[n]).name
           v == lists[key]
           e == Evt("lrange", key, v)
<1>1. /\ Queued' = Queued /\ Gone' = Gone /\ QueueInv' /\ UNCHANGED severed
      /\ Inv /\ PipeInv /\ LinkInv
  BY RedisQueues
<1>2. /\ Exec(n, "lrange") /\ UNCHANGED <<lists, link>>
      /\ reply' = [reply EXCEPT ![n] = Append(@, e)]
  BY DEF ExecLrange
<1>3. n = TheNode /\ \A i \in Node : i = n
  BY DoomedIs
<1>4. key \in Key /\ v \in Seq(Msg) /\ e \in Event /\ e.type = "lrange" /\ e.msgs = v
  <2>1. Head(pipe[n]) \in Command /\ Head(pipe[n]).op = "lrange"
    BY <1>1, <1>2, ExecEffect
  <2>2. key \in Key
    BY <2>1 DEF Command
  <2>3. v \in Seq(Msg)
    BY <1>1, <2>2 DEF Inv, TypeOK, RedisTypeOK
  <2> QED BY <2>2, <2>3 DEF Evt, Event
<1>5. reply[n] \in Seq(Event) /\ reply'[n] = Append(reply[n], e)
  BY <1>1, <1>2, DeliveryTypes
<1> HIDE DEF e
<1>6. LinkInv'
  BY <1>1, <1>2, LinkExec
<1>7. PipeInv'
  <2>1. Bare(reply'[n])
    BY <1>1, <1>4, <1>5, BareAppend DEF PipeInv
  <2> QED BY <1>1, <1>2, <1>3, <2>1, Executed DEF PipeInv
<1>8. \A m : Plus(Replied, v, Replied', m)
  BY <1>3, <1>4, <1>5, AnswerSent DEF Replied
<1>9. \A m : Same(Piped, Piped', m)
  <2>1. Content(Head(pipe[n])) = <<>>
    BY <1>2 DEF Exec, Content
  <2>2. \A m : Minus(Piped, <<>>, Piped', m)
    BY <1>1, <1>2, <2>1, Executed
  <2> QED BY <2>2, InNone, MinusNone
<1> HIDE DEF key, v
<1>10. \A k : /\ ~Front(pipe[n], link[n], k)
              /\ Front(pipe'[n], link'[n], k) => k = key
  BY <1>1, <1>2, Executed DEF key
<1>11. Front(pipe'[n], link'[n], key)
  <2>1. link'[n] # "closed"
    BY <1>2 DEF Exec
  <2> QED BY <1>1, <1>2, <2>1, Executed DEF key
<1>12. Listed[key] = v
  BY <1>3, <1>4, <1>10, ListedIs DEF v
<1>13. \A m : Minus(Listed, v, Listed', m)
  <2>1. Replaced(Listed, key, <<>>, Listed')
    BY <1>2, <1>3, <1>4, <1>10, <1>11, ListedIs DEF Replaced
  <2>2. \A m : Minus(Listed, Listed[key], Listed', m)
    BY <2>1, MinusClear
  <2> QED BY <1>12, <2>2
<1>14. \A m : InDoomed(m)' => Somewhere(m)
  <2>1. SUFFICES ASSUME NEW m, InDoomed(m)' PROVE Has(Listed, m)
    BY DEF Somewhere
  <2>2. PICK k \in Key : Doomed(k)' /\ In(lists'[k], m)
    BY <2>1 DEF InDoomed
  <2>3. k = key
    BY <1>3, <1>10, <2>2, DoomedIs
  <2>4. In(Listed[key], m)
    BY <1>2, <1>12, <2>2, <2>3 DEF v
  <2> QED BY <1>4, <2>4, ListedIs DEF Has
<1>15. ASSUME NEW m PROVE Fate(m)
  BY <1>1, <1>8, <1>9, <1>13, SameSelf, FateRead
<1> QED BY <1>1, <1>6, <1>7, <1>14, <1>15 DEF Keeps, Orderly

LEMMA ExecDelKeeps ==
  ASSUME OneProcess, MailboxInv, NEW n \in Node, Redis(n), ExecDel(n)
  PROVE  Keeps(Mail)
<1> DEFINE key == Head(pipe[n]).name
<1>1. /\ Queued' = Queued /\ Gone' = Gone /\ QueueInv' /\ UNCHANGED severed
      /\ Inv /\ PipeInv /\ LinkInv
  BY RedisQueues
<1>2. /\ Exec(n, "del") /\ UNCHANGED <<reply, link>>
      /\ lists' = [lists EXCEPT ![key] = <<>>]
  BY DEF ExecDel
<1>3. n = TheNode /\ \A i \in Node : i = n
  BY DoomedIs
<1>4. LinkInv'
  BY <1>1, <1>2, LinkExec
<1>5. PipeInv' /\ Replied' = Replied
  BY <1>1, <1>2, Executed DEF PipeInv, Replied
<1>6. \A m : Same(Piped, Piped', m)
  <2>1. Content(Head(pipe[n])) = <<>>
    BY <1>2 DEF Exec, Content
  <2>2. \A m : Minus(Piped, <<>>, Piped', m)
    BY <1>1, <1>2, <2>1, Executed
  <2> QED BY <2>2, InNone, MinusNone
<1>7. \A k : /\ Front(pipe[n], link[n], k) <=> k = key
             /\ ~Front(pipe'[n], link'[n], k)
  BY <1>1, <1>2, Executed
<1>8. Listed' = Listed
  <2>1. \A k \in Key : lists'[k] = IF k = key THEN <<>> ELSE lists[k]
    BY <1>1, <1>2 DEF Inv, TypeOK, RedisTypeOK
  <2> QED BY <1>3, <1>7, <2>1, ListedIs, ListedSame
<1>9. \A m : ~InDoomed(m)'
  <2>1. \A k : ~Doomed(k)'
    BY <1>3, <1>7, DoomedIs
  <2> QED BY <2>1 DEF InDoomed
<1>10. ASSUME NEW m PROVE Fate(m)
  BY <1>1, <1>5, <1>6, <1>8, SameSelf, FateStill
<1> QED BY <1>1, <1>4, <1>5, <1>9, <1>10 DEF Keeps, Orderly

LEMMA ExecRpushKeeps ==
  ASSUME OneProcess, MailboxInv, NEW n \in Node, Redis(n), ExecRpush(n)
  PROVE  Keeps(Mail)
<1> DEFINE c == Head(pipe[n])
           key == c.name
           v == c.msgs
           e == Evt("rpush", key, <<>>)
<1>1. /\ Queued' = Queued /\ Gone' = Gone /\ QueueInv' /\ UNCHANGED severed
      /\ Inv /\ PipeInv /\ LinkInv
  BY RedisQueues
<1>2. /\ Exec(n, "rpush") /\ UNCHANGED link
      /\ lists' = [lists EXCEPT ![key] = @ \o v]
      /\ IF key.depth = 1 THEN PushTo(key.user, e) ELSE UNCHANGED reply
  BY DEF ExecRpush
<1>3. n = TheNode /\ \A i \in Node : i = n
  BY DoomedIs
<1>4. key \in Key /\ v \in Seq(Msg) /\ Content(c) = v
  <2>1. c \in Command /\ c.op = "rpush"
    BY <1>1, <1>2, ExecEffect
  <2> QED BY <2>1 DEF Command, Content
<1>5. key.depth = 1 => e \in Event
  <2>1. <<>> \in Seq(Msg)
    OBVIOUS
  <2> QED BY <1>4, <2>1 DEF Event, Evt, Key, Names
<1>6. e.msgs = <<>> /\ Mails(e.msgs) = {}
  BY MailNone DEF Evt
<1>7. LinkInv'
  BY <1>1, <1>2, LinkExec
<1>8. \A m : Minus(Piped, v, Piped', m)
  <2>1. \A m : Minus(Piped, Content(c), Piped', m)
    BY <1>1, <1>2, Executed
  <2> QED BY <1>4, <2>1
<1>9. \A i \in Node : Tidy(pipe'[i])
  BY <1>1, <1>2, Executed
<1>10. \A k : /\ ~Front(pipe[n], link[n], k)
              /\ ~Front(pipe'[n], link'[n], k)
  <2> DEFINE op == "rpush"
  <2>1. Exec(n, op) /\ op # "del" /\ op # "lrange"
    BY <1>2
  <2> HIDE DEF op
  <2> QED BY <1>1, <2>1, Executed
<1> HIDE DEF e, c
<1>11. /\ \A i \in Node : Bare(reply'[i])
       /\ \A m \in Mail : Same(Replied, Replied', m)
  <2>1. CASE key.depth = 1
    <3>1. \A i \in Node : reply'[i] = reply[i] \/ reply'[i] = Append(reply[i], e)
      BY <1>1, <1>2, <1>5, <2>1, PushedTo
    <3> QED BY <1>1, <1>5, <1>6, <2>1, <3>1, BareEvent
  <2>2. CASE key.depth # 1
    BY <1>1, <1>2, <2>2, SameSelf DEF PipeInv, Replied
  <2> QED BY <2>1, <2>2
<1>12. PipeInv'
  BY <1>9, <1>11 DEF PipeInv
<1> HIDE DEF key, v
<1>13. \A m : Plus(Listed, v, Listed', m)
  <2>1. lists \in [Key -> Seq(Msg)]
    BY <1>1 DEF Inv, TypeOK, RedisTypeOK
  <2>2. lists[key] \in Seq(Msg) /\ Listed[key] = lists[key]
    BY <1>3, <1>4, <1>10, <2>1, ListedIs
  <2>3. Replaced(Listed, key, Listed[key] \o v, Listed')
    BY <1>2, <1>3, <1>4, <1>10, <2>1, <2>2, ListedIs DEF Replaced
  <2> QED BY <1>4, <2>2, <2>3, PlusAppend
<1>14. \A m : ~InDoomed(m)'
  <2>1. \A k : ~Doomed(k)'
    BY <1>3, <1>10, DoomedIs
  <2> QED BY <2>1 DEF InDoomed
<1>15. ASSUME NEW m \in Mail PROVE Fate(m)
  BY <1>1, <1>8, <1>11, <1>13, SameSelf, FateRpush
<1> QED BY <1>1, <1>7, <1>12, <1>14, <1>15 DEF Keeps, Orderly

LEMMA RedisKeeps ==
  ASSUME OneProcess, MailboxInv, NEW n \in Node, Redis(n)
  PROVE  Keeps(Mail)
  BY ExecSubscriptionKeeps, ExecLrangeKeeps, ExecDelKeeps, ExecRpushKeeps,
     ExecPublishKeeps, ExecQuitKeeps DEF Redis, RedisStep

-----------------------------------------------------------------------------
(* A list expires; the connection is lost.                                 *)

LEMMA ExpireKeeps ==
  ASSUME OneProcess, MailboxInv, NEW key \in Key, ListExpires(key)
  PROVE  Keeps(Mail)
<1> DEFINE v == Listed[key]
           n == TheNode
<1>1. /\ UNCHANGED <<pipe, reply, link, queue, hash, severed, delivered, givenUp>>
      /\ lists' = [lists EXCEPT ![key] = <<>>]
      /\ expired' = expired \cup (IF Doomed(key) THEN {} ELSE Mails(lists[key]))
  BY DEF ListExpires, Expire, sessionVars
<1>2. Inv /\ PipeInv /\ LinkInv /\ QueueInv /\ lists \in [Key -> Seq(Msg)]
  BY MailboxTypes DEF MailboxInv
<1>3. PipeInv' /\ LinkInv' /\ QueueInv' /\ UNCHANGED <<Queued, Piped, Replied>>
  BY <1>1, <1>2 DEF PipeInv, LinkInv, QueueInv, Queued, Piped, Replied
<1>4. \A k : Front(pipe'[n], link'[n], k) <=> Front(pipe[n], link[n], k)
  BY <1>1
<1>5. \A k : Doomed(k) <=> Front(pipe[n], link[n], k)
  BY DoomedIs
<1>6. lists'[key] = <<>> /\ \A k \in Key : k # key => lists'[k] = lists[k]
  BY <1>1, <1>2
<1>7. v = IF Doomed(key) THEN <<>> ELSE lists[key]
  BY <1>5, ListedIs
<1>8. Replaced(Listed, key, <<>>, Listed')
  BY <1>4, <1>6, ListedIs DEF Replaced
<1>9. \A m : Minus(Listed, v, Listed', m)
  BY <1>8, MinusClear
<1>10. \A m \in Mail : m \in Gone' <=> m \in Gone \/ In(v, m)
  <2>1. expired' = expired \cup Mails(v)
    BY <1>1, <1>7, MailNone
  <2> QED BY <1>1, <2>1, InMails DEF Gone, Delivered
<1>11. \A m : InDoomed(m)' => InDoomed(m)
  <2>1. SUFFICES ASSUME NEW m, InDoomed(m)' PROVE InDoomed(m)
    OBVIOUS
  <2>2. PICK k \in Key : Doomed(k)' /\ In(lists'[k], m)
    BY <2>1 DEF InDoomed
  <2>3. k # key
    BY <1>6, <2>2, InNone
  <2>4. Doomed(k)
    BY <1>1, <2>2, DoomedIs
  <2> QED BY <1>6, <2>2, <2>3, <2>4 DEF InDoomed
<1> HIDE DEF v
<1>12. ASSUME NEW m \in Mail PROVE Fate(m)
  BY <1>3, <1>9, <1>10, SameSelf, FateExpired
<1> QED BY <1>3, <1>11, <1>12 DEF Keeps, Orderly

\* Nothing else than what is in the list of key, in the pipeline and in the
\* answers is affected when a connection is lost.
LEMMA LostKeeps ==
  ASSUME OneProcess, MailboxInv, NEW n \in Node, LinkLost(n)
  PROVE  /\ Keeps(Mail \ severed') /\ severed = {}
         /\ \A m \in Mail : m \in severed' => Somewhere(m) \/ InDoomed(m)
<1>1. /\ UNCHANGED <<lists, queue, hash, delivered, givenUp, expired>>
      /\ pipe' = [pipe EXCEPT ![n] = <<>>] /\ reply' = [reply EXCEPT ![n] = <<>>]
      /\ link[n] = "up" /\ link' = [link EXCEPT ![n] = "renewed"]
      /\ severed' = severed \cup Stored(n, DOMAIN pipe[n]) \cup Answered(n, DOMAIN reply[n])
           \cup UNION {Mails(lists[k]) : k \in {k \in Key : DoomedBy(n, k)}}
  BY DEF LinkLost, Lose, sessionVars
<1>2. /\ Inv /\ PipeInv /\ LinkInv /\ QueueInv /\ lists \in [Key -> Seq(Msg)]
      /\ pipe[n] \in Seq(Command) /\ reply[n] \in Seq(Event)
  BY MailboxTypes DEF MailboxInv
<1>3. n = TheNode /\ \A i \in Node : i = n
  BY DoomedIs
<1>4. pipe'[n] = <<>> /\ reply'[n] = <<>> /\ link'[n] = "renewed"
  BY <1>1, <1>2 DEF Inv, TypeOK, RedisTypeOK
<1>5. severed = {}
  BY <1>1, <1>2 DEF LinkInv
<1>6. \A m \in Mail : m \in severed' <=>
        Has(Piped, m) \/ Has(Replied, m) \/ InDoomed(m)
  <2>1. TAKE m \in Mail
  <2>2. m \in Stored(n, DOMAIN pipe[n]) <=> Has(Piped, m)
    <3>1. m \in Stored(n, DOMAIN pipe[n]) <=>
            \E i \in 1 .. Len(pipe[n]) : pipe[n][i].op = "rpush" /\ In(pipe[n][i].msgs, m)
      BY <1>2, InMails DEF Stored
    <3>2. Has(Piped, m) <=> \E i \in 1 .. Len(pipe[n]) : In(Content(pipe[n][i]), m)
      BY <1>3 DEF Has, Piped, Contents
    <3>3. \A i : In(Content(pipe[n][i]), m) <=>
                   pipe[n][i].op = "rpush" /\ In(pipe[n][i].msgs, m)
      BY InNone DEF Content
    <3> QED BY <3>1, <3>2, <3>3
  <2>3. m \in Answered(n, DOMAIN reply[n]) <=> Has(Replied, m)
    <3>1. m \in Answered(n, DOMAIN reply[n]) <=> \E i \in 1 .. Len(reply[n]) : In(reply[n][i].msgs, m)
      BY <1>2, InMails DEF Answered
    <3>2. Has(Replied, m) <=> \E i \in 1 .. Len(reply[n]) : In(reply[n][i].msgs, m)
      BY <1>3 DEF Has, Replied, Answers
    <3> QED BY <3>1, <3>2
  <2>4. m \in UNION {Mails(lists[k]) : k \in {k \in Key : DoomedBy(n, k)}} <=> InDoomed(m)
    <3>1. \A k : DoomedBy(n, k) <=> Doomed(k)
      BY <1>3 DEF Doomed
    <3> QED BY <3>1, InMails DEF InDoomed
  <2> QED BY <1>1, <1>5, <2>2, <2>3, <2>4
<1>7. Len(<<>>) = 0
  OBVIOUS
<1>8. PipeInv' /\ LinkInv' /\ QueueInv' /\ UNCHANGED <<Queued, Gone>>
  BY <1>1, <1>2, <1>3, <1>4, <1>7
     DEF PipeInv, Tidy, Bare, LinkInv, QueueInv, Queued, Gone, Delivered
<1>9. \A k : ~Front(pipe'[n], link'[n], k)
  BY <1>4 DEF Front
<1>10. \A m : ~InDoomed(m)'
  <2>1. \A k : ~Doomed(k)'
    BY <1>3, <1>9, DoomedIs
  <2> QED BY <2>1 DEF InDoomed
<1>11. ASSUME NEW m \in Mail \ severed' PROVE Fate(m)
  <2>1. ~Has(Piped, m) /\ ~Has(Replied, m) /\ ~InDoomed(m)
    BY <1>6
  <2>2. ~Has(Piped', m) /\ ~Has(Replied', m)
    BY <1>3, <1>4, <1>7 DEF Piped, Replied, Contents, Answers, Has
  <2>3. Same(Piped, Piped', m) /\ Same(Replied, Replied', m)
    BY <2>1, <2>2 DEF Same, Has, Single
  <2>4. \A k \in Key : In(Listed'[k], m) => Listed'[k] = Listed[k]
    <3>1. TAKE k \in Key
    <3>2. In(lists[k], m) => ~Front(pipe[n], link[n], k)
      BY <1>3, <2>1, DoomedIs DEF InDoomed
    <3> QED BY <1>1, <1>3, <1>9, <3>2, ListedIs
  <2>5. \A k \in Key : In(Listed[k], m) => Listed'[k] = Listed[k]
    BY <1>1, <1>3, <1>9, ListedIs, InNone
  <2>6. Same(Listed, Listed', m)
    BY <2>4, <2>5, ListedIs DEF Same, Has, Single
  <2> QED BY <1>8, <2>3, <2>6, SameSelf, FateStill
<1>12. \A m \in Mail : m \in severed' => Somewhere(m) \/ InDoomed(m)
  BY <1>6 DEF Somewhere
<1> QED BY <1>5, <1>8, <1>10, <1>11, <1>12 DEF Keeps, Orderly

-----------------------------------------------------------------------------
(* What will be stored and what will not: the commands behind QUIT.        *)

Late(p, k, i) == k = "closed" \/ \E j \in 1 .. i - 1 : p[j].op = "quit"
TooLate(p, k, m) == \E i \in 1 .. Len(p) : Late(p, k, i) /\ In(Content(p[i]), m)
InTime(p, k, m) == \E i \in 1 .. Len(p) : ~Late(p, k, i) /\ In(Content(p[i]), m)

LEMMA StoredIn ==
  ASSUME Inv, NEW n \in Node, NEW I \in SUBSET (1 .. Len(pipe[n])), NEW m \in Mail
  PROVE  m \in Stored(n, I) <=> \E i \in I : In(Content(pipe[n][i]), m)
<1>1. m \in Stored(n, I) <=> \E i \in I : pipe[n][i].op = "rpush" /\ m \in Mails(pipe[n][i].msgs)
  BY DEF Stored
<1>2. \A i : In(Content(pipe[n][i]), m) <=>
               pipe[n][i].op = "rpush" /\ m \in Mails(pipe[n][i].msgs)
  BY InNone, InMails DEF Content
<1> QED BY <1>1, <1>2

LEMMA ExecutableAre ==
  ASSUME Inv, NEW n \in Node
  PROVE  /\ DOMAIN pipe[n] = 1 .. Len(pipe[n])
         /\ Executable(n) = {i \in 1 .. Len(pipe[n]) : ~Late(pipe[n], link[n], i)}
<1>1. DOMAIN pipe[n] = 1 .. Len(pipe[n])
  BY DeliveryTypes
<1> QED BY <1>1 DEF Executable, Late

LEMMA UnstoredIs ==
  ASSUME OneProcess, Inv, NoQuit, NEW m \in Mail
  PROVE  /\ m \in Unstored <=> TooLate(pipe[TheNode], link[TheNode], m)
         /\ m \in Stored(TheNode, Executable(TheNode)) <=>
              InTime(pipe[TheNode], link[TheNode], m)
<1> DEFINE n == TheNode
           p == pipe[n]
<1>1. n \in Node /\ \A i \in Node : i = n
  BY DoomedIs
<1>2. /\ DOMAIN p = 1 .. Len(p)
      /\ Executable(n) = {i \in 1 .. Len(p) : ~Late(p, link[n], i)}
      /\ link[n] \in {"up", "renewed", "leaving", "closed"} /\ p \in Seq(Command)
  BY <1>1, ExecutableAre, DeliveryTypes DEF Inv, TypeOK, RedisTypeOK
<1> HIDE DEF n
<1>3. m \in Stored(n, Executable(n)) <=> InTime(p, link[n], m)
  BY <1>1, <1>2, StoredIn DEF InTime
<1>4. m \in Stored(n, DOMAIN p \ Executable(n)) <=> TooLate(p, link[n], m)
  BY <1>1, <1>2, StoredIn DEF TooLate
<1>5. m \in Unstored <=>
        link[n] \in {"leaving", "closed"} /\ m \in Stored(n, DOMAIN p \ Executable(n))
  BY <1>1 DEF Unstored
<1>6. link[n] \notin {"leaving", "closed"} => ~TooLate(p, link[n], m)
  <2>1. SUFFICES ASSUME link[n] \notin {"leaving", "closed"}, NEW i \in 1 .. Len(p)
        PROVE ~Late(p, link[n], i)
    BY DEF TooLate
  <2>2. \A j \in 1 .. Len(p) : p[j].op # "quit"
    BY <1>1, <1>2, <2>1 DEF NoQuit
  <2>3. \A j \in 1 .. i - 1 : j \in 1 .. Len(p)
    BY <1>2
  <2> QED BY <2>1, <2>2, <2>3 DEF Late
<1> QED BY <1>3, <1>4, <1>5, <1>6 DEF n

LEMMA LateConcat ==
  ASSUME NEW p \in Seq(Command), NEW c \in Seq(Command), NEW k, NEW m
  PROVE  /\ TooLate(p, k, m) => TooLate(p \o c, k, m)
         /\ TooLate(p \o c, k, m) /\ ~Has(Contents(c), m) => TooLate(p, k, m)
<1> DEFINE v == p \o c
<1>1. /\ \A i \in 1 .. Len(p) : i \in 1 .. Len(v) /\ v[i] = p[i]
      /\ \A i \in 1 .. Len(v) :
           i \in 1 .. Len(p) \/ (i - Len(p) \in 1 .. Len(c) /\ v[i] = c[i - Len(p)])
      /\ Len(p) \in Nat
  OBVIOUS
<1> HIDE DEF v
<1>2. \A i \in 1 .. Len(p) : Late(v, k, i) <=> Late(p, k, i)
  <2>1. TAKE i \in 1 .. Len(p)
  <2>2. \A j \in 1 .. i - 1 : j \in 1 .. Len(p) /\ v[j] = p[j]
    BY <1>1
  <2> QED BY <2>2 DEF Late
<1>3. TooLate(p, k, m) => TooLate(v, k, m)
  BY <1>1, <1>2 DEF TooLate
<1>4. ASSUME TooLate(v, k, m), ~Has(Contents(c), m) PROVE TooLate(p, k, m)
  <2>1. PICK i \in 1 .. Len(v) : Late(v, k, i) /\ In(Content(v[i]), m)
    BY <1>4 DEF TooLate
  <2>2. ~(i - Len(p) \in 1 .. Len(c) /\ v[i] = c[i - Len(p)])
    <3>1. \A j \in 1 .. Len(c) : ~In(Content(c[j]), m)
      BY <1>4 DEF Has, Contents
    <3> QED BY <2>1, <3>1
  <2>3. i \in 1 .. Len(p) /\ v[i] = p[i]
    BY <1>1, <2>2
  <2> QED BY <1>2, <2>1, <2>3 DEF TooLate
<1> QED BY <1>3, <1>4 DEF v

LEMMA LateTail ==
  ASSUME NEW p \in Seq(Command), p # <<>>, NEW k, NEW j, NEW m, k # "closed",
         j = k \/ j = "closed", Head(p).op = "quit" => j = "closed",
         TooLate(p, k, m)
  PROVE  TooLate(Tail(p), j, m)
<1>1. PICK i \in 1 .. Len(p) : Late(p, k, i) /\ In(Content(p[i]), m)
  BY DEF TooLate
<1>2. PICK h \in 1 .. i - 1 : p[h].op = "quit"
  BY <1>1 DEF Late
<1> DEFINE q == Tail(p)
<1>3. /\ Len(p) \in Nat /\ p[1] = Head(p)
      /\ \A x \in 1 .. Len(p) : x # 1 => x - 1 \in 1 .. Len(q) /\ q[x - 1] = p[x]
  <2>1. Len(p) \in Nat /\ p[1] = Head(p)
    OBVIOUS
  <2>2. ASSUME NEW x \in 1 .. Len(p), x # 1
        PROVE  x - 1 \in 1 .. Len(q) /\ q[x - 1] = p[x]
    <3>1. x - 1 \in 1 .. Len(q) /\ q[x - 1] = p[(x - 1) + 1]
      BY <2>2
    <3>2. (x - 1) + 1 = x
      OBVIOUS
    <3> QED BY <3>1, <3>2
  <2> QED BY <2>1, <2>2
<1> HIDE DEF q
<1>4. i # 1 /\ h \in 1 .. Len(p) /\ h < i
  BY <1>1, <1>2, <1>3
<1>5. i - 1 \in 1 .. Len(q) /\ In(Content(q[i - 1]), m)
  BY <1>1, <1>3, <1>4
<1>6. Late(q, j, i - 1)
  <2>1. CASE h = 1
    BY <1>2, <1>3, <2>1 DEF Late
  <2>2. CASE h # 1
    <3>1. q[h - 1].op = "quit" /\ h - 1 \in 1 .. Len(q)
      BY <1>2, <1>3, <1>4, <2>2
    <3>2. h - 1 \in 1 .. (i - 1) - 1
      BY <1>4, <2>2, <3>1
    <3> QED BY <3>1, <3>2 DEF Late
  <2> QED BY <2>1, <2>2
<1> QED BY <1>5, <1>6 DEF TooLate, q

\* How a step changes the pipeline p and the connection k.
Moves(p, k, q, j) ==
  \/ k = "up"
  \/ k = j /\ \E c \in Seq(Command) : q = p \o c
  \/ /\ p # <<>> /\ k # "closed" /\ q = Tail(p)
     /\ j = k \/ j = "closed"
     /\ Head(p).op = "quit" => j = "closed"

LEMMA MovesNot ==
  ASSUME Inv, NEW n \in Node, UNCHANGED <<pipe, link>>
  PROVE  Moves(pipe[n], link[n], pipe'[n], link'[n])
<1> DEFINE c == <<>>
<1>1. c \in Seq(Command) /\ pipe[n] = pipe[n] \o c
  BY DeliveryTypes
<1> HIDE DEF c
<1> QED BY <1>1 DEF Moves

LEMMA MovesRequest ==
  ASSUME Inv, NEW n \in Node, NEW cmds \in Seq(Command), Request(n, cmds), UNCHANGED link
  PROVE  Moves(pipe[n], link[n], pipe'[n], link'[n])
  BY RequestEffect DEF Moves

LEMMA MovesExec ==
  ASSUME Inv, NEW n \in Node, NEW op, op # "quit", Exec(n, op), UNCHANGED link
  PROVE  Moves(pipe[n], link[n], pipe'[n], link'[n])
<1>1. pipe[n] # <<>> /\ link[n] # "closed" /\ Head(pipe[n]).op = op /\ pipe'[n] = Tail(pipe[n])
  BY ExecEffect DEF Exec
<1> QED BY <1>1 DEF Moves

LEMMA MovesQuit ==
  ASSUME Inv, NEW n \in Node, ExecQuit(n)
  PROVE  Moves(pipe[n], link[n], pipe'[n], link'[n])
<1>1. Exec(n, "quit") /\ link' = [link EXCEPT ![n] = "closed"]
  BY DEF ExecQuit
<1>2. pipe[n] # <<>> /\ link[n] # "closed" /\ pipe'[n] = Tail(pipe[n])
  BY <1>1, ExecEffect DEF Exec
<1>3. link'[n] = "closed"
  BY <1>1 DEF Inv, TypeOK, RedisTypeOK
<1> QED BY <1>2, <1>3 DEF Moves

LEMMA HandedType ==
  ASSUME NEW b, NEW name \in Names(0 .. 1), NEW msgs \in Seq(Msg)
  PROVE  (IF b THEN <<>> ELSE StoreCmds(name, msgs)) \in Seq(Command)
  BY ProperHanded DEF Proper

LEMMA SessionMoves ==
  ASSUME OneProcess, Inv, NEW s \in Session, SessionStep(s)
  PROVE  Moves(pipe[TheNode], link[TheNode], pipe'[TheNode], link'[TheNode])
<1> DEFINE n == home[s]
<1>1. \A i \in Node : i = TheNode
  BY DoomedIs
<1>2. Open(s) => n = TheNode /\ TheNode \in Node
  BY <1>1, DoomedIs DEF Inv, TypeOK, SessionTypeOK, Open
<1>3. CASE \/ OnAppLoginFail(s) \/ OnAppUnknown(s)
           \/ SessionWrite(s) \/ SessionWriteError(s) \/ SessionPong(s)
           \/ \E i \in Node : SessionRun(s, i)
           \/ \E m \in Msg : OnAppPublish(s, m)
           \/ \E u \in User : OnAppLoginThrows(s, u)
  <2>1. UNCHANGED <<pipe, link>>
    BY <1>3 DEF OnAppLoginThrows, OnAppLoginFail, OnAppUnknown, SessionWrite, SessionWriteError,
       SessionPong, SessionRun, OnAppPublish, redisVars
  <2> QED BY <2>1, MovesNot, DoomedIs
<1>4. CASE OnReadError(s)
  <2> DEFINE cmds == LogoutCmds(hash[s], Unsent(s))
  <2>1. /\ Open(s) /\ UNCHANGED link
        /\ \/ LoggedIn(s) /\ Request(n, cmds)
           \/ UNCHANGED pipe
    BY <1>4 DEF OnReadError, Finish
  <2>2. CASE LoggedIn(s) /\ Request(n, cmds)
    <3>1. cmds \in Seq(Command)
      BY <2>2, UnsentType, LogoutCmdsType DEF LoggedIn, Inv, TypeOK, SessionTypeOK
    <3> HIDE DEF cmds
    <3> QED BY <1>2, <2>1, <2>2, <3>1, MovesRequest
  <2>3. CASE UNCHANGED pipe
    BY <2>1, <2>3, MovesNot, DoomedIs
  <2> QED BY <2>1, <2>2, <2>3
<1>5. ASSUME NEW u \in User, OnAppLogin(s, u)
      PROVE  Moves(pipe[TheNode], link[TheNode], pipe'[TheNode], link'[TheNode])
  <2>1. Open(s) /\ UNCHANGED link /\ Request(n, LoginCmds(u))
    BY <1>5 DEF OnAppLogin
  <2> QED BY <1>2, <2>1, LoginCmdsType, MovesRequest
<1>6. ASSUME NEW u \in User, NEW m \in Msg, NEW complete \in BOOLEAN,
             OnAppChat(s, m, u, complete)
      PROVE  Moves(pipe[TheNode], link[TheNode], pipe'[TheNode], link'[TheNode])
  <2> DEFINE cmds == IF Found(n, UserId(u)) THEN <<>> ELSE StoreCmds(UserId(u), <<m>>)
  <2>1. Open(s) /\ UNCHANGED link /\ Request(n, cmds)
    BY <1>6 DEF OnAppChat
  <2>2. <<m>> \in Seq(Msg)
    OBVIOUS
  <2>3. cmds \in Seq(Command)
    BY <2>2, HandedType, NameTypes
  <2> HIDE DEF cmds
  <2> QED BY <1>2, <2>1, <2>3, MovesRequest
<1>7. ASSUME NEW u \in User, NEW m \in Msg, OnAppPresence(s, m, u)
      PROVE  Moves(pipe[TheNode], link[TheNode], pipe'[TheNode], link'[TheNode])
  <2> DEFINE c == Cmd("publish", UserId(u), <<m>>)
             cmds == IF Found(n, UserId(u)) THEN <<>> ELSE <<c>>
  <2>1. Open(s) /\ UNCHANGED link /\ Request(n, cmds)
    BY <1>7 DEF OnAppPresence
  <2>2. <<m>> \in Seq(Msg)
    OBVIOUS
  <2>3. c \in Command
    BY <2>2, NameTypes, CmdTypes
  <2>4. cmds \in Seq(Command)
    BY <2>3
  <2> HIDE DEF cmds
  <2> QED BY <1>2, <2>1, <2>4, MovesRequest
<1> QED BY <1>3, <1>4, <1>5, <1>6, <1>7 DEF SessionStep

LEMMA ReplyMoves ==
  ASSUME OneProcess, Inv, NEW n \in Node, OnReply(n)
  PROVE  Moves(pipe[n], link[n], pipe'[n], link'[n])
<1>1. CASE OnPushRpush(n)
  <2> DEFINE key == Head(reply[n]).name
             cmds == <<Cmd("lrange", key, <<>>), Cmd("del", key, <<>>)>>
  <2>1. Receive(n, "rpush") /\ Request(n, cmds) /\ UNCHANGED link
    BY <1>1 DEF OnPushRpush
  <2>2. key \in Key
    <3>1. reply \in [Node -> Seq(Event)]
      BY DEF Inv, TypeOK, RedisTypeOK
    <3>2. Head(reply[n]) \in Event /\ Head(reply[n]).type = "rpush"
      BY <2>1, <3>1, ReceiveType
    <3> QED BY <3>2, EventTypes, NameTypes
  <2>3. cmds \in Seq(Command)
    BY <2>2, ProperRead DEF Proper
  <2> HIDE DEF cmds
  <2> QED BY <2>1, <2>3, MovesRequest
<1>2. CASE OnLrange(n)
  <2> DEFINE name == Head(chatQueue[n])
             msgs == Head(reply[n]).msgs
             cmds == IF Found(n, name) THEN <<>> ELSE StoreCmds(name, msgs)
  <2>1. /\ Receive(n, "lrange") /\ Request(n, cmds) /\ chatQueue[n] # <<>>
        /\ UNCHANGED link
    BY <1>2 DEF OnLrange
  <2>2. msgs \in Seq(Msg)
    <3>1. reply \in [Node -> Seq(Event)]
      BY DEF Inv, TypeOK, RedisTypeOK
    <3>2. Head(reply[n]) \in Event
      BY <2>1, <3>1, ReceiveType
    <3> QED BY <3>2, EventTypes
  <2>3. name \in Names(0 .. 1)
    <3>1. chatQueue[n] \in Seq(Names(0 .. 1))
      BY DeliveryTypes
    <3> QED BY <2>1, <3>1, TailType
  <2>4. cmds \in Seq(Command)
    BY <2>2, <2>3, HandedType
  <2> HIDE DEF cmds
  <2> QED BY <2>1, <2>4, MovesRequest
<1>3. CASE OnDbPresence(n)
  BY <1>3, MovesNot DEF OnDbPresence
<1> QED BY <1>1, <1>2, <1>3 DEF OnReply

LEMMA RedisMoves ==
  ASSUME Inv, NEW n \in Node, Redis(n)
  PROVE  Moves(pipe[n], link[n], pipe'[n], link'[n])
<1>1. CASE ExecQuit(n)
  BY <1>1, MovesQuit
<1>2. CASE ~ExecQuit(n)
  <2>1. PICK op \in {"subscribe", "unsubscribe", "lrange", "del", "rpush", "publish"} :
          Exec(n, op) /\ UNCHANGED link
    BY <1>2 DEF Redis, RedisStep, ExecSubscribe, ExecUnsubscribe, ExecLrange, ExecDel,
       ExecRpush, ExecPublish
  <2>2. op # "quit"
    BY <2>1
  <2> QED BY <2>1, <2>2, MovesExec
<1> QED BY <1>1, <1>2

LEMMA NextMoves ==
  ASSUME OneProcess, Inv, [Next]_vars
  PROVE  Moves(pipe[TheNode], link[TheNode], pipe'[TheNode], link'[TheNode])
<1> DEFINE M == Moves(pipe[TheNode], link[TheNode], pipe'[TheNode], link'[TheNode])
<1>1. TheNode \in Node /\ \A n \in Node : n = TheNode
  BY DoomedIs
<1>2. ASSUME NEW s \in Session, SessionStep(s) PROVE M
  BY <1>2, SessionMoves
<1>3. ASSUME NEW n \in Node, OnReply(n) \/ Redis(n) PROVE M
  BY <1>1, <1>3, ReplyMoves, RedisMoves
<1>4. ASSUME NEW n \in Node, ShutdownImpl(n) \/ LinkLost(n) PROVE M
  BY <1>1, <1>4 DEF Moves, ShutdownImpl, LinkLost, Lose
<1>5. ASSUME NEW key \in Key, ListExpires(key) PROVE M
  BY <1>1, <1>5, MovesNot DEF ListExpires, Expire
<1>6. ASSUME UNCHANGED vars PROVE M
  BY <1>1, <1>6, MovesNot DEF vars, redisVars
<1> QED BY <1>2, <1>3, <1>4, <1>5, <1>6 DEF Next

\* Message m is behind QUIT: what cannot be stored any more stays so.
LateMail(m) == TooLate(pipe[TheNode], link[TheNode], m)

LEMMA LateMoves ==
  ASSUME NEW p \in Seq(Command), NEW k, NEW q, NEW j, NEW m,
         Moves(p, k, q, j), k # "up", TooLate(p, k, m)
  PROVE  TooLate(q, j, m)
<1>1. ASSUME NEW c \in Seq(Command), q = p \o c, k = j PROVE TooLate(q, j, m)
  BY <1>1, LateConcat
<1>2. CASE /\ p # <<>> /\ k # "closed" /\ q = Tail(p)
           /\ j = k \/ j = "closed"
           /\ Head(p).op = "quit" => j = "closed"
  BY <1>2, LateTail
<1> QED BY <1>1, <1>2 DEF Moves

LEMMA LateGrows ==
  ASSUME OneProcess, Inv, NoQuit, [Next]_vars, NEW m, LateMail(m)
  PROVE  LateMail(m)'
<1> DEFINE n == TheNode
           p == pipe[n]
           k == link[n]
<1>1. Moves(p, k, pipe'[n], link'[n])
  BY NextMoves
<1>2. TooLate(p, k, m)
  BY DEF LateMail
<1>3. n \in Node /\ p \in Seq(Command)
  BY DoomedIs, DeliveryTypes
<1>4. k # "up"
  <2>1. SUFFICES ASSUME k = "up" PROVE ~TooLate(p, k, m)
    BY <1>2
  <2>2. \A i \in 1 .. Len(p) : p[i].op # "quit"
    BY <1>3, <2>1 DEF NoQuit
  <2>3. \A i \in 1 .. Len(p) : \A h \in 1 .. i - 1 : h \in 1 .. Len(p)
    BY <1>3
  <2> QED BY <2>1, <2>2, <2>3 DEF TooLate, Late
<1> HIDE DEF n
<1>5. TooLate(pipe'[n], link'[n], m)
  BY <1>1, <1>2, <1>3, <1>4, LateMoves
<1> QED BY <1>5 DEF LateMail, n

\* A message that is accepted makes no other come too late.
LEMMA ChatLate ==
  ASSUME OneProcess, Inv, NEW s \in Session, NEW m \in Msg, NEW u \in User,
         NEW complete \in BOOLEAN, OnAppChat(s, m, u, complete),
         NEW x \in Mail \ {m}, LateMail(x)'
  PROVE  LateMail(x)
<1> DEFINE n == home[s]
           name == UserId(u)
           msgs == <<m>>
           cmds == IF Found(n, name) THEN <<>> ELSE StoreCmds(name, msgs)
<1>1. Open(s) /\ UNCHANGED link /\ Request(n, cmds)
  BY DEF OnAppChat
<1>2. n = TheNode /\ n \in Node
  BY <1>1, DoomedIs DEF Inv, TypeOK, SessionTypeOK, Open
<1>3. msgs \in Seq(Msg)
  OBVIOUS
<1>4. cmds \in Seq(Command)
  BY <1>3, HandedType, NameTypes
<1>5. ~In(msgs, x)
  BY InOne
<1> HIDE DEF msgs, name
<1>6. ~Has(Contents(cmds), x)
  <2>1. CASE Found(n, name)
    BY <2>1, ProperNone, InNone DEF Store
  <2>2. CASE ~Found(n, name)
    BY <1>5, <2>2, StoreOne DEF Store
  <2> QED BY <2>1, <2>2
<1> HIDE DEF cmds, n
<1>7. pipe'[n] = pipe[n] \o cmds /\ pipe[n] \in Seq(Command) /\ link'[n] = link[n]
  BY <1>1, <1>2, RequestEffect, DeliveryTypes
<1> QED BY <1>2, <1>4, <1>6, <1>7, LateConcat DEF LateMail

LEMMA PublishLate ==
  ASSUME NEW s, NEW m, OnAppPublish(s, m), NEW x, LateMail(x)'
  PROVE  LateMail(x)
  BY DEF OnAppPublish, redisVars, LateMail

-----------------------------------------------------------------------------
(* The invariant is inductive.                                             *)

\* The two kinds of steps: message a is accepted for a user, or none is.
Accepting(a) ==
  /\ Accepts(a) /\ to[a] = None /\ to'[a] \in User
  /\ \A m \in Mail \ {a} : to'[m] = to[m] /\ (LateMail(m)' => LateMail(m))
  /\ UNCHANGED <<delivered, givenUp, expired, severed>>
Keeping ==
  /\ Keeps(Mail \ (givenUp \cup (severed' \ severed)))
  /\ \A m \in Mail : to'[m] = to[m]
  /\ \A m \in Mail : m \in givenUp' \cup severed' =>
       m \in givenUp \cup severed \/ Somewhere(m) \/ InDoomed(m)
  /\ delivered \subseteq delivered' /\ givenUp \subseteq givenUp'
  /\ expired \subseteq expired' /\ severed \subseteq severed'

LEMMA KeepingIs ==
  ASSUME NEW F, Keeps(F), Mail \ givenUp \subseteq F, UNCHANGED <<to, severed, givenUp>>,
         delivered \subseteq delivered', expired \subseteq expired'
  PROVE  Keeping
  BY DEF Keeping, Keeps

LEMMA FreshTo ==
  ASSUME Inv, NEW m \in Mail, NEW u \in User, Fresh(m, u)
  PROVE  to[m] = None /\ to'[m] \in User /\ \A x \in Mail \ {m} : to'[x] = to[x]
  BY DEF Inv, TypeOK, WorkerTypeOK, Fresh, Msg

LEMMA SessionStepIs ==
  ASSUME OneProcess, MailboxInv, NEW s \in Session, SessionStep(s)
  PROVE  Keeping \/ \E a \in Mail : Accepting(a)
<1>1. Inv
  BY MailboxTypes DEF MailboxInv
<1>2. CASE \/ OnAppUnknown(s) \/ SessionWriteError(s) \/ SessionPong(s)
           \/ \E n \in Node : SessionRun(s, n)
  <2>1. Keeps(Mail)
    BY <1>2, SessionOnlyKeeps
  <2>2. UNCHANGED <<to, severed, givenUp, delivered, expired>>
    BY <1>2 DEF OnAppUnknown, SessionWriteError, SessionPong, SessionRun, history
  <2> QED BY <2>1, <2>2, KeepingIs
<1>3. CASE SessionWrite(s)
  <2>1. Keeps(Mail \ givenUp)
    BY <1>3, WriteKeeps
  <2>2. UNCHANGED <<to, severed, givenUp, expired>> /\ delivered \subseteq delivered'
    BY <1>3 DEF SessionWrite
  <2> QED BY <2>1, <2>2, KeepingIs
<1>4. CASE OnReadError(s)
  <2>1. Keeps(Mail \ givenUp)
    BY <1>4, ReadErrorKeeps
  <2>2. UNCHANGED <<to, severed, givenUp, delivered, expired>>
    BY <1>4 DEF OnReadError, history
  <2> QED BY <2>1, <2>2, KeepingIs
<1>5. CASE OnAppLoginFail(s)
  <2>1. Keeps(Mail)
    BY <1>5, LoginFailKeeps
  <2>2. UNCHANGED <<to, severed, givenUp, delivered, expired>>
    BY <1>5 DEF OnAppLoginFail
  <2> QED BY <2>1, <2>2, KeepingIs
<1>6. ASSUME NEW u \in User, OnAppLogin(s, u) \/ OnAppLoginThrows(s, u) PROVE Keeping
  <2>1. /\ Keeps(Mail) /\ givenUp \subseteq givenUp'
        /\ \A m \in Mail : m \in givenUp' /\ m \notin givenUp => Somewhere(m)
    BY <1>6, LoginKeeps, LoginThrowsKeeps
  <2>2. UNCHANGED <<to, severed, delivered, expired>>
    BY <1>6 DEF OnAppLogin, OnAppLoginThrows
  <2> QED BY <2>1, <2>2 DEF Keeping, Keeps
<1>7. ASSUME NEW u \in User, NEW m \in Msg, NEW complete \in BOOLEAN,
             OnAppChat(s, m, u, complete)
      PROVE  Accepting(m) /\ m \in Mail
  <2>1. m \in Mail /\ Accepts(m)
    BY <1>7, ChatAccepts
  <2>2. /\ Fresh(m, u)
        /\ UNCHANGED <<severed, delivered, expired, givenUp>>
    BY <1>7 DEF OnAppChat
  <2>3. \A x \in Mail \ {m} : LateMail(x)' => LateMail(x)
    BY <1>1, <1>7, ChatLate
  <2> QED BY <1>1, <2>1, <2>2, <2>3, FreshTo DEF Accepting
<1>8. ASSUME NEW u \in User, NEW m \in Msg, OnAppPresence(s, m, u) PROVE Keeping
  <2>1. Keeps(Mail)
    BY <1>8, PresenceKeeps
  <2>2. /\ Fresh(m, u) /\ m \in Presence
        /\ UNCHANGED <<severed, givenUp, delivered, expired>>
    BY <1>8 DEF OnAppPresence
  <2>3. \A x \in Mail : to'[x] = to[x]
    BY <1>1, <2>2, ConstantsDiffer DEF Fresh, Inv, TypeOK, WorkerTypeOK, Msg
  <2> QED BY <2>1, <2>2, <2>3 DEF Keeping, Keeps
<1>9. ASSUME NEW m \in Msg, OnAppPublish(s, m) PROVE Accepting(m) /\ m \in Mail
  <2>1. m \in Mail /\ Accepts(m)
    BY <1>9, PublishAccepts
  <2>2. /\ Fresh(m, hash[s]) /\ hash[s] # None
        /\ UNCHANGED <<severed, delivered, expired, givenUp>>
    BY <1>9 DEF OnAppPublish, LoggedIn
  <2>3. hash[s] \in User
    BY <1>1, <2>2 DEF Inv, TypeOK, SessionTypeOK
  <2>4. \A x \in Mail \ {m} : LateMail(x)' => LateMail(x)
    BY <1>9, PublishLate
  <2> QED BY <1>1, <2>1, <2>2, <2>3, <2>4, FreshTo DEF Accepting
<1> QED BY <1>2, <1>3, <1>4, <1>5, <1>6, <1>7, <1>8, <1>9 DEF SessionStep

LEMMA NextIs ==
  ASSUME OneProcess, MailboxInv, [Next]_vars
  PROVE  Keeping \/ \E a \in Mail : Accepting(a)
<1>1. ASSUME NEW s \in Session, SessionStep(s)
      PROVE  Keeping \/ \E a \in Mail : Accepting(a)
  BY <1>1, SessionStepIs
<1>2. ASSUME NEW n \in Node, ShutdownImpl(n) \/ OnReply(n) \/ Redis(n) PROVE Keeping
  <2>1. CASE ShutdownImpl(n) \/ Redis(n)
    <3>1. Keeps(Mail)
      BY <2>1, ShutdownKeeps, RedisKeeps
    <3>2. UNCHANGED <<to, severed, givenUp, delivered, expired>>
      BY <2>1 DEF ShutdownImpl, Redis, history
    <3> QED BY <3>1, <3>2, KeepingIs
  <2>2. CASE OnReply(n)
    <3>1. /\ Keeps(Mail) /\ givenUp \subseteq givenUp'
          /\ \A m \in Mail : m \in givenUp' /\ m \notin givenUp => Somewhere(m)
      BY <2>2, ReplyKeeps
    <3>2. UNCHANGED <<to, severed, delivered, expired>>
      BY <2>2 DEF OnReply, OnPushRpush, OnLrange, OnDbPresence, history
    <3> QED BY <3>1, <3>2 DEF Keeping, Keeps
  <2> QED BY <1>2, <2>1, <2>2
<1>3. ASSUME NEW n \in Node, LinkLost(n) PROVE Keeping
  <2>1. /\ Keeps(Mail \ severed') /\ severed = {}
        /\ \A m \in Mail : m \in severed' => Somewhere(m) \/ InDoomed(m)
    BY <1>3, LostKeeps
  <2>2. UNCHANGED <<to, givenUp, delivered, expired>>
    BY <1>3 DEF LinkLost
  <2> QED BY <2>1, <2>2 DEF Keeping, Keeps
<1>4. ASSUME NEW key \in Key, ListExpires(key) PROVE Keeping
  <2>1. Keeps(Mail)
    BY <1>4, ExpireKeeps
  <2>2. UNCHANGED <<to, severed, givenUp, delivered>> /\ expired \subseteq expired'
    BY <1>4 DEF ListExpires
  <2> QED BY <2>1, <2>2, KeepingIs
<1>5. ASSUME UNCHANGED vars PROVE Keeping
  <2>1. UNCHANGED <<queue, hash, redisVars, history>>
    BY <1>5 DEF vars, sessionVars
  <2>2. UNCHANGED <<to, severed, givenUp, delivered, expired>>
    BY <2>1 DEF history
  <2> QED BY <2>1, <2>2, QuietKeeps, KeepingIs
<1> QED BY <1>1, <1>2, <1>3, <1>4, <1>5 DEF Next

LEMMA CleanStays ==
  ASSUME NEW m, Clean(m), Fate(m), to'[m] = to[m], m \in Gone => m \in Gone'
  PROVE  Clean(m)'
  BY DEF Clean, Fate

LEMMA CleanEnters ==
  ASSUME NEW m, Enters(m), ~Somewhere(m), m \notin Gone'
  PROVE  Clean(m)'
  BY DEF Clean, Enters

LEMMA SentAre ==
  ASSUME SentInv, NEW m \in Mail, to[m] = None
  PROVE  ~Somewhere(m) /\ ~InDoomed(m) /\ m \notin Settled \cup severed
  BY DEF SentInv

LEMMA KeepingInv ==
  ASSUME MailboxInv, Keeping
  PROVE  SentInv' /\ CleanInv'
<1> DEFINE F == Mail \ (givenUp \cup (severed' \ severed))
<1>1. /\ \A m \in F : Fate(m)
      /\ \A m \in Mail : InDoomed(m)' => Somewhere(m) \/ InDoomed(m)
      /\ \A m \in Mail : to'[m] = to[m]
  BY DEF Keeping, Keeps, Orderly
<1>2. delivered \subseteq delivered' /\ expired \subseteq expired'
      /\ givenUp \subseteq givenUp' /\ severed \subseteq severed'
  BY DEF Keeping
<1>3. \A m \in Mail : m \in givenUp' \cup severed' =>
        m \in givenUp \cup severed \/ Somewhere(m) \/ InDoomed(m)
  BY DEF Keeping
<1>4. SentInv /\ CleanInv
  BY DEF MailboxInv
<1>5. \A m \in F : Somewhere(m)' => Somewhere(m)
  BY <1>1 DEF Fate
<1>6. \A m \in F : m \in Gone' => m \in Gone \/ Somewhere(m)
  BY <1>1 DEF Fate
<1>7. SentInv'
  <2>1. SUFFICES ASSUME NEW m \in Mail,
                        Somewhere(m)' \/ InDoomed(m)' \/ m \in (Settled \cup severed)'
        PROVE  to[m] # None
    BY <1>1 DEF SentInv
  <2>2. \/ Somewhere(m) \/ InDoomed(m)
        \/ m \in givenUp \cup severed \/ m \in Gone
    <3>1. CASE m \in F
      BY <1>1, <1>3, <1>5, <1>6, <2>1, <3>1 DEF Settled, Gone
    <3>2. CASE m \notin F
      BY <1>3, <3>2
    <3> QED BY <3>1, <3>2
  <2>3. Somewhere(m) \/ InDoomed(m) \/ m \in Settled \cup severed
    BY <2>2 DEF Settled, Gone
  <2> QED BY <1>4, <2>3 DEF SentInv
<1>8. CleanInv'
  <2>1. SUFFICES ASSUME NEW m \in Mail \ (givenUp' \cup severed') PROVE Clean(m)'
    BY DEF CleanInv
  <2>2. m \in F /\ m \in Mail \ (givenUp \cup severed)
    BY <1>2, <2>1
  <2>3. m \in Gone => m \in Gone'
    BY <1>2 DEF Gone, Delivered
  <2>4. Clean(m) /\ Fate(m) /\ to'[m] = to[m]
    BY <1>1, <1>4, <2>2 DEF CleanInv
  <2> QED BY <2>3, <2>4, CleanStays
<1> QED BY <1>7, <1>8

LEMMA AcceptingInv ==
  ASSUME MailboxInv, NEW a \in Mail, Accepting(a)
  PROVE  SentInv' /\ CleanInv'
<1>1. /\ \A m \in Mail \ {a} : Fate(m) /\ to'[m] = to[m]
      /\ \A m \in Mail : InDoomed(m)' => Somewhere(m) \/ InDoomed(m)
      /\ Enters(a) /\ to[a] = None /\ to'[a] # None
      /\ UNCHANGED <<delivered, givenUp, expired, severed>>
  BY ConstantsDiffer DEF Accepting, Accepts, Orderly
<1>2. SentInv /\ CleanInv
  BY DEF MailboxInv
<1>3. UNCHANGED <<Gone, Settled>>
  BY <1>1 DEF Gone, Delivered, Settled
<1>4. SentInv'
  <2>1. SUFFICES ASSUME NEW m \in Mail \ {a},
                        Somewhere(m)' \/ InDoomed(m)' \/ m \in (Settled \cup severed)'
        PROVE  to[m] # None
    BY <1>1 DEF SentInv
  <2>2. Somewhere(m)' => Somewhere(m)
    BY <1>1 DEF Fate
  <2>3. Somewhere(m) \/ InDoomed(m) \/ m \in Settled \cup severed
    BY <1>1, <1>3, <2>1, <2>2
  <2> QED BY <1>2, <2>3 DEF SentInv
<1>5. CleanInv'
  <2>1. SUFFICES ASSUME NEW m \in Mail \ (givenUp \cup severed) PROVE Clean(m)'
    BY <1>1 DEF CleanInv
  <2>2. CASE m = a
    <3>1. ~Somewhere(a) /\ a \notin Gone'
      BY <1>1, <1>2, <1>3, SentAre DEF Settled, Gone
    <3> QED BY <1>1, <2>2, <3>1, CleanEnters
  <2>3. CASE m # a
    BY <1>1, <1>2, <1>3, <2>1, <2>3, CleanStays DEF CleanInv
  <2> QED BY <2>2, <2>3
<1> QED BY <1>4, <1>5

LEMMA InitMailbox == OneProcess /\ Init => MailboxInv
<1> SUFFICES ASSUME OneProcess, Init PROVE MailboxInv
  OBVIOUS
<1>1. DeliveryInv /\ AllMeant /\ DeliveredRight /\ TheNode \in Node
  BY InitAddress, DoomedIs DEF AddressInv
<1>2. Len(<<>>) = 0
  OBVIOUS
<1>3. /\ \A s \in Session : queue[s] = <<>>
      /\ \A k \in Key : lists[k] = <<>>
      /\ \A n \in Node : pipe[n] = <<>> /\ reply[n] = <<>> /\ link[n] = "up"
      /\ \A m \in Msg : to[m] = None
      /\ delivered = {} /\ givenUp = {} /\ expired = {} /\ severed = {}
  BY DEF Init, SessionInit, RedisInit
<1>4. PipeInv /\ LinkInv /\ QueueInv
  BY <1>2, <1>3 DEF PipeInv, Tidy, Bare, LinkInv, QueueInv, QueueOk
<1>5. ASSUME NEW m PROVE ~Has(Queued, m) /\ ~Has(Listed, m) /\ ~Has(Piped, m) /\ ~Has(Replied, m)
  <2>1. ~Has(Queued, m)
    BY <1>3, FramesEmpty, InNone DEF Has, Queued, Framed
  <2>2. ~Has(Listed, m)
    BY <1>3, InNone DEF Has, Listed, ListedOf
  <2>3. ~Has(Piped, m) /\ ~Has(Replied, m)
    <3>1. pipe[TheNode] = <<>> /\ reply[TheNode] = <<>>
      BY <1>1, <1>3
    <3>2. ~Has(Contents(<<>>), m) /\ ~Has(Answers(<<>>), m)
      BY <1>2 DEF Has, Contents, Answers
    <3> QED BY <3>1, <3>2 DEF Piped, Replied
  <2> QED BY <2>1, <2>2, <2>3
<1>6. ASSUME NEW m PROVE ~InDoomed(m)
  BY <1>3, InNone DEF InDoomed
<1>7. SentInv
  BY <1>3, <1>5, <1>6 DEF SentInv, Somewhere, Settled, Delivered
<1>8. CleanInv
  <2>1. SUFFICES ASSUME NEW m \in Mail PROVE Clean(m)
    BY DEF CleanInv
  <2>2. \A f : ~Has(f, m) => Single(f, m)
    BY DEF Has, Single
  <2>3. Alone(m) /\ to[m] = None
    BY <1>3, <1>5, <2>2 DEF Alone, Msg
  <2> QED BY <1>3, <2>3 DEF Clean, Gone, Delivered
<1> QED BY <1>1, <1>4, <1>7, <1>8 DEF MailboxInv

LEMMA NextMailbox == OneProcess /\ MailboxInv /\ [Next]_vars => MailboxInv'
<1> SUFFICES ASSUME OneProcess, MailboxInv, [Next]_vars PROVE MailboxInv'
  OBVIOUS
<1>1. DeliveryInv' /\ AllMeant' /\ DeliveredRight'
  BY NextAddress DEF MailboxInv, AddressInv
<1>2. CASE Keeping
  <2>1. PipeInv' /\ LinkInv' /\ QueueInv'
    BY <1>2 DEF Keeping, Keeps, Orderly
  <2> QED BY <1>1, <1>2, <2>1, KeepingInv DEF MailboxInv
<1>3. ASSUME NEW a \in Mail, Accepting(a) PROVE MailboxInv'
  <2>1. PipeInv' /\ LinkInv' /\ QueueInv'
    BY <1>3 DEF Accepting, Accepts, Orderly
  <2> QED BY <1>1, <1>3, <2>1, AcceptingInv DEF MailboxInv
<1> QED BY <1>2, <1>3, NextIs

-----------------------------------------------------------------------------
(* What the abstract mailbox holds and what it is done with.               *)

Timely(m) == InTime(pipe[TheNode], link[TheNode], m)
HeldNow == MailHeld \ (severed \cap Settled)
\* Mail that will not reach its addressee any more, or has reached him.
Over(m) == m \in Settled \/ LateMail(m) \/ (m \in severed /\ ~Somewhere(m))
Accounted(m) ==
  /\ to[m] = None => m \notin HeldNow /\ m \notin Done
  /\ to[m] # None => (m \in HeldNow <=> m \notin Done)
  /\ m \in Done <=> Over(m)
AccountInv == Done \subseteq Mail /\ HeldNow \subseteq Mail /\ \A m \in Mail : Accounted(m)

LEMMA PipedIs ==
  ASSUME OneProcess, Inv, NEW m
  PROVE  /\ Has(Piped, m) <=> Timely(m) \/ LateMail(m)
         /\ Single(Piped, m) => ~(Timely(m) /\ LateMail(m))
<1> DEFINE p == pipe[TheNode]
           k == link[TheNode]
<1>1. p \in Seq(Command)
  BY DoomedIs, DeliveryTypes
<1>2. /\ DOMAIN Contents(p) = 1 .. Len(p)
      /\ \A i \in 1 .. Len(p) : Contents(p)[i] = Content(p[i])
  BY DEF Contents
<1> HIDE DEF p, k
<1>3. Has(Contents(p), m) <=> InTime(p, k, m) \/ TooLate(p, k, m)
  BY <1>2 DEF Has, InTime, TooLate
<1>4. Single(Contents(p), m) => ~(InTime(p, k, m) /\ TooLate(p, k, m))
  BY <1>2 DEF Single, InTime, TooLate
<1> QED BY <1>3, <1>4 DEF Piped, Timely, LateMail, p, k

\* A message that was not given up is held for its addressee, wherever it is.
LEMMA HeldForIs ==
  ASSUME OneProcess, Inv, AllMeant, NoQuit, NEW u \in User,
         NEW m \in Mail, m \notin givenUp
  PROVE  m \in HeldFor(u) <=>
           /\ to[m] = u
           /\ Has(Queued, m) \/ Has(Listed, m) \/ Has(Replied, m) \/ Timely(m)
<1> DEFINE n == TheNode
           his == {s \in Session : hash[s] = u}
           keys == {k \in Key : k.user = u /\ ~Doomed(k)}
<1>1. n \in Node /\ \A i \in Node : i = n
  BY DoomedIs
<1>2. m \in UNION {Mails(Frames(queue[s])) : s \in his} <=> to[m] = u /\ Has(Queued, m)
  <2>1. \A s \in Session : m \in Mails(Frames(queue[s])) => to[m] = hash[s]
    BY DEF AllMeant, MeantQueues, Meant
  <2>2. Has(Queued, m) <=> \E s \in Session : m \in Mails(Frames(queue[s]))
    BY InMails DEF Has, Queued, Framed
  <2> QED BY <2>1, <2>2
<1>3. m \in UNION {Mails(lists[k]) : k \in keys} <=> to[m] = u /\ Has(Listed, m)
  <2>1. \A k \in Key : m \in Mails(lists[k]) => to[m] = k.user
    BY DEF AllMeant, Meant
  <2>2. \A k \in Key : In(Listed[k], m) <=> ~Doomed(k) /\ m \in Mails(lists[k])
    BY DoomedIs, ListedIs, InNone, InMails
  <2>3. Has(Listed, m) <=> \E k \in Key : ~Doomed(k) /\ m \in Mails(lists[k])
    BY <2>2, ListedIs DEF Has
  <2> QED BY <2>1, <2>3
<1>4. m \in UNION {Stored(i, Executable(i) \cap StoresFor(i, u)) : i \in Node}
        <=> to[m] = u /\ Timely(m)
  <2> DEFINE p == pipe[n]
             E == Executable(n)
             I == E \cap StoresFor(n, u)
  <2>1. /\ DOMAIN p = 1 .. Len(p) /\ p \in Seq(Command)
        /\ E = {i \in 1 .. Len(p) : ~Late(p, link[n], i)}
    BY <1>1, ExecutableAre, DeliveryTypes
  <2>2. I = {i \in E : p[i].op = "rpush" /\ p[i].name.user = u}
    BY <2>1 DEF StoresFor
  <2>3. \A i \in 1 .. Len(p) :
          p[i].op = "rpush" /\ m \in Mails(p[i].msgs) => to[m] = p[i].name.user
    BY <1>1 DEF AllMeant, MeantCmds, Meant
  <2>4. m \in Stored(n, I) <=> \E i \in I : p[i].op = "rpush" /\ m \in Mails(p[i].msgs)
    BY DEF Stored
  <2>5. m \in Stored(n, E) <=> \E i \in E : p[i].op = "rpush" /\ m \in Mails(p[i].msgs)
    BY DEF Stored
  <2>6. m \in Stored(n, E) <=> Timely(m)
    BY UnstoredIs DEF Timely
  <2> HIDE DEF E, p
  <2>7. m \in Stored(n, I) <=> to[m] = u /\ m \in Stored(n, E)
    BY <2>1, <2>2, <2>3, <2>4, <2>5
  <2> HIDE DEF I
  <2>8. m \in UNION {Stored(i, Executable(i) \cap StoresFor(i, u)) : i \in Node}
          <=> m \in Stored(n, I)
    BY <1>1 DEF I, E
  <2> QED BY <2>6, <2>7, <2>8
<1>5. m \in UNION {Answered(i, AnswersFor(i, u)) : i \in Node}
        <=> to[m] = u /\ Has(Replied, m)
  <2> DEFINE r == reply[n]
             I == AnswersFor(n, u)
  <2>1. r \in Seq(Event) /\ DOMAIN r = 1 .. Len(r)
    BY <1>1, DeliveryTypes
  <2>2. I = {i \in 1 .. Len(r) : r[i].name.user = u}
    BY <2>1 DEF AnswersFor
  <2>3. \A i \in 1 .. Len(r) : m \in Mails(r[i].msgs) => to[m] = r[i].name.user
    BY <1>1 DEF AllMeant, MeantEvents, Meant
  <2>4. m \in Answered(n, I) <=> \E i \in I : m \in Mails(r[i].msgs)
    BY DEF Answered
  <2>5. Has(Replied, m) <=> \E i \in 1 .. Len(r) : m \in Mails(r[i].msgs)
    BY InMails DEF Has, Replied, Answers
  <2> HIDE DEF r, I
  <2>6. m \in Answered(n, I) <=> to[m] = u /\ Has(Replied, m)
    BY <2>2, <2>3, <2>4, <2>5
  <2>7. m \in UNION {Answered(i, AnswersFor(i, u)) : i \in Node} <=> m \in Answered(n, I)
    BY <1>1 DEF I
  <2> QED BY <2>6, <2>7
<1> HIDE DEF his, keys, n
<1>6. m \in HeldFor(u) <=>
        \/ m \in UNION {Mails(lists[k]) : k \in keys}
        \/ m \in UNION {Stored(i, Executable(i) \cap StoresFor(i, u)) : i \in Node}
        \/ m \in UNION {Answered(i, AnswersFor(i, u)) : i \in Node}
        \/ m \in UNION {Mails(Frames(queue[s])) : s \in his}
  BY DEF HeldFor, his, keys
<1> QED BY <1>2, <1>3, <1>4, <1>5, <1>6

\* Whatever holds a message that was not given up belongs to a user.
LEMMA HeldHasUser ==
  ASSUME OneProcess, Inv, AllMeant, NEW m \in Mail, m \notin givenUp,
         Has(Queued, m) \/ Has(Listed, m) \/ Has(Replied, m) \/ Timely(m)
  PROVE  to[m] \in User
<1>1. TheNode \in Node /\ to \in [Msg -> User \cup {None}] /\ m \in Msg
  BY DoomedIs DEF Inv, TypeOK, WorkerTypeOK, Msg
<1>2. SUFFICES to[m] # None
  BY <1>1
<1>3. CASE Has(Queued, m)
  <2>1. PICK s \in Session : m \in Mails(Frames(queue[s]))
    BY <1>3, InMails DEF Has, Queued, Framed
  <2> QED BY <2>1 DEF AllMeant, MeantQueues, Meant
<1>4. CASE Has(Listed, m)
  <2>1. PICK k \in Key : m \in Mails(lists[k])
    BY <1>4, ListedIs, InMails, InNone DEF Has
  <2> QED BY <2>1 DEF AllMeant, Meant
<1>5. CASE Has(Replied, m)
  <2>1. PICK i \in 1 .. Len(reply[TheNode]) : m \in Mails(reply[TheNode][i].msgs)
    BY <1>5, InMails DEF Has, Replied, Answers
  <2> QED BY <1>1, <2>1 DEF AllMeant, MeantEvents, Meant
<1>6. CASE Timely(m)
  <2>1. PICK i \in 1 .. Len(pipe[TheNode]) : In(Content(pipe[TheNode][i]), m)
    BY <1>6 DEF Timely, InTime
  <2>2. pipe[TheNode][i].op = "rpush" /\ m \in Mails(pipe[TheNode][i].msgs)
    BY <2>1, InMails, InNone DEF Content
  <2> QED BY <1>1, <2>2 DEF AllMeant, MeantCmds, Meant
<1> QED BY <1>3, <1>4, <1>5, <1>6

LEMMA HeldIs ==
  ASSUME OneProcess, Inv, AllMeant, NoQuit, NEW m \in Mail
  PROVE  m \in MailHeld <=>
           /\ m \notin givenUp
           /\ Has(Queued, m) \/ Has(Listed, m) \/ Has(Replied, m) \/ Timely(m)
<1>1. CASE m \in givenUp
  BY <1>1 DEF MailHeld, HeldFor
<1>2. CASE m \notin givenUp
  <2>1. m \in MailHeld <=> \E u \in User : m \in HeldFor(u)
    BY DEF MailHeld
  <2> QED BY <1>2, <2>1, HeldForIs, HeldHasUser
<1> QED BY <1>1, <1>2

LEMMA MailTypes ==
  ASSUME Inv
  PROVE  Done \subseteq Mail /\ MailHeld \subseteq Mail
<1>1. \A q : Mails(q) \subseteq Mail
  BY DEF Mails
<1>2. Delivered \subseteq Mail /\ givenUp \subseteq Mail /\ expired \subseteq Mail
      /\ severed \subseteq Mail
  BY DEF Inv, TypeOK, WorkerTypeOK, Delivered
<1>3. \A n, I : Stored(n, I) \subseteq Mail
  BY <1>1 DEF Stored
<1>4. \A n, I : Answered(n, I) \subseteq Mail
  BY <1>1 DEF Answered
<1>5. Done \subseteq Mail
  <2>1. Unstored \subseteq Mail
    <3>1. SUFFICES ASSUME NEW m \in Unstored PROVE m \in Mail
      OBVIOUS
    <3>2. \E n \in Node : m \in Stored(n, DOMAIN pipe[n] \ Executable(n))
      BY DEF Unstored
    <3> QED BY <1>3, <3>2
  <2>2. Settled \subseteq Mail
    BY <1>2 DEF Settled
  <2> QED BY <1>2, <2>1, <2>2 DEF Done
<1>6. MailHeld \subseteq Mail
  <2>1. ASSUME NEW u \in User, NEW m \in HeldFor(u) PROVE m \in Mail
    <3>1. \/ \E k \in Key : m \in Mails(lists[k])
          \/ \E n \in Node : m \in Stored(n, Executable(n) \cap StoresFor(n, u))
          \/ \E n \in Node : m \in Answered(n, AnswersFor(n, u))
          \/ \E s \in Session : m \in Mails(Frames(queue[s]))
      BY <2>1 DEF HeldFor
    <3> QED BY <1>1, <1>3, <1>4, <3>1
  <2> QED BY <2>1 DEF MailHeld
<1> QED BY <1>5, <1>6

\* A process that lost its connection never leaves.
LEMMA SeveredInTime ==
  ASSUME OneProcess, Inv, NoQuit, LinkInv, NEW m \in Mail, m \in severed
  PROVE  \A x \in Mail : ~LateMail(x)
<1>1. TheNode \in Node
  BY DoomedIs
<1>2. link[TheNode] = "renewed"
  BY <1>1 DEF LinkInv
<1>3. \A x \in Mail : x \in Unstored <=> LateMail(x)
  BY UnstoredIs DEF LateMail
<1>4. Unstored = {}
  BY <1>2, DoomedIs DEF Unstored
<1> QED BY <1>3, <1>4

LEMMA AllAccounted == OneProcess /\ MailboxInv => AccountInv
<1> SUFFICES ASSUME OneProcess, MailboxInv PROVE AccountInv
  OBVIOUS
<1>1. /\ Inv /\ AllMeant /\ NoQuit /\ LinkInv /\ SentInv /\ CleanInv
      /\ Done \subseteq Mail /\ HeldNow \subseteq Mail
  BY MailboxTypes, MailTypes DEF MailboxInv, DeliveryInv, Delivery, HeldNow
<1>2. SUFFICES ASSUME NEW m \in Mail PROVE Accounted(m)
  BY <1>1 DEF AccountInv
<1>3. m \in MailHeld <=>
        /\ m \notin givenUp
        /\ Has(Queued, m) \/ Has(Listed, m) \/ Has(Replied, m) \/ Timely(m)
  BY <1>1, HeldIs
<1>4. m \in Unstored <=> LateMail(m)
  BY <1>1, UnstoredIs DEF LateMail
<1>5. /\ Has(Piped, m) <=> Timely(m) \/ LateMail(m)
      /\ Single(Piped, m) => ~(Timely(m) /\ LateMail(m))
  BY <1>1, PipedIs
<1>6. m \in Done <=> m \in Settled \/ LateMail(m) \/ (m \in severed /\ m \notin MailHeld)
  BY <1>4 DEF Done
<1>7. to[m] = None => ~Somewhere(m) /\ m \notin Settled \cup severed
  BY <1>1, SentAre
<1>8. m \in Settled <=> m \in Gone \/ m \in givenUp
  BY DEF Settled, Gone
<1>9. CASE m \in givenUp
  BY <1>3, <1>6, <1>7, <1>8, <1>9 DEF Accounted, Over, HeldNow
<1>10. CASE m \notin givenUp /\ m \in severed
  <2>1. ~LateMail(m)
    BY <1>1, <1>10, SeveredInTime
  <2>2. m \in MailHeld <=> Somewhere(m)
    BY <1>3, <1>5, <1>10, <2>1 DEF Somewhere
  <2> QED BY <1>6, <1>7, <1>8, <1>10, <2>1, <2>2 DEF Accounted, Over, HeldNow
<1>11. CASE m \notin givenUp /\ m \notin severed
  <2>1. Clean(m)
    BY <1>1, <1>11 DEF CleanInv
  <2>2. m \in HeldNow <=> Has(Queued, m) \/ Has(Listed, m) \/ Has(Replied, m) \/ Timely(m)
    BY <1>3, <1>11 DEF HeldNow
  <2>3. m \in Done <=> m \in Gone \/ LateMail(m)
    BY <1>6, <1>8, <1>11
  <2>4. m \in Done <=> Over(m)
    BY <1>8, <1>11, <2>3 DEF Over
  <2>5. LateMail(m) => m \notin HeldNow
    BY <1>5, <2>1, <2>2 DEF Clean, Alone
  <2>6. m \in Gone => m \notin HeldNow
    BY <1>5, <2>1, <2>2 DEF Clean, Somewhere
  <2>7. Somewhere(m) => m \in HeldNow \/ LateMail(m)
    BY <1>5, <2>2 DEF Somewhere
  <2>8. m \in HeldNow \/ LateMail(m) => Somewhere(m)
    BY <1>5, <2>2 DEF Somewhere
  <2> QED BY <1>7, <1>8, <2>1, <2>3, <2>4, <2>5, <2>6, <2>7, <2>8 DEF Accounted, Clean
<1> QED BY <1>9, <1>10, <1>11

-----------------------------------------------------------------------------
(* The steps of the abstract mailbox.                                      *)

LEMMA OverGrows ==
  ASSUME OneProcess, MailboxInv, [Next]_vars, Keeping, NEW m \in Mail, Over(m)
  PROVE  Over(m)'
<1>1. Inv /\ NoQuit
  BY MailboxTypes DEF MailboxInv, DeliveryInv, Delivery
<1>2. LateMail(m) => LateMail(m)'
  BY <1>1, LateGrows
<1>3. Settled \subseteq Settled' /\ severed \subseteq severed'
  BY DEF Keeping, Settled, Delivered
<1>4. ASSUME m \in severed, ~Somewhere(m), m \notin givenUp PROVE ~Somewhere(m)'
  BY <1>4 DEF Keeping, Keeps, Fate
<1>5. m \in givenUp => m \in Settled
  BY DEF Settled
<1> QED BY <1>2, <1>3, <1>4, <1>5 DEF Over

LEMMA OverStays ==
  ASSUME OneProcess, MailboxInv, [Next]_vars,
         NEW a \in Mail, Accepting(a), NEW m \in Mail \ {a}, Over(m)
  PROVE  Over(m)'
<1>1. Inv /\ NoQuit
  BY MailboxTypes DEF MailboxInv, DeliveryInv, Delivery
<1>2. LateMail(m) => LateMail(m)'
  BY <1>1, LateGrows
<1>3. UNCHANGED <<Settled, severed>>
  BY DEF Accepting, Settled, Delivered
<1>4. Somewhere(m)' => Somewhere(m)
  BY DEF Accepting, Accepts, Fate
<1> QED BY <1>2, <1>3, <1>4 DEF Over

LEMMA OverSame ==
  ASSUME NEW a \in Mail, Accepting(a), NEW m \in Mail \ {a}, Over(m)'
  PROVE  Over(m)
<1>1. UNCHANGED <<Settled, severed, Gone>> /\ Gone \subseteq Settled
  BY DEF Accepting, Settled, Delivered, Gone
<1>2. LateMail(m)' => LateMail(m)
  BY DEF Accepting
<1>3. Somewhere(m) => Somewhere(m)' \/ m \in Gone'
  BY DEF Accepting, Accepts, Fate
<1> QED BY <1>1, <1>2, <1>3 DEF Over

\* The messages H in the mailboxes of those t says they are for.
Boxes(t, H) == {[user |-> t[m], mail |-> m] : m \in H}

LEMMA BoxesAre ==
  ASSUME NEW t, NEW H
  PROVE  /\ \A m \in H : [user |-> t[m], mail |-> m] \in Boxes(t, H)
         /\ \A h \in Boxes(t, H) : h.mail \in H /\ h = [user |-> t[h.mail], mail |-> h.mail]
  BY DEF Boxes

LEMMA KeepingSame ==
  ASSUME OneProcess, MailboxInv, [Next]_vars, Keeping, AccountInv, AccountInv'
  PROVE  /\ Done \subseteq Done'
         /\ HeldNow' = HeldNow \ Done' /\ Done' \ Done \subseteq HeldNow
         /\ \A m \in HeldNow : to'[m] = to[m]
<1>1. \A m \in Mail : to'[m] = to[m]
  BY DEF Keeping
<1>2. /\ Done \subseteq Mail /\ HeldNow \subseteq Mail
      /\ Done' \subseteq Mail /\ HeldNow' \subseteq Mail
      /\ \A m \in Mail : Accounted(m) /\ Accounted(m)'
  BY DEF AccountInv
<1>3. Done \subseteq Done'
  <2>1. SUFFICES ASSUME NEW m \in Done PROVE m \in Done'
    OBVIOUS
  <2>2. Over(m)'
    BY <1>2, <2>1, OverGrows DEF Accounted
  <2> QED BY <1>2, <2>2 DEF Accounted
<1>4. \A m \in Mail : /\ m \in HeldNow \/ m \in Done <=> to[m] # None
                     /\ ~(m \in HeldNow /\ m \in Done)
  BY <1>2 DEF Accounted
<1>5. \A m \in Mail : /\ m \in HeldNow' \/ m \in Done' <=> to[m] # None
                     /\ ~(m \in HeldNow' /\ m \in Done')
  BY <1>1, <1>2 DEF Accounted
<1>6. HeldNow' = HeldNow \ Done' /\ Done' \ Done \subseteq HeldNow
  BY <1>2, <1>3, <1>4, <1>5
<1> QED BY <1>1, <1>2, <1>3, <1>6

\* What the mapping of MailboxSpec says of the messages that are held.
HeldPairs ==
  {h \in [user : User, mail : Mail] : h.mail \in HeldFor(h.user) \ (severed \cap Settled)}

HeldInv == HeldPairs = Boxes(to, HeldNow)

LEMMA HeldPairsAre ==
  ASSUME OneProcess, MailboxInv
  PROVE  HeldInv
<1>1. Inv /\ AllMeant /\ NoQuit
  BY MailboxTypes DEF MailboxInv, DeliveryInv, Delivery
<1>2. HeldNow \subseteq Mail
  BY <1>1, MailTypes DEF HeldNow
<1>3. ASSUME NEW m \in Mail, NEW u \in User
      PROVE  m \in HeldFor(u) <=> m \in MailHeld /\ to[m] = u
  <2>1. CASE m \in givenUp
    BY <1>1, <2>1, HeldIs DEF HeldFor
  <2>2. CASE m \notin givenUp
    BY <1>1, <2>2, HeldForIs, HeldIs
  <2> QED BY <2>1, <2>2
<1>4. ASSUME NEW h \in HeldPairs PROVE h \in Boxes(to, HeldNow)
  <2>1. /\ h.user \in User /\ h.mail \in Mail /\ h = [user |-> h.user, mail |-> h.mail]
        /\ h.mail \in HeldFor(h.user) \ (severed \cap Settled)
    BY DEF HeldPairs
  <2>2. h.mail \in HeldNow /\ to[h.mail] = h.user
    BY <1>3, <2>1 DEF HeldNow
  <2> QED BY <2>1, <2>2 DEF Boxes
<1>5. ASSUME NEW h \in Boxes(to, HeldNow) PROVE h \in HeldPairs
  <2>1. PICK m \in HeldNow : h = [user |-> to[m], mail |-> m]
    BY DEF Boxes
  <2>2. m \in Mail /\ m \in MailHeld /\ m \notin severed \cap Settled
    BY <1>2 DEF HeldNow
  <2>3. to[m] \in User
    BY <1>1, <2>2, HeldIs, HeldHasUser
  <2>4. m \in HeldFor(to[m])
    BY <1>3, <2>2, <2>3
  <2> QED BY <2>1, <2>2, <2>3, <2>4 DEF HeldPairs
<1> QED BY <1>4, <1>5 DEF HeldInv

\* What was delivered is done with, and it stays delivered.
LEMMA DeliveredAre ==
  ASSUME OneProcess, MailboxInv
  PROVE  /\ Delivered \subseteq Done /\ Delivered \subseteq Settled
         /\ \A d \in delivered : d.mail \in Delivered /\ to[d.mail] = d.user
  BY DEF Delivered, Settled, Done, MailboxInv, DeliveredRight

\* A step that neither accepts nor delivers discards, maybe nothing.
LEMMA KeepingDiscards ==
  ASSUME OneProcess, MailboxInv, [Next]_vars, Keeping, AccountInv, AccountInv',
         delivered' = delivered
  PROVE  \E S \in SUBSET Boxes(to, HeldNow) :
           /\ Boxes(to', HeldNow') = Boxes(to, HeldNow) \ S
           /\ (Done \ Delivered)' = (Done \ Delivered) \cup {h.mail : h \in S}
<1> DEFINE B == Boxes(to, HeldNow)
           C == Boxes(to', HeldNow')
           S == {h \in B : h.mail \in Done'}
<1>1. /\ Done \subseteq Done'
      /\ HeldNow' = HeldNow \ Done' /\ Done' \ Done \subseteq HeldNow
      /\ \A m \in HeldNow : to'[m] = to[m]
  BY KeepingSame
<1>2. /\ \A m \in HeldNow : [user |-> to[m], mail |-> m] \in B
      /\ \A h \in B : h.mail \in HeldNow /\ h = [user |-> to[h.mail], mail |-> h.mail]
      /\ \A m \in HeldNow' : [user |-> to'[m], mail |-> m] \in C
      /\ \A h \in C : h.mail \in HeldNow' /\ h = [user |-> to'[h.mail], mail |-> h.mail]
  BY BoxesAre
<1> HIDE DEF B, C
<1>3. C = B \ S
  BY <1>1, <1>2
<1>4. Done' = Done \cup {h.mail : h \in S}
  <2>1. ASSUME NEW m \in Done' \ Done PROVE \E h \in S : m = h.mail
    <3> DEFINE h == [user |-> to[m], mail |-> m]
    <3>1. h \in B /\ h.mail = m
      BY <1>1, <1>2
    <3> HIDE DEF h
    <3> QED BY <3>1
  <2> QED BY <1>1, <2>1
<1>5. S \in SUBSET B
  OBVIOUS
<1>6. \A h \in S : h.mail \notin Delivered
  <2>1. \A m \in HeldNow : m \notin Done
    BY DEF AccountInv, Accounted
  <2> QED BY <1>2, <2>1, DeliveredAre
<1> HIDE DEF S
<1>7. Delivered' = Delivered
  BY DEF Delivered
<1>8. (Done \ Delivered)' = (Done \ Delivered) \cup {h.mail : h \in S}
  BY <1>4, <1>6, <1>7
<1> QED BY <1>3, <1>5, <1>8 DEF B, C

\* A step that delivers a message takes it from its addressee's mailbox.
LEMMA WriteTakes ==
  ASSUME OneProcess, MailboxInv, [Next]_vars, Keeping, AccountInv, AccountInv',
         NEW s \in Session, SessionWrite(s), NEW d \in delivered', d \notin delivered
  PROVE  /\ d.user \in User /\ d.mail \in Mail /\ d \in Boxes(to, HeldNow)
         /\ d = [user |-> d.user, mail |-> d.mail]
         /\ delivered' = delivered \cup {d}
         /\ Boxes(to', HeldNow') = Boxes(to, HeldNow) \ {d}
         /\ (Done \ Delivered)' = Done \ Delivered
<1> DEFINE m == d.mail
<1>1. Inv /\ AllMeant /\ DeliveredRight /\ CleanInv /\ LinkInv /\ NoQuit
  BY MailboxTypes DEF MailboxInv, DeliveryInv, Delivery
<1>2. /\ d.user = hash[s] /\ hash[s] # None /\ to[m] = hash[s] /\ m \in Mail
      /\ m \notin givenUp /\ m \in Mails(Frames(queue[s]))
  BY <1>1, WriteDelivers
<1>3. /\ d = [user |-> hash[s], mail |-> m] /\ m \notin expired
      /\ delivered' = delivered \cup {d}
      /\ UNCHANGED <<to, severed, givenUp, expired, pipe, link>>
  <2> DEFINE f == Head(queue[s]).msg
             new == ({f} \cap Mail) \ (givenUp \cup expired)
  <2>1. /\ delivered' = delivered \cup {[user |-> hash[s], mail |-> x] : x \in new}
        /\ UNCHANGED <<to, severed, givenUp, expired, pipe, link>>
    BY DEF SessionWrite, redisVars
  <2>2. PICK x \in new : d = [user |-> hash[s], mail |-> x]
    BY <2>1
  <2>3. \A y \in new : y = x
    BY <2>2
  <2>4. m = x
    BY <2>2
  <2> QED BY <2>1, <2>2, <2>3, <2>4
<1>4. hash[s] \in User
  BY <1>1, <1>2 DEF Inv, TypeOK, SessionTypeOK
<1>5. m \notin Delivered
  <2>1. SUFFICES ASSUME NEW e \in delivered, e.mail = m PROVE FALSE
    BY DEF Delivered
  <2>2. e.user = hash[s]
    BY <1>1, <1>2, <2>1 DEF DeliveredRight
  <2>3. e = [user |-> e.user, mail |-> e.mail]
    BY <1>1 DEF Inv, TypeOK, WorkerTypeOK
  <2> QED BY <1>3, <2>1, <2>2, <2>3
<1>6. Has(Queued, m)
  BY <1>2, InMails DEF Has, Queued, Framed
<1>7. ~Over(m)
  <2>1. m \notin Settled
    BY <1>2, <1>3, <1>5 DEF Settled
  <2>2. ~LateMail(m)
    <3>1. CASE m \in severed
      BY <1>1, <1>2, <3>1, SeveredInTime
    <3>2. CASE m \notin severed
      <4>1. ~Has(Piped, m)
        BY <1>1, <1>2, <1>6, <3>2 DEF CleanInv, Clean, Alone
      <4> QED BY <1>1, <4>1, PipedIs
    <3> QED BY <3>1, <3>2
  <2> QED BY <1>6, <2>1, <2>2 DEF Over, Somewhere
<1>8. m \in HeldNow /\ m \notin Done
  BY <1>2, <1>4, <1>7, ConstantsDiffer DEF AccountInv, Accounted
<1>9. d \in Boxes(to, HeldNow)
  BY <1>2, <1>3, <1>8, BoxesAre
<1>10. Delivered' = Delivered \cup {m}
  BY <1>3 DEF Delivered
<1>11. Done' = Done \cup {m}
  <2>1. /\ Done \subseteq Done' /\ Done' \ Done \subseteq HeldNow
    BY KeepingSame
  <2>2. m \in Done'
    BY <1>10 DEF Done, Settled
  <2>3. ASSUME NEW x \in Done', x \notin Done, x # m PROVE FALSE
    <3>1. x \in Mail /\ Over(x)' /\ ~Over(x)
      BY <2>3 DEF AccountInv, Accounted
    <3>2. x \notin Settled' /\ (LateMail(x)' <=> LateMail(x)) /\ severed' = severed
      BY <1>3, <1>10, <2>3, <3>1 DEF Over, Settled, LateMail
    <3>3. x \in severed /\ Somewhere(x) /\ ~Somewhere(x)'
      BY <3>1, <3>2 DEF Over
    <3>4. x \notin givenUp /\ x \notin Gone'
      BY <1>3, <3>2 DEF Settled, Gone
    <3> QED BY <1>3, <3>1, <3>3, <3>4 DEF Keeping, Keeps, Fate
  <2> QED BY <2>1, <2>2, <2>3
<1>12. (Done \ Delivered)' = Done \ Delivered
  BY <1>8, <1>10, <1>11
<1>13. Boxes(to', HeldNow') = Boxes(to, HeldNow) \ {d}
  <2> DEFINE B == Boxes(to, HeldNow)
             C == Boxes(to', HeldNow')
  <2>1. HeldNow' = HeldNow \ {m}
    <3>1. HeldNow' = HeldNow \ Done'
      BY KeepingSame
    <3>2. \A x \in HeldNow : x \notin Done
      BY DEF AccountInv, Accounted
    <3> QED BY <1>11, <3>1, <3>2
  <2>2. /\ \A x \in HeldNow : [user |-> to[x], mail |-> x] \in B
        /\ \A h \in B : h.mail \in HeldNow /\ h = [user |-> to[h.mail], mail |-> h.mail]
        /\ \A x \in HeldNow' : [user |-> to'[x], mail |-> x] \in C
        /\ \A h \in C : h.mail \in HeldNow' /\ h = [user |-> to'[h.mail], mail |-> h.mail]
    BY BoxesAre
  <2> HIDE DEF B, C
  <2>3. d.mail = m /\ d = [user |-> to[m], mail |-> m] /\ to' = to
    BY <1>2, <1>3
  <2> HIDE DEF m
  <2>4. C = B \ {d}
    BY <2>1, <2>2, <2>3
  <2> QED BY <2>4 DEF B, C
<1> QED BY <1>2, <1>3, <1>4, <1>9, <1>12, <1>13

LEMMA AcceptingPosts ==
  ASSUME OneProcess, MailboxInv, [Next]_vars, NEW a \in Mail, Accepting(a),
         AccountInv, AccountInv'
  PROVE  /\ to'[a] \in User /\ a \notin Done /\ \A h \in Boxes(to, HeldNow) : h.mail # a
         /\ \/ /\ Boxes(to', HeldNow') = Boxes(to, HeldNow) \cup {[user |-> to'[a], mail |-> a]}
               /\ Done' = Done
            \/ /\ Boxes(to', HeldNow') = Boxes(to, HeldNow)
               /\ Done' = Done \cup {a}
<1>1. /\ to[a] = None /\ to'[a] \in User /\ to'[a] # None
      /\ \A m \in Mail \ {a} : to'[m] = to[m]
  BY ConstantsDiffer DEF Accepting
<1>2. /\ Done \subseteq Mail /\ HeldNow \subseteq Mail
      /\ Done' \subseteq Mail /\ HeldNow' \subseteq Mail
      /\ \A m \in Mail : Accounted(m) /\ Accounted(m)'
  BY DEF AccountInv
<1>3. a \notin HeldNow /\ a \notin Done /\ (a \in HeldNow' <=> a \notin Done')
  BY <1>1, <1>2 DEF Accounted
<1>4. \A m \in Mail \ {a} : m \in Done' <=> m \in Done
  <2>1. TAKE m \in Mail \ {a}
  <2>2. Over(m)' <=> Over(m)
    BY OverSame, OverStays
  <2> QED BY <1>2, <2>2 DEF Accounted
<1>5. \A m \in Mail \ {a} : m \in HeldNow' <=> m \in HeldNow
  BY <1>1, <1>2, <1>4 DEF Accounted
<1> DEFINE e == [user |-> to'[a], mail |-> a]
           B == Boxes(to, HeldNow)
           C == Boxes(to', HeldNow')
<1>6. /\ \A m \in HeldNow : [user |-> to[m], mail |-> m] \in B
      /\ \A h \in B : h.mail \in HeldNow /\ h = [user |-> to[h.mail], mail |-> h.mail]
      /\ \A m \in HeldNow' : [user |-> to'[m], mail |-> m] \in C
      /\ \A h \in C : h.mail \in HeldNow' /\ h = [user |-> to'[h.mail], mail |-> h.mail]
  BY BoxesAre
<1> HIDE DEF B, C
<1>7. \A h \in B : h.mail # a
  BY <1>3, <1>6
<1>8. \A h \in B : h \in C
  BY <1>1, <1>2, <1>3, <1>5, <1>6
<1>9. \A h \in C : h \in B \/ h = e
  BY <1>1, <1>2, <1>3, <1>5, <1>6
<1>10. CASE a \in HeldNow'
  <2>1. e \in C
    BY <1>6, <1>10
  <2>2. C = B \cup {e}
    BY <1>8, <1>9, <2>1
  <2>3. Done' = Done
    BY <1>2, <1>3, <1>4, <1>10
  <2> QED BY <1>1, <1>3, <1>7, <2>2, <2>3 DEF B, C
<1>11. CASE a \notin HeldNow'
  <2>1. e \notin C
    <3>1. e.mail = a
      OBVIOUS
    <3> HIDE DEF e
    <3> QED BY <1>6, <1>11, <3>1
  <2>2. C = B
    BY <1>8, <1>9, <2>1
  <2>3. Done' = Done \cup {a}
    BY <1>2, <1>3, <1>4, <1>11
  <2> QED BY <1>1, <1>3, <1>7, <2>2, <2>3 DEF B, C
<1> QED BY <1>10, <1>11

-----------------------------------------------------------------------------
(* The refinement.                                                         *)

LEMMA RefinedInit == OneProcess /\ Init => Mailboxes!Init
<1> SUFFICES ASSUME OneProcess, Init PROVE Mailboxes!Init
  OBVIOUS
<1>1. /\ Done \subseteq Mail /\ HeldNow \subseteq Mail
      /\ \A m \in Mail : Accounted(m)
  BY InitMailbox, AllAccounted DEF AccountInv
<1>2. (\A m \in Mail : to[m] = None) /\ delivered = {}
  BY DEF Init, SessionInit, RedisInit, Msg
<1>3. Done = {} /\ HeldNow = {}
  BY <1>1, <1>2 DEF Accounted
<1>4. HeldPairs = {}
  BY <1>3, InitMailbox, HeldPairsAre DEF HeldInv, Boxes
<1>5. Done \ Delivered = {}
  BY <1>3
<1> QED BY <1>2, <1>4, <1>5 DEF Mailboxes!Init, HeldPairs

\* A step that accepts a message is a Post, or a Refuse if the process has sent
\* QUIT; one that completes the write of a message is its delivery to the user of
\* the websocket, whose mailbox it leaves; every other step is a Discard, of
\* nothing or of what it lets expire, disregards, misplaces or loses.
LEMMA RefinedStep ==
  ASSUME OneProcess, MailboxInv, [Next]_vars, AccountInv, AccountInv', HeldInv, HeldInv'
  PROVE  Mailboxes!Next
<1>1. HeldPairs = Boxes(to, HeldNow)
  BY DEF HeldInv
<1>2. HeldPairs' = Boxes(to', HeldNow')
  BY DEF HeldInv, Boxes
<1>3. CASE Keeping /\ delivered' = delivered
  <2>1. PICK S \in SUBSET Boxes(to, HeldNow) :
          /\ Boxes(to', HeldNow') = Boxes(to, HeldNow) \ S
          /\ (Done \ Delivered)' = (Done \ Delivered) \cup {h.mail : h \in S}
    BY <1>3, KeepingDiscards
  <2>2. Mailboxes!Discard
    BY <1>1, <1>2, <1>3, <2>1 DEF Mailboxes!Discard, HeldPairs
  <2> QED BY <2>2 DEF Mailboxes!Next
<1>4. CASE Keeping /\ delivered' # delivered
  <2>1. PICK s \in Session : SessionWrite(s)
    BY <1>4, OnlyWritesDeliver
  <2>2. PICK d : d \in delivered' /\ d \notin delivered
    BY <1>4, <2>1 DEF SessionWrite
  <2>3. /\ d.user \in User /\ d.mail \in Mail /\ d \in Boxes(to, HeldNow)
        /\ d = [user |-> d.user, mail |-> d.mail]
        /\ delivered' = delivered \cup {d}
        /\ Boxes(to', HeldNow') = Boxes(to, HeldNow) \ {d}
        /\ (Done \ Delivered)' = Done \ Delivered
    BY <1>4, <2>1, <2>2, WriteTakes
  <2>4. Mailboxes!Deliver(d.user, d.mail)
    BY <1>1, <1>2, <2>3 DEF Mailboxes!Deliver, Mailboxes!For, HeldPairs
  <2> QED BY <2>3, <2>4 DEF Mailboxes!Next
<1>5. ASSUME NEW a \in Mail, Accepting(a) PROVE Mailboxes!Next
  <2> DEFINE u == to'[a]
  <2>1. /\ u \in User /\ a \notin Done /\ \A h \in Boxes(to, HeldNow) : h.mail # a
        /\ \/ /\ Boxes(to', HeldNow') = Boxes(to, HeldNow) \cup {[user |-> u, mail |-> a]}
              /\ Done' = Done
           \/ /\ Boxes(to', HeldNow') = Boxes(to, HeldNow)
              /\ Done' = Done \cup {a}
    BY <1>5, AcceptingPosts
  <2> HIDE DEF u
  <2>2. delivered' = delivered /\ Delivered' = Delivered
    BY <1>5 DEF Accepting, Delivered
  <2>3. a \notin Delivered /\ \A h \in HeldPairs \cup delivered : h.mail # a
    BY <1>1, <2>1, DeliveredAre
  <2>4. Mailboxes!Unknown(a)
    BY <2>1, <2>3 DEF Mailboxes!Unknown, HeldPairs
  <2>5. CASE Done' = Done /\ HeldPairs' = HeldPairs \cup {[user |-> u, mail |-> a]}
    <3>1. (Done \ Delivered)' = Done \ Delivered
      BY <2>2, <2>5
    <3>2. Mailboxes!Post(u, a)
      BY <2>2, <2>4, <2>5, <3>1 DEF Mailboxes!Post, Mailboxes!For, HeldPairs
    <3> QED BY <2>1, <3>2 DEF Mailboxes!Next
  <2>6. CASE Done' = Done \cup {a} /\ HeldPairs' = HeldPairs
    <3>1. (Done \ Delivered)' = (Done \ Delivered) \cup {a}
      BY <2>2, <2>3, <2>6
    <3>2. Mailboxes!Refuse(u, a)
      BY <2>2, <2>4, <2>6, <3>1 DEF Mailboxes!Refuse, HeldPairs
    <3> QED BY <2>1, <3>2 DEF Mailboxes!Next
  <2> QED BY <1>1, <1>2, <2>1, <2>5, <2>6
<1> QED BY <1>3, <1>4, <1>5, NextIs

\* With one process occase-db implements the mailbox: a persistent message it
\* accepts is held for its addressee, in his list, in what is on its way to or
\* from it or in the queue of his session, until it is written to his websocket
\* or openly given up, and does not come back, through forwarding
\* (on_app_chat_msg), storing and reading (store_chat_msg, on_db_chat_msg),
\* handing over (finish) and the loss of the connection to Redis.
THEOREM MailboxImplemented ==
  ASSUME OneProcess
  PROVE  Spec => MailboxSpec
<1>1. Init => MailboxInv
  BY InitMailbox
<1>2. MailboxInv /\ [Next]_vars => MailboxInv'
  BY NextMailbox
<1>3. MailboxInv => AccountInv /\ HeldInv
  BY AllAccounted, HeldPairsAre
<1>4. Init => Mailboxes!Init
  BY RefinedInit
<1>5. MailboxInv /\ AccountInv /\ AccountInv' /\ HeldInv /\ HeldInv' /\ [Next]_vars
        => Mailboxes!Next
  BY RefinedStep
<1> QED BY <1>1, <1>2, <1>3, <1>4, <1>5, PTL DEF Spec, MailboxSpec, Mailboxes!Spec

\* With one process no persistent message that was accepted is unaccounted for:
\* it is only from another process that an RPUSH comes between the LRANGE and
\* the DEL that on_push and on_app_login send.
THEOREM MailAccountedFor ==
  ASSUME OneProcess
  PROVE  Spec => []NothingLost
<1>1. Init => MailboxInv
  BY InitMailbox
<1>2. MailboxInv /\ [Next]_vars => MailboxInv'
  BY NextMailbox
<1>3. MailboxInv => NothingLost
  <2>1. SUFFICES ASSUME MailboxInv, NEW m \in Mail, to[m] # None
                 PROVE  m \in MailHeld \cup Done
    BY DEF NothingLost
  <2>2. Accounted(m)
    BY <2>1, AllAccounted DEF AccountInv
  <2> QED BY <2>1, <2>2 DEF Accounted, HeldNow
<1> QED BY <1>1, <1>2, <1>3, PTL DEF Spec
=============================================================================
