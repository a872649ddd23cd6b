--------------------------- MODULE NotifierProofs ---------------------------
(***************************************************************************)
(* Proofs about Notifier for any number of occase-db processes, users,     *)
(* messages, tokens and restarts.                                          *)
(***************************************************************************)
EXTENDS Notifier, TLAPS, SequenceTheorems

-----------------------------------------------------------------------------
(* What the commands and events carry.                                     *)

LEMMA CommandFields ==
  ASSUME NEW c \in Command
  PROVE  /\ c.op \in {"token", "hset", "rpush", "del", "message"}
         /\ c.user \in User
         /\ c.op \in {"token", "hset"} => c.token \in Token \cup {Empty}
         /\ c.op = "message" => c.msg \in Msg
  BY DEF Command

LEMMA EventFields ==
  ASSUME NEW e \in Event
  PROVE  /\ e.type = "token" => e.user \in User /\ e.token \in Token \cup {Empty}
         /\ e.type = "message" => e.user \in User /\ e.msg \in Msg
         /\ e.type = "del" => e.key.user \in User /\ e.key.depth = 1
         /\ e.type = "hgetall" => e.fields \in [User -> Token \cup {Empty, None}]
  BY DEF Event

\* The commands of a client are appended to those on their way.
LEMMA RequestType ==
  ASSUME pipe \in [Node -> Seq(Command)], NEW n \in Node,
         NEW cmds \in Seq(Command), Request(n, cmds)
  PROVE  pipe' \in [Node -> Seq(Command)]
  BY DEF Request

LEMMA ExecType ==
  ASSUME pipe \in [Node -> Seq(Command)], NEW n \in Node, NEW op, Exec(n, op)
  PROVE  /\ pipe' \in [Node -> Seq(Command)]
         /\ Head(pipe[n]) \in Command /\ Head(pipe[n]).op = op
  BY DEF Exec

LEMMA PushType ==
  ASSUME inbox \in Seq(Event), NEW channel, NEW e \in Event, Push(channel, e)
  PROVE  inbox' \in Seq(Event)
  BY DEF Push

LEMMA ReceiveType ==
  ASSUME inbox \in Seq(Event), NEW type, Receive(type)
  PROVE  /\ inbox' \in Seq(Event)
         /\ Head(inbox) \in Event /\ Head(inbox).type = type
  BY DEF Receive

\* At most one notification is sent at a time, and only of a message.
LEMMA SendToType ==
  ASSUME NotifierAssumption, notified \in [User -> Seq(Msg)], NEW u \in User, NEW entry
  PROVE  /\ SendTo(u, entry) \in [User -> Seq(Msg)]
         /\ Len(SendTo(u, entry)[u]) \in {Len(notified[u]), Len(notified[u]) + 1}
         /\ \A x \in User \ {u} : SendTo(u, entry)[x] = notified[x]
<1>1. CASE entry.msg \in Bodied
  <2>1. entry.msg \in Msg
    BY <1>1 DEF NotifierAssumption
  <2>2. Append(notified[u], entry.msg) \in Seq(Msg)
    BY <2>1
  <2>3. Len(Append(notified[u], entry.msg)) = Len(notified[u]) + 1
    BY <2>1
  <2> QED BY <1>1, <2>2, <2>3 DEF SendTo
<1>2. CASE entry.msg \notin Bodied
  BY <1>2 DEF SendTo
<1> QED BY <1>1, <1>2

-----------------------------------------------------------------------------
(* The inductive invariant: the two safety properties with the types.      *)

Inv == TypeOK /\ OneNotification /\ TimerHasMessage

LEMMA InitInv == Init => Inv
<1> SUFFICES ASSUME Init PROVE Inv
  OBVIOUS
<1>1. TypeOK
  <2>1. NtfTypeOK
    <3>1. <<>> \in Seq(UserEntry)
      OBVIOUS
    <3> QED BY <3>1 DEF Init, NtfTypeOK
  <2>2. DbTypeOK
    BY DEF Init, DbTypeOK
  <2>3. LinkTypeOK
    BY DEF Init, LinkTypeOK
  <2>4. HistoryTypeOK
    BY DEF Init, HistoryTypeOK
  <2> QED BY <2>1, <2>2, <2>3, <2>4 DEF TypeOK
<1>2. OneNotification /\ TimerHasMessage
  BY DEF Init, OneNotification, TimerHasMessage
<1> QED BY <1>1, <1>2 DEF Inv

\* A process that starts or stops knows no user and has no timer.
LEMMA BlankInv ==
  ASSUME Inv, Blank, running' \in BOOLEAN,
         hello' \in Seq({"psubscribe", "subscribe", "hgetall"}),
         UNCHANGED <<dbVars, offs, stored, published>>, starts' \in Nat
  PROVE  Inv'
<1>1. TypeOK'
  BY DEF Inv, TypeOK, NtfTypeOK, DbTypeOK, LinkTypeOK, HistoryTypeOK, Blank, dbVars
<1>2. OneNotification' /\ TimerHasMessage'
  BY DEF Blank, OneNotification, TimerHasMessage
<1> QED BY <1>1, <1>2 DEF Inv

\* What the handlers of occase-notify keep: a step that changes no timer,
\* entry or count.
LEMMA CountsUnchanged ==
  ASSUME OneNotification, TimerHasMessage,
         UNCHANGED <<tokens, waits, due, dangling>>,
         UNCHANGED <<received, coalesced, notified>>
  PROVE  OneNotification' /\ TimerHasMessage'
  BY DEF OneNotification, TimerHasMessage

LEMMA StartInv == ASSUME Inv, Start PROVE Inv'
<1>1. TypeOK'
  BY NotifierAssumption
  DEF Inv, Start, TypeOK, NtfTypeOK, DbTypeOK, LinkTypeOK, HistoryTypeOK, dbVars,
      runHistory
<1>2. /\ UNCHANGED <<tokens, waits, due, dangling>>
      /\ UNCHANGED <<received, coalesced, notified>>
  BY DEF Start, runHistory
<1>3. OneNotification' /\ TimerHasMessage'
  BY <1>2, CountsUnchanged DEF Inv
<1> QED BY <1>1, <1>3 DEF Inv

LEMMA StopInv == ASSUME Inv, Stop PROVE Inv'
<1>1. /\ Blank /\ running' = FALSE /\ starts' = starts /\ hello' = <<>>
      /\ UNCHANGED <<dbVars, offs, stored, published>>
  BY DEF Stop
<1>2. running' \in BOOLEAN /\ starts' \in Nat
  BY <1>1 DEF Inv, TypeOK, HistoryTypeOK
<1>3. hello' \in Seq({"psubscribe", "subscribe", "hgetall"})
  BY <1>1
<1> QED BY <1>1, <1>2, <1>3, BlankInv

LEMMA CountTypes ==
  ASSUME TypeOK, NEW u \in User
  PROVE  /\ Len(notified[u]) \in Nat /\ due[u] \in Nat /\ waits[u] \in Nat
         /\ Len(dangling[u]) \in Nat /\ coalesced[u] \in Nat
         /\ Len(received[u]) \in Nat
  BY DEF TypeOK, NtfTypeOK, HistoryTypeOK

LEMMA NewCountTypes ==
  ASSUME TypeOK', NEW u \in User
  PROVE  /\ Len(notified'[u]) \in Nat /\ due'[u] \in Nat /\ waits'[u] \in Nat
         /\ Len(dangling'[u]) \in Nat /\ coalesced'[u] \in Nat
         /\ Len(received'[u]) \in Nat
  BY DEF TypeOK, NtfTypeOK, HistoryTypeOK

\* What a step does to the counts of a user, each being what was or will be
\* sent to him, with what was coalesced, moved but not added to: a timer
\* expires or is cancelled, a handler sends, the handler of an erased entry
\* sends, an entry is erased, a message is received.
BudgetStep(u) ==
  \/ /\ due'[u] + waits'[u] <= due[u] + waits[u]
     /\ notified'[u] = notified[u] /\ dangling'[u] = dangling[u]
     /\ coalesced'[u] = coalesced[u] /\ received'[u] = received[u]
  \/ /\ Len(notified'[u]) + due'[u] <= Len(notified[u]) + due[u]
     /\ waits'[u] = waits[u] /\ dangling'[u] = dangling[u]
     /\ coalesced'[u] = coalesced[u] /\ received'[u] = received[u]
  \/ /\ Len(notified'[u]) + Len(dangling'[u]) <= Len(notified[u]) + Len(dangling[u])
     /\ waits'[u] = waits[u] /\ due'[u] = due[u]
     /\ coalesced'[u] = coalesced[u] /\ received'[u] = received[u]
  \/ /\ waits'[u] = 0 /\ due'[u] = 0
     /\ Len(dangling'[u]) = Len(dangling[u]) + due[u]
     /\ notified'[u] = notified[u]
     /\ coalesced'[u] = coalesced[u] /\ received'[u] = received[u]
  \/ /\ Len(received'[u]) = Len(received[u]) + 1
     /\ waits'[u] = 1
     /\ coalesced'[u] = IF waits[u] > 0 THEN coalesced[u] + 1 ELSE coalesced[u]
     /\ due'[u] = due[u] /\ notified'[u] = notified[u] /\ dangling'[u] = dangling[u]

LEMMA BudgetKept ==
  ASSUME TypeOK, TypeOK', OneNotification, \A u \in User : BudgetStep(u)
  PROVE  OneNotification'
<1> SUFFICES ASSUME NEW u \in User
             PROVE  Len(notified'[u]) + due'[u] + waits'[u] + Len(dangling'[u])
                      + coalesced'[u] <= Len(received'[u])
  BY DEF OneNotification
<1> DEFINE n == Len(notified[u])  m == Len(notified'[u])
           g == Len(dangling[u])  h == Len(dangling'[u])
           r == Len(received[u])  q == Len(received'[u])
           d == due[u]  e == due'[u]  w == waits[u]  v == waits'[u]
           c == coalesced[u]  b == coalesced'[u]
<1>1. n \in Nat /\ d \in Nat /\ w \in Nat /\ g \in Nat /\ c \in Nat /\ r \in Nat
  BY CountTypes
<1>2. m \in Nat /\ e \in Nat /\ v \in Nat /\ h \in Nat /\ b \in Nat /\ q \in Nat
  BY NewCountTypes
<1>3. n + d + w + g + c <= r
  BY DEF OneNotification
<1>4. \/ e + v <= d + w /\ m = n /\ h = g /\ b = c /\ q = r
      \/ m + e <= n + d /\ v = w /\ h = g /\ b = c /\ q = r
      \/ m + h <= n + g /\ v = w /\ e = d /\ b = c /\ q = r
      \/ v = 0 /\ e = 0 /\ h = g + d /\ m = n /\ b = c /\ q = r
      \/ /\ q = r + 1 /\ v = 1 /\ b = (IF w > 0 THEN c + 1 ELSE c)
         /\ e = d /\ m = n /\ h = g
  BY Zenon DEF BudgetStep
<1> HIDE DEF n, m, g, h, r, q, d, e, w, v, c, b
<1>5. m + e + v + h + b <= q
  BY <1>1, <1>2, <1>3, <1>4
<1> QED BY <1>5 DEF m, e, v, h, b, q

\* A timer that goes on keeps its entry, and one that starts has a message.
LEMMA TimerKept ==
  ASSUME TypeOK, TypeOK', TimerHasMessage,
         \A u \in User :
           \/ tokens'[u] # None /\ tokens'[u].msg # None
           \/ waits'[u] = 0 /\ due'[u] = 0
           \/ /\ tokens[u] # None => tokens'[u] = tokens[u]
              /\ waits'[u] + due'[u] > 0 => waits[u] + due[u] > 0
  PROVE  TimerHasMessage'
  BY DEF TimerHasMessage

LEMMA ExpireInv == ASSUME Inv, NEW u \in User, Expire(u) PROVE Inv'
<1>1. waits' \in [User -> Nat] /\ due' \in [User -> Nat]
  BY DEF Inv, TypeOK, NtfTypeOK, Expire
<1>2. TypeOK'
  BY <1>1 DEF Inv, TypeOK, NtfTypeOK, DbTypeOK, LinkTypeOK, HistoryTypeOK, Expire,
      linkVars, dbVars, history, runHistory
<1>3. \A x \in User : due'[x] + waits'[x] = due[x] + waits[x]
  BY DEF Inv, TypeOK, NtfTypeOK, Expire
<1>4. UNCHANGED <<tokens, dangling, received, coalesced, notified>>
  BY DEF Expire, history, runHistory
<1>5. \A x \in User : due'[x] + waits'[x] <= due[x] + waits[x]
  BY <1>1, <1>3
<1>6. OneNotification'
  BY <1>2, <1>4, <1>5, BudgetKept DEF Inv, BudgetStep
<1>7. TimerHasMessage'
  <2>1. \A x \in User : waits'[x] + due'[x] > 0 => waits[x] + due[x] > 0
    BY <1>1, <1>3, CountTypes DEF Inv
  <2> QED BY <1>2, <1>4, <2>1, TimerKept DEF Inv
<1> QED BY <1>2, <1>6, <1>7 DEF Inv

LEMMA OnTimeoutInv == ASSUME Inv, NEW u \in User, OnTimeout(u) PROVE Inv'
<1>1. due' \in [User -> Nat] /\ notified' \in [User -> Seq(Msg)]
  BY SendToType, NotifierAssumption
  DEF Inv, TypeOK, NtfTypeOK, HistoryTypeOK, OnTimeout
<1>2. TypeOK'
  BY <1>1 DEF Inv, TypeOK, NtfTypeOK, DbTypeOK, LinkTypeOK, HistoryTypeOK, OnTimeout,
      linkVars, dbVars
<1>3. /\ due[u] > 0 /\ due'[u] = due[u] - 1
      /\ Len(notified'[u]) \in {Len(notified[u]), Len(notified[u]) + 1}
      /\ \A x \in User \ {u} : due'[x] = due[x] /\ notified'[x] = notified[x]
  BY SendToType, NotifierAssumption
  DEF Inv, TypeOK, NtfTypeOK, HistoryTypeOK, OnTimeout
<1>4. UNCHANGED <<tokens, waits, dangling, received, coalesced>>
  BY DEF OnTimeout
<1>5. \A x \in User : Len(notified'[x]) + due'[x] <= Len(notified[x]) + due[x]
  BY <1>3, CountTypes DEF Inv
<1>6. OneNotification'
  BY <1>2, <1>4, <1>5, BudgetKept DEF Inv, BudgetStep
<1>7. \A x \in User : waits'[x] + due'[x] > 0 => waits[x] + due[x] > 0
  <2> SUFFICES ASSUME NEW x \in User, waits'[x] + due'[x] > 0
               PROVE  waits[x] + due[x] > 0
    OBVIOUS
  <2>1. waits[x] \in Nat /\ due[x] \in Nat
    BY CountTypes DEF Inv
  <2>2. CASE x = u
    BY <1>3, <2>1, <2>2
  <2>3. CASE x # u
    BY <1>3, <1>4, <2>3
  <2> QED BY <2>2, <2>3
<1>8. TimerHasMessage'
  BY <1>2, <1>4, <1>7, TimerKept DEF Inv
<1> QED BY <1>2, <1>6, <1>8 DEF Inv

LEMMA OnTimeoutDanglingInv ==
  ASSUME Inv, NEW u \in User, OnTimeoutDangling(u) PROVE Inv'
<1>1. CASE running' = FALSE /\ hello' = <<>> /\ Blank
  <2>1. /\ UNCHANGED <<dbVars, offs, stored, published>> /\ starts' = starts
        /\ starts' \in Nat
    BY DEF Inv, TypeOK, HistoryTypeOK, OnTimeoutDangling
  <2>2. running' \in BOOLEAN
    BY <1>1
  <2>3. hello' \in Seq({"psubscribe", "subscribe", "hgetall"})
    BY <1>1
  <2> QED BY <1>1, <2>1, <2>2, <2>3, BlankInv
<1>2. CASE /\ dangling' = [dangling EXCEPT ![u] = Tail(@)]
           /\ notified' \in {notified, SendTo(u, Head(dangling[u]))}
           /\ UNCHANGED <<running, tokens, waits, due, hello, subs, inbox,
                          received, coalesced, calledOff>>
  <2>1. /\ dangling' \in [User -> Seq(UserEntry)]
        /\ Len(dangling'[u]) = Len(dangling[u]) - 1
        /\ \A x \in User \ {u} : dangling'[x] = dangling[x]
    BY <1>2 DEF Inv, TypeOK, NtfTypeOK, OnTimeoutDangling
  <2>2. /\ notified' \in [User -> Seq(Msg)]
        /\ Len(notified'[u]) \in {Len(notified[u]), Len(notified[u]) + 1}
        /\ \A x \in User \ {u} : notified'[x] = notified[x]
    BY <1>2, SendToType, NotifierAssumption DEF Inv, TypeOK, HistoryTypeOK
  <2>3. TypeOK'
    BY <1>2, <2>1, <2>2
    DEF Inv, TypeOK, NtfTypeOK, DbTypeOK, LinkTypeOK, HistoryTypeOK,
        OnTimeoutDangling, dbVars
  <2>4. \A x \in User : Len(notified'[x]) + Len(dangling'[x])
                          <= Len(notified[x]) + Len(dangling[x])
    <3> SUFFICES ASSUME NEW x \in User
                 PROVE  Len(notified'[x]) + Len(dangling'[x])
                          <= Len(notified[x]) + Len(dangling[x])
      OBVIOUS
    <3> DEFINE n == Len(notified[x])  m == Len(notified'[x])
               g == Len(dangling[x])  h == Len(dangling'[x])
    <3>1. n \in Nat /\ g \in Nat
      BY CountTypes DEF Inv
    <3>2. \/ m \in {n, n + 1} /\ h = g - 1
          \/ m = n /\ h = g
      BY <2>1, <2>2
    <3> HIDE DEF n, m, g, h
    <3>3. m + h <= n + g
      BY <3>1, <3>2
    <3> QED BY <3>3 DEF n, m, g, h
  <2>5. OneNotification'
    BY <1>2, <2>3, <2>4, BudgetKept DEF Inv, BudgetStep
  <2>6. TimerHasMessage'
    BY <1>2, <2>3, TimerKept DEF Inv
  <2> QED BY <2>3, <2>5, <2>6 DEF Inv
<1> QED BY <1>1, <1>2 DEF OnTimeoutDangling

\* A message starts a wait and stops at most one, which it then is coalesced
\* with.
LEMMA OnMessageInv == ASSUME Inv, OnMessage PROVE Inv'
<1> DEFINE u == Head(inbox).user
           m == Head(inbox).msg
<1>1. inbox' \in Seq(Event) /\ u \in User /\ m \in Msg
  BY ReceiveType, EventFields DEF Inv, TypeOK, LinkTypeOK, OnMessage
<1>2. UNCHANGED <<due, dangling, notified>>
  BY DEF OnMessage
<1>3. CASE HasToken(u)
  <2>1. tokens' = [tokens EXCEPT ![u].msg = m] /\ waits' = Restart(u)
    BY <1>3 DEF OnMessage
  <2>2. /\ received' = [received EXCEPT ![u] = Append(@, m)]
        /\ coalesced' = [coalesced EXCEPT ![u] =
                           IF waits[u] > 0 THEN @ + 1 ELSE @]
    BY <1>3 DEF OnMessage
  <2>3. tokens[u] # None /\ tokens[u] \in UserEntry
    BY <1>1, <1>3 DEF HasToken, Inv, TypeOK, NtfTypeOK
  <2>4. [tokens[u] EXCEPT !.msg = m] \in UserEntry
    BY <1>1, <2>3 DEF UserEntry
  <2>5. /\ tokens' \in [User -> UserEntry \cup {None}]
        /\ tokens'[u].msg = m /\ tokens'[u] # None
        /\ \A x \in User \ {u} : tokens'[x] = tokens[x]
    <3>1. [tokens[u] EXCEPT !.msg = m].msg = m
      BY <2>3 DEF UserEntry
    <3>2. [tokens[u] EXCEPT !.msg = m] # None
      BY <2>4, NoneIsNoEntry
    <3>3. tokens' = [tokens EXCEPT ![u] = [tokens[u] EXCEPT !.msg = m]]
      BY <2>1
    <3> QED BY <1>1, <2>4, <3>1, <3>2, <3>3 DEF Inv, TypeOK, NtfTypeOK
  <2>6. waits' \in [User -> Nat] /\ waits'[u] = 1
        /\ \A x \in User \ {u} : waits'[x] = waits[x]
    BY <1>1, <2>1 DEF Restart, Inv, TypeOK, NtfTypeOK
  <2>7. /\ received' \in [User -> Seq(Msg)]
        /\ Len(received'[u]) = Len(received[u]) + 1
        /\ \A x \in User \ {u} : received'[x] = received[x]
    BY <1>1, <2>2 DEF Inv, TypeOK, HistoryTypeOK
  <2>8. /\ coalesced' \in [User -> Nat]
        /\ coalesced'[u] = IF waits[u] > 0 THEN coalesced[u] + 1 ELSE coalesced[u]
        /\ \A x \in User \ {u} : coalesced'[x] = coalesced[x]
    BY <1>1, <2>2 DEF Inv, TypeOK, HistoryTypeOK
  <2>9. TypeOK'
    BY <1>1, <1>2, <2>5, <2>6, <2>7, <2>8
    DEF Inv, TypeOK, NtfTypeOK, DbTypeOK, LinkTypeOK, HistoryTypeOK, OnMessage, dbVars
  <2>10. OneNotification'
    <3>1. BudgetStep(u)
      BY <1>2, <2>6, <2>7, <2>8 DEF BudgetStep
    <3>2. \A x \in User \ {u} : due'[x] + waits'[x] <= due[x] + waits[x]
      BY <1>2, <2>6, CountTypes DEF Inv
    <3>3. \A x \in User \ {u} : BudgetStep(x)
      BY <1>2, <2>7, <2>8, <3>2 DEF BudgetStep
    <3> QED BY <2>9, <3>1, <3>3, BudgetKept DEF Inv
  <2>11. TimerHasMessage'
    <3>1. m # None
      BY <1>1, NotifierAssumption DEF NotifierAssumption
    <3> QED BY <1>2, <2>5, <2>6, <2>9, <3>1, TimerKept DEF Inv
  <2> QED BY <2>9, <2>10, <2>11 DEF Inv
<1>4. CASE ~HasToken(u)
  <2>1. UNCHANGED <<tokens, waits, received, coalesced>>
    BY <1>4 DEF OnMessage
  <2>2. TypeOK'
    BY <1>1, <1>2, <2>1
    DEF Inv, TypeOK, NtfTypeOK, DbTypeOK, LinkTypeOK, HistoryTypeOK, OnMessage, dbVars
  <2> QED BY <1>2, <2>1, <2>2, CountsUnchanged DEF Inv
<1> QED BY <1>3, <1>4

LEMMA OnDelInv == ASSUME Inv, OnDel PROVE Inv'
<1>1. inbox' \in Seq(Event) /\ Head(inbox).key.user \in User
  BY ReceiveType, EventFields DEF Inv, TypeOK, LinkTypeOK, OnDel
<1>2. /\ waits' \in [User -> Nat]
      /\ \A x \in User : waits'[x] = waits[x] \/ waits'[x] = 0
  BY <1>1 DEF Inv, TypeOK, NtfTypeOK, OnDel
<1>3. UNCHANGED <<tokens, due, dangling, received, coalesced, notified>>
  BY DEF OnDel
<1>4. calledOff' \in SUBSET Msg
  BY DEF Inv, TypeOK, HistoryTypeOK, OnDel
<1>5. TypeOK'
  BY <1>1, <1>2, <1>4
  DEF Inv, TypeOK, NtfTypeOK, DbTypeOK, LinkTypeOK, HistoryTypeOK, OnDel, dbVars
<1>6. \A x \in User : /\ due'[x] + waits'[x] <= due[x] + waits[x]
                      /\ waits'[x] + due'[x] > 0 => waits[x] + due[x] > 0
  BY <1>2, <1>3, CountTypes DEF Inv
<1>7. OneNotification'
  BY <1>3, <1>5, <1>6, BudgetKept DEF Inv, BudgetStep
<1>8. TimerHasMessage'
  BY <1>3, <1>5, <1>6, TimerKept DEF Inv
<1> QED BY <1>5, <1>7, <1>8 DEF Inv

\* An entry that is erased leaves its handlers in the queue dangling.
LEMMA OnTokenInv == ASSUME Inv, OnToken PROVE Inv'
<1> DEFINE u == Head(inbox).user
           t == Head(inbox).token
<1>1. inbox' \in Seq(Event) /\ u \in User /\ t \in Token \cup {Empty}
  BY ReceiveType, EventFields DEF Inv, TypeOK, LinkTypeOK, OnToken
<1>2. UNCHANGED <<received, coalesced, notified>>
  BY DEF OnToken, history, runHistory
<1> HIDE DEF u, t
<1>3. CASE t = Empty
  <2>1. /\ tokens' = [tokens EXCEPT ![u] = None]
        /\ waits' = [waits EXCEPT ![u] = 0] /\ due' = [due EXCEPT ![u] = 0]
        /\ dangling' = [dangling EXCEPT ![u] = @ \o [i \in 1 .. due[u] |-> tokens[u]]]
    BY <1>3 DEF OnToken, u, t
  <2> DEFINE left == [i \in 1 .. due[u] |-> tokens[u]]
  <2>2. left \in Seq(UserEntry) /\ Len(left) = due[u]
    <3>1. due[u] \in Nat /\ waits[u] \in Nat
      BY <1>1, CountTypes DEF Inv
    <3>2. \A i \in 1 .. due[u] : tokens[u] \in UserEntry
      BY <1>1, <3>1 DEF Inv, TypeOK, NtfTypeOK, TimerHasMessage
    <3> QED BY <3>1, <3>2
  <2> HIDE DEF left
  <2>3. /\ dangling' \in [User -> Seq(UserEntry)]
        /\ Len(dangling'[u]) = Len(dangling[u]) + due[u]
        /\ \A x \in User \ {u} : dangling'[x] = dangling[x]
    <3>1. dangling' = [dangling EXCEPT ![u] = dangling[u] \o left]
      BY <2>1 DEF left
    <3>2. dangling \in [User -> Seq(UserEntry)] /\ dangling[u] \in Seq(UserEntry)
      BY <1>1 DEF Inv, TypeOK, NtfTypeOK
    <3>3. /\ dangling[u] \o left \in Seq(UserEntry)
          /\ Len(dangling[u] \o left) = Len(dangling[u]) + Len(left)
      BY <2>2, <3>2, ConcatProperties
    <3> QED BY <1>1, <2>2, <3>1, <3>2, <3>3
  <2>4. /\ waits' \in [User -> Nat] /\ due' \in [User -> Nat]
        /\ waits'[u] = 0 /\ due'[u] = 0
        /\ \A x \in User \ {u} : waits'[x] = waits[x] /\ due'[x] = due[x]
    BY <1>1, <2>1 DEF Inv, TypeOK, NtfTypeOK
  <2>5. /\ tokens' \in [User -> UserEntry \cup {None}]
        /\ \A x \in User \ {u} : tokens'[x] = tokens[x]
    BY <1>1, <2>1 DEF Inv, TypeOK, NtfTypeOK
  <2>6. TypeOK'
    BY <1>1, <2>3, <2>4, <2>5
    DEF Inv, TypeOK, NtfTypeOK, DbTypeOK, LinkTypeOK, HistoryTypeOK, OnToken,
        dbVars, history, runHistory
  <2>7. OneNotification'
    <3>1. BudgetStep(u)
      BY <1>2, <2>3, <2>4 DEF BudgetStep
    <3>2. \A x \in User \ {u} : due'[x] + waits'[x] <= due[x] + waits[x]
      BY <2>4, CountTypes DEF Inv
    <3>3. \A x \in User \ {u} : BudgetStep(x)
      BY <1>2, <2>3, <3>2 DEF BudgetStep
    <3> QED BY <2>6, <3>1, <3>3, BudgetKept DEF Inv
  <2>8. TimerHasMessage'
    BY <2>4, <2>5, <2>6, TimerKept DEF Inv
  <2> QED BY <2>6, <2>7, <2>8 DEF Inv
<1>4. CASE t # Empty
  <2>1. /\ tokens' = [tokens EXCEPT ![u] = IF @ = None THEN [token |-> t, msg |-> None]
                                           ELSE [@ EXCEPT !.token = t]]
        /\ UNCHANGED <<waits, due, dangling>>
    BY <1>4 DEF OnToken, u, t
  <2>2. /\ tokens' \in [User -> UserEntry \cup {None}]
        /\ \A x \in User : tokens[x] # None => tokens'[x] # None
                                               /\ tokens'[x].msg = tokens[x].msg
    <3> DEFINE e == IF tokens[u] = None THEN [token |-> t, msg |-> None]
                    ELSE [tokens[u] EXCEPT !.token = t]
    <3>1. tokens' = [tokens EXCEPT ![u] = e]
      BY <2>1
    <3>2. tokens \in [User -> UserEntry \cup {None}]
      BY DEF Inv, TypeOK, NtfTypeOK
    <3>3. e \in UserEntry /\ (tokens[u] # None => e.msg = tokens[u].msg)
      BY <1>1, <3>2 DEF UserEntry
    <3>4. e # None
      BY <3>3, NoneIsNoEntry
    <3> HIDE DEF e
    <3> QED BY <1>1, <3>1, <3>2, <3>3, <3>4
  <2>3. TypeOK'
    BY <1>1, <2>1, <2>2
    DEF Inv, TypeOK, NtfTypeOK, DbTypeOK, LinkTypeOK, HistoryTypeOK, OnToken,
        dbVars, history, runHistory
  <2>4. OneNotification'
    BY <1>2, <2>1 DEF Inv, OneNotification
  <2>5. TimerHasMessage'
    BY <2>1, <2>2 DEF Inv, TimerHasMessage
  <2> QED BY <2>3, <2>4, <2>5 DEF Inv
<1> QED BY <1>3, <1>4

LEMMA OnHgetallInv == ASSUME Inv, OnHgetall PROVE Inv'
<1> DEFINE fields == Head(inbox).fields
<1>1. inbox' \in Seq(Event) /\ fields \in [User -> Token \cup {Empty, None}]
  BY ReceiveType, EventFields DEF Inv, TypeOK, LinkTypeOK, OnHgetall
<1> HIDE DEF fields
<1>2. tokens' = Insert(fields)
  BY DEF OnHgetall, fields
<1>3. /\ tokens' \in [User -> UserEntry \cup {None}]
      /\ \A x \in User : tokens[x] # None => tokens'[x] = tokens[x]
  <2>1. \A x \in User : fields[x] # None =>
          [token |-> fields[x], msg |-> None] \in UserEntry
    BY <1>1 DEF UserEntry
  <2> QED BY <1>2, <2>1 DEF Insert, Inv, TypeOK, NtfTypeOK
<1>4. /\ UNCHANGED <<waits, due, dangling>>
      /\ UNCHANGED <<received, coalesced, notified>>
  BY DEF OnHgetall, history, runHistory
<1>5. TypeOK'
  BY <1>1, <1>3
  DEF Inv, TypeOK, NtfTypeOK, DbTypeOK, LinkTypeOK, HistoryTypeOK, OnHgetall,
      dbVars, history, runHistory
<1>6. OneNotification'
  BY <1>4 DEF Inv, OneNotification
<1>7. TimerHasMessage'
  BY <1>3, <1>4, <1>5, TimerKept DEF Inv
<1> QED BY <1>5, <1>6, <1>7 DEF Inv

-----------------------------------------------------------------------------
(* occase-db and Redis: no entry, timer or count of occase-notify changes. *)

LEMMA LoginInv ==
  ASSUME Inv, NEW n \in Node, NEW u \in User, NEW t \in Token \cup {Empty},
         Login(n, u, t)
  PROVE  Inv'
<1> DEFINE cmds == <<[op |-> "token", user |-> u, token |-> t],
                     [op |-> "hset", user |-> u, token |-> t],
                     [op |-> "del", user |-> u, token |-> None]>>
<1>1. cmds \in Seq(Command)
  BY DEF Command
<1>2. Request(n, cmds)
  BY DEF Login
<1> HIDE DEF cmds
<1>3. pipe' \in [Node -> Seq(Command)]
  BY <1>1, <1>2, RequestType DEF Inv, TypeOK, DbTypeOK
<1>4. offs' \in Nat
  BY DEF Inv, TypeOK, HistoryTypeOK, Login
<1>5. TypeOK'
  BY <1>3, <1>4
  DEF Inv, TypeOK, NtfTypeOK, DbTypeOK, LinkTypeOK, HistoryTypeOK, Login,
      ntfVars, linkVars, runHistory
<1>6. /\ UNCHANGED <<tokens, waits, due, dangling>>
      /\ UNCHANGED <<received, coalesced, notified>>
  BY DEF Login, ntfVars, runHistory
<1> QED BY <1>5, <1>6, CountsUnchanged DEF Inv

LEMMA StoreInv ==
  ASSUME Inv, NEW n \in Node, NEW u \in User, NEW m \in Msg, Store(n, u, m)
  PROVE  Inv'
<1> DEFINE cmds == <<[op |-> "rpush", user |-> u, token |-> None],
                     [op |-> "message", user |-> u, token |-> None, msg |-> m]>>
<1>1. cmds \in Seq(Command)
  BY DEF Command
<1>2. Request(n, cmds)
  BY DEF Store
<1> HIDE DEF cmds
<1>3. pipe' \in [Node -> Seq(Command)]
  BY <1>1, <1>2, RequestType DEF Inv, TypeOK, DbTypeOK
<1>4. TypeOK'
  BY <1>3
  DEF Inv, TypeOK, NtfTypeOK, DbTypeOK, LinkTypeOK, HistoryTypeOK, Store,
      ntfVars, linkVars, runHistory
<1>5. /\ UNCHANGED <<tokens, waits, due, dangling>>
      /\ UNCHANGED <<received, coalesced, notified>>
  BY DEF Store, ntfVars, runHistory
<1> QED BY <1>4, <1>5, CountsUnchanged DEF Inv

LEMMA RetrieveInv ==
  ASSUME Inv, NEW n \in Node, NEW u \in User, Retrieve(n, u)
  PROVE  Inv'
<1> DEFINE cmds == <<[op |-> "del", user |-> u, token |-> None]>>
<1>1. cmds \in Seq(Command)
  BY DEF Command
<1>2. Request(n, cmds)
  BY DEF Retrieve
<1> HIDE DEF cmds
<1>3. pipe' \in [Node -> Seq(Command)]
  BY <1>1, <1>2, RequestType DEF Inv, TypeOK, DbTypeOK
<1>4. TypeOK'
  BY <1>3
  DEF Inv, TypeOK, NtfTypeOK, DbTypeOK, LinkTypeOK, HistoryTypeOK, Retrieve,
      ntfVars, linkVars, history, runHistory
<1>5. /\ UNCHANGED <<tokens, waits, due, dangling>>
      /\ UNCHANGED <<received, coalesced, notified>>
  BY DEF Retrieve, ntfVars, history, runHistory
<1> QED BY <1>4, <1>5, CountsUnchanged DEF Inv

LEMMA RedisTypes ==
  ASSUME TypeOK, NEW n \in Node,
         ExecToken(n) \/ ExecHset(n) \/ ExecRpush(n) \/ ExecMessage(n) \/ ExecDel(n)
  PROVE  /\ DbTypeOK' /\ inbox' \in Seq(Event)
         /\ published' \in Seq([user : User, token : Token \cup {Empty}])
<1> DEFINE c == Head(pipe[n])
<1>1. /\ pipe \in [Node -> Seq(Command)] /\ inbox \in Seq(Event)
      /\ hash \in [User -> Token \cup {Empty, None}] /\ lists \in SUBSET User
      /\ published \in Seq([user : User, token : Token \cup {Empty}])
  BY DEF TypeOK, DbTypeOK, LinkTypeOK, HistoryTypeOK
<1>2. CASE ExecToken(n)
  <2>1. pipe' \in [Node -> Seq(Command)] /\ c \in Command /\ c.op = "token"
    BY <1>1, <1>2, ExecType DEF ExecToken
  <2>2. c.user \in User /\ c.token \in Token \cup {Empty}
    BY <2>1, CommandFields
  <2>3. [type |-> "token", user |-> c.user, token |-> c.token] \in Event
    BY <2>2 DEF Event
  <2>4. Push("notify", [type |-> "token", user |-> c.user, token |-> c.token])
    BY <1>2 DEF ExecToken
  <2>5. inbox' \in Seq(Event)
    BY <1>1, <2>3, <2>4, PushType
  <2> QED BY <1>1, <1>2, <2>1, <2>2, <2>5 DEF ExecToken, DbTypeOK
<1>3. CASE ExecHset(n)
  <2>1. pipe' \in [Node -> Seq(Command)] /\ c \in Command /\ c.op = "hset"
    BY <1>1, <1>3, ExecType DEF ExecHset
  <2>2. c.user \in User /\ c.token \in Token \cup {Empty}
    BY <2>1, CommandFields
  <2> QED BY <1>1, <1>3, <2>1, <2>2 DEF ExecHset, DbTypeOK
<1>4. CASE ExecRpush(n)
  <2>1. pipe' \in [Node -> Seq(Command)] /\ c \in Command
    BY <1>1, <1>4, ExecType DEF ExecRpush
  <2> QED BY <1>1, <1>4, <2>1, CommandFields DEF ExecRpush, DbTypeOK
<1>5. CASE ExecMessage(n)
  <2>1. pipe' \in [Node -> Seq(Command)] /\ c \in Command /\ c.op = "message"
    BY <1>1, <1>5, ExecType DEF ExecMessage
  <2>2. c.user \in User /\ c.msg \in Msg
    BY <2>1, CommandFields
  <2>3. [type |-> "message", user |-> c.user, msg |-> c.msg] \in Event
    BY <2>2 DEF Event
  <2>4. Push("notify", [type |-> "message", user |-> c.user, msg |-> c.msg])
    BY <1>5 DEF ExecMessage
  <2>5. inbox' \in Seq(Event)
    BY <1>1, <2>3, <2>4, PushType
  <2> QED BY <1>1, <1>5, <2>1, <2>5 DEF ExecMessage, DbTypeOK
<1>6. CASE ExecDel(n)
  <2>1. pipe' \in [Node -> Seq(Command)] /\ c \in Command
    BY <1>1, <1>6, ExecType DEF ExecDel
  <2>2. c.user \in User
    BY <2>1, CommandFields
  <2>3. [type |-> "del", key |-> Name(c.user, 1)] \in Event
    BY <2>2 DEF Event, Name
  <2>4. UNCHANGED inbox \/ Push("del", [type |-> "del", key |-> Name(c.user, 1)])
    BY <1>6 DEF ExecDel
  <2>5. inbox' \in Seq(Event)
    BY <1>1, <2>3, <2>4, PushType
  <2> QED BY <1>1, <1>6, <2>1, <2>5 DEF ExecDel, DbTypeOK
<1> QED BY <1>2, <1>3, <1>4, <1>5, <1>6

LEMMA RedisInv == ASSUME Inv, NEW n \in Node, Redis(n) PROVE Inv'
<1>1. /\ DbTypeOK' /\ inbox' \in Seq(Event)
      /\ published' \in Seq([user : User, token : Token \cup {Empty}])
  BY RedisTypes DEF Inv, Redis
<1>2. TypeOK'
  BY <1>1 DEF Inv, TypeOK, NtfTypeOK, LinkTypeOK, HistoryTypeOK, Redis, ntfVars,
      runHistory
<1>3. /\ UNCHANGED <<tokens, waits, due, dangling>>
      /\ UNCHANGED <<received, coalesced, notified>>
  BY DEF Redis, ntfVars, runHistory
<1> QED BY <1>2, <1>3, CountsUnchanged DEF Inv

LEMMA RedisNotifyInv == ASSUME Inv, RedisNotify PROVE Inv'
<1>1. /\ hello \in Seq({"psubscribe", "subscribe", "hgetall"}) /\ hello # <<>>
      /\ subs \in SUBSET {"del", "notify"} /\ inbox \in Seq(Event)
      /\ hash \in [User -> Token \cup {Empty, None}]
  BY DEF Inv, TypeOK, LinkTypeOK, DbTypeOK, RedisNotify, ExecHello
<1>2. /\ hello' \in Seq({"psubscribe", "subscribe", "hgetall"})
      /\ Head(hello) \in {"psubscribe", "subscribe", "hgetall"}
  BY <1>1 DEF RedisNotify, ExecHello
<1>3. [type |-> "hgetall", fields |-> hash] \in Event
  BY <1>1 DEF Event
<1>4. inbox' \in Seq(Event)
  <2>1. inbox' = inbox \/ inbox' = Append(inbox, [type |-> "hgetall", fields |-> hash])
    BY DEF RedisNotify, ExecHello
  <2> QED BY <1>1, <1>3, <2>1
<1>5. subs' \in SUBSET {"del", "notify"}
  BY <1>1 DEF RedisNotify, ExecHello
<1>6. TypeOK'
  BY <1>2, <1>4, <1>5
  DEF Inv, TypeOK, NtfTypeOK, DbTypeOK, LinkTypeOK, HistoryTypeOK, RedisNotify,
      ntfVars, dbVars, history, runHistory
<1>7. /\ UNCHANGED <<tokens, waits, due, dangling>>
      /\ UNCHANGED <<received, coalesced, notified>>
  BY DEF RedisNotify, ntfVars, history, runHistory
<1> QED BY <1>6, <1>7, CountsUnchanged DEF Inv

-----------------------------------------------------------------------------

LEMMA NextInv == Inv /\ [Next]_vars => Inv'
<1> SUFFICES ASSUME Inv, [Next]_vars PROVE Inv'
  OBVIOUS
<1>1. CASE Start \/ Stop
  BY <1>1, StartInv, StopInv
<1>2. ASSUME NEW u \in User, Expire(u) \/ OnTimeout(u) \/ OnTimeoutDangling(u)
      PROVE  Inv'
  BY <1>2, ExpireInv, OnTimeoutInv, OnTimeoutDanglingInv
<1>3. CASE OnEvent
  BY <1>3, OnMessageInv, OnDelInv, OnTokenInv, OnHgetallInv DEF OnEvent
<1>4. ASSUME NEW n \in Node, NEW u \in User, NEW t \in Token \cup {Empty},
             Login(n, u, t)
      PROVE  Inv'
  BY <1>4, LoginInv
<1>5. ASSUME NEW n \in Node, NEW u \in User, NEW m \in Msg, Store(n, u, m)
      PROVE  Inv'
  BY <1>5, StoreInv
<1>6. ASSUME NEW n \in Node, NEW u \in User, Retrieve(n, u) PROVE Inv'
  BY <1>6, RetrieveInv
<1>7. ASSUME NEW n \in Node, Redis(n) PROVE Inv'
  BY <1>7, RedisInv
<1>8. CASE RedisNotify
  BY <1>8, RedisNotifyInv
<1>9. CASE UNCHANGED vars
  <2>1. TypeOK'
    BY <1>9
    DEF Inv, TypeOK, NtfTypeOK, DbTypeOK, LinkTypeOK, HistoryTypeOK, vars,
        ntfVars, dbVars, linkVars, history, runHistory
  <2>2. /\ UNCHANGED <<tokens, waits, due, dangling>>
        /\ UNCHANGED <<received, coalesced, notified>>
    BY <1>9 DEF vars, ntfVars, history, runHistory
  <2> QED BY <2>1, <2>2, CountsUnchanged DEF Inv
<1> QED BY <1>1, <1>2, <1>3, <1>4, <1>5, <1>6, <1>7, <1>8, <1>9 DEF Next

\* occase-notify, Redis and the commands and events between them always have
\* their types.
THEOREM TypeCorrect == Spec => []TypeOK
<1>1. Inv => TypeOK
  BY DEF Inv
<1> QED BY InitInv, NextInv, <1>1, PTL DEF Spec

\* However expiry, restarted timers, handlers already in the queue and erased
\* entries interleave, a user is never sent more notifications than messages
\* were received for him, less those that shared the wait of another.
THEOREM OneNotificationEach == Spec => []OneNotification
<1>1. Inv => OneNotification
  BY DEF Inv
<1> QED BY InitInv, NextInv, <1>1, PTL DEF Spec

\* A wait and a handler that is queued always belong to an entry that holds a
\* message: only a handler whose entry was erased can read anything else.
THEOREM HandlersHaveMessages == Spec => []TimerHasMessage
<1>1. Inv => TimerHasMessage
  BY DEF Inv
<1> QED BY InitInv, NextInv, <1>1, PTL DEF Spec
-----------------------------------------------------------------------------
(* Tokens are taken in the order of their publication.  Each token is sent *)
(* once, so that it has one place in `published`, and what occase-notify   *)
(* knows, or is about to hear, was published before what it hears later.   *)

Publication(u, t) == [user |-> u, token |-> t]
Published(u, t) == \E i \in DOMAIN published : published[i] = Publication(u, t)
Before(u, t, s) ==
  \E i, j \in DOMAIN published :
    i < j /\ published[i] = Publication(u, t) /\ published[j] = Publication(u, s)

\* A command and an event that bring the token t of the user u.
Sends(c, u, t) == c.op = "token" /\ c.user = u /\ c.token = t
Stores(c, u, t) == c.op = "hset" /\ c.user = u /\ c.token = t
Tells(e, u, t) == e.type = "token" /\ e.user = u /\ e.token = t
Mentions(e, u, t) == Tells(e, u, t) \/ (e.type = "hgetall" /\ e.fields[u] = t)
Known(u, t) == tokens[u] # None /\ tokens[u].token = t

\* No token is published twice.
OnePlace ==
  \A i, j \in DOMAIN published :
    published[i].token = published[j].token /\ published[i].token # Empty => i = j
\* Nor will it be: what is on its way was not published and is there once.
SentOnce ==
  \A u \in User, t \in Token, n \in Node : \A k \in DOMAIN pipe[n] :
    Sends(pipe[n][k], u, t) =>
      /\ \A i \in DOMAIN published : published[i].token # t
      /\ \A x \in User, m \in Node : \A l \in DOMAIN pipe[m] :
           Sends(pipe[m][l], x, t) => m = n /\ l = k
\* A token is stored right after it was published.
StoredAfter ==
  \A u \in User, t \in Token, n \in Node : \A k \in DOMAIN pipe[n] :
    Stores(pipe[n][k], u, t) =>
      IF k = 1 THEN Published(u, t) ELSE Sends(pipe[n][k - 1], u, t)
HashPublished == \A u \in User, t \in Token : hash[u] = t => Published(u, t)
InboxPublished ==
  \A u \in User, t \in Token : \A i \in DOMAIN inbox :
    Mentions(inbox[i], u, t) => Published(u, t)
InboxInOrder ==
  \A u \in User, t, s \in Token : \A i, j \in DOMAIN inbox :
    i < j /\ Mentions(inbox[i], u, t) /\ Tells(inbox[j], u, s) => Before(u, t, s)
KnownFirst ==
  \A u \in User, t \in Token :
    Known(u, t) =>
      /\ Published(u, t)
      /\ \A s \in Token : \A j \in DOMAIN inbox :
           Tells(inbox[j], u, s) => Before(u, t, s)

SendInv == OnePlace /\ SentOnce /\ StoredAfter /\ HashPublished
HearInv == InboxPublished /\ InboxInOrder /\ KnownFirst
TokenInv == Inv /\ SendInv /\ HearInv

-----------------------------------------------------------------------------
(* How the queues move: a step takes the head of one or appends to it.     *)

LEMMA TailAt ==
  ASSUME NEW S, NEW q \in Seq(S), q # <<>>, NEW i \in DOMAIN Tail(q)
  PROVE  /\ i \in Nat /\ i >= 1
         /\ i + 1 \in DOMAIN q /\ Tail(q)[i] = q[i + 1]
  OBVIOUS

LEMMA HeadAt ==
  ASSUME NEW S, NEW q \in Seq(S), q # <<>>
  PROVE  1 \in DOMAIN q /\ Head(q) = q[1]
  OBVIOUS

LEMMA AppendAt ==
  ASSUME NEW S, NEW q \in Seq(S), NEW e \in S
  PROVE  /\ \A i \in DOMAIN q : i \in DOMAIN Append(q, e) /\ Append(q, e)[i] = q[i]
         /\ \A i \in DOMAIN Append(q, e) :
              \/ i \in DOMAIN q
              \/ i = Len(q) + 1 /\ Append(q, e)[i] = e
         /\ Len(q) + 1 \in DOMAIN Append(q, e)
         /\ Append(q, e)[Len(q) + 1] = e
         /\ \A i \in DOMAIN q : i \in Nat /\ i < Len(q) + 1
  OBVIOUS

\* What was published stays so, in the same order.
LEMMA PublishedStays ==
  ASSUME TypeOK, NEW p \in [user : User, token : Token \cup {Empty}],
         published' = Append(published, p), NEW u, NEW t, NEW s
  PROVE  /\ Published(u, t) => Published(u, t)'
         /\ Before(u, t, s) => Before(u, t, s)'
<1>1. published \in Seq([user : User, token : Token \cup {Empty}])
  BY DEF TypeOK, HistoryTypeOK
<1>2. \A i \in DOMAIN published :
        i \in DOMAIN published' /\ published'[i] = published[i]
  BY <1>1, AppendAt
<1> QED BY <1>2 DEF Published, Before, Publication

\* A new publication comes after the others.
LEMMA PublishedLast ==
  ASSUME TypeOK, NEW p \in [user : User, token : Token \cup {Empty}],
         published' = Append(published, p), NEW u, NEW t, NEW s,
         p = Publication(u, s)
  PROVE  /\ Published(u, s)'
         /\ Published(u, t) => Before(u, t, s)'
<1>1. published \in Seq([user : User, token : Token \cup {Empty}])
  BY DEF TypeOK, HistoryTypeOK
<1>2. \A i \in DOMAIN published :
        i \in DOMAIN published' /\ published'[i] = published[i] /\ i < Len(published) + 1
  BY <1>1, AppendAt
<1>3. Len(published) + 1 \in DOMAIN published' /\ published'[Len(published) + 1] = p
  BY <1>1, AppendAt
<1>4. Published(u, s)'
  BY <1>3 DEF Published, Publication
<1>5. ASSUME Published(u, t) PROVE Before(u, t, s)'
  <2>1. PICK i \in DOMAIN published : published[i] = Publication(u, t)
    BY <1>5 DEF Published
  <2> QED BY <1>2, <1>3, <2>1 DEF Before, Publication
<1> QED BY <1>4, <1>5

-----------------------------------------------------------------------------
(* What occase-notify knows and hears.                                     *)

LEMMA HearSame ==
  ASSUME HearInv, UNCHANGED <<inbox, published>>,
         \A u \in User, t \in Token : Known(u, t)' => Known(u, t)
  PROVE  HearInv'
<1>1. \A u, t, s : Published(u, t)' = Published(u, t) /\ Before(u, t, s)' = Before(u, t, s)
  BY DEF Published, Before, Publication
<1>2. InboxPublished'
  BY <1>1 DEF HearInv, InboxPublished, Mentions, Tells
<1>3. InboxInOrder'
  BY <1>1 DEF HearInv, InboxInOrder, Mentions, Tells
<1>4. KnownFirst'
  BY <1>1 DEF HearInv, KnownFirst, Tells
<1> QED BY <1>2, <1>3, <1>4 DEF HearInv

\* The handler of an event learns at most what the event mentions.
LEMMA HearTail ==
  ASSUME TypeOK, HearInv, inbox # <<>>, inbox' = Tail(inbox), UNCHANGED published,
         \A u \in User, t \in Token :
           Known(u, t)' => Known(u, t) \/ Mentions(Head(inbox), u, t)
  PROVE  HearInv'
<1>0. inbox \in Seq(Event)
  BY DEF TypeOK, LinkTypeOK
<1>1. \A u, t, s : Published(u, t)' = Published(u, t) /\ Before(u, t, s)' = Before(u, t, s)
  BY DEF Published, Before, Publication
<1>2. \A i \in DOMAIN inbox' : /\ i \in Nat /\ i >= 1
                               /\ i + 1 \in DOMAIN inbox /\ inbox'[i] = inbox[i + 1]
  BY <1>0, TailAt
<1>3. 1 \in DOMAIN inbox /\ Head(inbox) = inbox[1]
  BY <1>0, HeadAt
<1>4. InboxPublished'
  BY <1>1, <1>2 DEF HearInv, InboxPublished, Mentions, Tells
<1>5. InboxInOrder'
  <2> SUFFICES ASSUME NEW u \in User, NEW t \in Token, NEW s \in Token,
                      NEW i \in DOMAIN inbox', NEW j \in DOMAIN inbox', i < j,
                      Mentions(inbox'[i], u, t), Tells(inbox'[j], u, s)
               PROVE  Before(u, t, s)
    BY <1>1 DEF InboxInOrder, Mentions, Tells
  <2>1. i + 1 \in DOMAIN inbox /\ j + 1 \in DOMAIN inbox /\ i + 1 < j + 1
    BY <1>2
  <2>2. Mentions(inbox[i + 1], u, t) /\ Tells(inbox[j + 1], u, s)
    BY <1>2
  <2> QED BY <2>1, <2>2 DEF HearInv, InboxInOrder
<1>6. KnownFirst'
  <2> SUFFICES ASSUME NEW u \in User, NEW t \in Token, Known(u, t)'
               PROVE  /\ Published(u, t)
                      /\ \A s \in Token : \A j \in DOMAIN inbox' :
                           Tells(inbox'[j], u, s) => Before(u, t, s)
    BY <1>1 DEF KnownFirst, Tells
  <2>1. CASE Known(u, t)
    <3>1. /\ Published(u, t)
          /\ \A s \in Token : \A j \in DOMAIN inbox :
               Tells(inbox[j], u, s) => Before(u, t, s)
      BY <2>1 DEF HearInv, KnownFirst
    <3> QED BY <1>2, <3>1
  <2>2. CASE Mentions(Head(inbox), u, t)
    <3>1. Published(u, t)
      BY <1>3, <2>2 DEF HearInv, InboxPublished
    <3>2. ASSUME NEW s \in Token, NEW j \in DOMAIN inbox', Tells(inbox'[j], u, s)
          PROVE  Before(u, t, s)
      <4>1. j + 1 \in DOMAIN inbox /\ Tells(inbox[j + 1], u, s) /\ 1 < j + 1
        BY <1>2, <3>2
      <4> QED BY <1>3, <2>2, <4>1 DEF HearInv, InboxInOrder
    <3> QED BY <3>1, <3>2
  <2> QED BY <2>1, <2>2
<1> QED BY <1>4, <1>5, <1>6 DEF HearInv

\* An event that is appended mentions what was published, and when it tells a
\* token everything published before it came earlier.
LEMMA HearAppend ==
  ASSUME TypeOK, HearInv, NEW e \in Event,
         inbox' = inbox \/ inbox' = Append(inbox, e),
         UNCHANGED tokens,
         \A u, t : Published(u, t) => Published(u, t)',
         \A u, t, s : Before(u, t, s) => Before(u, t, s)',
         \A u \in User, t \in Token : Mentions(e, u, t) => Published(u, t)',
         \A u \in User, t, s \in Token :
           Tells(e, u, s) /\ Published(u, t) => Before(u, t, s)'
  PROVE  HearInv'
<1>0. inbox \in Seq(Event)
  BY DEF TypeOK, LinkTypeOK
<1>1. \A i \in DOMAIN inbox' :
        \/ i \in DOMAIN inbox /\ inbox'[i] = inbox[i]
        \/ i = Len(inbox) + 1 /\ inbox'[i] = e
  BY <1>0, AppendAt
<1>2. \A i \in DOMAIN inbox : i \in Nat /\ i < Len(inbox) + 1
  BY <1>0, AppendAt
<1>3. InboxPublished'
  <2> SUFFICES ASSUME NEW u \in User, NEW t \in Token, NEW i \in DOMAIN inbox',
                      Mentions(inbox'[i], u, t)
               PROVE  Published(u, t)'
    BY DEF InboxPublished, Mentions, Tells
  <2> QED BY <1>1 DEF HearInv, InboxPublished
<1>4. InboxInOrder'
  <2> SUFFICES ASSUME NEW u \in User, NEW t \in Token, NEW s \in Token,
                      NEW i \in DOMAIN inbox', NEW j \in DOMAIN inbox', i < j,
                      Mentions(inbox'[i], u, t), Tells(inbox'[j], u, s)
               PROVE  Before(u, t, s)'
    BY DEF InboxInOrder, Mentions, Tells
  <2>0. Len(inbox) \in Nat
    BY <1>0
  <2>1. i \in DOMAIN inbox /\ inbox'[i] = inbox[i]
    BY <1>1, <1>2, <2>0
  <2>2. CASE j \in DOMAIN inbox /\ inbox'[j] = inbox[j]
    BY <2>1, <2>2 DEF HearInv, InboxInOrder
  <2>3. CASE inbox'[j] = e
    <3>1. Published(u, t)
      BY <2>1 DEF HearInv, InboxPublished
    <3> QED BY <2>3, <3>1
  <2> QED BY <1>1, <2>2, <2>3
<1>5. KnownFirst'
  <2> SUFFICES ASSUME NEW u \in User, NEW t \in Token, Known(u, t)
               PROVE  /\ Published(u, t)'
                      /\ \A s \in Token : \A j \in DOMAIN inbox' :
                           Tells(inbox'[j], u, s) => Before(u, t, s)'
    BY DEF KnownFirst, Tells, Known
  <2>1. /\ Published(u, t)
        /\ \A s \in Token : \A j \in DOMAIN inbox :
             Tells(inbox[j], u, s) => Before(u, t, s)
    BY DEF HearInv, KnownFirst
  <2> QED BY <1>1, <2>1
<1> QED BY <1>3, <1>4, <1>5 DEF HearInv

-----------------------------------------------------------------------------
(* What occase-db sends.                                                   *)

LEMMA SendSame ==
  ASSUME SendInv, UNCHANGED <<dbVars, published>>
  PROVE  SendInv'
<1>1. UNCHANGED <<hash, pipe, published>>
  BY DEF dbVars
<1> QED BY <1>1 DEF SendInv, OnePlace, SentOnce, StoredAfter, HashPublished,
  Published, Publication, Sends, Stores

LEMMA ConcatAt ==
  ASSUME NEW S, NEW q \in Seq(S), NEW r \in Seq(S), r # <<>>
  PROVE  Len(q) + 1 \in DOMAIN (q \o r) /\ (q \o r)[Len(q) + 1] = r[1]
  OBVIOUS

\* Where the commands of a request are put.
LEMMA RequestAt ==
  ASSUME TypeOK, NEW n \in Node, NEW cmds \in Seq(Command), Request(n, cmds),
         NEW m \in Node
  PROVE  /\ \A k \in DOMAIN pipe[m] : k \in DOMAIN pipe'[m] /\ pipe'[m][k] = pipe[m][k]
         /\ \A k \in DOMAIN pipe'[m] :
              \/ k \in DOMAIN pipe[m]
              \/ /\ m = n /\ k - Len(pipe[n]) \in DOMAIN cmds
                 /\ pipe'[m][k] = cmds[k - Len(pipe[n])]
<1>1. pipe \in [Node -> Seq(Command)]
  BY DEF TypeOK, DbTypeOK
<1>2. pipe[m] \in Seq(Command) /\ pipe[n] \in Seq(Command)
  BY <1>1
<1>3. pipe'[m] = IF m = n THEN pipe[n] \o cmds ELSE pipe[m]
  BY <1>1 DEF Request
<1>4. CASE m = n
  <2>1. pipe'[m] = pipe[n] \o cmds
    BY <1>3, <1>4
  <2> QED BY <1>2, <1>4, <2>1
<1>5. CASE m # n
  BY <1>3, <1>5
<1> QED BY <1>4, <1>5

\* A request of commands about no token.
LEMMA SendOther ==
  ASSUME TypeOK, SendInv, NEW n \in Node, NEW cmds \in Seq(Command), Request(n, cmds),
         \A j \in DOMAIN cmds : cmds[j].op \notin {"token", "hset"},
         UNCHANGED <<hash, published>>
  PROVE  SendInv'
<1>1. \A m \in Node : \A k \in DOMAIN pipe[m] :
        k \in DOMAIN pipe'[m] /\ pipe'[m][k] = pipe[m][k]
  BY RequestAt
<1>2. \A m \in Node : \A k \in DOMAIN pipe'[m] :
        k \in DOMAIN pipe[m] \/ pipe'[m][k].op \notin {"token", "hset"}
  BY RequestAt
<1>3. \A m \in Node : \A k \in DOMAIN pipe'[m] : \A u, t :
        Sends(pipe'[m][k], u, t) => k \in DOMAIN pipe[m] /\ Sends(pipe[m][k], u, t)
  BY <1>1, <1>2 DEF Sends
<1>4. \A m \in Node : \A k \in DOMAIN pipe'[m] : \A u, t :
        Stores(pipe'[m][k], u, t) => k \in DOMAIN pipe[m] /\ Stores(pipe[m][k], u, t)
  BY <1>1, <1>2 DEF Stores
<1>5. \A u, t : Published(u, t)' = Published(u, t)
  BY DEF Published, Publication
<1>6. OnePlace' /\ HashPublished'
  BY <1>5 DEF SendInv, OnePlace, HashPublished
<1>7. SentOnce'
  <2> SUFFICES ASSUME NEW u \in User, NEW t \in Token, NEW m \in Node,
                      NEW k \in DOMAIN pipe'[m], Sends(pipe'[m][k], u, t)
               PROVE  /\ \A i \in DOMAIN published : published[i].token # t
                      /\ \A x \in User, l \in Node : \A j \in DOMAIN pipe'[l] :
                           Sends(pipe'[l][j], x, t) => l = m /\ j = k
    BY DEF SentOnce, Sends
  <2>1. k \in DOMAIN pipe[m] /\ Sends(pipe[m][k], u, t)
    BY <1>3
  <2>2. /\ \A i \in DOMAIN published : published[i].token # t
        /\ \A x \in User, l \in Node : \A j \in DOMAIN pipe[l] :
             Sends(pipe[l][j], x, t) => l = m /\ j = k
    BY <2>1 DEF SendInv, SentOnce
  <2> QED BY <1>3, <2>2
<1>8. StoredAfter'
  <2> SUFFICES ASSUME NEW u \in User, NEW t \in Token, NEW m \in Node,
                      NEW k \in DOMAIN pipe'[m], Stores(pipe'[m][k], u, t)
               PROVE  /\ k = 1 => Published(u, t)
                      /\ k # 1 => Sends(pipe'[m][k - 1], u, t)
    BY <1>5 DEF StoredAfter, Sends, Stores
  <2>1. k \in DOMAIN pipe[m] /\ Stores(pipe[m][k], u, t)
    BY <1>4
  <2>2. /\ k = 1 => Published(u, t)
        /\ k # 1 => Sends(pipe[m][k - 1], u, t)
    BY <2>1 DEF SendInv, StoredAfter
  <2>3. k # 1 => k - 1 \in DOMAIN pipe[m]
    BY <2>1 DEF TypeOK, DbTypeOK
  <2> QED BY <1>1, <2>2, <2>3
<1> QED BY <1>6, <1>7, <1>8 DEF SendInv

\* The three commands of a login; a token among them was never seen before.
LEMMA SendLogin ==
  ASSUME NotifierAssumption, TypeOK, SendInv, NEW n \in Node, NEW u \in User,
         NEW t \in Token \cup {Empty}, Login(n, u, t)
  PROVE  SendInv'
<1> DEFINE c1 == [op |-> "token", user |-> u, token |-> t]
           c2 == [op |-> "hset", user |-> u, token |-> t]
           c3 == [op |-> "del", user |-> u, token |-> None]
           cmds == <<c1, c2, c3>>
           b == Len(pipe[n])
<1>4. /\ \A j \in DOMAIN cmds : \/ j = 1 /\ cmds[j] = c1
                                \/ j = 2 /\ cmds[j] = c2
                                \/ j = 3 /\ cmds[j] = c3
      /\ cmds # <<>> /\ cmds[1] = c1
  OBVIOUS
<1>0. cmds \in Seq(Command) /\ Request(n, cmds) /\ UNCHANGED <<hash, published>>
  <2>1. c1 \in Command /\ c2 \in Command /\ c3 \in Command
    BY DEF Command
  <2> QED BY <2>1 DEF Login
<1> HIDE DEF cmds
<1>1. \A m \in Node : \A k \in DOMAIN pipe[m] :
        k \in DOMAIN pipe'[m] /\ pipe'[m][k] = pipe[m][k]
  BY <1>0, RequestAt
<1>2. \A m \in Node : \A k \in DOMAIN pipe'[m] :
        \/ k \in DOMAIN pipe[m]
        \/ m = n /\ k - b \in DOMAIN cmds /\ pipe'[m][k] = cmds[k - b]
  BY <1>0, RequestAt
<1>3. /\ b \in Nat /\ pipe[n] \in Seq(Command)
      /\ \A m \in Node : \A k \in DOMAIN pipe'[m] : k \in Nat
  <2>1. pipe \in [Node -> Seq(Command)]
    BY DEF TypeOK, DbTypeOK
  <2>2. pipe' \in [Node -> Seq(Command)]
    BY <1>0, <2>1, RequestType
  <2> QED BY <2>1, <2>2
<1>5. \A m \in Node : \A k \in DOMAIN pipe'[m] : \A x, s :
        Sends(pipe'[m][k], x, s) =>
          \/ k \in DOMAIN pipe[m] /\ Sends(pipe[m][k], x, s)
          \/ m = n /\ k = b + 1 /\ x = u /\ s = t
  <2> SUFFICES ASSUME NEW m \in Node, NEW k \in DOMAIN pipe'[m], NEW x, NEW s,
                      Sends(pipe'[m][k], x, s), k \notin DOMAIN pipe[m]
               PROVE  m = n /\ k = b + 1 /\ x = u /\ s = t
    BY <1>1
  <2>1. m = n /\ k - b \in DOMAIN cmds /\ pipe'[m][k] = cmds[k - b]
    BY <1>2
  <2>2. k - b = 1 /\ pipe'[m][k] = c1
    BY <1>4, <2>1 DEF Sends
  <2> HIDE DEF b
  <2> QED BY <1>3, <2>1, <2>2 DEF Sends
<1>6. \A m \in Node : \A k \in DOMAIN pipe'[m] : \A x, s :
        Stores(pipe'[m][k], x, s) =>
          \/ k \in DOMAIN pipe[m] /\ Stores(pipe[m][k], x, s)
          \/ m = n /\ k = b + 2 /\ x = u /\ s = t
  <2> SUFFICES ASSUME NEW m \in Node, NEW k \in DOMAIN pipe'[m], NEW x, NEW s,
                      Stores(pipe'[m][k], x, s), k \notin DOMAIN pipe[m]
               PROVE  m = n /\ k = b + 2 /\ x = u /\ s = t
    BY <1>1
  <2>1. m = n /\ k - b \in DOMAIN cmds /\ pipe'[m][k] = cmds[k - b]
    BY <1>2
  <2>2. k - b = 2 /\ pipe'[m][k] = c2
    BY <1>4, <2>1 DEF Stores
  <2> HIDE DEF b
  <2> QED BY <1>3, <2>1, <2>2 DEF Stores
<1>7. b + 1 \in DOMAIN pipe'[n] /\ pipe'[n][b + 1] = c1
  <2>1. pipe'[n] = pipe[n] \o cmds
    BY <1>0, <1>3 DEF Request, TypeOK, DbTypeOK
  <2> HIDE DEF c1
  <2> QED BY <1>0, <1>3, <1>4, <2>1, ConcatAt
<1> HIDE DEF b, c1, c2, c3
<1>8. \A x, s : Published(x, s)' = Published(x, s)
  BY <1>0 DEF Published, Publication
<1>9. OnePlace' /\ HashPublished'
  BY <1>0, <1>8 DEF SendInv, OnePlace, HashPublished
<1>10. t \in Token =>
         /\ \A i \in DOMAIN published : published[i].token # t
         /\ \A m \in Node : \A k \in DOMAIN pipe[m] : pipe[m][k].token # t
  BY NotifierAssumption DEF Login, NotifierAssumption
<1>11. SentOnce'
  <2> SUFFICES ASSUME NEW x \in User, NEW s \in Token, NEW m \in Node,
                      NEW k \in DOMAIN pipe'[m], Sends(pipe'[m][k], x, s)
               PROVE  /\ \A i \in DOMAIN published : published[i].token # s
                      /\ \A y \in User, l \in Node : \A j \in DOMAIN pipe'[l] :
                           Sends(pipe'[l][j], y, s) => l = m /\ j = k
    BY <1>0 DEF SentOnce, Sends
  <2>1. CASE m = n /\ k = b + 1 /\ x = u /\ s = t
    <3>1. \A l \in Node : \A j \in DOMAIN pipe[l] : \A y : ~Sends(pipe[l][j], y, s)
      BY <1>10, <2>1 DEF Sends
    <3> QED BY <1>5, <1>10, <2>1, <3>1
  <2>2. CASE k \in DOMAIN pipe[m] /\ Sends(pipe[m][k], x, s)
    <3>1. s # t
      BY <1>10, <2>2 DEF Sends
    <3>2. /\ \A i \in DOMAIN published : published[i].token # s
          /\ \A y \in User, l \in Node : \A j \in DOMAIN pipe[l] :
               Sends(pipe[l][j], y, s) => l = m /\ j = k
      BY <2>2 DEF SendInv, SentOnce
    <3> QED BY <1>5, <3>1, <3>2
  <2> QED BY <1>5, <2>1, <2>2
<1>12. StoredAfter'
  <2> SUFFICES ASSUME NEW x \in User, NEW s \in Token, NEW m \in Node,
                      NEW k \in DOMAIN pipe'[m], Stores(pipe'[m][k], x, s)
               PROVE  /\ k = 1 => Published(x, s)
                      /\ k # 1 => Sends(pipe'[m][k - 1], x, s)
    BY <1>8 DEF StoredAfter, Sends, Stores
  <2>1. CASE m = n /\ k = b + 2 /\ x = u /\ s = t
    <3>1. k # 1 /\ k - 1 = b + 1
      BY <1>3, <2>1
    <3> QED BY <1>7, <2>1, <3>1 DEF Sends, c1
  <2>2. CASE k \in DOMAIN pipe[m] /\ Stores(pipe[m][k], x, s)
    <3>1. /\ k = 1 => Published(x, s)
          /\ k # 1 => Sends(pipe[m][k - 1], x, s)
      BY <2>2 DEF SendInv, StoredAfter
    <3>2. k # 1 => k - 1 \in DOMAIN pipe[m]
      BY <2>2 DEF TypeOK, DbTypeOK
    <3> QED BY <1>1, <3>1, <3>2
  <2> QED BY <1>6, <2>1, <2>2
<1> QED BY <1>9, <1>11, <1>12 DEF SendInv

\* Redis takes the first command of one process: the place where a command of
\* the rest was before.
Shift(n, m, k) == IF m = n THEN k + 1 ELSE k

LEMMA ShiftOneToOne ==
  ASSUME NEW n, NEW m, NEW j \in Nat, NEW k \in Nat, Shift(n, m, j) = Shift(n, m, k)
  PROVE  j = k
  BY DEF Shift

LEMMA ExecAt ==
  ASSUME TypeOK, NEW n \in Node, NEW op, Exec(n, op)
  PROVE  /\ 1 \in DOMAIN pipe[n] /\ Head(pipe[n]) = pipe[n][1] /\ pipe[n][1].op = op
         /\ pipe[n][1] \in Command
         /\ \A m \in Node : \A k \in DOMAIN pipe'[m] :
              /\ k \in Nat /\ k >= 1
              /\ Shift(n, m, k) \in DOMAIN pipe[m]
              /\ pipe'[m][k] = pipe[m][Shift(n, m, k)]
              /\ k # 1 => k - 1 \in DOMAIN pipe'[m]
<1>1. pipe \in [Node -> Seq(Command)]
  BY DEF TypeOK, DbTypeOK
<1>2. pipe[n] \in Seq(Command) /\ pipe[n] # <<>> /\ Head(pipe[n]).op = op
  BY <1>1 DEF Exec
<1>3. 1 \in DOMAIN pipe[n] /\ Head(pipe[n]) = pipe[n][1] /\ pipe[n][1] \in Command
  BY <1>2
<1>4. ASSUME NEW m \in Node, NEW k \in DOMAIN pipe'[m]
      PROVE  /\ k \in Nat /\ k >= 1
             /\ Shift(n, m, k) \in DOMAIN pipe[m]
             /\ pipe'[m][k] = pipe[m][Shift(n, m, k)]
             /\ k # 1 => k - 1 \in DOMAIN pipe'[m]
  <2>1. CASE m = n
    <3>1. pipe'[m] = Tail(pipe[n])
      BY <1>1, <2>1 DEF Exec
    <3>2. k \in DOMAIN Tail(pipe[n])
      BY <1>4, <3>1
    <3>3. /\ k \in Nat /\ k >= 1
          /\ k + 1 \in DOMAIN pipe[n] /\ Tail(pipe[n])[k] = pipe[n][k + 1]
      BY <1>2, <3>2, TailAt
    <3>4. k # 1 => k - 1 \in DOMAIN Tail(pipe[n])
      BY <1>2, <3>2, <3>3
    <3> QED BY <2>1, <3>1, <3>3, <3>4 DEF Shift
  <2>2. CASE m # n
    <3>1. pipe'[m] = pipe[m] /\ pipe[m] \in Seq(Command)
      BY <1>1, <2>2 DEF Exec
    <3>2. k \in Nat /\ k >= 1 /\ k \in DOMAIN pipe[m] /\ (k # 1 => k - 1 \in DOMAIN pipe[m])
      BY <1>4, <3>1
    <3> QED BY <2>2, <3>1, <3>2 DEF Shift
  <2> QED BY <2>1, <2>2
<1> QED BY <1>2, <1>3, <1>4

\* What keeps SentOnce and StoredAfter for the rest of the commands.
LEMMA RestSends ==
  ASSUME TypeOK, SendInv, NEW n \in Node, NEW op, Exec(n, op),
         NEW m \in Node, NEW k \in DOMAIN pipe'[m], NEW u \in User, NEW t \in Token,
         Sends(pipe'[m][k], u, t)
  PROVE  /\ \A i \in DOMAIN published : published[i].token # t
         /\ \A x \in User : ~Sends(pipe[n][1], x, t)
         /\ \A x \in User, l \in Node : \A j \in DOMAIN pipe'[l] :
              Sends(pipe'[l][j], x, t) => l = m /\ j = k
<1>0. /\ 1 \in DOMAIN pipe[n]
      /\ \A l \in Node : \A j \in DOMAIN pipe'[l] :
              /\ j \in Nat /\ j >= 1
              /\ Shift(n, l, j) \in DOMAIN pipe[l]
              /\ pipe'[l][j] = pipe[l][Shift(n, l, j)]
              /\ j # 1 => j - 1 \in DOMAIN pipe'[l]
  BY ExecAt
<1>1. Shift(n, m, k) \in DOMAIN pipe[m] /\ Sends(pipe[m][Shift(n, m, k)], u, t)
  BY <1>0
<1>2. /\ \A i \in DOMAIN published : published[i].token # t
      /\ \A x \in User, l \in Node : \A j \in DOMAIN pipe[l] :
           Sends(pipe[l][j], x, t) => l = m /\ j = Shift(n, m, k)
  BY <1>1 DEF SendInv, SentOnce
<1>3. ASSUME NEW x \in User, Sends(pipe[n][1], x, t) PROVE FALSE
  <2>1. n = m /\ 1 = Shift(n, m, k)
    BY <1>0, <1>2, <1>3
  <2> QED BY <1>0, <2>1 DEF Shift
<1>4. ASSUME NEW x \in User, NEW l \in Node, NEW j \in DOMAIN pipe'[l],
             Sends(pipe'[l][j], x, t)
      PROVE  l = m /\ j = k
  <2>1. l = m /\ Shift(n, l, j) = Shift(n, m, k)
    BY <1>0, <1>2, <1>4
  <2>2. j \in Nat /\ k \in Nat
    BY <1>0, <1>4
  <2> QED BY <2>1, <2>2, ShiftOneToOne
<1> QED BY <1>2, <1>3, <1>4

LEMMA RestStores ==
  ASSUME TypeOK, SendInv, NEW n \in Node, NEW op, Exec(n, op),
         NEW m \in Node, NEW k \in DOMAIN pipe'[m], NEW u \in User, NEW t \in Token,
         Stores(pipe'[m][k], u, t)
  PROVE  /\ k # 1 => Sends(pipe'[m][k - 1], u, t)
         /\ k = 1 => Sends(pipe[n][1], u, t) \/ Published(u, t)
<1>0. /\ 1 \in DOMAIN pipe[n]
      /\ \A l \in Node : \A j \in DOMAIN pipe'[l] :
              /\ j \in Nat /\ j >= 1
              /\ Shift(n, l, j) \in DOMAIN pipe[l]
              /\ pipe'[l][j] = pipe[l][Shift(n, l, j)]
              /\ j # 1 => j - 1 \in DOMAIN pipe'[l]
  BY ExecAt
<1>1. Shift(n, m, k) \in DOMAIN pipe[m] /\ Stores(pipe[m][Shift(n, m, k)], u, t)
  BY <1>0
<1>2. /\ Shift(n, m, k) = 1 => Published(u, t)
      /\ Shift(n, m, k) # 1 => Sends(pipe[m][Shift(n, m, k) - 1], u, t)
  BY <1>1 DEF SendInv, StoredAfter
<1>3. k \in Nat /\ k >= 1 /\ (k # 1 => k - 1 \in DOMAIN pipe'[m])
  BY <1>0
<1>4. CASE k # 1
  <2>1. Shift(n, m, k) # 1 /\ Shift(n, m, k) - 1 = Shift(n, m, k - 1)
    BY <1>3, <1>4 DEF Shift
  <2>2. pipe'[m][k - 1] = pipe[m][Shift(n, m, k - 1)]
    BY <1>0, <1>3, <1>4
  <2> QED BY <1>2, <1>4, <2>1, <2>2
<1>5. CASE k = 1 /\ m = n
  <2>1. Shift(n, m, k) = 2 /\ Shift(n, m, k) - 1 = 1
    BY <1>5 DEF Shift
  <2> QED BY <1>2, <1>5, <2>1
<1>6. CASE k = 1 /\ m # n
  BY <1>2, <1>6 DEF Shift
<1> QED BY <1>4, <1>5, <1>6

\* A command that publishes nothing.
LEMMA SendExec ==
  ASSUME TypeOK, SendInv, NEW n \in Node, NEW op, Exec(n, op), op # "token",
         UNCHANGED published,
         \A u \in User, t \in Token : hash'[u] = t => Published(u, t)
  PROVE  SendInv'
<1>1. pipe[n][1].op = op
  BY ExecAt
<1>2. \A u, t : Published(u, t)' = Published(u, t)
  BY DEF Published, Publication
<1>3. OnePlace' /\ HashPublished'
  BY <1>2 DEF SendInv, OnePlace, HashPublished
<1>4. SentOnce'
  <2> SUFFICES ASSUME NEW u \in User, NEW t \in Token, NEW m \in Node,
                      NEW k \in DOMAIN pipe'[m], Sends(pipe'[m][k], u, t)
               PROVE  /\ \A i \in DOMAIN published : published[i].token # t
                      /\ \A x \in User, l \in Node : \A j \in DOMAIN pipe'[l] :
                           Sends(pipe'[l][j], x, t) => l = m /\ j = k
    BY DEF SentOnce, Sends
  <2> QED BY RestSends
<1>5. StoredAfter'
  <2> SUFFICES ASSUME NEW u \in User, NEW t \in Token, NEW m \in Node,
                      NEW k \in DOMAIN pipe'[m], Stores(pipe'[m][k], u, t)
               PROVE  /\ k = 1 => Published(u, t)
                      /\ k # 1 => Sends(pipe'[m][k - 1], u, t)
    BY <1>2 DEF StoredAfter, Sends, Stores
  <2>1. ~Sends(pipe[n][1], u, t)
    BY <1>1 DEF Sends
  <2>2. /\ k # 1 => Sends(pipe'[m][k - 1], u, t)
        /\ k = 1 => Sends(pipe[n][1], u, t) \/ Published(u, t)
    BY RestStores
  <2> QED BY <2>1, <2>2
<1> QED BY <1>3, <1>4, <1>5 DEF SendInv

\* The command that publishes a token.
LEMMA SendToken ==
  ASSUME TypeOK, SendInv, NEW n \in Node, NEW op, Exec(n, op), op = "token",
         UNCHANGED hash,
         NEW u \in User, NEW t \in Token \cup {Empty},
         pipe[n][1].user = u, pipe[n][1].token = t,
         published' = Append(published, Publication(u, t))
  PROVE  SendInv'
<1>0. 1 \in DOMAIN pipe[n] /\ pipe[n][1].op = "token"
  BY ExecAt
<1>1. Publication(u, t) \in [user : User, token : Token \cup {Empty}]
  BY DEF Publication
<1>2. /\ \A i \in DOMAIN published : published'[i] = published[i]
      /\ \A i \in DOMAIN published' :
           \/ i \in DOMAIN published
           \/ i = Len(published) + 1 /\ published'[i] = Publication(u, t)
  BY <1>1, AppendAt DEF TypeOK, HistoryTypeOK
<1>3. t \in Token => \A i \in DOMAIN published : published[i].token # t
  BY <1>0 DEF SendInv, SentOnce, Sends
<1>4. \A x, s : Published(x, s) => Published(x, s)'
  BY <1>1, PublishedStays
<1>5. Published(u, t)'
  BY <1>1, PublishedLast
<1>6. OnePlace'
  <2> SUFFICES ASSUME NEW i \in DOMAIN published', NEW j \in DOMAIN published',
                      published'[i].token = published'[j].token,
                      published'[i].token # Empty
               PROVE  i = j
    BY DEF OnePlace
  <2>1. CASE i \in DOMAIN published /\ j \in DOMAIN published
    BY <1>2, <2>1 DEF SendInv, OnePlace
  <2>2. CASE i \notin DOMAIN published /\ j \notin DOMAIN published
    BY <1>2, <2>2
  <2>3. CASE i \in DOMAIN published /\ j \notin DOMAIN published
    <3>1. published[i].token = t /\ t \in Token
      BY <1>2, <2>3 DEF Publication
    <3> QED BY <1>3, <2>3, <3>1
  <2>4. CASE i \notin DOMAIN published /\ j \in DOMAIN published
    <3>1. published[j].token = t /\ t \in Token
      BY <1>2, <2>4 DEF Publication
    <3> QED BY <1>3, <2>4, <3>1
  <2> QED BY <2>1, <2>2, <2>3, <2>4
<1>7. HashPublished'
  BY <1>4 DEF SendInv, HashPublished
<1>8. SentOnce'
  <2> SUFFICES ASSUME NEW x \in User, NEW s \in Token, NEW m \in Node,
                      NEW k \in DOMAIN pipe'[m], Sends(pipe'[m][k], x, s)
               PROVE  /\ \A i \in DOMAIN published' : published'[i].token # s
                      /\ \A y \in User, l \in Node : \A j \in DOMAIN pipe'[l] :
                           Sends(pipe'[l][j], y, s) => l = m /\ j = k
    BY DEF SentOnce, Sends
  <2>1. /\ \A i \in DOMAIN published : published[i].token # s
        /\ ~Sends(pipe[n][1], u, s)
        /\ \A y \in User, l \in Node : \A j \in DOMAIN pipe'[l] :
             Sends(pipe'[l][j], y, s) => l = m /\ j = k
    BY RestSends
  <2>2. s # t
    BY <1>0, <2>1 DEF Sends
  <2>3. \A i \in DOMAIN published' : published'[i].token # s
    BY <1>2, <2>1, <2>2 DEF Publication
  <2> QED BY <2>1, <2>3
<1>9. StoredAfter'
  <2> SUFFICES ASSUME NEW x \in User, NEW s \in Token, NEW m \in Node,
                      NEW k \in DOMAIN pipe'[m], Stores(pipe'[m][k], x, s)
               PROVE  /\ k = 1 => Published(x, s)'
                      /\ k # 1 => Sends(pipe'[m][k - 1], x, s)
    BY DEF StoredAfter, Sends, Stores
  <2>1. /\ k # 1 => Sends(pipe'[m][k - 1], x, s)
        /\ k = 1 => Sends(pipe[n][1], x, s) \/ Published(x, s)
    BY RestStores
  <2>2. Sends(pipe[n][1], x, s) => x = u /\ s = t
    BY DEF Sends
  <2> QED BY <1>4, <1>5, <2>1, <2>2
<1> QED BY <1>6, <1>7, <1>8, <1>9 DEF SendInv

-----------------------------------------------------------------------------
(* Every step.                                                             *)

\* What a handler does to the token of a user: it takes the entry away, keeps
\* the token, takes the one it is told, or takes that of the hash for a user it
\* does not know.
Learns(u) ==
  \/ tokens'[u] = None
  \/ tokens[u] # None /\ tokens'[u].token = tokens[u].token
  \/ Tells(Head(inbox), u, tokens'[u].token)
  \/ /\ tokens[u] = None /\ Head(inbox).type = "hgetall"
     /\ Head(inbox).fields[u] = tokens'[u].token

LEMMA EventLearns ==
  ASSUME Inv, OnEvent, NEW u \in User
  PROVE  Learns(u)
<1>0. /\ tokens \in [User -> UserEntry \cup {None}] /\ inbox \in Seq(Event)
      /\ tokens[u] \in UserEntry \cup {None}
  BY DEF Inv, TypeOK, NtfTypeOK, LinkTypeOK
<1>1. CASE OnMessage
  <2> DEFINE x == Head(inbox).user
  <2>1. \/ UNCHANGED tokens
        \/ HasToken(x) /\ tokens' = [tokens EXCEPT ![x].msg = Head(inbox).msg]
    BY <1>1 DEF OnMessage
  <2>2. CASE UNCHANGED tokens
    BY <2>2 DEF Learns
  <2>3. CASE HasToken(x) /\ tokens' = [tokens EXCEPT ![x].msg = Head(inbox).msg]
    <3>1. CASE u # x
      <4>1. tokens'[u] = tokens[u]
        BY <1>0, <2>3, <3>1
      <4> QED BY <4>1 DEF Learns
    <3>2. CASE u = x
      <4>1. tokens[u] \in UserEntry /\ tokens[u] # None
        BY <1>0, <2>3, <3>2 DEF HasToken
      <4>2. tokens'[u] = [tokens[u] EXCEPT !.msg = Head(inbox).msg]
        BY <1>0, <2>3, <3>2
      <4>3. tokens'[u].token = tokens[u].token
        BY <4>1, <4>2 DEF UserEntry
      <4> QED BY <4>1, <4>3 DEF Learns
    <3> QED BY <3>1, <3>2
  <2> QED BY <2>1, <2>2, <2>3
<1>2. CASE OnDel
  BY <1>2 DEF OnDel, Learns
<1>3. CASE OnToken
  <2> DEFINE x == Head(inbox).user
             t == Head(inbox).token
  <2>1. Head(inbox).type = "token"
    BY <1>3 DEF OnToken, Receive
  <2>2. CASE u # x
    <3>1. tokens'[u] = tokens[u]
      BY <1>0, <1>3, <2>2 DEF OnToken
    <3> QED BY <3>1 DEF Learns
  <2>3. CASE u = x /\ t = Empty
    <3>1. tokens'[u] = None
      BY <1>0, <1>3, <2>3 DEF OnToken
    <3> QED BY <3>1 DEF Learns
  <2>4. CASE u = x /\ t # Empty
    <3>1. tokens'[u] = IF tokens[u] = None THEN [token |-> t, msg |-> None]
                       ELSE [tokens[u] EXCEPT !.token = t]
      BY <1>0, <1>3, <2>4 DEF OnToken
    <3>2. tokens'[u].token = t
      <4>1. CASE tokens[u] = None
        BY <3>1, <4>1
      <4>2. CASE tokens[u] # None
        BY <1>0, <3>1, <4>2 DEF UserEntry
      <4> QED BY <4>1, <4>2
    <3> QED BY <2>1, <2>4, <3>2 DEF Learns, Tells
  <2> QED BY <2>2, <2>3, <2>4
<1>4. CASE OnHgetall
  <2>1. /\ Head(inbox).type = "hgetall"
        /\ tokens'[u] = IF tokens[u] # None \/ Head(inbox).fields[u] = None
                        THEN tokens[u]
                        ELSE [token |-> Head(inbox).fields[u], msg |-> None]
    BY <1>4 DEF OnHgetall, Receive, Insert
  <2>2. CASE tokens[u] # None \/ Head(inbox).fields[u] = None
    <3>1. tokens'[u] = tokens[u]
      BY <2>1, <2>2
    <3> QED BY <3>1 DEF Learns
  <2>3. CASE tokens[u] = None /\ Head(inbox).fields[u] # None
    <3>1. tokens'[u] = [token |-> Head(inbox).fields[u], msg |-> None]
      BY <2>1, <2>3
    <3>2. tokens'[u].token = Head(inbox).fields[u]
      BY <3>1
    <3> QED BY <2>1, <2>3, <3>2 DEF Learns
  <2> QED BY <2>2, <2>3
<1> QED BY <1>1, <1>2, <1>3, <1>4 DEF OnEvent

LEMMA EventTokens ==
  ASSUME Inv, SendInv, HearInv, OnEvent
  PROVE  SendInv' /\ HearInv'
<1>1. /\ inbox # <<>> /\ inbox' = Tail(inbox)
      /\ UNCHANGED <<dbVars, published>>
  BY DEF OnEvent, OnMessage, OnDel, OnToken, OnHgetall, Receive, history
<1>2. \A u \in User, t \in Token :
        Known(u, t)' => Known(u, t) \/ Mentions(Head(inbox), u, t)
  <2> SUFFICES ASSUME NEW u \in User, NEW t \in Token, Known(u, t)'
               PROVE  Known(u, t) \/ Mentions(Head(inbox), u, t)
    OBVIOUS
  <2>1. tokens'[u] # None /\ tokens'[u].token = t
    BY DEF Known
  <2>2. Learns(u)
    BY EventLearns
  <2> QED BY <2>1, <2>2 DEF Learns, Known, Mentions
<1>3. TypeOK
  BY DEF Inv
<1>4. HearInv'
  BY <1>1, <1>2, <1>3, HearTail
<1> QED BY <1>1, <1>4, SendSame

LEMMA TokenTypes ==
  ASSUME NEW u \in User, NEW t \in Token \cup {Empty}
  PROVE  /\ Publication(u, t) \in [user : User, token : Token \cup {Empty}]
         /\ [type |-> "token", user |-> u, token |-> t] \in Event
  BY DEF Publication, Event

LEMMA RedisTokens ==
  ASSUME Inv, SendInv, HearInv, NEW n \in Node, Redis(n)
  PROVE  SendInv' /\ HearInv'
<1> DEFINE c == Head(pipe[n])
<1>0. TypeOK /\ UNCHANGED tokens
  BY DEF Inv, Redis, ntfVars
<1>1. CASE ExecToken(n)
  <2> DEFINE op == "token"
  <2>1. /\ Exec(n, op) /\ op = "token" /\ UNCHANGED hash
        /\ published' = Append(published, Publication(c.user, c.token))
        /\ \/ inbox' = inbox
           \/ inbox' = Append(inbox, [type |-> "token", user |-> c.user, token |-> c.token])
    BY <1>1 DEF ExecToken, Push, Publication
  <2> HIDE DEF op
  <2>2. c = pipe[n][1] /\ c \in Command /\ c.op = op
    BY <1>0, <2>1, ExecAt
  <2>3. PICK v \in User, w \in Token \cup {Empty} : v = c.user /\ w = c.token
    BY <2>1, <2>2, CommandFields
  <2> DEFINE e == [type |-> "token", user |-> v, token |-> w]
             p == Publication(v, w)
  <2>4. /\ p \in [user : User, token : Token \cup {Empty}] /\ e \in Event
        /\ p = Publication(v, w)
    BY TokenTypes
  <2>5. published' = Append(published, p) /\ (inbox' = inbox \/ inbox' = Append(inbox, e))
    BY <2>1, <2>3
  <2>6. SendInv'
    BY <1>0, <2>1, <2>2, <2>3, SendToken
  <2>7. \A u, t : Mentions(e, u, t) \/ Tells(e, u, t) => u = v /\ t = w
    BY DEF Mentions, Tells
  <2> HIDE DEF e, p
  <2>8. /\ \A u, t : Published(u, t) => Published(u, t)'
        /\ \A u, t, s : Before(u, t, s) => Before(u, t, s)'
    BY <1>0, <2>4, <2>5, PublishedStays
  <2>9. \A t : Published(v, w)' /\ (Published(v, t) => Before(v, t, w)')
    BY <1>0, <2>4, <2>5, PublishedLast
  <2>10. /\ \A u \in User, t \in Token : Mentions(e, u, t) => Published(u, t)'
         /\ \A u \in User, t, s \in Token :
              Tells(e, u, s) /\ Published(u, t) => Before(u, t, s)'
    BY <2>7, <2>9
  <2>11. HearInv'
    BY <1>0, <2>4, <2>5, <2>8, <2>10, HearAppend
  <2> QED BY <2>6, <2>11
<1>2. CASE ExecHset(n)
  <2>1. /\ Exec(n, "hset") /\ UNCHANGED <<inbox, published>>
        /\ hash' = [hash EXCEPT ![c.user] = c.token]
    BY <1>2 DEF ExecHset
  <2>2. c = pipe[n][1] /\ 1 \in DOMAIN pipe[n] /\ c.op = "hset"
    BY <1>0, <2>1, ExecAt
  <2>3. \A u \in User, t \in Token : hash'[u] = t => Published(u, t)
    <3> SUFFICES ASSUME NEW u \in User, NEW t \in Token, hash'[u] = t
                 PROVE  Published(u, t)
      OBVIOUS
    <3>1. hash \in [User -> Token \cup {Empty, None}]
      BY <1>0 DEF TypeOK, DbTypeOK
    <3>2. CASE u = c.user
      <4>1. Stores(pipe[n][1], u, t)
        BY <2>1, <2>2, <3>1, <3>2 DEF Stores
      <4> QED BY <2>2, <4>1 DEF SendInv, StoredAfter
    <3>3. CASE u # c.user
      <4>1. hash[u] = t
        BY <2>1, <3>1, <3>3
      <4> QED BY <4>1 DEF SendInv, HashPublished
    <3> QED BY <3>2, <3>3
  <2>4. SendInv'
    BY <1>0, <2>1, <2>3, SendExec
  <2>5. HearInv'
    BY <1>0, <2>1, HearSame DEF Known
  <2> QED BY <2>4, <2>5
<1>3. ASSUME NEW op, Exec(n, op), op # "token", UNCHANGED <<hash, published>>,
             NEW e \in Event, e.type \in {"message", "del"},
             inbox' = inbox \/ inbox' = Append(inbox, e)
      PROVE  SendInv' /\ HearInv'
  <2>1. \A u \in User, t \in Token : hash'[u] = t => Published(u, t)
    BY <1>3 DEF SendInv, HashPublished
  <2>2. SendInv'
    BY <1>0, <1>3, <2>1, SendExec
  <2>3. \A u, t, s : /\ Published(u, t)' = Published(u, t)
                     /\ Before(u, t, s)' = Before(u, t, s)
    BY <1>3 DEF Published, Before, Publication
  <2>4. \A u, t : ~Mentions(e, u, t) /\ ~Tells(e, u, t)
    BY <1>3 DEF Mentions, Tells
  <2>5. HearInv'
    BY <1>0, <1>3, <2>3, <2>4, HearAppend
  <2> QED BY <2>2, <2>5
<1>4. CASE ExecRpush(n)
  <2>1. Exec(n, "rpush") /\ UNCHANGED <<hash, inbox, published>>
    BY <1>4 DEF ExecRpush
  <2>2. \A u \in User, t \in Token : hash'[u] = t => Published(u, t)
    BY <2>1 DEF SendInv, HashPublished
  <2>3. SendInv'
    BY <1>0, <2>1, <2>2, SendExec
  <2>4. HearInv'
    BY <1>0, <2>1, HearSame DEF Known
  <2> QED BY <2>3, <2>4
<1>5. CASE ExecMessage(n)
  <2> DEFINE e == [type |-> "message", user |-> c.user, msg |-> c.msg]
  <2>1. /\ Exec(n, "message") /\ UNCHANGED <<hash, published>>
        /\ inbox' = inbox \/ inbox' = Append(inbox, e)
    BY <1>5 DEF ExecMessage, Push
  <2>2. c \in Command /\ c.op = "message"
    BY <1>0, <2>1, ExecAt
  <2>3. e \in Event /\ e.type \in {"message", "del"}
    BY <2>2, CommandFields DEF Event
  <2> HIDE DEF e
  <2> QED BY <1>3, <2>1, <2>3
<1>6. CASE ExecDel(n)
  <2> DEFINE e == [type |-> "del", key |-> Name(c.user, 1)]
  <2>1. /\ Exec(n, "del") /\ UNCHANGED <<hash, published>>
        /\ inbox' = inbox \/ inbox' = Append(inbox, e)
    BY <1>6 DEF ExecDel, Push
  <2>2. c \in Command
    BY <1>0, <2>1, ExecAt
  <2>3. e \in Event /\ e.type \in {"message", "del"}
    BY <2>2, CommandFields DEF Event, Name
  <2> HIDE DEF e
  <2> QED BY <1>3, <2>1, <2>3
<1> QED BY <1>1, <1>2, <1>4, <1>5, <1>6 DEF Redis

\* Redis answers HGETALL with tokens that were all published.
LEMMA HelloTokens ==
  ASSUME Inv, SendInv, HearInv, RedisNotify
  PROVE  SendInv' /\ HearInv'
<1> DEFINE e == [type |-> "hgetall", fields |-> hash]
<1>1. /\ UNCHANGED <<tokens, dbVars, published>>
      /\ inbox' = inbox \/ inbox' = Append(inbox, e)
  BY DEF RedisNotify, ExecHello, ntfVars, history
<1>2. TypeOK /\ hash \in [User -> Token \cup {Empty, None}]
  BY DEF Inv, TypeOK, DbTypeOK
<1>3. e \in Event
  BY <1>2 DEF Event
<1>4. \A u, t, s : /\ Published(u, t)' = Published(u, t)
                   /\ Before(u, t, s)' = Before(u, t, s)
  BY <1>1 DEF Published, Before, Publication
<1>5. /\ \A u \in User, t \in Token : Mentions(e, u, t) => Published(u, t)
      /\ \A u, t : ~Tells(e, u, t)
  BY DEF SendInv, HashPublished, Mentions, Tells
<1> HIDE DEF e
<1>6. HearInv'
  BY <1>1, <1>2, <1>3, <1>4, <1>5, HearAppend
<1> QED BY <1>1, <1>6, SendSame

\* A step that changes neither what is sent nor what is heard, except that
\* occase-notify may forget.
LEMMA QuietTokens ==
  ASSUME SendInv, HearInv, UNCHANGED published,
         UNCHANGED <<tokens, inbox>> \/ Blank
  PROVE  HearInv'
<1>1. CASE UNCHANGED <<tokens, inbox>>
  BY <1>1, HearSame DEF Known
<1>2. CASE Blank
  <2>1. inbox' = <<>> /\ \A u \in User : tokens'[u] = None
    BY <1>2 DEF Blank
  <2> QED BY <2>1 DEF HearInv, InboxPublished, InboxInOrder, KnownFirst, Known
<1> QED BY <1>1, <1>2

LEMMA RequestTokens ==
  ASSUME Inv, SendInv, HearInv, NEW n \in Node, NEW cmds \in Seq(Command),
         Request(n, cmds), \A j \in DOMAIN cmds : cmds[j].op \notin {"token", "hset"},
         UNCHANGED <<tokens, inbox, hash, published>>
  PROVE  SendInv' /\ HearInv'
<1>1. TypeOK
  BY DEF Inv
<1>2. SendInv'
  BY <1>1, SendOther
<1> QED BY <1>2, QuietTokens

LEMMA TokenNext ==
  ASSUME NotifierAssumption, TokenInv, [Next]_vars
  PROVE  TokenInv'
<1>0. Inv /\ SendInv /\ HearInv /\ TypeOK
  BY DEF TokenInv, Inv
<1>1. Inv'
  BY <1>0, NextInv
<1>2. CASE Start \/ Stop
  <2>1. UNCHANGED <<dbVars, published>> /\ (UNCHANGED <<tokens, inbox>> \/ Blank)
    BY <1>2 DEF Start, Stop
  <2> QED BY <1>0, <1>1, <2>1, SendSame, QuietTokens DEF TokenInv
<1>3. ASSUME NEW u \in User, Expire(u) \/ OnTimeout(u) \/ OnTimeoutDangling(u)
      PROVE  TokenInv'
  <2>1. UNCHANGED <<dbVars, published>> /\ (UNCHANGED <<tokens, inbox>> \/ Blank)
    BY <1>3 DEF Expire, OnTimeout, OnTimeoutDangling, linkVars, history
  <2> QED BY <1>0, <1>1, <2>1, SendSame, QuietTokens DEF TokenInv
<1>4. CASE OnEvent
  BY <1>0, <1>1, <1>4, EventTokens DEF TokenInv
<1>5. ASSUME NEW n \in Node, NEW u \in User, NEW t \in Token \cup {Empty},
             Login(n, u, t)
      PROVE  TokenInv'
  <2>1. SendInv'
    BY <1>0, <1>5, SendLogin
  <2>2. UNCHANGED <<tokens, inbox, published>>
    BY <1>5 DEF Login, ntfVars, linkVars
  <2> QED BY <1>0, <1>1, <2>1, <2>2, QuietTokens DEF TokenInv
<1>6. ASSUME NEW n \in Node, NEW u \in User, NEW m \in Msg, Store(n, u, m)
      PROVE  TokenInv'
  <2> DEFINE c1 == [op |-> "rpush", user |-> u, token |-> None]
             c2 == [op |-> "message", user |-> u, token |-> None, msg |-> m]
  <2>1. /\ Request(n, <<c1, c2>>)
        /\ UNCHANGED <<tokens, inbox, hash, published>>
    BY <1>6 DEF Store, ntfVars, linkVars
  <2>2. c1 \in Command /\ c2 \in Command
    BY DEF Command
  <2>3. c1.op = "rpush" /\ c2.op = "message"
    OBVIOUS
  <2> HIDE DEF c1, c2
  <2>4. <<c1, c2>> \in Seq(Command)
    BY <2>2
  <2>5. \A j \in DOMAIN <<c1, c2>> : <<c1, c2>>[j].op \notin {"token", "hset"}
    BY <2>3
  <2>6. SendInv' /\ HearInv'
    <3> DEFINE cmds == <<c1, c2>>
    <3>1. cmds \in Seq(Command) /\ Request(n, cmds)
      BY <2>1, <2>4
    <3>2. \A j \in DOMAIN cmds : cmds[j].op \notin {"token", "hset"}
      BY <2>5
    <3> HIDE DEF cmds
    <3> QED BY <1>0, <2>1, <3>1, <3>2, RequestTokens
  <2> QED BY <1>1, <2>6 DEF TokenInv
<1>7. ASSUME NEW n \in Node, NEW u \in User, Retrieve(n, u) PROVE TokenInv'
  <2> DEFINE cmds == <<[op |-> "del", user |-> u, token |-> None]>>
  <2>1. /\ Request(n, cmds)
        /\ UNCHANGED <<tokens, inbox, hash, published>>
    BY <1>7 DEF Retrieve, ntfVars, linkVars, history
  <2>2. cmds \in Seq(Command)
    BY DEF Command
  <2>3. \A j \in DOMAIN cmds : cmds[j].op \notin {"token", "hset"}
    OBVIOUS
  <2> HIDE DEF cmds
  <2>4. SendInv' /\ HearInv'
    BY <1>0, <2>1, <2>2, <2>3, RequestTokens
  <2> QED BY <1>1, <2>4 DEF TokenInv
<1>8. ASSUME NEW n \in Node, Redis(n) PROVE TokenInv'
  BY <1>0, <1>1, <1>8, RedisTokens DEF TokenInv
<1>9. CASE RedisNotify
  BY <1>0, <1>1, <1>9, HelloTokens DEF TokenInv
<1>10. CASE UNCHANGED vars
  <2>1. UNCHANGED <<dbVars, published, tokens, inbox>>
    BY <1>10 DEF vars, ntfVars, linkVars, history
  <2> QED BY <1>0, <1>1, <2>1, SendSame, QuietTokens DEF TokenInv
<1> QED BY <1>2, <1>3, <1>4, <1>5, <1>6, <1>7, <1>8, <1>9, <1>10 DEF Next

LEMMA TokenInit == Init => TokenInv
<1> SUFFICES ASSUME Init PROVE TokenInv
  OBVIOUS
<1>1. Inv
  BY InitInv
<1>2. /\ published = <<>> /\ inbox = <<>>
      /\ \A n \in Node : pipe[n] = <<>>
      /\ \A u \in User : hash[u] = None /\ tokens[u] = None
  BY DEF Init
<1>3. \A t \in Token : t # None
  BY NotifierAssumption DEF NotifierAssumption
<1>4. SendInv
  BY <1>2, <1>3 DEF SendInv, OnePlace, SentOnce, StoredAfter, HashPublished
<1>5. HearInv
  BY <1>2 DEF HearInv, InboxPublished, InboxInOrder, KnownFirst, Known
<1> QED BY <1>1, <1>4, <1>5 DEF TokenInv

\* A token that is published once was last published there.
LEMMA PublishedAtPlace ==
  ASSUME TypeOK, OnePlace, NEW u, NEW t \in Token, NEW i \in DOMAIN published,
         published[i] = Publication(u, t)
  PROVE  PublishedAt(u, t) = i
<1> DEFINE S == {k \in DOMAIN published : published[k] = [user |-> u, token |-> t]}
<1>1. published[i].token = t /\ t # Empty
  BY NotifierAssumption DEF NotifierAssumption, Publication
<1>2. \A k \in DOMAIN published : published[k] = [user |-> u, token |-> t] => k = i
  BY <1>1 DEF OnePlace
<1>3. S = {i}
  BY <1>2 DEF Publication
<1>4. i \in Nat
  BY DEF TypeOK, HistoryTypeOK
<1>5. PublishedAt(u, t) = IF S = {} THEN 0 ELSE CHOOSE k \in S : \A j \in S : j <= k
  BY DEF PublishedAt
<1> HIDE DEF S
<1> QED BY <1>3, <1>4, <1>5

LEMMA TokenStep ==
  ASSUME TokenInv, [Next]_vars, NEW u \in User,
         HasToken(u), HasToken(u)', tokens'[u].token # tokens[u].token
  PROVE  PublishedAt(u, tokens[u].token) < PublishedAt(u, tokens'[u].token)
<1> DEFINE t == tokens[u].token
           s == tokens'[u].token
<1>0. Inv /\ SendInv /\ HearInv /\ TypeOK /\ OnePlace
  BY DEF TokenInv, Inv, SendInv
<1>1. TypeOK'
  BY <1>0, NextInv DEF Inv
<1>2. tokens[u] # None /\ tokens'[u] # None /\ t # Empty /\ s # Empty
  BY DEF HasToken
<1>3. t \in Token /\ s \in Token
  BY <1>0, <1>1, <1>2 DEF TypeOK, NtfTypeOK, UserEntry
<1>4. OnEvent
  <2>1. CASE Start \/ Stop
    BY <1>2, <2>1 DEF Start, Stop, Blank
  <2>2. ASSUME NEW x \in User, Expire(x) \/ OnTimeout(x) \/ OnTimeoutDangling(x)
        PROVE  FALSE
    BY <1>2, <2>2 DEF Expire, OnTimeout, OnTimeoutDangling, Blank
  <2>3. ASSUME NEW n \in Node, NEW x \in User,
               \/ \E y \in Token \cup {Empty} : Login(n, x, y)
               \/ \E m \in Msg : Store(n, x, m)
               \/ Retrieve(n, x)
        PROVE  FALSE
    BY <2>3 DEF Login, Store, Retrieve, ntfVars
  <2>4. ASSUME NEW n \in Node, Redis(n) PROVE FALSE
    BY <2>4 DEF Redis, ntfVars
  <2>5. CASE RedisNotify
    BY <2>5 DEF RedisNotify, ntfVars
  <2>6. CASE UNCHANGED vars
    BY <2>6 DEF vars, ntfVars
  <2> QED BY <2>1, <2>2, <2>3, <2>4, <2>5, <2>6 DEF Next
<1>5. Tells(Head(inbox), u, s)
  BY <1>0, <1>2, <1>4, EventLearns DEF Learns
<1>6. 1 \in DOMAIN inbox /\ Head(inbox) = inbox[1]
  <2>1. inbox # <<>> /\ inbox \in Seq(Event)
    BY <1>0, <1>4
    DEF OnEvent, OnMessage, OnDel, OnToken, OnHgetall, Receive, TypeOK, LinkTypeOK
  <2> QED BY <2>1, HeadAt
<1>7. Known(u, t)
  BY <1>2 DEF Known
<1>8. Before(u, t, s)
  BY <1>0, <1>3, <1>5, <1>6, <1>7 DEF HearInv, KnownFirst
<1> HIDE DEF t, s
<1>9. PICK i \in DOMAIN published, j \in DOMAIN published :
        i < j /\ published[i] = Publication(u, t) /\ published[j] = Publication(u, s)
  BY <1>8 DEF Before
<1>10. PublishedAt(u, t) = i /\ PublishedAt(u, s) = j
  BY <1>0, <1>3, <1>9, PublishedAtPlace
<1>11. PublishedAt(u, t) < PublishedAt(u, s)
  BY <1>9, <1>10
<1> QED BY <1>11 DEF t, s

\* However logins of several processes, stops, the load of the hash and the
\* publications that arrive meanwhile interleave, the token of a user who keeps
\* his entry is only ever replaced by one that was published after it.
THEOREM TokensGetNewer == Spec => TokenNeverOlder
<1>1. TokenInv /\ [Next]_vars => TokenInv'
  BY TokenNext, NotifierAssumption
<1>2. TokenInv /\ [Next]_vars =>
        [\A u \in User :
           HasToken(u) /\ HasToken(u)' /\ tokens'[u].token # tokens[u].token =>
             PublishedAt(u, tokens[u].token) < PublishedAt(u, tokens'[u].token)]_vars
  BY TokenStep
<1> QED BY TokenInit, <1>1, <1>2, PTL DEF Spec, TokenNeverOlder
=============================================================================
