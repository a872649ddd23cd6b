-------------------------- MODULE ChatWorkerProofs --------------------------
(***************************************************************************)
(* Proofs about ChatWorker for any number of processes, sessions, users    *)
(* and messages.                                                           *)
(***************************************************************************)
EXTENDS ChatWorker, Ordering

-----------------------------------------------------------------------------
(* What the helpers of the handlers return.                                *)

LEMMA FramesOf ==
  ASSUME NEW msgs, NEW persist \in BOOLEAN,
         msgs \in Seq(Msg) \/ (msgs = <<Ack>> /\ persist = FALSE)
  PROVE  [i \in 1 .. Len(msgs) |-> [msg |-> msgs[i], persist |-> persist]]
           \in Seq(Entry)
<1>1. Len(msgs) \in Nat
  OBVIOUS
<1>2. \A i \in 1 .. Len(msgs) :
        msgs[i] \in Msg \/ (msgs[i] = Ack /\ persist = FALSE)
  OBVIOUS
<1>3. \A i \in 1 .. Len(msgs) :
        [msg |-> msgs[i], persist |-> persist] \in Entry
  BY <1>2 DEF Entry
<1> QED BY <1>1, <1>3

\* Pushing frames keeps every queue a queue and leaves no queue shorter.
LEMMA PushAllType ==
  ASSUME NEW q \in [Session -> Seq(Entry)], NEW S, NEW msgs,
         NEW persist \in BOOLEAN,
         msgs \in Seq(Msg) \/ (msgs = <<Ack>> /\ persist = FALSE)
  PROVE  /\ PushAll(q, S, msgs, persist) \in [Session -> Seq(Entry)]
         /\ \A s \in Session : q[s] # <<>> =>
              PushAll(q, S, msgs, persist)[s] # <<>>
<1> DEFINE new == [i \in 1 .. Len(msgs) |-> [msg |-> msgs[i], persist |-> persist]]
<1>1. new \in Seq(Entry)
  BY FramesOf
<1> HIDE DEF new
<1>2. \A s \in Session : q[s] \o new \in Seq(Entry)
  BY <1>1
<1>3. \A s \in Session : q[s] # <<>> => q[s] \o new # <<>>
  BY <1>1
<1>4. PushAll(q, S, msgs, persist) =
        [s \in Session |-> IF s \in S THEN q[s] \o new ELSE q[s]]
  BY DEF PushAll, new
<1> QED BY <1>2, <1>3, <1>4

LEMMA SendAckType ==
  ASSUME NEW q \in [Session -> Seq(Entry)], NEW s \in Session
  PROVE  /\ SendAck(q, s) \in [Session -> Seq(Entry)]
         /\ \A x \in Session : q[x] # <<>> => SendAck(q, s)[x] # <<>>
<1>1. SendAck(q, s) = PushAll(q, {s}, <<Ack>>, FALSE)
  BY DEF SendAck
<1>2. FALSE \in BOOLEAN /\ <<Ack>> = <<Ack>> /\ FALSE = FALSE
  OBVIOUS
<1>3. /\ PushAll(q, {s}, <<Ack>>, FALSE) \in [Session -> Seq(Entry)]
      /\ \A x \in Session : q[x] # <<>> => PushAll(q, {s}, <<Ack>>, FALSE)[x] # <<>>
  BY <1>2, PushAllType
<1> QED BY <1>1, <1>3

LEMMA AscendingType ==
  ASSUME NEW n \in Nat, NEW K \in SUBSET (1 .. n)
  PROVE  /\ Cardinality(K) \in Nat
         /\ Ascending(K) \in [1 .. Cardinality(K) -> K]
<1>1. IsFiniteSet(1 .. n)
  BY FS_Interval
<1>2. IsFiniteSet(K)
  BY <1>1, FS_Subset
<1>3. Cardinality(K) \in Nat
  BY <1>2, FS_CardinalityType
<1>4. \E f \in [1 .. Cardinality(K) -> K] :
        \A i, j \in 1 .. Cardinality(K) : i < j => f[i] < f[j]
  BY AscendingExists
<1> QED BY <1>3, <1>4 DEF Ascending

\* finish() hands over messages only: acks are not sent with persist = true.
LEMMA UnsentType ==
  ASSUME queue \in [Session -> Seq(Entry)], NEW s \in Session
  PROVE  Unsent(s) \in Seq(Msg)
<1> DEFINE q == queue[s]
           c == Cardinality(Kept(s))
           at == Ascending(Kept(s))
<1>1. q \in Seq(Entry) /\ Len(q) \in Nat
  OBVIOUS
<1>2. Kept(s) \in SUBSET (1 .. Len(q))
  BY DEF Kept
<1>3. c \in Nat /\ at \in [1 .. c -> Kept(s)]
  BY <1>1, <1>2, AscendingType
<1>4. \A i \in Kept(s) : q[i] \in Entry /\ q[i].persist
  BY <1>1, <1>2 DEF Kept
<1>5. \A i \in Kept(s) : q[i].msg \in Msg
  BY <1>4 DEF Entry
<1>6. Unsent(s) = [i \in 1 .. c |-> q[at[i]].msg]
  BY DEF Unsent
<1> HIDE DEF q, c, at
<1>7. \A i \in 1 .. c : q[at[i]].msg \in Msg
  BY <1>3, <1>5
<1> QED BY <1>3, <1>6, <1>7

LEMMA NameTypes ==
  /\ \A u \in User : UserId(u) \in Names({0}) /\ ChatKey(UserId(u)) \in Key
  /\ \A name \in Names(0 .. 1) : ChatKey(name) \in Key
  /\ Names({0}) \subseteq Names(0 .. 1) /\ Names({1}) \subseteq Key
  /\ Names({1}) \subseteq Names(0 .. 1)
  BY DEF UserId, ChatKey, Key, Names

LEMMA CmdTypes ==
  ASSUME NEW msgs \in Seq(Msg)
  PROVE  /\ \A op \in {"subscribe", "unsubscribe", "publish"} :
              \A name \in Names({0}) : Cmd(op, name, msgs) \in Command
         /\ \A op \in {"lrange", "del", "rpush"} :
              \A name \in Key : Cmd(op, name, msgs) \in Command
  BY DEF Cmd, Command

LEMMA StoreCmdsType ==
  ASSUME NEW name \in Names(0 .. 1), NEW msgs \in Seq(Msg)
  PROVE  StoreCmds(name, msgs) \in Seq(Command)
<1>1. Cmd("rpush", ChatKey(name), msgs) \in Command
  BY NameTypes, CmdTypes
<1> QED BY <1>1 DEF StoreCmds

LEMMA LoginCmdsType ==
  ASSUME NEW u \in User
  PROVE  LoginCmds(u) \in Seq(Command)
<1> DEFINE key == ChatKey(UserId(u))
<1>1. <<>> \in Seq(Msg)
  OBVIOUS
<1>2. /\ Cmd("subscribe", UserId(u), <<>>) \in Command
      /\ Cmd("lrange", key, <<>>) \in Command
      /\ Cmd("del", key, <<>>) \in Command
  BY <1>1, NameTypes, CmdTypes
<1>3. LoginCmds(u) = <<Cmd("subscribe", UserId(u), <<>>),
                       Cmd("lrange", key, <<>>), Cmd("del", key, <<>>)>>
  BY DEF LoginCmds
<1> QED BY <1>2, <1>3

LEMMA LogoutCmdsType ==
  ASSUME NEW u \in User, NEW msgs \in Seq(Msg)
  PROVE  LogoutCmds(u, msgs) \in Seq(Command)
<1>1. <<>> \in Seq(Msg)
  OBVIOUS
<1>2. Cmd("unsubscribe", UserId(u), <<>>) \in Command
  BY <1>1, NameTypes, CmdTypes
<1>3. StoreCmds(UserId(u), msgs) \in Seq(Command)
  BY NameTypes, StoreCmdsType
<1> QED BY <1>2, <1>3 DEF LogoutCmds

LEMMA RequestType ==
  ASSUME pipe \in [Node -> Seq(Command)], NEW n \in Node,
         NEW cmds \in Seq(Command), Request(n, cmds)
  PROVE  pipe' \in [Node -> Seq(Command)]
  BY DEF Request

\* What a session is typed to, and send(): a write is started only if none is
\* out, so that there is never more than one.
LEMMA SendType ==
  ASSUME SessionTypeOK, OneWriter, NEW q \in [Session -> Seq(Entry)],
         \A s \in Session : queue[s] # <<>> => q[s] # <<>>,
         Send(q)
  PROVE  /\ queue' \in [Session -> Seq(Entry)]
         /\ writes' \in [Session -> Nat]
         /\ OneWriter'
<1>1. queue' = q /\ queue' \in [Session -> Seq(Entry)]
  BY DEF Send
<1>2. ASSUME NEW s \in Session
      PROVE  /\ writes'[s] \in Nat /\ writes'[s] <= 1
             /\ writes'[s] = 1 => queue'[s] # <<>>
  <2>1. writes[s] \in Nat /\ writes[s] <= 1 /\ (writes[s] = 1 => queue[s] # <<>>)
    BY DEF SessionTypeOK, OneWriter
  <2>2. writes'[s] = IF queue[s] = <<>> /\ q[s] # <<>> /\ ~closing[s]
                     THEN writes[s] + 1 ELSE writes[s]
    BY DEF Send
  <2>3. CASE queue[s] = <<>> /\ q[s] # <<>> /\ ~closing[s]
    <3>1. writes[s] = 0
      BY <2>1, <2>3
    <3> QED BY <1>1, <2>2, <2>3, <3>1
  <2>4. CASE ~(queue[s] = <<>> /\ q[s] # <<>> /\ ~closing[s])
    BY <1>1, <2>1, <2>2, <2>4
  <2> QED BY <2>3, <2>4
<1>3. writes' = [s \in Session |-> writes'[s]]
  BY DEF Send
<1> QED BY <1>1, <1>2, <1>3 DEF OneWriter

-----------------------------------------------------------------------------
(* Types and single writes, by induction.  OneWriter is what keeps on_write *)
(* from popping an empty queue, so the two are proved together.             *)

Inv == TypeOK /\ OneWriter

LEMMA InitInv == Init => Inv
<1> SUFFICES ASSUME Init PROVE Inv
  OBVIOUS
<1>1. SessionTypeOK /\ OneWriter
  BY DEF Init, SessionInit, SessionTypeOK, OneWriter
<1>2. RedisTypeOK
  BY DEF Init, RedisInit, RedisTypeOK
<1>3. WorkerTypeOK
  BY MaxLoginsAssumption DEF Init, WorkerTypeOK
<1> QED BY <1>1, <1>2, <1>3 DEF Inv, TypeOK

LEMMA MailsType == \A q : Mails(q) \in SUBSET Mail
  BY DEF Mails

LEMMA LoginFailInv ==
  ASSUME Inv, NEW s \in Session, OnAppLoginFail(s)
  PROVE  Inv'
<1>1. /\ queue' \in [Session -> Seq(Entry)]
      /\ writes' \in [Session -> Nat] /\ OneWriter'
  <2>1. SessionTypeOK /\ OneWriter /\ Send(SendAck(queue, s))
    BY DEF Inv, TypeOK, OnAppLoginFail
  <2> QED BY <2>1, SendAckType, SendType DEF SessionTypeOK
<1>2. SessionTypeOK'
  BY <1>1 DEF Inv, TypeOK, SessionTypeOK, OnAppLoginFail, Shutdown
<1>3. RedisTypeOK'
  BY DEF Inv, TypeOK, RedisTypeOK, OnAppLoginFail, redisVars
<1>4. WorkerTypeOK'
  BY MaxLoginsAssumption
  DEF Inv, TypeOK, WorkerTypeOK, OnAppLoginFail, LoginFrame, workerVars
<1> QED BY <1>1, <1>2, <1>3, <1>4 DEF Inv, TypeOK

LEMMA LoginInv ==
  ASSUME Inv, NEW s \in Session, NEW u \in User, OnAppLogin(s, u)
  PROVE  Inv'
<1> DEFINE n == home[s]
<1>1. n \in Node /\ SessionTypeOK /\ OneWriter /\ RedisTypeOK /\ WorkerTypeOK
  BY DEF OnAppLogin, Open, Inv, TypeOK, SessionTypeOK
<1>2. /\ queue' \in [Session -> Seq(Entry)]
      /\ writes' \in [Session -> Nat] /\ OneWriter'
  <2>1. Send(SendAck(queue, s))
    BY DEF OnAppLogin
  <2> QED BY <1>1, <2>1, SendAckType, SendType DEF SessionTypeOK
<1>3. SessionTypeOK'
  BY <1>1, <1>2
  DEF SessionTypeOK, OnAppLogin, TakeEntry, Shutdown, HashAfterLogin
<1>4. pipe' \in [Node -> Seq(Command)]
  <2>1. Request(n, LoginCmds(u))
    BY DEF OnAppLogin
  <2> QED BY <1>1, <2>1, LoginCmdsType, RequestType DEF RedisTypeOK
<1>5. RedisTypeOK'
  BY <1>1, <1>4 DEF RedisTypeOK, OnAppLogin
<1>6. chatQueue' \in [Node -> Seq(Names(0 .. 1))]
  <2>1. UserId(u) \in Names(0 .. 1)
    BY NameTypes
  <2> QED BY <1>1, <2>1 DEF WorkerTypeOK, OnAppLogin
<1>7. sessions' \in [Node -> [User -> Session \cup {None}]]
  BY <1>1 DEF WorkerTypeOK, OnAppLogin, TakeEntry
<1>8. givenUp' \in SUBSET Mail
  BY <1>1, MailsType DEF WorkerTypeOK, OnAppLogin, TakeEntry
<1>9. WorkerTypeOK'
  BY <1>1, <1>6, <1>7, <1>8, MaxLoginsAssumption
  DEF WorkerTypeOK, OnAppLogin, LoginFrame
<1> QED BY <1>2, <1>3, <1>5, <1>9 DEF Inv, TypeOK

LEMMA LoginThrowsInv ==
  ASSUME Inv, NEW s \in Session, NEW u \in User, OnAppLoginThrows(s, u)
  PROVE  Inv'
<1>1. /\ home[s] \in Node /\ SessionTypeOK /\ OneWriter /\ RedisTypeOK
      /\ WorkerTypeOK
  BY DEF OnAppLoginThrows, Open, Inv, TypeOK, SessionTypeOK
<1>2. SessionTypeOK' /\ OneWriter'
  BY <1>1
  DEF SessionTypeOK, OneWriter, OnAppLoginThrows, TakeEntry, Shutdown,
      HashAfterLogin
<1>3. RedisTypeOK'
  BY <1>1 DEF RedisTypeOK, OnAppLoginThrows, redisVars
<1>4. sessions' \in [Node -> [User -> Session \cup {None}]]
  BY <1>1 DEF WorkerTypeOK, OnAppLoginThrows, TakeEntry
<1>5. givenUp' \in SUBSET Mail
  BY <1>1, MailsType DEF WorkerTypeOK, OnAppLoginThrows, TakeEntry
<1>6. WorkerTypeOK'
  BY <1>1, <1>4, <1>5, MaxLoginsAssumption
  DEF WorkerTypeOK, OnAppLoginThrows, LoginFrame
<1> QED BY <1>2, <1>3, <1>6 DEF Inv, TypeOK

LEMMA ChatInv ==
  ASSUME Inv, NEW s \in Session, NEW m \in Msg, NEW u \in User,
         NEW complete \in BOOLEAN, OnAppChat(s, m, u, complete)
  PROVE  Inv'
<1> DEFINE n == home[s]
           name == UserId(u)
           forwarded == PushAll(queue, Peers(n, name), <<m>>, TRUE)
<1>1. n \in Node /\ SessionTypeOK /\ OneWriter /\ RedisTypeOK /\ WorkerTypeOK
  BY DEF OnAppChat, Open, Inv, TypeOK, SessionTypeOK
<1>2. <<m>> \in Seq(Msg) /\ <<>> \in Seq(Command) /\ name \in Names(0 .. 1)
  BY NameTypes
<1>3. /\ queue' \in [Session -> Seq(Entry)]
      /\ writes' \in [Session -> Nat] /\ OneWriter'
  <2>1. /\ forwarded \in [Session -> Seq(Entry)]
        /\ \A x \in Session : queue[x] # <<>> => forwarded[x] # <<>>
    BY <1>1, <1>2, PushAllType DEF SessionTypeOK
  <2> HIDE DEF forwarded
  <2>2. /\ SendAck(forwarded, s) \in [Session -> Seq(Entry)]
        /\ \A x \in Session : queue[x] # <<>> => SendAck(forwarded, s)[x] # <<>>
    BY <2>1, SendAckType
  <2>3. Send(IF complete THEN SendAck(forwarded, s) ELSE forwarded)
    BY DEF OnAppChat, forwarded
  <2>4. CASE complete
    BY <1>1, <2>2, <2>3, <2>4, SendType
  <2>5. CASE ~complete
    BY <1>1, <2>1, <2>3, <2>5, SendType
  <2> QED BY <2>4, <2>5
<1>4. SessionTypeOK'
  BY <1>1, <1>3 DEF SessionTypeOK, OnAppChat, Shutdown
<1>5. pipe' \in [Node -> Seq(Command)]
  <2>1. StoreCmds(name, <<m>>) \in Seq(Command)
    BY <1>2, StoreCmdsType
  <2>2. Request(n, IF Found(n, name) THEN <<>> ELSE StoreCmds(name, <<m>>))
    BY DEF OnAppChat
  <2>3. (IF Found(n, name) THEN <<>> ELSE StoreCmds(name, <<m>>)) \in Seq(Command)
    BY <1>2, <2>1
  <2> QED BY <1>1, <2>2, <2>3, RequestType DEF RedisTypeOK
<1>6. RedisTypeOK'
  BY <1>1, <1>5 DEF RedisTypeOK, OnAppChat
<1>7. WorkerTypeOK'
  BY <1>1, MaxLoginsAssumption DEF WorkerTypeOK, OnAppChat, Fresh, workerVars
<1> QED BY <1>3, <1>4, <1>6, <1>7 DEF Inv, TypeOK

LEMMA PresenceInv ==
  ASSUME Inv, NEW s \in Session, NEW m \in Msg, NEW u \in User,
         OnAppPresence(s, m, u)
  PROVE  Inv'
<1> DEFINE n == home[s]
           name == UserId(u)
           forwarded == PushAll(queue, Peers(n, name), <<m>>, FALSE)
<1>1. n \in Node /\ SessionTypeOK /\ OneWriter /\ RedisTypeOK /\ WorkerTypeOK
  BY DEF OnAppPresence, Open, Inv, TypeOK, SessionTypeOK
<1>2. <<m>> \in Seq(Msg) /\ <<>> \in Seq(Command) /\ name \in Names({0})
  BY NameTypes
<1>3. /\ queue' \in [Session -> Seq(Entry)]
      /\ writes' \in [Session -> Nat] /\ OneWriter'
  <2>1. /\ forwarded \in [Session -> Seq(Entry)]
        /\ \A x \in Session : queue[x] # <<>> => forwarded[x] # <<>>
    BY <1>1, <1>2, PushAllType DEF SessionTypeOK
  <2>2. Send(forwarded)
    BY DEF OnAppPresence
  <2> HIDE DEF forwarded
  <2> QED BY <1>1, <2>1, <2>2, SendType
<1>4. SessionTypeOK'
  BY <1>1, <1>3 DEF SessionTypeOK, OnAppPresence
<1>5. pipe' \in [Node -> Seq(Command)]
  <2>1. <<Cmd("publish", name, <<m>>)>> \in Seq(Command)
    <3>1. Cmd("publish", name, <<m>>) \in Command
      BY <1>2, CmdTypes
    <3> QED BY <3>1
  <2>2. Request(n, IF Found(n, name) THEN <<>>
                   ELSE <<Cmd("publish", name, <<m>>)>>)
    BY DEF OnAppPresence
  <2>3. (IF Found(n, name) THEN <<>> ELSE <<Cmd("publish", name, <<m>>)>>)
          \in Seq(Command)
    BY <1>2, <2>1
  <2> QED BY <1>1, <2>2, <2>3, RequestType DEF RedisTypeOK
<1>6. RedisTypeOK'
  BY <1>1, <1>5 DEF RedisTypeOK, OnAppPresence
<1>7. WorkerTypeOK'
  BY <1>1, MaxLoginsAssumption DEF WorkerTypeOK, OnAppPresence, Fresh, workerVars
<1> QED BY <1>3, <1>4, <1>6, <1>7 DEF Inv, TypeOK

LEMMA PublishInv ==
  ASSUME Inv, NEW s \in Session, NEW m \in Msg, OnAppPublish(s, m)
  PROVE  Inv'
<1> DEFINE forwarded == PushAll(queue, {s}, <<m>>, TRUE)
<1>1. SessionTypeOK /\ OneWriter /\ RedisTypeOK /\ WorkerTypeOK /\ hash[s] \in User
  BY DEF OnAppPublish, LoggedIn, Inv, TypeOK, SessionTypeOK
<1>2. /\ queue' \in [Session -> Seq(Entry)]
      /\ writes' \in [Session -> Nat] /\ OneWriter'
  <2>1. <<m>> \in Seq(Msg)
    OBVIOUS
  <2>2. /\ forwarded \in [Session -> Seq(Entry)]
        /\ \A x \in Session : queue[x] # <<>> => forwarded[x] # <<>>
    BY <1>1, <2>1, PushAllType DEF SessionTypeOK
  <2>3. Send(forwarded)
    BY DEF OnAppPublish
  <2> HIDE DEF forwarded
  <2> QED BY <1>1, <2>2, <2>3, SendType
<1>3. SessionTypeOK'
  BY <1>1, <1>2 DEF SessionTypeOK, OnAppPublish
<1>4. RedisTypeOK'
  BY <1>1 DEF RedisTypeOK, OnAppPublish, redisVars
<1>5. WorkerTypeOK'
  BY <1>1, MaxLoginsAssumption DEF WorkerTypeOK, OnAppPublish, Fresh, workerVars
<1> QED BY <1>2, <1>3, <1>4, <1>5 DEF Inv, TypeOK

\* The handlers that touch neither Redis nor the maps of the worker.
LEMMA SessionOnlyInv ==
  ASSUME Inv, NEW s \in Session,
         \/ OnAppUnknown(s) \/ SessionWriteError(s) \/ SessionPong(s)
         \/ \E n \in Node : SessionRun(s, n)
  PROVE  Inv'
<1>1. RedisTypeOK' /\ WorkerTypeOK'
  <2>1. UNCHANGED <<redisVars, workerVars, history>>
    BY DEF OnAppUnknown, SessionRun, SessionWriteError, SessionPong
  <2> QED BY <2>1 DEF Inv, TypeOK, RedisTypeOK, WorkerTypeOK, redisVars,
                      workerVars, history
<1>2. SessionTypeOK /\ OneWriter
  BY DEF Inv, TypeOK
<1>3. CASE OnAppUnknown(s)
  <2>1. SessionTypeOK' /\ OneWriter'
    BY <1>2, <1>3 DEF SessionTypeOK, OneWriter, OnAppUnknown, Shutdown
  <2> QED BY <1>1, <2>1 DEF Inv, TypeOK
<1>4. ASSUME NEW n \in Node, SessionRun(s, n) PROVE Inv'
  <2>1. SessionTypeOK' /\ OneWriter'
    BY <1>2, <1>4 DEF SessionTypeOK, OneWriter, SessionRun, OnRun
  <2> QED BY <1>1, <2>1 DEF Inv, TypeOK
<1>5. CASE SessionWriteError(s)
  <2>1. SessionTypeOK' /\ OneWriter'
    BY <1>2, <1>5 DEF SessionTypeOK, OneWriter, SessionWriteError, OnWriteError
  <2> QED BY <1>1, <2>1 DEF Inv, TypeOK
<1>6. CASE SessionPong(s)
  <2>1. SessionTypeOK' /\ OneWriter'
    BY <1>2, <1>6 DEF SessionTypeOK, OneWriter, SessionPong, OnPong, Shutdown
  <2> QED BY <1>1, <2>1 DEF Inv, TypeOK
<1> QED BY <1>3, <1>4, <1>5, <1>6

LEMMA WriteInv ==
  ASSUME Inv, NEW s \in Session, SessionWrite(s)
  PROVE  Inv'
<1>1. SessionTypeOK /\ OneWriter /\ RedisTypeOK /\ WorkerTypeOK /\ OnWrite(s)
  BY DEF SessionWrite, Inv, TypeOK
<1>2. writes[s] = 1 /\ queue[s] # <<>> /\ queue[s] \in Seq(Entry)
  BY <1>1 DEF OnWrite, OneWriter, SessionTypeOK
<1>3. Tail(queue[s]) \in Seq(Entry) /\ (Len(queue[s]) # 1 => Tail(queue[s]) # <<>>)
  BY <1>2, TailType
<1>4. SessionTypeOK' /\ OneWriter'
  BY <1>1, <1>2, <1>3 DEF OnWrite, SessionTypeOK, OneWriter
<1>5. delivered' \in SUBSET [user : User \cup {None}, mail : Mail]
  <2>1. hash[s] \in User \cup {None}
    BY <1>1 DEF SessionTypeOK
  <2> QED BY <1>1, <2>1 DEF SessionWrite, WorkerTypeOK
<1>6. RedisTypeOK' /\ WorkerTypeOK'
  BY <1>1, <1>5, MaxLoginsAssumption
  DEF SessionWrite, RedisTypeOK, WorkerTypeOK, redisVars, workerVars
<1> QED BY <1>4, <1>6 DEF Inv, TypeOK

LEMMA ReadErrorInv ==
  ASSUME Inv, NEW s \in Session, OnReadError(s)
  PROVE  Inv'
<1> DEFINE n == home[s]
           registered == LoggedIn(s) /\ Found(n, UserId(hash[s]))
<1>1. /\ n \in Node /\ SessionTypeOK /\ OneWriter /\ RedisTypeOK /\ WorkerTypeOK
      /\ Finish(s)
  BY DEF OnReadError, Finish, Open, Inv, TypeOK, SessionTypeOK
<1>2. SessionTypeOK' /\ OneWriter'
  BY <1>1 DEF Finish, SessionTypeOK, OneWriter
<1>3. /\ pipe' \in [Node -> Seq(Command)]
      /\ sessions' \in [Node -> [User -> Session \cup {None}]]
  <2>1. CASE registered
    <3>1. hash[s] \in User
      BY <1>1, <2>1 DEF LoggedIn, SessionTypeOK
    <3>2. LogoutCmds(hash[s], Unsent(s)) \in Seq(Command)
      BY <1>1, <3>1, UnsentType, LogoutCmdsType DEF SessionTypeOK
    <3>3. Request(n, LogoutCmds(hash[s], Unsent(s)))
      BY <2>1 DEF OnReadError
    <3>4. pipe' \in [Node -> Seq(Command)]
      BY <1>1, <3>2, <3>3, RequestType DEF RedisTypeOK
    <3>5. sessions' = [sessions EXCEPT ![n][hash[s]] = None]
      BY <2>1 DEF OnReadError
    <3> QED BY <1>1, <3>1, <3>4, <3>5 DEF WorkerTypeOK
  <2>2. CASE ~registered
    BY <1>1, <2>2 DEF OnReadError, RedisTypeOK, WorkerTypeOK
  <2> QED BY <2>1, <2>2
<1>4. RedisTypeOK' /\ WorkerTypeOK'
  BY <1>1, <1>3, MaxLoginsAssumption
  DEF OnReadError, RedisTypeOK, WorkerTypeOK, history
<1> QED BY <1>2, <1>4 DEF Inv, TypeOK

LEMMA EventTypes ==
  ASSUME NEW e \in Event
  PROVE  /\ e.msgs \in Seq(Msg)
         /\ e.type = "rpush" => e.name \in Names({1})
  BY DEF Event

LEMMA ReceiveType ==
  ASSUME reply \in [Node -> Seq(Event)], NEW n \in Node, NEW type,
         Receive(n, type)
  PROVE  /\ reply' \in [Node -> Seq(Event)]
         /\ Head(reply[n]) \in Event /\ Head(reply[n]).type = type
<1>1. reply[n] \in Seq(Event) /\ reply[n] # <<>>
  BY DEF Receive
<1>2. Tail(reply[n]) \in Seq(Event) /\ Head(reply[n]) \in Event
  BY <1>1, TailType
<1> QED BY <1>2 DEF Receive

LEMMA PushRpushInv ==
  ASSUME Inv, NEW n \in Node, OnPushRpush(n)
  PROVE  Inv'
<1> DEFINE key == Head(reply[n]).name
<1>1. SessionTypeOK /\ OneWriter /\ RedisTypeOK /\ WorkerTypeOK
  BY DEF Inv, TypeOK
<1>2. reply' \in [Node -> Seq(Event)] /\ key \in Names({1})
  BY <1>1, ReceiveType, EventTypes DEF OnPushRpush, RedisTypeOK
<1>3. pipe' \in [Node -> Seq(Command)]
  <2>1. Cmd("lrange", key, <<>>) \in Command /\ Cmd("del", key, <<>>) \in Command
    <3>1. <<>> \in Seq(Msg)
      OBVIOUS
    <3> QED BY <1>2, <3>1, NameTypes, CmdTypes
  <2>2. <<Cmd("lrange", key, <<>>), Cmd("del", key, <<>>)>> \in Seq(Command)
    BY <2>1
  <2>3. Request(n, <<Cmd("lrange", key, <<>>), Cmd("del", key, <<>>)>>)
    BY DEF OnPushRpush
  <2> QED BY <1>1, <2>2, <2>3, RequestType DEF RedisTypeOK
<1>4. chatQueue' \in [Node -> Seq(Names(0 .. 1))]
  <2>1. key \in Names(0 .. 1)
    BY <1>2, NameTypes
  <2> QED BY <1>1, <2>1 DEF WorkerTypeOK, OnPushRpush
<1>5. RedisTypeOK' /\ WorkerTypeOK'
  BY <1>1, <1>2, <1>3, <1>4, MaxLoginsAssumption
  DEF OnPushRpush, RedisTypeOK, WorkerTypeOK, history
<1>6. SessionTypeOK' /\ OneWriter'
  BY <1>1 DEF OnPushRpush, SessionTypeOK, OneWriter, sessionVars
<1> QED BY <1>5, <1>6 DEF Inv, TypeOK

LEMMA LrangeInv ==
  ASSUME Inv, NEW n \in Node, OnLrange(n)
  PROVE  Inv'
<1> DEFINE name == Head(chatQueue[n])
           msgs == Head(reply[n]).msgs
           forwarded == PushAll(queue, Peers(n, name), msgs, TRUE)
<1>1. SessionTypeOK /\ OneWriter /\ RedisTypeOK /\ WorkerTypeOK
  BY DEF Inv, TypeOK
<1>2. reply' \in [Node -> Seq(Event)] /\ msgs \in Seq(Msg)
  BY <1>1, ReceiveType, EventTypes DEF OnLrange, RedisTypeOK
<1>3. name \in Names(0 .. 1) /\ chatQueue' \in [Node -> Seq(Names(0 .. 1))]
  <2>1. chatQueue[n] \in Seq(Names(0 .. 1)) /\ chatQueue[n] # <<>>
    BY <1>1 DEF WorkerTypeOK, OnLrange
  <2>2. name \in Names(0 .. 1) /\ Tail(chatQueue[n]) \in Seq(Names(0 .. 1))
    BY <2>1, TailType
  <2> QED BY <1>1, <2>2 DEF WorkerTypeOK, OnLrange, PopName
<1>4. /\ queue' \in [Session -> Seq(Entry)]
      /\ writes' \in [Session -> Nat] /\ OneWriter'
  <2>1. /\ forwarded \in [Session -> Seq(Entry)]
        /\ \A x \in Session : queue[x] # <<>> => forwarded[x] # <<>>
    BY <1>1, <1>2, PushAllType DEF SessionTypeOK
  <2>2. Send(forwarded)
    BY DEF OnLrange
  <2> HIDE DEF forwarded
  <2> QED BY <1>1, <2>1, <2>2, SendType
<1>5. SessionTypeOK'
  BY <1>1, <1>4 DEF SessionTypeOK, OnLrange
<1>6. pipe' \in [Node -> Seq(Command)]
  <2>1. StoreCmds(name, msgs) \in Seq(Command) /\ <<>> \in Seq(Command)
    BY <1>2, <1>3, StoreCmdsType
  <2>2. Request(n, IF Found(n, name) THEN <<>> ELSE StoreCmds(name, msgs))
    BY DEF OnLrange
  <2>3. (IF Found(n, name) THEN <<>> ELSE StoreCmds(name, msgs)) \in Seq(Command)
    BY <2>1
  <2> QED BY <1>1, <2>2, <2>3, RequestType DEF RedisTypeOK
<1>7. givenUp' \in SUBSET Mail
  BY <1>1, MailsType DEF OnLrange, WorkerTypeOK
<1>8. RedisTypeOK' /\ WorkerTypeOK'
  BY <1>1, <1>2, <1>3, <1>6, <1>7, MaxLoginsAssumption
  DEF OnLrange, RedisTypeOK, WorkerTypeOK
<1> QED BY <1>4, <1>5, <1>8 DEF Inv, TypeOK

LEMMA DbPresenceInv ==
  ASSUME Inv, NEW n \in Node, OnDbPresence(n)
  PROVE  Inv'
<1> DEFINE e == Head(reply[n])
           forwarded == PushAll(queue, Peers(n, e.name), e.msgs, FALSE)
<1>1. SessionTypeOK /\ OneWriter /\ RedisTypeOK /\ WorkerTypeOK
  BY DEF Inv, TypeOK
<1>2. reply' \in [Node -> Seq(Event)] /\ e.msgs \in Seq(Msg)
  BY <1>1, ReceiveType, EventTypes DEF OnDbPresence, RedisTypeOK
<1>3. /\ queue' \in [Session -> Seq(Entry)]
      /\ writes' \in [Session -> Nat] /\ OneWriter'
  <2>1. /\ forwarded \in [Session -> Seq(Entry)]
        /\ \A x \in Session : queue[x] # <<>> => forwarded[x] # <<>>
    BY <1>1, <1>2, PushAllType DEF SessionTypeOK
  <2>2. Send(forwarded)
    BY DEF OnDbPresence
  <2> HIDE DEF forwarded
  <2> QED BY <1>1, <2>1, <2>2, SendType
<1>4. SessionTypeOK'
  BY <1>1, <1>3 DEF SessionTypeOK, OnDbPresence
<1>5. RedisTypeOK' /\ WorkerTypeOK'
  BY <1>1, <1>2, MaxLoginsAssumption
  DEF OnDbPresence, RedisTypeOK, WorkerTypeOK, workerVars, history
<1> QED BY <1>3, <1>4, <1>5 DEF Inv, TypeOK

-----------------------------------------------------------------------------
(* Redis.                                                                  *)

LEMMA ExecType ==
  ASSUME RedisTypeOK, NEW n \in Node, NEW op, Exec(n, op)
  PROVE  /\ pipe' \in [Node -> Seq(Command)]
         /\ Head(pipe[n]) \in Command /\ Head(pipe[n]).op = op
<1>1. pipe[n] \in Seq(Command) /\ pipe[n] # <<>>
  BY DEF Exec, RedisTypeOK
<1>2. Tail(pipe[n]) \in Seq(Command) /\ Head(pipe[n]) \in Command
  BY <1>1, TailType
<1> QED BY <1>2 DEF Exec, RedisTypeOK

LEMMA PushToType ==
  ASSUME RedisTypeOK, NEW u, NEW e \in Event, PushTo(u, e)
  PROVE  reply' \in [Node -> Seq(Event)]
<1>1. \A n \in Node : Append(reply[n], e) \in Seq(Event)
  BY AppendType DEF RedisTypeOK
<1> QED BY <1>1 DEF PushTo, RedisTypeOK

LEMMA RedisStepType ==
  ASSUME RedisTypeOK, NEW n \in Node, RedisStep(n)
  PROVE  RedisTypeOK'
<1> DEFINE c == Head(pipe[n])
<1>1. CASE ExecSubscribe(n)
  <2>1. pipe' \in [Node -> Seq(Command)] /\ c \in Command /\ c.op = "subscribe"
    BY <1>1, ExecType DEF ExecSubscribe
  <2>2. c.name.user \in User
    BY <2>1 DEF Command, Names, Key
  <2> QED BY <1>1, <2>1, <2>2 DEF ExecSubscribe, RedisTypeOK
<1>2. CASE ExecUnsubscribe(n)
  <2>1. pipe' \in [Node -> Seq(Command)]
    BY <1>2, ExecType DEF ExecUnsubscribe
  <2> QED BY <1>2, <2>1 DEF ExecUnsubscribe, RedisTypeOK
<1>3. CASE ExecLrange(n)
  <2>1. pipe' \in [Node -> Seq(Command)] /\ c \in Command /\ c.op = "lrange"
    BY <1>3, ExecType DEF ExecLrange
  <2>2. c.name \in Key
    BY <2>1 DEF Command
  <2>3. Evt("lrange", c.name, lists[c.name]) \in Event
    BY <2>2 DEF Evt, Event, RedisTypeOK
  <2>4. Append(reply[n], Evt("lrange", c.name, lists[c.name])) \in Seq(Event)
    BY <2>3, AppendType DEF RedisTypeOK
  <2> QED BY <1>3, <2>1, <2>4 DEF ExecLrange, RedisTypeOK
<1>4. CASE ExecDel(n)
  <2>1. pipe' \in [Node -> Seq(Command)] /\ <<>> \in Seq(Msg)
    BY <1>4, ExecType DEF ExecDel
  <2>2. lists' \in [Key -> Seq(Msg)]
    BY <1>4, <2>1 DEF ExecDel, RedisTypeOK
  <2> QED BY <1>4, <2>1, <2>2 DEF ExecDel, RedisTypeOK
<1>5. CASE ExecRpush(n)
  <2>1. pipe' \in [Node -> Seq(Command)] /\ c \in Command /\ c.op = "rpush"
    BY <1>5, ExecType DEF ExecRpush
  <2>2. c.name \in Key /\ c.msgs \in Seq(Msg)
    BY <2>1 DEF Command
  <2>3. reply' \in [Node -> Seq(Event)]
    <3>1. CASE c.name.depth = 1
      <4>1. Evt("rpush", c.name, <<>>) \in Event
        BY <2>2, <3>1 DEF Evt, Event, Key, Names
      <4>2. PushTo(c.name.user, Evt("rpush", c.name, <<>>))
        BY <1>5, <3>1 DEF ExecRpush
      <4> QED BY <4>1, <4>2, PushToType
    <3>2. CASE c.name.depth # 1
      BY <1>5, <3>2 DEF ExecRpush, RedisTypeOK
    <3> QED BY <3>1, <3>2
  <2>4. lists' \in [Key -> Seq(Msg)]
    BY <1>5, <2>2 DEF ExecRpush, RedisTypeOK
  <2> QED BY <1>5, <2>1, <2>3, <2>4 DEF ExecRpush, RedisTypeOK
<1>6. CASE ExecPublish(n)
  <2>1. pipe' \in [Node -> Seq(Command)] /\ c \in Command /\ c.op = "publish"
    BY <1>6, ExecType DEF ExecPublish
  <2>2. Evt("presence", c.name, c.msgs) \in Event
    BY <2>1 DEF Evt, Event, Command
  <2>3. PushTo(c.name.user, Evt("presence", c.name, c.msgs))
    BY <1>6 DEF ExecPublish
  <2>4. reply' \in [Node -> Seq(Event)]
    BY <2>2, <2>3, PushToType
  <2> QED BY <1>6, <2>1, <2>4 DEF ExecPublish, RedisTypeOK
<1>7. CASE ExecQuit(n)
  <2>1. pipe' \in [Node -> Seq(Command)]
    BY <1>7, ExecType DEF ExecQuit
  <2> QED BY <1>7, <2>1 DEF ExecQuit, RedisTypeOK
<1> QED BY <1>1, <1>2, <1>3, <1>4, <1>5, <1>6, <1>7 DEF RedisStep

LEMMA RedisInv ==
  ASSUME Inv, NEW n \in Node, Redis(n)
  PROVE  Inv'
<1>1. RedisTypeOK'
  BY RedisStepType DEF Inv, TypeOK, Redis
<1>2. SessionTypeOK' /\ WorkerTypeOK' /\ OneWriter'
  BY DEF Inv, TypeOK, Redis, SessionTypeOK, WorkerTypeOK, OneWriter,
         sessionVars, workerVars, history
<1> QED BY <1>1, <1>2 DEF Inv, TypeOK

LEMMA ExpireInv ==
  ASSUME Inv, NEW key \in Key, ListExpires(key)
  PROVE  Inv'
<1>1. RedisTypeOK'
  BY DEF Inv, TypeOK, RedisTypeOK, ListExpires, Expire
<1>2. WorkerTypeOK'
  BY MailsType, MaxLoginsAssumption
  DEF Inv, TypeOK, WorkerTypeOK, ListExpires, workerVars
<1>3. SessionTypeOK' /\ OneWriter'
  BY DEF Inv, TypeOK, SessionTypeOK, OneWriter, ListExpires, sessionVars
<1> QED BY <1>1, <1>2, <1>3 DEF Inv, TypeOK

\* The shutdown closes sessions and adds QUIT to the pipeline.
LEMMA ShutdownInv ==
  ASSUME Inv, NEW n \in Node, ShutdownImpl(n)
  PROVE  Inv'
<1>1. SessionTypeOK /\ OneWriter /\ RedisTypeOK /\ WorkerTypeOK
  BY DEF Inv, TypeOK
<1>2. pipe' \in [Node -> Seq(Command)]
  <2>1. <<[op |-> "quit"]>> \in Seq(Command)
    <3>1. [op |-> "quit"] \in Command
      BY DEF Command
    <3> QED BY <3>1
  <2>2. Request(n, <<[op |-> "quit"]>>)
    BY DEF ShutdownImpl
  <2> QED BY <1>1, <2>1, <2>2, RequestType DEF RedisTypeOK
<1>3. RedisTypeOK'
  BY <1>1, <1>2 DEF ShutdownImpl, RedisTypeOK
<1>4. SessionTypeOK' /\ OneWriter'
  BY <1>1 DEF ShutdownImpl, Shutdown, SessionTypeOK, OneWriter
<1>5. WorkerTypeOK'
  BY <1>1, MaxLoginsAssumption DEF ShutdownImpl, WorkerTypeOK, workerVars, history
<1> QED BY <1>3, <1>4, <1>5 DEF Inv, TypeOK

\* A lost connection empties the pipeline and the answers.
LEMMA LinkLostInv ==
  ASSUME Inv, NEW n \in Node, LinkLost(n)
  PROVE  Inv'
<1>1. SessionTypeOK /\ OneWriter /\ RedisTypeOK /\ WorkerTypeOK
  BY DEF Inv, TypeOK
<1>2. RedisTypeOK'
  BY <1>1 DEF LinkLost, Lose, RedisTypeOK
<1>3. SessionTypeOK' /\ OneWriter'
  BY <1>1 DEF LinkLost, SessionTypeOK, OneWriter, sessionVars
<1>4. severed' \in SUBSET Mail
  <2>1. /\ Stored(n, DOMAIN pipe[n]) \in SUBSET Mail
        /\ Answered(n, DOMAIN reply[n]) \in SUBSET Mail
        /\ UNION {Mails(lists[k]) : k \in {k \in Key : DoomedBy(n, k)}} \in SUBSET Mail
    BY MailsType DEF Stored, Answered
  <2> QED BY <1>1, <2>1 DEF LinkLost, WorkerTypeOK
<1>5. WorkerTypeOK'
  BY <1>1, <1>4, MaxLoginsAssumption DEF LinkLost, WorkerTypeOK, workerVars
<1> QED BY <1>2, <1>3, <1>5 DEF Inv, TypeOK

LEMMA StutterInv == Inv /\ UNCHANGED vars => Inv'
  BY DEF Inv, TypeOK, SessionTypeOK, RedisTypeOK, WorkerTypeOK, OneWriter,
         vars, sessionVars, redisVars, workerVars, history

LEMMA NextInv == Inv /\ [Next]_vars => Inv'
<1> SUFFICES ASSUME Inv, [Next]_vars PROVE Inv'
  OBVIOUS
<1>1. ASSUME NEW s \in Session, SessionStep(s) PROVE Inv'
  <2>1. CASE OnAppLoginFail(s) \/ SessionWrite(s) \/ OnReadError(s)
    BY <2>1, LoginFailInv, WriteInv, ReadErrorInv
  <2>2. CASE \/ OnAppUnknown(s) \/ SessionWriteError(s) \/ SessionPong(s)
             \/ \E n \in Node : SessionRun(s, n)
    BY <2>2, SessionOnlyInv
  <2>3. ASSUME NEW u \in User, OnAppLogin(s, u) \/ OnAppLoginThrows(s, u)
        PROVE  Inv'
    BY <2>3, LoginInv, LoginThrowsInv
  <2>4. ASSUME NEW u \in User, NEW m \in Msg, NEW complete \in BOOLEAN,
               OnAppChat(s, m, u, complete)
        PROVE  Inv'
    BY <2>4, ChatInv
  <2>5. ASSUME NEW u \in User, NEW m \in Msg, OnAppPresence(s, m, u) PROVE Inv'
    BY <2>5, PresenceInv
  <2>6. ASSUME NEW m \in Msg, OnAppPublish(s, m) PROVE Inv'
    BY <2>6, PublishInv
  <2> QED BY <1>1, <2>1, <2>2, <2>3, <2>4, <2>5, <2>6 DEF SessionStep
<1>2. ASSUME NEW n \in Node, OnReply(n) PROVE Inv'
  BY <1>2, PushRpushInv, LrangeInv, DbPresenceInv DEF OnReply
<1>3. ASSUME NEW n \in Node, Redis(n) PROVE Inv'
  BY <1>3, RedisInv
<1>4. ASSUME NEW key \in Key, ListExpires(key) PROVE Inv'
  BY <1>4, ExpireInv
<1>5. ASSUME NEW n \in Node, ShutdownImpl(n) PROVE Inv'
  BY <1>5, ShutdownInv
<1>6. ASSUME NEW n \in Node, LinkLost(n) PROVE Inv'
  BY <1>6, LinkLostInv
<1>7. CASE UNCHANGED vars
  BY <1>7, StutterInv
<1> QED BY <1>1, <1>2, <1>3, <1>4, <1>5, <1>6, <1>7 DEF Next

\* Every variable keeps its type, for any processes, sessions, users and
\* messages: queues hold frames, pipelines commands, lists messages; a session
\* that is open belongs to a process.
THEOREM TypeCorrect == Spec => []TypeOK
<1>1. Inv => TypeOK
  BY DEF Inv
<1> QED BY InitInv, NextInv, <1>1, PTL DEF Spec

\* No handler of ws_session_impl starts a second async_write while one is out,
\* and the frame being written stays at the front of msg_queue_.
THEOREM SingleWriter == Spec => []OneWriter
<1>1. Inv => OneWriter
  BY DEF Inv
<1> QED BY InitInv, NextInv, <1>1, PTL DEF Spec

-----------------------------------------------------------------------------
(* sessions_ and the sessions agree.                                       *)

\* A session that was not accepted yet is not logged in.
IdleAnonymous == \A s \in Session : phase[s] = "idle" => hash[s] = None

MapInv == Inv /\ MapSound /\ IdleAnonymous

LEMMA InitMapInv == Init => MapInv
<1> SUFFICES ASSUME Init PROVE MapInv
  OBVIOUS
<1>1. Inv
  BY InitInv
<1>2. MapSound /\ IdleAnonymous
  BY DEF Init, SessionInit, MapSound, EntryIsSession, SessionIsEntry, Open,
         LoggedIn, IdleAnonymous
<1> QED BY <1>1, <1>2 DEF MapInv

\* Steps that change neither the map nor what it is compared with.
LEMMA MapUnchanged ==
  ASSUME MapSound, IdleAnonymous, UNCHANGED <<phase, home, hash, sessions>>
  PROVE  MapSound' /\ IdleAnonymous'
  BY DEF MapSound, EntryIsSession, SessionIsEntry, Open, LoggedIn, IdleAnonymous

LEMMA RunMap ==
  ASSUME MapInv, NEW s \in Session, NEW n \in Node, SessionRun(s, n)
  PROVE  MapSound' /\ IdleAnonymous'
<1>1. /\ phase[s] = "idle" /\ hash[s] = None
      /\ phase' = [phase EXCEPT ![s] = "open"] /\ home' = [home EXCEPT ![s] = n]
      /\ hash' = hash /\ sessions' = sessions
  BY DEF MapInv, IdleAnonymous, SessionRun, OnRun, workerVars
<1>2. SessionTypeOK /\ WorkerTypeOK
  BY DEF MapInv, Inv, TypeOK
<1>3. EntryIsSession'
  <2>1. SUFFICES ASSUME NEW i \in Node, NEW u \in User, sessions[i][u] # None
                 PROVE  LET x == sessions[i][u]
                        IN  phase'[x] = "open" /\ home'[x] = i /\ hash'[x] = u
    BY <1>1 DEF EntryIsSession, Open
  <2>2. /\ sessions[i][u] \in Session /\ phase[sessions[i][u]] = "open"
        /\ home[sessions[i][u]] = i /\ hash[sessions[i][u]] = u
    BY <1>2, <2>1 DEF MapInv, MapSound, EntryIsSession, Open, WorkerTypeOK
  <2>3. sessions[i][u] # s
    BY <1>1, <2>2
  <2> QED BY <1>1, <1>2, <2>2, <2>3 DEF SessionTypeOK
<1>4. SessionIsEntry'
  BY <1>1, <1>2 DEF MapInv, MapSound, SessionIsEntry, Open, LoggedIn,
                    SessionTypeOK
<1>5. IdleAnonymous'
  BY <1>1, <1>2 DEF MapInv, IdleAnonymous, SessionTypeOK
<1> QED BY <1>3, <1>4, <1>5 DEF MapSound

LEMMA LoginMap ==
  ASSUME MapInv, NEW s \in Session, NEW u \in User, Open(s), ~LoggedIn(s),
         TakeEntry(s, u, Peers(home[s], UserId(u))), UNCHANGED <<phase, home>>
  PROVE  MapSound' /\ IdleAnonymous'
<1> DEFINE n == home[s]
           old == Peers(n, UserId(u))
<1>1. /\ SessionTypeOK /\ WorkerTypeOK /\ n \in Node
      /\ phase[s] = "open" /\ hash[s] = None
  BY DEF MapInv, Inv, TypeOK, SessionTypeOK, Open, LoggedIn
<1>2. /\ phase' = phase /\ home' = home
      /\ hash' = [x \in Session |-> IF x = s THEN u
                                    ELSE IF x \in old THEN None ELSE hash[x]]
      /\ sessions' = [sessions EXCEPT ![n][u] = s]
  BY DEF TakeEntry, HashAfterLogin
<1>3. \A i \in Node, v \in User : sessions[i][v] # None =>
        /\ sessions[i][v] \in Session /\ phase[sessions[i][v]] = "open"
        /\ home[sessions[i][v]] = i /\ hash[sessions[i][v]] = v
  BY <1>1 DEF MapInv, MapSound, EntryIsSession, Open, WorkerTypeOK
<1>4. \A x \in Session : x \in old <=>
        sessions[n][u] # None /\ x = sessions[n][u] /\ phase[x] = "open"
  BY DEF Peers, Found, UserId, Open
<1>5. None \notin User /\ None \notin Session
  BY ConstantsDiffer
<1> HIDE DEF n, old
<1>6. EntryIsSession'
  <2>1. SUFFICES ASSUME NEW i \in Node, NEW v \in User, sessions'[i][v] # None
                 PROVE  LET x == sessions'[i][v]
                        IN  phase[x] = "open" /\ home[x] = i /\ hash'[x] = v
    BY <1>2 DEF EntryIsSession, Open
  <2>2. CASE i = n /\ v = u
    <3>1. sessions'[i][v] = s
      BY <1>1, <1>2, <2>2 DEF WorkerTypeOK
    <3> QED BY <1>1, <1>2, <2>2, <3>1 DEF n
  <2>3. CASE ~(i = n /\ v = u)
    <3>1. sessions'[i][v] = sessions[i][v]
      BY <1>1, <1>2, <2>3 DEF WorkerTypeOK
    <3>2. /\ sessions[i][v] \in Session /\ phase[sessions[i][v]] = "open"
          /\ home[sessions[i][v]] = i /\ hash[sessions[i][v]] = v
      BY <1>3, <2>1, <3>1
    <3>3. sessions[i][v] # s
      BY <1>1, <1>5, <3>2
    <3>4. sessions[i][v] \notin old
      BY <1>1, <1>3, <1>4, <2>3, <3>2
    <3> QED BY <1>2, <3>1, <3>2, <3>3, <3>4
  <2> QED BY <2>2, <2>3
<1>7. SessionIsEntry'
  <2>1. SUFFICES ASSUME NEW x \in Session, phase[x] = "open", hash'[x] # None
                 PROVE  sessions'[home[x]][hash'[x]] = x
    BY <1>2 DEF SessionIsEntry, Open, LoggedIn
  <2>2. CASE x = s
    BY <1>1, <1>2, <2>2 DEF WorkerTypeOK, n
  <2>3. CASE x # s
    <3>1. x \notin old /\ hash'[x] = hash[x] /\ hash[x] # None
      BY <1>2, <2>1, <2>3
    <3>2. /\ sessions[home[x]][hash[x]] = x
          /\ home[x] \in Node /\ hash[x] \in User
      BY <1>1, <2>1, <3>1
      DEF MapInv, MapSound, SessionIsEntry, Open, LoggedIn, SessionTypeOK
    <3>3. ~(home[x] = n /\ hash[x] = u)
      BY <1>4, <1>5, <2>1, <3>1, <3>2
    <3>4. sessions'[home[x]][hash[x]] = sessions[home[x]][hash[x]]
      BY <1>1, <1>2, <3>2, <3>3 DEF WorkerTypeOK
    <3> QED BY <3>1, <3>2, <3>4
  <2> QED BY <2>2, <2>3
<1>8. IdleAnonymous'
  BY <1>1, <1>2 DEF MapInv, IdleAnonymous
<1> QED BY <1>6, <1>7, <1>8 DEF MapSound

LEMMA ReadErrorMap ==
  ASSUME MapInv, NEW s \in Session, OnReadError(s)
  PROVE  MapSound' /\ IdleAnonymous'
<1> DEFINE n == home[s]
<1>1. /\ SessionTypeOK /\ WorkerTypeOK /\ n \in Node /\ phase[s] = "open"
      /\ phase' = [phase EXCEPT ![s] = "gone"] /\ home' = home /\ hash' = hash
  BY DEF MapInv, Inv, TypeOK, SessionTypeOK, OnReadError, Finish, Open
<1>2. \A i \in Node, v \in User : sessions[i][v] # None =>
        /\ sessions[i][v] \in Session /\ phase[sessions[i][v]] = "open"
        /\ home[sessions[i][v]] = i /\ hash[sessions[i][v]] = v
  BY <1>1 DEF MapInv, MapSound, EntryIsSession, Open, WorkerTypeOK
<1>3. \A x \in Session : phase[x] = "open" /\ hash[x] # None =>
        sessions[home[x]][hash[x]] = x
  BY DEF MapInv, MapSound, SessionIsEntry, Open, LoggedIn
<1>4. None \notin User /\ None \notin Session
  BY ConstantsDiffer
<1>5. \A i \in Node, v \in User :
        sessions'[i][v] = IF sessions[i][v] = s THEN None ELSE sessions[i][v]
  <2>1. CASE hash[s] # None
    <3>1. hash[s] \in User /\ sessions[n][hash[s]] = s
      BY <1>1, <1>3, <2>1 DEF SessionTypeOK
    <3>2. LoggedIn(s) /\ Found(n, UserId(hash[s]))
      BY <1>4, <2>1, <3>1 DEF LoggedIn, Found, UserId
    <3>3. sessions' = [sessions EXCEPT ![n][hash[s]] = None]
      BY <3>2 DEF OnReadError
    <3>4. \A i \in Node, v \in User : sessions[i][v] = s <=> (i = n /\ v = hash[s])
      BY <1>2, <1>4, <3>1
    <3> QED BY <1>1, <3>1, <3>3, <3>4 DEF WorkerTypeOK
  <2>2. CASE hash[s] = None
    <3>1. sessions' = sessions
      BY <2>2 DEF OnReadError, LoggedIn
    <3>2. \A i \in Node, v \in User : sessions[i][v] # s
      BY <1>2, <1>4, <2>2
    <3> QED BY <3>1, <3>2
  <2> QED BY <2>1, <2>2
<1>6. EntryIsSession'
  <2>1. SUFFICES ASSUME NEW i \in Node, NEW u \in User, sessions'[i][u] # None
                 PROVE  LET x == sessions'[i][u]
                        IN  phase'[x] = "open" /\ home[x] = i /\ hash[x] = u
    BY <1>1 DEF EntryIsSession, Open
  <2>2. sessions'[i][u] = sessions[i][u] /\ sessions[i][u] # s
    BY <1>5, <2>1
  <2>3. /\ sessions[i][u] \in Session /\ phase[sessions[i][u]] = "open"
        /\ home[sessions[i][u]] = i /\ hash[sessions[i][u]] = u
    BY <1>2, <2>1, <2>2
  <2> QED BY <1>1, <2>2, <2>3 DEF SessionTypeOK
<1>7. SessionIsEntry'
  <2>1. SUFFICES ASSUME NEW x \in Session, phase'[x] = "open", hash[x] # None
                 PROVE  sessions'[home[x]][hash[x]] = x
    BY <1>1 DEF SessionIsEntry, Open, LoggedIn
  <2>2. x # s /\ phase[x] = "open" /\ home[x] \in Node /\ hash[x] \in User
    BY <1>1, <2>1 DEF SessionTypeOK
  <2> QED BY <1>3, <1>5, <2>1, <2>2
<1>8. IdleAnonymous'
  BY <1>1 DEF MapInv, IdleAnonymous, SessionTypeOK
<1> QED BY <1>6, <1>7, <1>8 DEF MapSound

LEMMA NextMapInv == MapInv /\ [Next]_vars => MapInv'
<1> SUFFICES ASSUME MapInv, [Next]_vars PROVE MapInv'
  OBVIOUS
<1>1. Inv'
  BY NextInv DEF MapInv
<1>2. MapSound /\ IdleAnonymous
  BY DEF MapInv
<1>3. ASSUME NEW s \in Session, SessionStep(s) PROVE MapSound' /\ IdleAnonymous'
  <2>1. ASSUME NEW n \in Node, SessionRun(s, n) PROVE MapSound' /\ IdleAnonymous'
    BY <2>1, RunMap
  <2>2. ASSUME NEW u \in User, OnAppLogin(s, u) \/ OnAppLoginThrows(s, u)
        PROVE  MapSound' /\ IdleAnonymous'
    BY <2>2, LoginMap DEF OnAppLogin, OnAppLoginThrows
  <2>3. CASE OnReadError(s)
    BY <2>3, ReadErrorMap
  <2>4. CASE SessionWrite(s) \/ SessionWriteError(s) \/ SessionPong(s)
    BY <1>2, <2>4, MapUnchanged
    DEF SessionWrite, SessionWriteError, SessionPong, OnWrite, OnWriteError,
        OnPong, workerVars
  <2>5. CASE OnAppLoginFail(s) \/ OnAppUnknown(s)
    BY <1>2, <2>5, MapUnchanged DEF OnAppLoginFail, OnAppUnknown, workerVars
  <2>6. ASSUME NEW u \in User, NEW m \in Msg, NEW complete \in BOOLEAN,
               OnAppChat(s, m, u, complete) \/ OnAppPresence(s, m, u)
        PROVE  MapSound' /\ IdleAnonymous'
    BY <1>2, <2>6, MapUnchanged
    DEF OnAppChat, OnAppPresence, workerVars
  <2>7. ASSUME NEW m \in Msg, OnAppPublish(s, m)
        PROVE  MapSound' /\ IdleAnonymous'
    BY <1>2, <2>7, MapUnchanged DEF OnAppPublish, workerVars
  <2> QED BY <1>3, <2>1, <2>2, <2>3, <2>4, <2>5, <2>6, <2>7 DEF SessionStep
<1>4. ASSUME NEW n \in Node, OnReply(n) PROVE MapSound' /\ IdleAnonymous'
  BY <1>2, <1>4, MapUnchanged
  DEF OnReply, OnPushRpush, OnLrange, OnDbPresence, sessionVars, workerVars
<1>5. ASSUME NEW n \in Node, Redis(n) PROVE MapSound' /\ IdleAnonymous'
  BY <1>2, <1>5, MapUnchanged DEF Redis, sessionVars, workerVars
<1>6. ASSUME NEW key \in Key, ListExpires(key) PROVE MapSound' /\ IdleAnonymous'
  BY <1>2, <1>6, MapUnchanged DEF ListExpires, sessionVars, workerVars
<1>7. ASSUME UNCHANGED vars PROVE MapSound' /\ IdleAnonymous'
  BY <1>2, <1>7, MapUnchanged DEF vars, sessionVars, workerVars
<1>8. ASSUME NEW n \in Node, ShutdownImpl(n) PROVE MapSound' /\ IdleAnonymous'
  BY <1>2, <1>8, MapUnchanged DEF ShutdownImpl, workerVars
<1>9. ASSUME NEW n \in Node, LinkLost(n) PROVE MapSound' /\ IdleAnonymous'
  BY <1>2, <1>9, MapUnchanged DEF LinkLost, sessionVars, workerVars
<1>10. MapSound' /\ IdleAnonymous'
  BY <1>3, <1>4, <1>5, <1>6, <1>7, <1>8, <1>9 DEF Next
<1> QED BY <1>1, <1>10 DEF MapInv

\* An entry of sessions_ always leads to a live session of the process that is
\* logged in as the user, and every such session is an entry: overriding a
\* login and ending a session in any order leave the map exact, and the two
\* assert(false) after weak_ptr::lock() are unreachable.
THEOREM MapIsSound == Spec => []MapSound
<1>1. MapInv => MapSound
  BY DEF MapInv
<1> QED BY InitMapInv, NextMapInv, <1>1, PTL DEF Spec
=============================================================================
