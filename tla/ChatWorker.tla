----------------------------- MODULE ChatWorker -----------------------------
(***************************************************************************)
(* The chat part of src/worker.cpp: several occase-db processes, their     *)
(* websocket sessions (WsSession) and Redis (RedisChat).  A process is     *)
(* single threaded, so each handler is one step; what interleaves is the   *)
(* handlers of different processes, the commands Redis executes, and the   *)
(* order in which a process sees frames, replies and completions.          *)
(*                                                                         *)
(* Users send each message of Msg at most once, and MaxLogins bounds the   *)
(* login frames: a session that was overridden may log in again before its *)
(* close is complete, so that two sessions could go on forever.            *)
(***************************************************************************)
EXTENDS WsSession, RedisChat

CONSTANTS MaxLogins,
          Stoppable, \* the processes that get a signal
          Losing     \* the processes that may lose their connection, once each

ASSUME MaxLoginsAssumption ==
  MaxLogins \in Nat /\ Stoppable \subseteq Node /\ Losing \subseteq Node

VARIABLES sessions,    \* sessions_: the session of each user, None if absent
          chatQueue,   \* user_ids_chat_queue
          \* History; only Fresh and LoginFrame read it:
          logins,    \* the number of login frames handled
          to,        \* the addressee of a message that was sent
          delivered, \* mail, and the user of the websocket it was written to
          givenUp,   \* mail left in a session when it was overridden, or
                     \* handed on to another user after a lost connection
          expired,   \* mail that was in a list when the list expired
          severed    \* mail under way when a connection was lost

workerVars == <<sessions, chatQueue>>
history == <<logins, to, delivered, givenUp, expired, severed>>
vars == <<sessionVars, redisVars, workerVars, history>>

WorkerTypeOK ==
  /\ sessions \in [Node -> [User -> Session \cup {None}]]
  /\ chatQueue \in [Node -> Seq(Names(0 .. 1))]
  /\ logins \in 0 .. MaxLogins
  /\ to \in [Msg -> User \cup {None}]
  /\ delivered \in SUBSET [user : User \cup {None}, mail : Mail]
  /\ givenUp \in SUBSET Mail
  /\ expired \in SUBSET Mail
  /\ severed \in SUBSET Mail

Init ==
  /\ SessionInit
  /\ RedisInit
  /\ sessions = [n \in Node |-> [u \in User |-> None]]
  /\ chatQueue = [n \in Node |-> <<>>]
  /\ logins = 0
  /\ to = [m \in Msg |-> None]
  /\ delivered = {} /\ givenUp = {} /\ expired = {} /\ severed = {}

-----------------------------------------------------------------------------
(* What the handlers are made of.                                          *)

Mails(seq) == {seq[i] : i \in 1 .. Len(seq)} \cap Mail
Frames(q) == [i \in 1 .. Len(q) |-> q[i].msg]

\* The result of looking a name up in sessions_; a key is no user id.
Found(n, name) == name.depth = 0 /\ sessions[n][name.user] # None

\* The sessions that are sent what is for the user called name: the weak
\* pointer of the map entry is locked first.
Peers(n, name) ==
  {x \in Session : Found(n, name) /\ x = sessions[n][name.user] /\ Open(x)}

\* store_chat_msg().
StoreCmds(name, msgs) ==
  IF msgs = <<>> THEN <<>> ELSE <<Cmd("rpush", ChatKey(name), msgs)>>

\* Mutant: the list is deleted without being read.
LoginCmdsNoLrange(u) ==
  <<Cmd("subscribe", UserId(u), <<>>), Cmd("del", ChatKey(UserId(u)), <<>>)>>
\* What on_app_login() asks of Redis.
LoginCmds(u) ==
  LET key == ChatKey(UserId(u))
  IN  <<Cmd("subscribe", UserId(u), <<>>),
        Cmd("lrange", key, <<>>), Cmd("del", key, <<>>)>>

\* Mutant: the subscription is kept.
LogoutCmdsStillSubscribed(u, msgs) == StoreCmds(UserId(u), msgs)
\* What on_session_dtor() asks of Redis.
LogoutCmds(u, msgs) ==
  <<Cmd("unsubscribe", UserId(u), <<>>)>> \o StoreCmds(UserId(u), msgs)

\* Mutant: the overridden session keeps its pub_hash_.
HashAfterLoginKeepOld(s, u, old) == [hash EXCEPT ![s] = u]
\* set_pub_hash() at login: s becomes u, a session it overrides nobody.
HashAfterLogin(s, u, old) ==
  [x \in Session |-> IF x = s THEN u ELSE IF x \in old THEN None ELSE hash[x]]

\* Mutant: the name is kept when the messages go back to Redis.
PopNameIfFound(n) ==
  IF Found(n, Head(chatQueue[n])) THEN [chatQueue EXCEPT ![n] = Tail(@)]
                                  ELSE chatQueue
\* Mutant: the name that was pushed last is popped.
PopNameBack(n) == [chatQueue EXCEPT ![n] = SubSeq(@, 1, Len(@) - 1)]
\* on_lrange() pops the name it has answered, whether the user was found or not.
PopName(n) == [chatQueue EXCEPT ![n] = Tail(@)]

SendAck(q, s) == PushAll(q, {s}, <<Ack>>, FALSE)

\* User u is sent message m, which no one has sent before.
Fresh(m, u) ==
  /\ to[m] = None
  /\ to' = [to EXCEPT ![m] = u]

\* One more login frame arrives.
LoginFrame ==
  /\ logins < MaxLogins
  /\ logins' = logins + 1

-----------------------------------------------------------------------------
(* Frames from the app: on_read(), on_app() and handle_ev().               *)

\* A login without user id: login_ack "fail", then shutdown.
OnAppLoginFail(s) ==
  /\ Open(s) /\ ~LoggedIn(s)
  /\ LoginFrame
  /\ Send(SendAck(queue, s))
  /\ Shutdown({s})
  /\ UNCHANGED <<phase, home, hash, redisVars, workerVars, to, delivered,
                 givenUp, expired, severed>>

\* The first half of a login: s becomes u and takes the entry of u in
\* sessions_, and what the sessions of old still hold is disregarded.
TakeEntry(s, u, old) ==
  /\ hash' = HashAfterLogin(s, u, old)
  /\ sessions' = [sessions EXCEPT ![home[s]][u] = s]
  /\ givenUp' = givenUp \cup UNION {Mails(Frames(queue[x])) : x \in old}

OnAppLogin(s, u) ==
  /\ Open(s) /\ ~LoggedIn(s)
  /\ LoginFrame
  /\ LET n == home[s]
         old == Peers(n, UserId(u))
     IN  /\ TakeEntry(s, u, old)
         /\ Shutdown(old)
         /\ Request(n, LoginCmds(u))
         /\ chatQueue' = [chatQueue EXCEPT ![n] = Append(@, UserId(u))]
         /\ Send(SendAck(queue, s))
  /\ UNCHANGED <<phase, home, lists, subs, reply, link, to, delivered,
                 expired, severed>>

\* A login whose token is no string: the exception comes when the entry is
\* taken and before anything is asked of Redis, and ends the new session.
OnAppLoginThrows(s, u) ==
  /\ Open(s) /\ ~LoggedIn(s)
  /\ LoginFrame
  /\ LET old == Peers(home[s], UserId(u))
     IN  TakeEntry(s, u, old) /\ Shutdown(old \cup {s})
  /\ UNCHANGED <<phase, home, queue, writes, chatQueue, redisVars, to, delivered,
                 expired, severed>>

\* The message is forwarded before post_id and id are read; when one of them is
\* missing (complete is false) the exception ends the session without an ack.
OnAppChat(s, m, u, complete) ==
  /\ Open(s) /\ LoggedIn(s)
  /\ m \in Chat /\ Fresh(m, u)
  /\ LET n == home[s]
         name == UserId(u)
         forwarded == PushAll(queue, Peers(n, name), <<m>>, TRUE)
     IN  /\ Send(IF complete THEN SendAck(forwarded, s) ELSE forwarded)
         /\ Request(n, IF Found(n, name) THEN <<>> ELSE StoreCmds(name, <<m>>))
  /\ Shutdown(IF complete THEN {} ELSE {s})
  /\ UNCHANGED <<phase, home, hash, lists, subs, reply, link, workerVars,
                 logins, delivered, givenUp, expired, severed>>

OnAppPresence(s, m, u) ==
  /\ Open(s) /\ LoggedIn(s)
  /\ m \in Presence /\ Fresh(m, u)
  /\ LET n == home[s]
         name == UserId(u)
     IN  /\ Send(PushAll(queue, Peers(n, name), <<m>>, FALSE))
         /\ Request(n, IF Found(n, name) THEN <<>>
                       ELSE <<Cmd("publish", name, <<m>>)>>)
  /\ UNCHANGED <<phase, home, hash, closing, lists, subs, reply, link,
                 workerVars, logins, delivered, givenUp, expired, severed>>

\* on_app_publish(): the acknowledgement goes to the publisher, persistent.
\* What becomes of the post is not part of this module.
OnAppPublish(s, m) ==
  /\ Open(s) /\ LoggedIn(s)
  /\ m \in PubAck /\ Fresh(m, hash[s])
  /\ Send(PushAll(queue, {s}, <<m>>, TRUE))
  /\ UNCHANGED <<phase, home, hash, closing, redisVars, workerVars,
                 logins, delivered, givenUp, expired, severed>>

\* A frame that cannot be parsed or is not allowed in this state.
OnAppUnknown(s) ==
  /\ Open(s)
  /\ Shutdown({s})
  /\ UNCHANGED <<phase, home, hash, queue, writes, redisVars,
                 workerVars, history>>

-----------------------------------------------------------------------------
(* The websocket of a session.                                             *)

SessionRun(s, n) ==
  OnRun(s, n) /\ UNCHANGED <<redisVars, workerVars, history>>

SessionWrite(s) ==
  /\ OnWrite(s)
  /\ delivered' = delivered \cup
       {[user |-> hash[s], mail |-> m] :
          m \in ({Head(queue[s]).msg} \cap Mail) \ (givenUp \cup expired)}
  /\ UNCHANGED <<redisVars, workerVars, logins, to, givenUp,
                 expired, severed>>

SessionWriteError(s) ==
  OnWriteError(s) /\ UNCHANGED <<redisVars, workerVars, history>>

SessionPong(s) ==
  OnPong(s) /\ UNCHANGED <<redisVars, workerVars, history>>

\* on_read() with an error: finish() and worker::on_session_dtor().
OnReadError(s) ==
  /\ Finish(s)
  /\ LET n == home[s]
     IN  IF LoggedIn(s) /\ Found(n, UserId(hash[s]))
         THEN /\ sessions' = [sessions EXCEPT ![n][hash[s]] = None]
              /\ Request(n, LogoutCmds(hash[s], Unsent(s)))
         ELSE UNCHANGED <<sessions, pipe>>
  /\ UNCHANGED <<chatQueue, lists, subs, reply, link, history>>

\* The sessions of sessions_ that are alive.
ToldToLeave(n) == UNION {Peers(n, UserId(u)) : u \in User}

\* shutdown_impl(): QUIT follows at once, when no session has ended yet.  What
\* becomes of the acceptor is the matter of Connection.
ShutdownImpl(n) ==
  /\ n \in Stoppable /\ link[n] = "up"
  /\ link' = [link EXCEPT ![n] = "leaving"]
  /\ Shutdown(ToldToLeave(n))
  /\ Request(n, <<[op |-> "quit"]>>)
  /\ UNCHANGED <<phase, home, hash, queue, writes, lists, subs, reply,
                 workerVars, history>>

-----------------------------------------------------------------------------
(* Replies and pushes from Redis.                                          *)

\* on_push() of an rpush notification.  The name remembered for the reply is
\* the key of the list, not the user id.
OnPushRpush(n) ==
  /\ Receive(n, "rpush")
  /\ LET key == Head(reply[n]).name
     IN  /\ Request(n, <<Cmd("lrange", key, <<>>), Cmd("del", key, <<>>)>>)
         /\ chatQueue' = [chatQueue EXCEPT ![n] = Append(@, key)]
  /\ UNCHANGED <<sessionVars, sessions, lists, subs, link, history>>

\* The name at the front of the queue of n is one whose answer was lost with
\* the connection, and the answer at hand is for another user.
Misled(n) ==
  /\ link[n] = "renewed"
  /\ Head(chatQueue[n]).user # Head(reply[n]).name.user

\* on_lrange() and on_db_chat_msg().
OnLrange(n) ==
  /\ Receive(n, "lrange")
  /\ chatQueue[n] # <<>>
  /\ LET name == Head(chatQueue[n])
         msgs == Head(reply[n]).msgs
     IN  /\ Send(PushAll(queue, Peers(n, name), msgs, TRUE))
         /\ Request(n, IF Found(n, name) THEN <<>> ELSE StoreCmds(name, msgs))
         /\ givenUp' = givenUp \cup (IF Misled(n) THEN Mails(msgs) ELSE {})
  /\ chatQueue' = PopName(n)
  /\ UNCHANGED <<phase, home, hash, closing, sessions, lists, subs, link,
                 logins, to, delivered, expired, severed>>

\* on_push() of a presence message: on_db_presence().
OnDbPresence(n) ==
  /\ Receive(n, "presence")
  /\ LET e == Head(reply[n])
     IN  Send(PushAll(queue, Peers(n, e.name), e.msgs, FALSE))
  /\ UNCHANGED <<phase, home, hash, closing, workerVars, lists, subs, link,
                 pipe, history>>

OnReply(n) == OnPushRpush(n) \/ OnLrange(n) \/ OnDbPresence(n)

-----------------------------------------------------------------------------
(* Redis.                                                                  *)

Redis(n) == RedisStep(n) /\ UNCHANGED <<sessionVars, workerVars, history>>

\* A reply to LRANGE is out and its DEL comes next: the list holds nothing.
DoomedBy(n, key) ==
  /\ pipe[n] # <<>> /\ link[n] # "closed"
  /\ Head(pipe[n]).op = "del" /\ Head(pipe[n]).name = key
Doomed(key) == \E n \in Node : DoomedBy(n, key)

ListExpires(key) ==
  /\ Expire(key)
  /\ expired' = expired \cup (IF Doomed(key) THEN {} ELSE Mails(lists[key]))
  /\ UNCHANGED <<sessionVars, workerVars, logins, to, delivered,
                 givenUp, severed>>

\* The mail in those commands of n that are at the places I.
Stored(n, I) ==
  UNION {Mails(pipe[n][i].msgs) : i \in {i \in I : pipe[n][i].op = "rpush"}}
\* The mail in those answers to n that are at the places I.
Answered(n, I) == UNION {Mails(reply[n][i].msgs) : i \in I}

\* The connection of n is lost and established again.  on_hello() asks for the
\* posts and subscribes to news of posts; sessions_ and user_ids_chat_queue
\* stay as they are.
LinkLost(n) ==
  /\ n \in Losing
  /\ Lose(n)
  /\ severed' = severed \cup Stored(n, DOMAIN pipe[n])
                  \cup Answered(n, DOMAIN reply[n])
                  \cup UNION {Mails(lists[k]) : k \in {k \in Key : DoomedBy(n, k)}}
  /\ UNCHANGED <<sessionVars, workerVars, logins, to, delivered, givenUp,
                 expired>>

-----------------------------------------------------------------------------

SessionStep(s) ==
  \/ \E n \in Node : SessionRun(s, n)
  \/ SessionWrite(s) \/ SessionWriteError(s)
  \/ SessionPong(s) \/ OnReadError(s)
  \/ OnAppLoginFail(s) \/ OnAppUnknown(s)
  \/ \E u \in User : OnAppLogin(s, u) \/ OnAppLoginThrows(s, u)
  \/ \E u \in User, m \in Msg :
       \/ \E complete \in BOOLEAN : OnAppChat(s, m, u, complete)
       \/ OnAppPresence(s, m, u)
  \/ \E m \in Msg : OnAppPublish(s, m)

Next ==
  \/ \E s \in Session : SessionStep(s)
  \/ \E n \in Node : ShutdownImpl(n) \/ OnReply(n) \/ Redis(n) \/ LinkLost(n)
  \/ \E key \in Key : ListExpires(key)

Spec == Init /\ [][Next]_vars

\* Redis serves every connection and every process takes its replies.  An
\* outstanding write completes or fails, and the websocket timeouts fail the
\* read of a session that is closing or whose write has failed.
Fairness ==
  /\ \A n \in Node : WF_vars(Redis(n)) /\ WF_vars(OnReply(n))
  /\ \A s \in Session :
       /\ WF_vars(SessionWrite(s) \/ SessionWriteError(s))
       /\ WF_vars(OnReadError(s) /\ (closing[s] \/ (queue[s] # <<>> /\ writes[s] = 0)))

FairSpec == Spec /\ Fairness

-----------------------------------------------------------------------------
(* Properties.                                                             *)

\* Type invariant of the sessions, the worker and its Redis connections.
TypeOK == SessionTypeOK /\ RedisTypeOK /\ WorkerTypeOK

\* sessions_ and the sessions agree: an entry leads to a live session of this
\* process that is logged in as that user, and a live session that is logged in
\* is its user's entry.  This is what on_session_dtor relies on when it erases
\* by user id, and why the two assert(false) after lock() are never reached.
EntryIsSession ==
  \A n \in Node, u \in User :
    LET s == sessions[n][u]
    IN  s # None => Open(s) /\ home[s] = n /\ hash[s] = u
SessionIsEntry ==
  \A s \in Session :
    Open(s) /\ LoggedIn(s) => sessions[home[s]][hash[s]] = s
MapSound == EntryIsSession /\ SessionIsEntry

\* At most one async_write per websocket is out, and while it is the frame it
\* writes is still at the front of the queue.
OneWriter ==
  \A s \in Session : writes[s] <= 1 /\ (writes[s] = 1 => queue[s] # <<>>)

\* The user whose list an answer brings or a command asks for, else None.
AnswerFor(e) == IF e.type = "lrange" THEN e.name.user ELSE None
AskedFor(c) == IF c.op = "lrange" THEN c.name.user ELSE None

\* What a process waits for whose answers are r and whose pipeline is p, in the
\* order in which it arrives.
Awaited(r, p) ==
  [i \in 1 .. Len(r) + Len(p) |->
     IF i <= Len(r) THEN AnswerFor(r[i]) ELSE AskedFor(p[i - Len(r)])]

\* The names of q are, in order, the users in w.
Aligned(q, w) ==
  \E f \in [DOMAIN q -> {k \in DOMAIN w : w[k] # None}] :
    /\ \A i, j \in DOMAIN q : i < j => f[i] < f[j]
    /\ \A k \in DOMAIN w : w[k] # None => \E i \in DOMAIN q : f[i] = k
    /\ \A i \in DOMAIN q : q[i].user = w[f[i]]

\* user_ids_chat_queue names, in order, the users of exactly the LRANGE
\* requests whose reply on_lrange has not handled, so that no reply is
\* forwarded to another user and the assert in on_lrange never fails; a
\* connection that is lost takes answers with it and leaves the names.
LrangeAligned ==
  \A n \in Node : link[n] # "renewed" => Aligned(chatQueue[n], Awaited(reply[n], pipe[n]))

\* The places in pipeline p where a subscription to u begins or ends.
About(p, u) ==
  {i \in DOMAIN p : p[i].op \in {"subscribe", "unsubscribe"} /\ p[i].name.user = u}

\* Whoever is subscribed to u now, or is not, will be when p is executed, or
\* will not be.
Leads(p, u, now, then) ==
  /\ About(p, u) = {} => (now <=> then)
  /\ \A i \in About(p, u) :
       (\A j \in About(p, u) : j <= i) => (p[i].op = "subscribe" <=> then)

\* Once its pipeline is executed, a process is subscribed to every user of its
\* map whose session is not being closed, and to nobody who is not in the map,
\* as long as it has not been told to end.  A session that is closing may be
\* there without a subscription: its login ended in an exception.
SubscriptionTracksSession ==
  \A n \in Node, u \in User :
    link[n] = "up" =>
      LET s == sessions[n][u]
      IN  /\ s = None => Leads(pipe[n], u, u \in subs[n], FALSE)
          /\ s # None /\ ~closing[s] => Leads(pipe[n], u, u \in subs[n], TRUE)

\* Mail waits only at a session of its addressee and in lists of his, and is
\* written to his websocket only, unless an override left it behind or a name
\* that a lost connection left over misled on_lrange().
OnlyAddressee ==
  /\ \A s \in Session : \A m \in Mails(Frames(queue[s])) :
       m \notin givenUp => to[m] = hash[s]
  /\ \A key \in Key : \A m \in Mails(lists[key]) :
       m \notin givenUp => to[m] = key.user
  /\ \A d \in delivered : to[d.mail] = d.user

\* The places of the commands and of the answers of n that are for user u.
StoresFor(n, u) ==
  {i \in DOMAIN pipe[n] : pipe[n][i].op = "rpush" /\ pipe[n][i].name.user = u}
AnswersFor(n, u) == {i \in DOMAIN reply[n] : reply[n][i].name.user = u}

\* The mail that is where u will get it from: in a list of his that no DEL is
\* about to remove, on its way to or from one, or in the queue of his session.
HeldFor(u) ==
  LET keys == {k \in Key : k.user = u /\ ~Doomed(k)}
      inLists == UNION {Mails(lists[k]) : k \in keys}
      inPipes == UNION {Stored(n, Executable(n) \cap StoresFor(n, u)) : n \in Node}
      inReplies == UNION {Answered(n, AnswersFor(n, u)) : n \in Node}
      his == {s \in Session : hash[s] = u}
      inQueues == UNION {Mails(Frames(queue[s])) : s \in his}
  IN  (inLists \cup inPipes \cup inReplies \cup inQueues) \ givenUp
MailHeld == UNION {HeldFor(u) : u \in User}
\* What is to be stored after the process has sent QUIT is not stored.
Unstored ==
  UNION {Stored(n, DOMAIN pipe[n] \ Executable(n)) :
           n \in {n \in Node : link[n] \in {"leaving", "closed"}}}
Delivered == {d.mail : d \in delivered}
Settled == Delivered \cup givenUp \cup expired
Done == Settled \cup Unstored \cup {m \in severed : m \notin MailHeld}

\* Mail once accepted is held somewhere until it is delivered, given up by an
\* override or by a name left over, expired in its list, handed over too late
\* for QUIT or lost with a connection.
NothingLost == \A m \in Mail : to[m] # None => m \in MailHeld \cup Done

\* With one process the chat path implements the abstract mailbox.  Whom a
\* message is held for is read off the place where it is: the user whose session
\* or list that is; whom it is delivered to is the user of the websocket it was
\* written to.  A list that was read and not deleted when the connection was
\* lost is read again, and mail that is delivered a second time is not held.
Mailboxes == INSTANCE Mailbox WITH
  held <- {h \in [user : User, mail : Mail] :
             h.mail \in HeldFor(h.user) \ (severed \cap Settled)},
  delivered <- delivered,
  discarded <- Done \ Delivered
MailboxSpec == Mailboxes!Spec

\* config.hpp:39-41: the key of a list of messages is the prefix and a user id.
\* Anything else is never looked up again.
MailUnderUserKey == \A key \in Key : key.depth # 1 => lists[key] = <<>>

\* worker.cpp:550-551 and intro.txt:45-46: Redis notifies the process at which a
\* user is online of new messages to him.
NotifiedWhileOnline ==
  \A n \in Node, u \in User, s \in Session :
    /\ link[n] \in {"up", "renewed"} /\ sessions[n][u] = s /\ ~closing[s]
    /\ About(pipe[n], u) = {}
    => u \in subs[n]

\* Mail for a user whose session stays up, at a process that goes on, is
\* eventually delivered, unless it expired or was given up before.
Up(n, u) ==
  link[n] = "up" /\ \E s \in Session : sessions[n][u] = s /\ ~closing[s]
OnlineUserGetsMail ==
  \A n \in Node, u \in User, m \in Mail :
    <>[](to[m] = u /\ Up(n, u)) => <>(m \in Done)
=============================================================================
