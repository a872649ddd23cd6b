------------------------------ MODULE Notifier ------------------------------
(***************************************************************************)
(* src/notifier.cpp: occase-notify sends a push notification to a user     *)
(* whose messages no occase-db process retrieves from Redis in time.  It   *)
(* learns of messages, of tokens and of deleted lists from Redis.          *)
(*                                                                         *)
(* The process is single threaded.  A steady_timer whose time is up puts   *)
(* the handler of its wait into the queue of the io_context; from there it *)
(* runs later, and neither cancel() nor expires_after() nor the destructor *)
(* of the timer can recall it.  FCM is assumed to be configured.           *)
(*                                                                         *)
(* Of occase-db and Redis the module has what reaches occase-notify: the   *)
(* commands of worker.cpp about tokens and lists, each process's in order. *)
(* Every message is stored and every token is sent at most once, MaxOff    *)
(* bounds the logins with an empty token, MaxStarts the starts of          *)
(* occase-notify, MaxDels the DELs of a process that are on their way and  *)
(* MaxInbox the events that occase-notify has not handled when a command   *)
(* of an occase-db is executed.                                            *)
(***************************************************************************)
EXTENDS Integers, Sequences, FiniteSets

CONSTANTS Node, User,
          Msg,      \* the chat messages
          Bodied,   \* those that have the fields "body" and "nick"
          Token,    \* the FCM tokens
          Empty,    \* the empty token
          None,     \* no entry, no message
          MaxOff, MaxStarts, MaxDels, MaxInbox

ASSUME NotifierAssumption ==
  /\ Bodied \subseteq Msg /\ None \notin Msg
  /\ Empty \notin Token /\ None \notin Token \cup {Empty}
  /\ MaxOff \in Nat /\ MaxStarts \in Nat
  /\ MaxDels \in Nat /\ MaxInbox \in Nat

UserEntry == [token : Token \cup {Empty}, msg : Msg \cup {None}]
ASSUME NoneIsNoEntry == None \notin UserEntry

VARIABLES running,   \* occase-notify runs
          tokens,    \* tokens_, None where a user has no entry
          waits,     \* the waits pending on the timer of a user
          due,       \* handlers of a user's timer in the io_context queue
          dangling,  \* for each user the handlers in the queue whose entry
                     \* was erased, as what the entry held
          \* Redis, and the commands and events on their way:
          hash,      \* the hash tokens_key, None for no field
          lists,     \* the users whose list of messages is not empty
          pipe,      \* commands of an occase-db not yet executed
          hello,     \* commands of occase-notify not yet executed
          subs,      \* what occase-notify is subscribed to
          inbox,     \* events that occase-notify has not handled
          \* History, read by the guards for their bounds only:
          starts, offs,
          stored,    \* the messages that were stored
          published, \* users and tokens in the order of their publication
          received,  \* the messages for which a wait was started
          coalesced, \* how many of them came while another one waited
          notified,  \* the messages sent to FCM
          calledOff  \* messages whose list was deleted while they waited

ntfVars == <<running, tokens, waits, due, dangling>>
dbVars == <<hash, lists, pipe>>
linkVars == <<hello, subs, inbox>>
runHistory == <<received, coalesced, notified, calledOff>>
history == <<starts, offs, stored, published, runHistory>>
vars == <<ntfVars, dbVars, linkVars, history>>

\* A user id, or with depth 1 the key of the user's list, is looked up.
Name(u, depth) == [user |-> u, depth |-> depth]
Found(name) == name.depth = 0 /\ tokens[name.user] # None
HasToken(u) == tokens[u] # None /\ tokens[u].token # Empty

\* What occase-notify knows when it starts.
Blank ==
  /\ tokens' = [u \in User |-> None]
  /\ waits' = [u \in User |-> 0] /\ due' = [u \in User |-> 0]
  /\ dangling' = [u \in User |-> <<>>]
  /\ subs' = {} /\ inbox' = <<>>
  /\ received' = [u \in User |-> <<>>] /\ notified' = [u \in User |-> <<>>]
  /\ coalesced' = [u \in User |-> 0]
  /\ calledOff' = {}

Init ==
  /\ running = FALSE
  /\ tokens = [u \in User |-> None]
  /\ waits = [u \in User |-> 0] /\ due = [u \in User |-> 0]
  /\ dangling = [u \in User |-> <<>>]
  /\ hash = [u \in User |-> None] /\ lists = {}
  /\ pipe = [n \in Node |-> <<>>]
  /\ hello = <<>> /\ subs = {} /\ inbox = <<>>
  /\ starts = 0 /\ offs = 0 /\ stored = {} /\ published = <<>>
  /\ received = [u \in User |-> <<>>] /\ notified = [u \in User |-> <<>>]
  /\ coalesced = [u \in User |-> 0]
  /\ calledOff = {}

-----------------------------------------------------------------------------
(* occase-notify starts and stops.                                         *)

\* init().
Start ==
  /\ ~running /\ starts < MaxStarts
  /\ running' = TRUE
  /\ starts' = starts + 1
  /\ hello' = <<"psubscribe", "subscribe", "hgetall">>
  /\ UNCHANGED <<tokens, waits, due, dangling, dbVars, subs, inbox, offs,
                 stored, published, runHistory>>

Stop ==
  /\ running
  /\ running' = FALSE
  /\ hello' = <<>>
  /\ Blank
  /\ UNCHANGED <<dbVars, starts, offs, stored, published>>

-----------------------------------------------------------------------------
(* Timers.                                                                 *)

\* Mutant: the wait that is pending goes on.
RestartKeepsWait(u) == [waits EXCEPT ![u] = @ + 1]
\* expires_after() cancels the pending wait; async_wait() starts a new one.
Restart(u) == [waits EXCEPT ![u] = 1]

\* The time is up.
Expire(u) ==
  /\ waits[u] > 0
  /\ waits' = [waits EXCEPT ![u] = @ - 1]
  /\ due' = [due EXCEPT ![u] = @ + 1]
  /\ UNCHANGED <<running, tokens, dangling, dbVars, linkVars, history>>

\* Mutant: the handler returns although the wait was not cancelled.
SendToNobody(u, entry) == notified
\* What on_timeout() sends: reading a field that is missing throws, and
\* nothing is sent.
SendTo(u, entry) ==
  IF entry.msg \in Bodied
  THEN [notified EXCEPT ![u] = Append(@, entry.msg)] ELSE notified

\* on_timeout() without error.
OnTimeout(u) ==
  /\ due[u] > 0
  /\ due' = [due EXCEPT ![u] = @ - 1]
  /\ notified' = SendTo(u, tokens[u])
  /\ UNCHANGED <<running, tokens, waits, dangling, dbVars, linkVars, starts,
                 offs, stored, published, received, coalesced, calledOff>>

\* on_timeout() when the entry of the iterator was erased: a use after free.
\* The process may find what the entry held, find garbage, or crash.
OnTimeoutDangling(u) ==
  /\ dangling[u] # <<>>
  /\ \/ /\ dangling' = [dangling EXCEPT ![u] = Tail(@)]
        /\ notified' \in {notified, SendTo(u, Head(dangling[u]))}
        /\ UNCHANGED <<running, tokens, waits, due, hello, subs, inbox,
                       received, coalesced, calledOff>>
     \/ running' = FALSE /\ hello' = <<>> /\ Blank
  /\ UNCHANGED <<dbVars, starts, offs, stored, published>>

-----------------------------------------------------------------------------
(* Events from Redis: on_push() and on_hgetall().                          *)

Receive(type) ==
  /\ inbox # <<>>
  /\ Head(inbox).type = type
  /\ inbox' = Tail(inbox)

\* on_ntf_message(): nothing happens unless the user has a token.
OnMessage ==
  /\ Receive("message")
  /\ LET u == Head(inbox).user
         m == Head(inbox).msg
     IN  IF HasToken(u)
         THEN /\ tokens' = [tokens EXCEPT ![u].msg = m]
              /\ waits' = Restart(u)
              /\ received' = [received EXCEPT ![u] = Append(@, m)]
              /\ coalesced' = [coalesced EXCEPT ![u] =
                                 IF waits[u] > 0 THEN @ + 1 ELSE @]
         ELSE UNCHANGED <<tokens, waits, received, coalesced>>
  /\ UNCHANGED <<running, due, dangling, dbVars, hello, subs, starts, offs,
                 stored, published, notified, calledOff>>

\* on_ntf_del(): the key of the list is looked up among the user ids.
OnDel ==
  /\ Receive("del")
  /\ LET key == Head(inbox).key
         u == key.user
     IN  /\ waits' = IF Found(key) THEN [waits EXCEPT ![u] = 0] ELSE waits
         /\ calledOff' = calledOff \cup
              {m \in Msg : waits[u] > 0 /\ HasToken(u) /\ m = tokens[u].msg}
  /\ UNCHANGED <<running, tokens, due, dangling, dbVars, hello, subs, starts,
                 offs, stored, published, received, coalesced, notified>>

\* on_ntf_publish() of a token.  An empty one erases the entry and with it the
\* timer: the pending wait is cancelled, the handlers in the queue stay.
OnToken ==
  /\ Receive("token")
  /\ LET u == Head(inbox).user
         t == Head(inbox).token
     IN  IF t = Empty
         THEN /\ tokens' = [tokens EXCEPT ![u] = None]
              /\ waits' = [waits EXCEPT ![u] = 0]
              /\ due' = [due EXCEPT ![u] = 0]
              /\ dangling' = [dangling EXCEPT ![u] =
                                @ \o [i \in 1 .. due[u] |-> tokens[u]]]
         ELSE /\ tokens' = [tokens EXCEPT ![u] =
                   IF @ = None THEN [token |-> t, msg |-> None]
                               ELSE [@ EXCEPT !.token = t]]
              /\ UNCHANGED <<waits, due, dangling>>
  /\ UNCHANGED <<running, dbVars, hello, subs, history>>

\* Mutant: the entries of the hash replace those that are known.
InsertOverwriting(fields) ==
  [u \in User |->
     IF fields[u] = None THEN tokens[u] ELSE [token |-> fields[u], msg |-> None]]
\* Mutant: the name of a field is taken for its value.
InsertNames(fields) ==
  [u \in User |->
     IF tokens[u] # None \/ fields[u] = None THEN tokens[u]
     ELSE [token |-> u, msg |-> None]]
\* unordered_map::insert of every field: an entry that exists is kept.
Insert(fields) ==
  [u \in User |->
     IF tokens[u] # None \/ fields[u] = None THEN tokens[u]
     ELSE [token |-> fields[u], msg |-> None]]

OnHgetall ==
  /\ Receive("hgetall")
  /\ tokens' = Insert(Head(inbox).fields)
  /\ UNCHANGED <<running, waits, due, dangling, dbVars, hello, subs, history>>

OnEvent == OnMessage \/ OnDel \/ OnToken \/ OnHgetall

-----------------------------------------------------------------------------
(* occase-db: what worker.cpp asks of Redis about tokens and lists.        *)

Request(n, cmds) == pipe' = [pipe EXCEPT ![n] = @ \o cmds]

\* Another list may be deleted without exceeding the bound.
FewDels(n) ==
  Cardinality({i \in DOMAIN pipe[n] : pipe[n][i].op = "del"}) < MaxDels

\* on_app_login(): the token is published and stored, the list retrieved.
Login(n, u, t) ==
  /\ FewDels(n)
  /\ IF t = Empty THEN offs < MaxOff
     ELSE \A m \in Node : \A i \in DOMAIN pipe[m] : pipe[m][i].token # t
  /\ \A i \in DOMAIN published : t = Empty \/ published[i].token # t
  /\ offs' = IF t = Empty THEN offs + 1 ELSE offs
  /\ Request(n, <<[op |-> "token", user |-> u, token |-> t],
                  [op |-> "hset", user |-> u, token |-> t],
                  [op |-> "del", user |-> u, token |-> None]>>)
  /\ UNCHANGED <<ntfVars, hash, lists, linkVars, starts, stored, published,
                 runHistory>>

\* store_chat_msg().
Store(n, u, m) ==
  /\ m \notin stored
  /\ stored' = stored \cup {m}
  /\ Request(n, <<[op |-> "rpush", user |-> u, token |-> None],
                  [op |-> "message", user |-> u, token |-> None, msg |-> m]>>)
  /\ UNCHANGED <<ntfVars, hash, lists, linkVars, starts, offs, published,
                 runHistory>>

\* on_push() of an "rpush" notification, or on_app_login() without a token: the
\* list is read and deleted.  Neither looks at the list nor at what the process
\* has sent before, and a notification may be delayed, so that the request comes
\* at any time, for any user.
Retrieve(n, u) ==
  /\ FewDels(n)
  /\ Request(n, <<[op |-> "del", user |-> u, token |-> None]>>)
  /\ UNCHANGED <<ntfVars, hash, lists, linkVars, history>>

-----------------------------------------------------------------------------
(* Redis executes the next command of an occase-db or of occase-notify.    *)

Exec(n, op) ==
  /\ pipe[n] # <<>>
  /\ Head(pipe[n]).op = op
  /\ pipe' = [pipe EXCEPT ![n] = Tail(@)]

Push(channel, e) ==
  inbox' = IF channel \in subs THEN Append(inbox, e) ELSE inbox

ExecToken(n) ==
  /\ Exec(n, "token")
  /\ LET c == Head(pipe[n])
     IN  /\ Push("notify", [type |-> "token", user |-> c.user, token |-> c.token])
         /\ published' = Append(published, [user |-> c.user, token |-> c.token])
  /\ UNCHANGED <<hash, lists>>

ExecHset(n) ==
  /\ Exec(n, "hset")
  /\ hash' = [hash EXCEPT ![Head(pipe[n]).user] = Head(pipe[n]).token]
  /\ UNCHANGED <<lists, inbox, published>>

ExecRpush(n) ==
  /\ Exec(n, "rpush")
  /\ lists' = lists \cup {Head(pipe[n]).user}
  /\ UNCHANGED <<hash, inbox, published>>

ExecMessage(n) ==
  /\ Exec(n, "message")
  /\ LET c == Head(pipe[n])
     IN  Push("notify", [type |-> "message", user |-> c.user, msg |-> c.msg])
  /\ UNCHANGED <<hash, lists, published>>

\* DEL raises an event only for a key that exists.
ExecDel(n) ==
  /\ Exec(n, "del")
  /\ LET u == Head(pipe[n]).user
     IN  /\ lists' = lists \ {u}
         /\ IF u \in lists
            THEN Push("del", [type |-> "del", key |-> Name(u, 1)])
            ELSE UNCHANGED inbox
  /\ UNCHANGED <<hash, published>>

ExecHello ==
  /\ hello # <<>>
  /\ hello' = Tail(hello)
  /\ \/ Head(hello) = "psubscribe" /\ subs' = subs \cup {"del"} /\ UNCHANGED inbox
     \/ Head(hello) = "subscribe" /\ subs' = subs \cup {"notify"} /\ UNCHANGED inbox
     \/ /\ Head(hello) = "hgetall"
        /\ inbox' = Append(inbox, [type |-> "hgetall", fields |-> hash])
        /\ UNCHANGED subs

Redis(n) ==
  /\ Len(inbox) < MaxInbox
  /\ ExecToken(n) \/ ExecHset(n) \/ ExecRpush(n) \/ ExecMessage(n) \/ ExecDel(n)
  /\ UNCHANGED <<ntfVars, hello, subs, starts, offs, stored, runHistory>>

RedisNotify == ExecHello /\ UNCHANGED <<ntfVars, dbVars, history>>

-----------------------------------------------------------------------------

Next ==
  \/ Start \/ Stop
  \/ \E u \in User : Expire(u) \/ OnTimeout(u) \/ OnTimeoutDangling(u)
  \/ OnEvent
  \/ \E n \in Node, u \in User :
       \/ \E t \in Token \cup {Empty} : Login(n, u, t)
       \/ \E m \in Msg : Store(n, u, m)
       \/ Retrieve(n, u)
  \/ \E n \in Node : Redis(n)
  \/ RedisNotify

Spec == Init /\ [][Next]_vars

\* Timers expire, the io_context runs the handlers that are queued, and Redis
\* executes what it is sent.
Fairness ==
  /\ \A u \in User : /\ WF_vars(Expire(u)) /\ WF_vars(OnTimeout(u))
                     /\ WF_vars(OnTimeoutDangling(u))
  /\ WF_vars(OnEvent)
  /\ \A n \in Node : WF_vars(Redis(n))
  /\ WF_vars(RedisNotify)
FairSpec == Spec /\ Fairness

-----------------------------------------------------------------------------
(* Properties.                                                             *)

Command ==
  [op : {"token", "hset"}, user : User, token : Token \cup {Empty}]
    \cup [op : {"rpush", "del"}, user : User, token : {None}]
    \cup [op : {"message"}, user : User, token : {None}, msg : Msg]
Event ==
  [type : {"token"}, user : User, token : Token \cup {Empty}]
    \cup [type : {"message"}, user : User, msg : Msg]
    \cup [type : {"del"}, key : [user : User, depth : {1}]]
    \cup [type : {"hgetall"}, fields : [User -> Token \cup {Empty, None}]]

NtfTypeOK ==
  /\ running \in BOOLEAN
  /\ tokens \in [User -> UserEntry \cup {None}]
  /\ waits \in [User -> Nat] /\ due \in [User -> Nat]
  /\ dangling \in [User -> Seq(UserEntry)]

DbTypeOK ==
  /\ hash \in [User -> Token \cup {Empty, None}]
  /\ lists \in SUBSET User
  /\ pipe \in [Node -> Seq(Command)]

LinkTypeOK ==
  /\ hello \in Seq({"psubscribe", "subscribe", "hgetall"})
  /\ subs \in SUBSET {"del", "notify"}
  /\ inbox \in Seq(Event)

HistoryTypeOK ==
  /\ starts \in Nat /\ offs \in Nat /\ stored \in SUBSET Msg
  /\ published \in Seq([user : User, token : Token \cup {Empty}])
  /\ received \in [User -> Seq(Msg)] /\ notified \in [User -> Seq(Msg)]
  /\ coalesced \in [User -> Nat]
  /\ calledOff \in SUBSET Msg

\* Type invariant of occase-notify, Redis and what is between them.
TypeOK == NtfTypeOK /\ DbTypeOK /\ LinkTypeOK /\ HistoryTypeOK

\* Messages that come while another one waits share its notification: whatever
\* is restarted, fires late or outlives its entry, a user is never sent more
\* notifications than he got messages, less those that were coalesced.
OneNotification ==
  \A u \in User :
    Len(notified[u]) + due[u] + waits[u] + Len(dangling[u]) + coalesced[u]
      <= Len(received[u])

\* A handler of a timer that is not stale always finds an entry with a message.
TimerHasMessage ==
  \A u \in User : waits[u] + due[u] > 0 => tokens[u] # None /\ tokens[u].msg # None

\* The place where a token was last published, 0 if it never was.
PublishedAt(u, t) ==
  LET S == {i \in DOMAIN published : published[i] = [user |-> u, token |-> t]}
  IN  IF S = {} THEN 0 ELSE CHOOSE i \in S : \A j \in S : j <= i

\* As long as a user has an entry its token is never replaced by one that was
\* published before it, whether it comes from the channel or from the hash.
TokenNeverOlder ==
  [][\A u \in User :
       HasToken(u) /\ HasToken(u)' /\ tokens'[u].token # tokens[u].token =>
         PublishedAt(u, tokens[u].token) < PublishedAt(u, tokens'[u].token)]_vars

Arrives(u, m) ==
  \E i \in DOMAIN inbox : inbox[i] = [type |-> "message", user |-> u, msg |-> m]
Superseded(u, m) ==
  \E i, j \in DOMAIN received[u] : i < j /\ received[u][i] = m
Notified(u, m) == \E i \in DOMAIN notified[u] : notified[u][i] = m

\* A message with a body that reaches occase-notify while its user has a token,
\* and keeps it, is eventually sent to FCM, unless the list of the user is
\* deleted while the message waits or another message takes its place.
MessageIsNotified ==
  \A u \in User, m \in Bodied :
    []((Arrives(u, m) /\ [](running /\ HasToken(u)))
         => <>(Notified(u, m) \/ Superseded(u, m) \/ m \in calledOff))

\* notifier.cpp:132-135 and management.txt:28-31: a user whose messages were
\* retrieved while the timer was running is not notified of them.
RetrievedIsNotNotified ==
  \A u \in User : \A i \in DOMAIN notified[u] : notified[u][i] \notin calledOff
=============================================================================
