------------------------------ MODULE RedisChat ------------------------------
(***************************************************************************)
(* The part of the Redis server that carries chat, and the connection of   *)
(* each occase-db process to it, as src/worker.cpp uses them.  Redis and   *)
(* the client library are not part of the repository.                      *)
(*                                                                         *)
(* A process appends commands to its pipeline; Redis takes the commands of *)
(* one pipeline in order and one at a time, and may serve another process  *)
(* between any two of them, since no MULTI is ever sent.  Replies and push *)
(* messages come back over the same connection in order.  A process may    *)
(* end its connection with QUIT, or lose it and be given a new one: it is  *)
(* assumed that what was under way is then not sent again.                 *)
(***************************************************************************)
EXTENDS ChatBase

VARIABLES lists,   \* the lists of chat messages, by key
          subs,    \* the users whose two channels a process subscribes to
          pipe,    \* commands sent by a process and not yet executed
          reply,   \* answers and pushes a process has not yet handled
          link     \* the connection: "leaving" when QUIT was sent, "renewed"
                   \* when it was lost and established again

redisVars == <<lists, subs, pipe, reply, link>>

\* Fields a command or an event has no use for are filled with UserId(u), <<>>.
Command ==
  [op : {"subscribe", "unsubscribe", "publish"}, name : Names({0}),
   msgs : Seq(Msg)]
    \cup [op : {"lrange", "del", "rpush"}, name : Key, msgs : Seq(Msg)]
    \cup [op : {"quit"}]
Event ==
  [type : {"presence"}, name : Names({0}), msgs : Seq(Msg)]
    \cup [type : {"rpush"}, name : Names({1}), msgs : Seq(Msg)]
    \cup [type : {"lrange"}, name : Key, msgs : Seq(Msg)]

Cmd(op, name, msgs) == [op |-> op, name |-> name, msgs |-> msgs]
Evt(type, name, msgs) == [type |-> type, name |-> name, msgs |-> msgs]

RedisTypeOK ==
  /\ lists \in [Key -> Seq(Msg)]
  /\ subs \in [Node -> SUBSET User]
  /\ pipe \in [Node -> Seq(Command)]
  /\ reply \in [Node -> Seq(Event)]
  /\ link \in [Node -> {"up", "renewed", "leaving", "closed"}]

RedisInit ==
  /\ lists = [k \in Key |-> <<>>]
  /\ subs = [n \in Node |-> {}]
  /\ pipe = [n \in Node |-> <<>>]
  /\ reply = [n \in Node |-> <<>>]
  /\ link = [n \in Node |-> "up"]

\* redis_conn_->send(): the commands of one request join the pipeline.
Request(n, cmds) == pipe' = [pipe EXCEPT ![n] = @ \o cmds]

\* The node takes the next event off its connection.
Receive(n, type) ==
  /\ reply[n] # <<>>
  /\ Head(reply[n]).type = type
  /\ reply' = [reply EXCEPT ![n] = Tail(@)]

-----------------------------------------------------------------------------
(* Redis executes the next command of the pipeline of n.                   *)

Exec(n, op) ==
  /\ pipe[n] # <<>> /\ link[n] # "closed"
  /\ Head(pipe[n]).op = op
  /\ pipe' = [pipe EXCEPT ![n] = Tail(@)]

\* Event e is pushed to the processes that subscribe to user u.
PushTo(u, e) ==
  reply' = [n \in Node |-> IF u \in subs[n] THEN Append(reply[n], e)
                                            ELSE reply[n]]

\* SUBSCRIBE and UNSUBSCRIBE of the keyspace and the presence channel.
ExecSubscribe(n) ==
  /\ Exec(n, "subscribe")
  /\ subs' = [subs EXCEPT ![n] = @ \cup {Head(pipe[n]).name.user}]
  /\ UNCHANGED <<lists, reply, link>>

ExecUnsubscribe(n) ==
  /\ Exec(n, "unsubscribe")
  /\ subs' = [subs EXCEPT ![n] = @ \ {Head(pipe[n]).name.user}]
  /\ UNCHANGED <<lists, reply, link>>

ExecLrange(n) ==
  /\ Exec(n, "lrange")
  /\ LET key == Head(pipe[n]).name
     IN  reply' = [reply EXCEPT ![n] =
                     Append(@, Evt("lrange", key, lists[key]))]
  /\ UNCHANGED <<lists, subs, link>>

ExecDel(n) ==
  /\ Exec(n, "del")
  /\ lists' = [lists EXCEPT ![Head(pipe[n]).name] = <<>>]
  /\ UNCHANGED <<subs, reply, link>>

\* RPUSH raises the keyspace notification of the key.  Only the keys made of
\* one prefix and a user id have subscribers.
ExecRpush(n) ==
  /\ Exec(n, "rpush")
  /\ LET c == Head(pipe[n])
     IN  /\ lists' = [lists EXCEPT ![c.name] = @ \o c.msgs]
         /\ IF c.name.depth = 1
            THEN PushTo(c.name.user, Evt("rpush", c.name, <<>>))
            ELSE UNCHANGED reply
  /\ UNCHANGED <<subs, link>>

\* PUBLISH on the presence channel of a user.
ExecPublish(n) ==
  /\ Exec(n, "publish")
  /\ LET c == Head(pipe[n])
     IN  PushTo(c.name.user, Evt("presence", c.name, c.msgs))
  /\ UNCHANGED <<lists, subs, link>>

\* QUIT: Redis closes the connection.  What was sent after it stays in the
\* pipeline and is not executed; what Redis sent before still arrives.
ExecQuit(n) ==
  /\ Exec(n, "quit")
  /\ link' = [link EXCEPT ![n] = "closed"]
  /\ subs' = [subs EXCEPT ![n] = {}]
  /\ UNCHANGED <<lists, reply>>

\* The commands of n that Redis will execute: none comes after QUIT.
Executable(n) ==
  IF link[n] = "closed" THEN {}
  ELSE {i \in DOMAIN pipe[n] : \A j \in 1 .. i - 1 : pipe[n][j].op # "quit"}

\* The connection of n is lost and established again: Redis forgets what n has
\* subscribed to, and what was under way in either direction does not arrive.
Lose(n) ==
  /\ link[n] = "up"
  /\ link' = [link EXCEPT ![n] = "renewed"]
  /\ subs' = [subs EXCEPT ![n] = {}]
  /\ pipe' = [pipe EXCEPT ![n] = <<>>]
  /\ reply' = [reply EXCEPT ![n] = <<>>]
  /\ UNCHANGED lists

\* The time to live set by EXPIRE runs out.
Expire(key) ==
  /\ lists[key] # <<>>
  /\ lists' = [lists EXCEPT ![key] = <<>>]
  /\ UNCHANGED <<subs, pipe, reply, link>>

RedisStep(n) ==
  \/ ExecSubscribe(n) \/ ExecUnsubscribe(n)
  \/ ExecLrange(n) \/ ExecDel(n)
  \/ ExecRpush(n) \/ ExecPublish(n) \/ ExecQuit(n)
=============================================================================
