------------------------------- MODULE Posts -------------------------------
(***************************************************************************)
(* The posts part of src/worker.cpp: several occase-db processes keep all  *)
(* posts in memory (Channel), store them in Redis and tell each other what *)
(* happens through one Redis channel.  A process loads what is in Redis    *)
(* when its connection is established and only then opens its acceptor.    *)
(*                                                                         *)
(* Redis takes the commands of one process in order and may serve another  *)
(* process between any two of them.  The commands of a process that have   *)
(* not been executed when its connection is lost are lost, and so are the  *)
(* answers that are on their way.                                          *)
(*                                                                         *)
(* Every id is published at most once.  MaxConnects bounds the connections *)
(* to Redis, MaxReconnects those made by a process that keeps running,     *)
(* MaxViews the views and MaxDeletes the delete requests.  With Quiet,     *)
(* processes come and go only while no request is in progress, and clients *)
(* wait while a process connects.  With Seen, clients ask a process only   *)
(* about posts that it has.                                                *)
(*                                                                         *)
(* A process passes the body of a request to count a view on to the others *)
(* as it is.  Bodies are the bodies that clients send.  The app sends the  *)
(* cmd "visualization"; what holds only if every client does, holds only   *)
(* if ViewsOnly.                                                           *)
(***************************************************************************)
EXTENDS Channel

CONSTANTS Node, User, Id,
          Code,           \* the location and the product of the post of an id
          Admin,          \* chat_admin_id
          None,           \* no post
          Bodies,         \* the bodies POSTed to /posts/visualization
          MaxConnects, MaxReconnects, MaxViews, MaxDeletes,
          Quiet, Seen

ASSUME PostsAssumption ==
  /\ Id \subseteq Nat /\ IsFiniteSet(Id)
  /\ Admin \in User
  /\ Code \in [Id -> [location : Seq(Nat), product : Seq(Nat)]]
  /\ {MaxConnects, MaxReconnects, MaxViews, MaxDeletes} \subseteq Nat
  /\ {Quiet, Seen} \subseteq BOOLEAN

Post == [id : Id, from : User, visualizations : Nat,
         location : Seq(Nat), product : Seq(Nat)]
Visual == [id : Id, n : Nat]

ASSUME NoneIsNoPost == None \notin Post

\* What is published on posts_channel; "none" stands for any other cmd and for
\* what on_db_channel_post() cannot parse.
News == [cmd : {"publish_internal"}, post : Post]
          \cup [cmd : {"delete"}, id : Id, from : User]
          \cup [cmd : {"visualization"}, id : Id]
          \cup [cmd : {"none"}]

\* A body names a post (post_id) and is published as news, in which "delete" and
\* "visualization" mean the same post_id.
ASSUME BodiesAssumption ==
  \A b \in Bodies :
    /\ b.id \in Id /\ b.news \in News
    /\ b.news.cmd \in {"delete", "visualization"} => b.news.id = b.id

\* Clients send what counts a view, or nothing that the processes understand.
ViewsOnly == \A b \in Bodies : b.news.cmd \in {"visualization", "none"}
\* Clients send no post that has been viewed.
NoViewsBrought ==
  \A b \in Bodies :
    b.news.cmd = "publish_internal" => b.news.post.visualizations = 0

VARIABLES running,   \* the process runs
          posts,     \* posts_
          serving,   \* acceptor_.is_open()
          \* Redis and the connections to it:
          stored,    \* the hash posts_key: the posts
          removed,   \* the hash removed_posts_key: a post, or None, by id
          views,     \* the hash post_visualizations_key, 0 for no entry
          subs,      \* the processes subscribed to posts_channel
          pipe,      \* commands of a process not yet executed
          reply,     \* answers and news not yet handled by a process
          \* History, read by the guards for their bounds only:
          connects, reconnects, deletes,
          asked,     \* the views requested
          published, \* the post of each id, None before it is published
          withdrawn  \* posts that their author or the admin asked a process
                     \* that had them to delete

workerVars == <<running, posts, serving>>
redisVars == <<stored, removed, views, subs>>
history == <<connects, reconnects, deletes, asked, published, withdrawn>>
vars == <<workerVars, redisVars, pipe, reply, history>>

Command ==
  [op : {"hvals", "subscribe", "hgetall"}]
    \cup [op : {"hset"}, post : Post]
    \cup [op : {"archive"}, id : Id, post : Post]
    \cup [op : {"hdel", "hincrby"}, id : Id]
    \cup [op : {"publish"}, news : News]
Event ==
  [type : {"hvals"}, posts : Seq(Post)]
    \cup [type : {"hgetall"}, visual : Seq(Visual)]
    \cup [type : {"push"}, news : News]

Init ==
  /\ running = [n \in Node |-> FALSE]
  /\ posts = [n \in Node |-> <<>>]
  /\ serving = [n \in Node |-> FALSE]
  /\ stored = {} /\ removed = [i \in Id |-> None] /\ views = [i \in Id |-> 0]
  /\ subs = {}
  /\ pipe = [n \in Node |-> <<>>]
  /\ reply = [n \in Node |-> <<>>]
  /\ connects = 0 /\ reconnects = 0 /\ deletes = 0
  /\ asked = [i \in Id |-> 0]
  /\ published = [i \in Id |-> None]
  /\ withdrawn = {}

-----------------------------------------------------------------------------
(* The requests that the handlers send to Redis.                           *)

Request(n, cmds) == pipe' = [pipe EXCEPT ![n] = @ \o cmds]
Publish(news) == [op |-> "publish", news |-> news]

\* Mutant: the acceptor is opened before the posts are loaded.
HelloCmdsViewsFirst ==
  <<[op |-> "hgetall"], [op |-> "hvals"], [op |-> "subscribe"]>>
\* on_hello().
HelloCmds == <<[op |-> "hvals"], [op |-> "subscribe"]>>

\* Mutant: the other processes are not told.
PublishCmdsUntold(p) == <<[op |-> "hset", post |-> p]>>
PublishCmds(p) ==
  <<[op |-> "hset", post |-> p],
    Publish([cmd |-> "publish_internal", post |-> p])>>

\* Mutant: the post is archived last.
DeleteCmdsArchiveLast(id, u, p) ==
  <<[op |-> "hdel", id |-> id],
    [op |-> "archive", id |-> id, post |-> p],
    Publish([cmd |-> "delete", id |-> id, from |-> u])>>
\* Mutant: the post goes from Redis only.
DeleteCmdsUntold(id, u, p) ==
  <<[op |-> "archive", id |-> id, post |-> p], [op |-> "hdel", id |-> id]>>
DeleteCmds(id, u, p) ==
  <<[op |-> "archive", id |-> id, post |-> p],
    [op |-> "hdel", id |-> id],
    Publish([cmd |-> "delete", id |-> id, from |-> u])>>

ViewCmds(b) == <<Publish(b.news), [op |-> "hincrby", id |-> b.id]>>

-----------------------------------------------------------------------------
(* A process connects, loses its connection, and stops.                    *)

Connecting ==
  \E n \in Node : \E i \in DOMAIN pipe[n] :
    pipe[n][i].op \in {"hvals", "subscribe"}
Idle == \A n \in Node : pipe[n] = <<>> /\ reply[n] = <<>>

\* The process starts and on_hello() is called.
Start(n) ==
  /\ ~running[n] /\ connects < MaxConnects /\ (Quiet => Idle)
  /\ running' = [running EXCEPT ![n] = TRUE]
  /\ connects' = connects + 1
  /\ Request(n, HelloCmds)
  /\ UNCHANGED <<posts, serving, redisVars, reply, reconnects, deletes, asked,
                 published, withdrawn>>

\* The connection is lost and established again: on_hello() is called and
\* posts_ is kept.
Reconnect(n) ==
  /\ running[n] /\ reconnects < MaxReconnects /\ (Quiet => Idle)
  /\ reconnects' = reconnects + 1
  /\ subs' = subs \ {n}
  /\ pipe' = [pipe EXCEPT ![n] = HelloCmds]
  /\ reply' = [reply EXCEPT ![n] = <<>>]
  /\ UNCHANGED <<workerVars, stored, removed, views, connects, deletes, asked,
                 published, withdrawn>>

\* The process is shut down or crashes.
Stop(n) ==
  /\ running[n] /\ (Quiet => Idle)
  /\ running' = [running EXCEPT ![n] = FALSE]
  /\ posts' = [posts EXCEPT ![n] = <<>>]
  /\ serving' = [serving EXCEPT ![n] = FALSE]
  /\ subs' = subs \ {n}
  /\ pipe' = [pipe EXCEPT ![n] = <<>>]
  /\ reply' = [reply EXCEPT ![n] = <<>>]
  /\ UNCHANGED <<stored, removed, views, history>>

-----------------------------------------------------------------------------
(* HTTP requests, and publish over the websocket.                          *)

Served(n) == serving[n] /\ (Quiet => ~Connecting)

\* on_publish_impl(): the post gets a new id.  The process itself learns of
\* the post from the channel, like all others.
OnPublish(n, u, id) ==
  /\ Served(n) /\ published[id] = None
  /\ LET p == [id |-> id, from |-> u, visualizations |-> 0,
               location |-> Code[id].location, product |-> Code[id].product]
     IN  /\ Request(n, PublishCmds(p))
         /\ published' = [published EXCEPT ![id] = p]
  /\ UNCHANGED <<workerVars, redisVars, reply, connects, reconnects, deletes,
                 asked, withdrawn>>

\* delete_post(): nothing happens if get() returns no post.
OnDelete(n, u, id) ==
  /\ Served(n) /\ deletes < MaxDeletes
  /\ deletes' = deletes + 1
  /\ Seen => Place(posts[n], id) # 0
  /\ \E p \in Get(posts[n], id) : Request(n, DeleteCmds(id, u, p))
  /\ withdrawn' = withdrawn \cup
       {i \in {id} : \E k \in DOMAIN posts[n] :
                       posts[n][k].id = i /\ u \in {posts[n][k].from, Admin}}
  /\ UNCHANGED <<workerVars, redisVars, reply, connects, reconnects, asked,
                 published>>

\* on_visualization(): any post id is accepted, and the body is published as it
\* came, whatever its cmd is.
OnView(n, b) ==
  /\ Served(n) /\ FoldFunction(+, 0, asked) < MaxViews
  /\ Seen => Place(posts[n], b.id) # 0
  /\ asked' = [asked EXCEPT ![b.id] = @ + 1]
  /\ Request(n, ViewCmds(b))
  /\ UNCHANGED <<workerVars, redisVars, reply, connects, reconnects, deletes,
                 published, withdrawn>>

-----------------------------------------------------------------------------
(* Answers and news from Redis.                                            *)

Receive(n, type) ==
  /\ reply[n] # <<>>
  /\ Head(reply[n]).type = type
  /\ reply' = [reply EXCEPT ![n] = Tail(@)]

OnHvals(n) ==
  /\ Receive(n, "hvals")
  /\ posts' = [posts EXCEPT ![n] = AddPosts(@, Head(reply[n]).posts)]
  /\ Request(n, <<[op |-> "hgetall"]>>)
  /\ UNCHANGED <<running, serving, redisVars, history>>

OnHgetall(n) ==
  /\ Receive(n, "hgetall")
  /\ posts' = [posts EXCEPT ![n] =
                 LoadVisualizations(@, Head(reply[n]).visual)]
  /\ serving' = [serving EXCEPT ![n] = TRUE]
  /\ UNCHANGED <<running, redisVars, pipe, history>>

\* on_db_channel_post().  Expired posts are never removed.
OnNews(n) ==
  /\ Receive(n, "push")
  /\ LET e == Head(reply[n]).news
     IN  posts' = [posts EXCEPT ![n] =
           CASE e.cmd = "publish_internal" -> AddPosts(@, <<e.post>>)
             [] e.cmd = "delete" -> RemovePost(@, e.id, e.from, e.from = Admin)
             [] e.cmd = "visualization" -> OnVisualization(@, e.id)
             [] e.cmd = "none" -> @]
  /\ UNCHANGED <<running, serving, redisVars, pipe, history>>

OnReply(n) == OnHvals(n) \/ OnHgetall(n) \/ OnNews(n)

-----------------------------------------------------------------------------
(* Redis executes the next command of a process.                           *)

Exec(n, op) ==
  /\ pipe[n] # <<>>
  /\ Head(pipe[n]).op = op
  /\ pipe' = [pipe EXCEPT ![n] = Tail(@)]

Answer(n, e) == reply' = [reply EXCEPT ![n] = Append(@, e)]

\* The values of a hash come in no particular order.
ExecHvals(n) ==
  /\ Exec(n, "hvals")
  /\ \E s \in SetToSeqs(stored) : Answer(n, [type |-> "hvals", posts |-> s])
  /\ UNCHANGED redisVars

ExecHgetall(n) ==
  /\ Exec(n, "hgetall")
  /\ \E s \in SetToSeqs({i \in Id : views[i] > 0}) :
       Answer(n, [type |-> "hgetall",
                  visual |-> [k \in DOMAIN s |-> [id |-> s[k], n |-> views[s[k]]]]])
  /\ UNCHANGED redisVars

ExecSubscribe(n) ==
  /\ Exec(n, "subscribe")
  /\ subs' = subs \cup {n}
  /\ UNCHANGED <<stored, removed, views, reply>>

ExecHset(n) ==
  /\ Exec(n, "hset")
  /\ stored' = stored \cup {Head(pipe[n]).post}
  /\ UNCHANGED <<removed, views, subs, reply>>

ExecArchive(n) ==
  /\ Exec(n, "archive")
  /\ removed' = [removed EXCEPT ![Head(pipe[n]).id] = Head(pipe[n]).post]
  /\ UNCHANGED <<stored, views, subs, reply>>

ExecHdel(n) ==
  /\ Exec(n, "hdel")
  /\ stored' = {p \in stored : p.id # Head(pipe[n]).id}
  /\ UNCHANGED <<removed, views, subs, reply>>

ExecHincrby(n) ==
  /\ Exec(n, "hincrby")
  /\ views' = [views EXCEPT ![Head(pipe[n]).id] = @ + 1]
  /\ UNCHANGED <<stored, removed, subs, reply>>

ExecPublish(n) ==
  /\ Exec(n, "publish")
  /\ reply' = [m \in Node |->
                 IF m \in subs
                 THEN Append(reply[m], [type |-> "push",
                                        news |-> Head(pipe[n]).news])
                 ELSE reply[m]]
  /\ UNCHANGED redisVars

Redis(n) ==
  /\ \/ ExecHvals(n) \/ ExecHgetall(n) \/ ExecSubscribe(n)
     \/ ExecHset(n) \/ ExecArchive(n) \/ ExecHdel(n)
     \/ ExecHincrby(n) \/ ExecPublish(n)
  /\ UNCHANGED <<workerVars, history>>

-----------------------------------------------------------------------------

Next ==
  \E n \in Node :
    \/ Start(n) \/ Reconnect(n) \/ Stop(n)
    \/ \E b \in Bodies : OnView(n, b)
    \/ \E id \in Id, u \in User : OnPublish(n, u, id) \/ OnDelete(n, u, id)
    \/ OnReply(n) \/ Redis(n)

Spec == Init /\ [][Next]_vars

\* Redis serves every connection and every process takes its replies.
Fairness == \A n \in Node : WF_vars(Redis(n)) /\ WF_vars(OnReply(n))
FairSpec == Spec /\ Fairness

-----------------------------------------------------------------------------
(* Properties.                                                             *)

\* What is on its way to a process.
NewsFor(n) ==
  {reply[n][i].news : i \in {j \in DOMAIN reply[n] : reply[n][j].type = "push"}}
    \cup UNION {{pipe[m][i].news :
                   i \in {j \in DOMAIN pipe[m] : pipe[m][j].op = "publish"}} :
                 m \in Node}

\* A search for posts like that of id finds it on n.
Finds(n, id) ==
  \E p \in ToSet(Query(posts[n], Code[id])) : p.id = id

\* Type invariant of the processes, Redis and the connections.
TypeOK ==
  /\ running \in [Node -> BOOLEAN]
  /\ posts \in [Node -> Seq(Post)]
  /\ serving \in [Node -> BOOLEAN]
  /\ stored \in SUBSET Post
  /\ removed \in [Id -> Post \cup {None}]
  /\ views \in [Id -> Nat]
  /\ subs \in SUBSET Node
  /\ pipe \in [Node -> Seq(Command)]
  /\ reply \in [Node -> Seq(Event)]
  /\ connects \in Nat /\ reconnects \in Nat /\ deletes \in Nat
  /\ asked \in [Id -> Nat]
  /\ published \in [Id -> Post \cup {None}]
  /\ withdrawn \in SUBSET Id

\* posts_ is sorted by id (channel.hpp:18), whatever arrives in which order:
\* lower_bound in get() and upper_bound in add_post() depend on it.
Sorted ==
  \A n \in Node : \A i, j \in DOMAIN posts[n] :
    i < j => posts[n][i].id <= posts[n][j].id

\* A process that accepts requests finds every post that is stored in Redis,
\* unless it is about to be told of it: loading at start and the news of the
\* others leave no gap.  Clients send ViewsOnly.
Shown ==
  \A n \in Node : serving[n] =>
    \A p \in stored :
      \/ Finds(n, p.id)
      \/ [cmd |-> "publish_internal", post |-> p] \in NewsFor(n)

\* A post that its author or the admin deleted is gone from every process that
\* accepts requests, unless it is about to be told of the deletion.  Clients
\* send ViewsOnly.
Gone ==
  \A n \in Node, id \in withdrawn : serving[n] =>
    \/ \A k \in DOMAIN posts[n] : posts[n][k].id # id
    \/ \E u \in {published[id].from, Admin} :
         [cmd |-> "delete", id |-> id, from |-> u] \in NewsFor(n)

\* A post leaves Redis only after it was archived, as the post that it is
\* (worker.cpp:316-317), although another process may delete it as well and the
\* process that archives it takes it from posts_.  Clients are Seen, for get()
\* returns another post for an id that the process does not have, and send
\* ViewsOnly.
Archived ==
  [][\A p \in stored \ stored' :
       /\ removed[p.id] # None
       /\ [removed[p.id] EXCEPT !.visualizations = 0] = p]_vars

\* No view is counted twice although a process learns of views both from the
\* channel and from the numbers it loads: what a post shows and what is still on
\* its way to the process add up to no more than the views requested.  Clients
\* send NoViewsBrought.
ViewedOnce ==
  \A n \in Node : \A k \in DOMAIN posts[n] :
    LET news == [cmd |-> "visualization", id |-> posts[n][k].id]
        announced == UNION {{<<m, i>> : i \in {j \in DOMAIN pipe[m] :
                                           pipe[m][j] = Publish(news)}} :
                              m \in Node}
        received == {i \in DOMAIN reply[n] :
                       reply[n][i] = [type |-> "push", news |-> news]}
    IN  posts[n][k].visualizations + Cardinality(announced)
          + Cardinality(received) <= asked[posts[n][k].id]

\* A process that keeps running eventually accepts requests and finds every
\* post that stays in Redis.  Clients send ViewsOnly.
StoredIsFound ==
  \A n \in Node, id \in Id :
    <>[](running[n] /\ \E p \in stored : p.id = id) =>
      <>(serving[n] /\ Finds(n, id))
=============================================================================
