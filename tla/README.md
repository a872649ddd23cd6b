# Verification of occase

TLA+ modules about the two programs of this repository, `occase-db` (the
server the apps talk to) and `occase-notify` (which sends push notifications),
with TLC runs on small instances and TLAPS proofs.

## The system

Several `occase-db` processes serve apps over websockets and HTTP.  They share
nothing but one Redis server: it holds a list of undelivered chat messages per
user, the posts, the numbers of views and the FCM tokens, and it carries news
between the processes (keyspace notifications and pub/sub).  `occase-notify`
listens to Redis and notifies users whose messages nobody retrieves in time.
Each process is single threaded (`BOOST_ASIO_CONCURRENCY_HINT_UNSAFE`), so a
handler is atomic; everything hard comes from what lies between handlers:
commands that Redis executes one by one for several clients, answers that
arrive later, write completions, timers, and connections that end.

| Component | State | Operations | Hard part |
|---|---|---|---|
| worker, chat (`worker.cpp`) | `sessions_`, `user_ids_chat_queue` | login, chat message, presence, publish ack, rpush notification, LRANGE answer, end of a session, shutdown, lost connection | overrides, two processes on one list, answers matched by position |
| worker, start and end (`worker.cpp`) | acceptor, `signal_set_` | on_hello to on_hgetall, on_signal, shutdown_impl, on_quit | what is queued or on its way when the shutdown begins |
| websocket session (`ws_session.hpp`) | `msg_queue_`, `closing_`, `pub_hash_`, `pong_counter_` | send, on_write, shutdown, finish, pong | one write at a time, hand-over of unsent messages, which timer runs when |
| worker, posts (`worker.cpp`) | `posts_`, acceptor | on_hello, on_hvals, on_hgetall, publish, delete, visualization, news | loading while news come, reconnection, several commands per operation |
| channel (`channel.cpp`) | a sorted vector of posts | add_post, get, remove_post, on_visualization, query, load_visualizations | order, lookups by lower bound |
| occase-notify (`notifier.cpp`) | `tokens_` with a timer and a message each | message, token, del event, timeout, load | handlers that cannot be recalled, erased entries, two sources of tokens |
| FCM session (`ntf_session.cpp`) | one HTTPS request | connect, handshake, write, read, shutdown | a stage without a timer |
| HTTP API (`http_session_impl.hpp`, plain and TLS session) | one request per connection | detect, handshake, publish, delete, search, count, visualization, upgrade | timers from stage to stage, handlers that throw |
| acceptor (`acceptor_mgr.cpp`) | open or not, an accept that waits | run, on_accept, shutdown | lack of descriptors, an accept that is complete when it is cancelled |
| test clients (`occase-db-tests.cpp`) | a script each | replier, publisher, offline, no_login | they assert the order of the frames |
| crypto, configuration, logging, statistics | none shared | | not modelled |

Interactions: the acceptor starts an HTTP session, which may become a websocket
session; that calls `worker::on_app` for each frame and
`worker::on_session_dtor` when it ends; the worker calls `send` and `shutdown`
of sessions; the aedis client library calls the worker's `on_...` functions for
answers and pushes; `occase-db` and `occase-notify` meet only in Redis.

What makes the parts correct: `sessions_` leads to the live session of each
user and no other; a message reaches its addressee or waits for him, and no one
else; every process has the posts that Redis has, once it accepts requests, and
loses those that are deleted; nobody is notified twice, or of a message he has;
no client that does nothing holds a descriptor for long; a process that is
told to end does end.

## Modules

| Module | Models | Uses |
|---|---|---|
| `ChatBase` | vocabulary: users, messages, frames, keys of lists | |
| `WsSession` | the websocket sessions of all processes | `ChatBase` |
| `RedisChat` | Redis and the connections to it, for chat (external) | `ChatBase` |
| `ChatWorker` | the chat part of the worker, composed with both | `WsSession`, `RedisChat` |
| `Mailbox` | abstract: what the system promises about persistent messages | |
| `Clients` | the scripts of the test clients, composed with the chat path | `ChatWorker` |
| `Channel` | the vector of posts as pure operators | |
| `ChannelTests` | `channel_tests()`, evaluated on these operators | `Channel` |
| `Posts` | the posts part of the workers, with Redis | `Channel` |
| `Notifier` | occase-notify, with Redis and what occase-db asks of it | |
| `FcmSession` | the sessions with FCM, composed with what starts them | `Notifier` |
| `Connection` | one process from accept to exit: acceptor, HTTP, the opening and closing of websockets, start and shutdown | |
| `MCChat`, `MCClients`, `MCPosts`, `MCNotifier`, `MCConnection` | instances for TLC | |
| `Ordering` | facts about enumerating finite sets in order, and about loops | `TLAPS` |
| `ChatWorkerProofs`, `PostsProofs`, `NotifierProofs`, `ConnectionProofs` | theorems | `TLAPS` |
| `ChatDeliveryProofs`, `ChatMailboxProofs` | theorems that build on those of `ChatWorkerProofs`, the second on the first | |
| `PostsNewsProofs` | theorems that build on those of `PostsProofs` | |

An action is a whole handler, with the requests it sends: `OnAppLogin` is
`on_app_login` including the override of an older session, the request to Redis,
the acknowledgement; `OnAppLoginThrows` is the same handler when the token is no
string (`worker.cpp:527`): the session has its entry, the old one is shut down,
nothing was asked of Redis, and `handle_ev` shuts the new one down;
`OnReadError` is `finish` with `on_session_dtor`.  The
variables carry the names of the members without underscore (`sessions`,
`chatQueue` for `user_ids_chat_queue`, `queue` for `msg_queue_`, `hash` for
`pub_hash_`, `posts`, `tokens`).  A request appends commands to `pipe[n]`;
Redis executes the head of some pipeline (`Exec...` actions), so commands of
one process keep their order and commands of different processes interleave;
answers and pushes come back in order through `reply[n]` or `inbox`.
History variables (`to`, `delivered`, `givenUp`, `severed`, `asked`,
`received`, `age`, `late`, ...) are there for the properties and for the bounds
only.

Abstractions:

- Chat: the counter, EXPIRE and the PUBLISH to occase-notify of
  `store_chat_msg` are not in `ChatWorker` (the expiry of a list is
  the action `ListExpires`, at any time; the PUBLISH is in `Notifier`).  The two
  channels of a user (keyspace and presence) are subscribed to together, so they
  are one subscription.  The websocket may complete or fail a write and fail
  the read at any time.  `finish` ends the handlers of a session.
- Shutdown in `ChatWorker`: `ShutdownImpl` closes the sessions and appends QUIT;
  Redis executes what was sent before it and nothing after it (`Executable`).
- Loss of the connection to Redis in `ChatWorker`: `LinkLost` takes the pipeline,
  the answers and the subscriptions of the process; `sessions` and `chatQueue`
  stay as they are, since `on_hello` touches neither.  Commands that were under
  way are not sent again (aedis is outside the repository; the code keeps no
  copy of them).  From then on the names in `chatQueue` are those of answers
  that never come, and an answer may be given to another user: mail of one user is
  then written to the websocket of another, or moved to his list.  This happens
  in the model as it does in the code; the mail concerned is counted as given up
  (`Misled`), never as delivered.  In a run a process is either stopped or loses
  its connection once.
- Keys: a name is a user id with a number of prefixes, because the code builds
  `chat:<user>` and, from that, `chat:chat:<user>`.
- Clients: a client that has written a frame only reads until it is answered,
  so writing the frame and its handling are one step, and so are the write of
  the server and the read of the client.
- Posts: ids are numbers, since only their order matters.  A post has the fields
  that are read.  Redis hashes answer in any order.  The commands of a process
  that stops or reconnects are lost if not executed, and so are the answers.
  `on_visualization` publishes the body of the request as it came
  (`worker.cpp:382`) and `on_db_channel_post` goes by the `cmd` it finds there.
  `Bodies` is the set of bodies that clients send: each names a post id and is one
  of the news that the processes know, or none of them.  `ViewsOnly` says that
  no body is a publication or a deletion, `NoViewsBrought` that none publishes a
  post that already has views; what depends on them says so.
- Notifier: a timer has waits that are pending and handlers in the queue of the
  io_context, which nothing recalls.  If the entry is erased its queued handlers
  dangle; running one is undefined behaviour, modelled as finding the old
  entry, finding garbage, or the end of the process.  FCM is configured.
  The messages that a session hands back when it ends are announced again by
  `store_chat_msg`; `Notifier` stores each message once.  Which processes are
  subscribed to the key of a user, and when a notification reaches them, is not
  followed: `Retrieve`, the LRANGE and DEL of `on_push` or of a login without
  a token, may come at any time and for any user.
- Connection: time passes in ticks, and `due[c]` is what is left on the timer of
  a stream.  The kernel, Beast and Asio are modelled from how the code uses them
  (the backlog, EMFILE, the idle ping at half of the idle time).  What a
  websocket carries after the login is the matter of `ChatWorker`: here each
  client logs in as a user of his own.  What a request does to the posts is the
  matter of `Posts`; targets, status codes and texts of the responses are left
  out.  Every byte that arrives restarts the idle timer of a websocket.  The
  clients in `Lively` make use of that before or without logging in: they send
  pings, or bytes of a message that they do not finish (`OnBytes`).

## Runs

| Run | Module | Checks | Result |
|---|---|---|---|
| `ChatOneProcess` | 1 process, which may stop or lose Redis once, 2 sessions, 2 users, one piece of mail that is a chat message or a publish ack, 2 logins, fair | `OneWriter`, `MailboxSpec`, `OnlineUserGetsMail` | holds |
| `ChatTwoProcesses` | 2 processes, 2 sessions, 2 users, such a piece of mail and a presence, 3 logins | `TypeOK`, `LrangeAligned`, `MapSound`, `SubscriptionTracksSession`, `OnlyAddressee` | holds |
| `ChatForeignKey` | 2 processes | `MailUnderUserKey` | violated |
| `ChatReadThenDelete` | 2 processes | `NothingLost` | violated |
| `ChatReconnect` | 1 process that loses Redis | `NotifiedWhileOnline` | violated |
| `ChatClients` | 1 process, test 4 with two silent clients, test 5 with one pair and three messages each way, test 6 with two pairs | `AsExpected`, `EveryTestEnds`, `NothingRemains` | holds |
| `PostsQuiet` | 2 processes, 2 ids, author and admin, 3 starts, fair, `Quiet`, `Seen`, `ViewsOnly` | `Shown`, `Gone`, `StoredIsFound`, `Archived` | holds |
| `PostsAnytime` | 2 processes, 2 ids, 3 starts, 1 reconnection, at any time, no delete requests, bodies that are views, deletions, publications or nothing | `TypeOK`, `Sorted`, `ViewedOnce` | holds |
| `PostsReconnect` | 1 process, 1 reconnection | `Gone` | violated |
| `NotifierTimers` | 1 process, 1 user, 2 messages, 2 tokens, at most 2 DELs on their way and 2 events not handled, 1 session followed, fair | `TypeOK`, `OneNotification`, `TimerHasMessage`, `TokenNeverOlder`, `MessageIsNotified`, `SessionEnds` | holds |
| `NotifierDel` | small | `RetrievedIsNotNotified` | violated |
| `Connections` | 2 connections, one with TLS, one `Lively`; 1 descriptor, a backlog of 2, each timeout 1 and the idle one 2, Redis lost once, fair | `TypeOK`, `SessionsCounted`, `BoundedStay`, `StaysStopped`, `Served`, `NoLoginDropped`, `Exits` | holds |

Every property of a passing run comes with a mutant of the code (definitions
introduced by "Mutant:") under which TLC finds it violated.

### What the passing runs show

*Chat.*  With one process the chat path refines `Mailbox`: each step accepts a
message, delivers one, discards some, refuses one, or changes no mailbox.  Whom
a message is held for is read off the place where it is (the user whose list or
session that is), and whom it is delivered to off the websocket it is written
to.  `Mailbox` lets a message be delivered only to the user it is held for and
lets no message pass from one user to another, so nothing is delivered twice or
forgotten on the way between list, pipeline, answer and session queue, and
nothing goes to somebody else but what is given up openly.  What may be discarded
is named: the queue of an overridden session (which the comment at
`worker.cpp:494-498` admits), an expired list, what a session hands over after
QUIT was sent (`Unstored`), what was under way when the connection was lost
(`severed`), and what `on_lrange` forwards or stores under a name that the lost
connection left over (`Misled`): this mail does reach another user, and the
refinement shows that it happens in no other way.  A message that was under way
may also be delivered a second time if Redis had not yet executed the DEL.  A
message that reaches a process after its QUIT and whose addressee is offline is
refused.  The publish ack is part of this since it is sent with `persist = true`
too.  `OnlineUserGetsMail` adds that mail for a user whose session and process
stay up arrives.

With two processes the weaker properties hold: the queue of names stays aligned
with the answers, the map of sessions is exact, subscriptions follow the map
(of a session that is being closed, which may have got its entry in a login
that threw, only that its end leaves no subscription behind), and mail waits
only with its addressee.  Three logins on two sessions include an
overridden session that logs in again before its close completes; two sessions
on two processes include one user at both.

*Clients.*  The frames arrive in the order in which the test programs of the
repository assert them: the ack of the server before the answer of the peer,
questions in order, letters to a user who is offline when he comes back.  Every
script comes to its end, and when all have left, `sessions_`, the
subscriptions, `user_ids_chat_queue` and the lists are empty.  In test 6 the
two pairs act at the same time.

*Posts.*  `PostsQuiet` has the best conditions: `Quiet` (processes come and go only
while no request is in progress, and clients wait while a process connects),
`Seen` (clients name posts that the process has) and `ViewsOnly` (the bodies of
views are views, or nothing that the processes understand).  Then what the two halves of
`on_hello` and the news do together is right.  The conditions are needed:
without `Quiet` a post that is published between the HVALS and the SUBSCRIBE of
a starting process is missed by it (`worker.cpp:84-90`), without `Seen`
`delete_post` archives another post under the id the client names
(`channel.cpp:25`), and without `ViewsOnly` a body may take a post that is
stored from the processes, bring back one that was deleted, or put other content
in its place (`worker.cpp:382`).  `PostsAnytime` drops all three and keeps what
holds nevertheless: the order of the vector, for any bodies, and the count of
views, as long as no body brings a post with views (delete requests are left out
of it: they take posts away and add no views).  Two posts, one below the other in the tree of locations, suffice
for a wrong lower bound, an unsorted vector and a load out of step; three starts
let a process start again after another one wrote.  `load_visualizations` stops
at the first post without an entry: `channel_tests()` asserts exactly this, and
`ChannelTests` evaluates its assertions.

*Notifier.*  Two messages and two tokens are enough for one message to overtake
another at the timer and one token to replace another; one start, which may be
late, finds the hash as a restart would.  One of the messages lacks the fields
`body` and `nick`, on which the handler throws.  `OneNotification` admits one
thing worth knowing: a message that arrives while the handler of an expired wait
is queued is notified by that handler and again by its own, and the older one
never.  The sessions with FCM end once their handshake is done.

*Connections.*  `BoundedStay` bounds, stage by stage, how long a connection may
last: every connection until it is a websocket, however slowly its client sends
or reads, and a websocket whose client neither logs in nor is `Lively`.  Of a
`Lively` client the code does not guarantee it: each byte of a message that
never ends restarts the idle timer, and no pong is asked of him.  `Served` and
`NoLoginDropped` say the same from the side of who waits, with the same
exception.  `Exits` excludes what the code does not guarantee:
an accept whose handler was queued when `shutdown_impl` cancelled it is served
and starts the next accept, which nothing cancels; a reply to HGETALL that is on
its way opens the acceptor of a process that is leaving; a login after the
shutdown is not told to go; a websocket that has not logged in is not told
either, and stays while its client is `Lively`.  One descriptor for two
connections lets accept fail and recover.

The bounds are on the environment alone: each message, id and token is used
once, and `MaxLogins`, `MaxConnects`, `MaxReconnects`, `MaxViews`, `MaxDeletes`,
`MaxOff`, `MaxStarts`, `MaxDels`, `MaxInbox`, `MaxSessions`, `MaxLosses`, `Losing`
and `Stoppable` limit what else it may repeat.  When they are used up the system comes to rest,
hence `CHECK_DEADLOCK FALSE`; that it does not rest too early is what the
liveness properties are for.  Symmetry is used in runs without liveness, for
sets whose elements no definition tells apart.

### What the violations show

| Run | Code | Says otherwise |
|---|---|---|
| `ChatForeignKey` | `worker.cpp:163` keeps the key instead of the user id: mail that another process sent is looked up under the wrong name and moved to `chat:chat:<user>` | `config.hpp:39-41`, `intro.txt:47-48` |
| `ChatReadThenDelete` | LRANGE and DEL are not one step: `worker.cpp:158-159`, `559-562` | `ws_session.hpp:251-252` |
| `ChatReconnect` | `worker.cpp:84-90` subscribes to the channel of posts again, not to those of the users who are online | `worker.cpp:550-557`, `intro.txt:45-46` |
| `PostsReconnect` | `worker.cpp:84-90` adds all posts again and removes none | `worker.cpp:304-306` |
| `NotifierDel` | `notifier.cpp:166` looks up a key among user ids | `management.txt:30-31` |

### Fairness

Redis executes what it is sent and each process takes what arrives on its
connection (weak fairness per process).  In the chat modules an outstanding write
completes or fails, and the read of a session that is closing, or whose write
failed, fails in the end: the handshake and idle timeouts set in
`ws_session_impl::run` (`ws_session.hpp:214-222`) see to that.  In `Notifier` timers
expire and queued handlers run; in `FcmSession` only the timers that are set do.
In `Connection` time passes, timers fire, the kernel accepts, Redis answers and
`run()` returns when nothing is left.  Nothing is assumed of apps, nor of
signals: no action that starts a request, a login, a process, a loss or a stop
is fair.  `Clients` is the exception, because there the clients are the tests:
they go on with their scripts, and nothing fails.

## Proofs

`ChatWorkerProofs` proves, for any sets of processes, sessions, users and
messages, with stops and lost connections, from the assumptions
`ConstantsDiffer` and `MaxLoginsAssumption`:

- `TypeCorrect`: `Spec => []TypeOK`.  The work is in the sequences of commands and
  events and in `Unsent`, a filtered queue: `Ordering` proves that a finite
  set of numbers has an ascending enumeration.
- `SingleWriter`: `Spec => []OneWriter`.  Neither it nor `TypeOK` is inductive
  alone: `on_write` pops the front of a queue that only `OneWriter` shows to be
  non-empty, and `Send` starts a write on an empty queue, which has none out.
  `Inv == TypeOK /\ OneWriter` is.
- `MapIsSound`: `Spec => []MapSound`.  The strengthening adds that a session not
  yet accepted is logged in as nobody; the hard case is the login that overrides,
  where the old session keeps running but must cease to be anyone's entry.

`ChatDeliveryProofs` goes on to what is between a process and Redis:

- `AnswersFindTheirNames`: `Spec => []LrangeAligned`.  The names in `chatQueue` are
  those of the LRANGE in the pipeline and of their answers, in this order
  (`Awaited`, a filtered sequence); appending a request, executing one and
  handling an answer each keep it (`Aligned`).  A lost connection breaks it for
  good, which is why the property ends there.
- `SubscriptionsFollow`: `Spec => []SubscriptionTracksSession`.  The last command in
  the pipeline about a user decides (`Leads`).  The strengthening is `NoQuit`, that a
  connection that was not told to end has no QUIT in its pipeline, since QUIT
  drops every subscription.  A session whose login threw is in the map without a
  subscription, but it is closing (`Tracks`); the hard case is taking the head of a pipeline, which
  may be the last command about a user or one that a later one overrules.
- `MailOnlyAtAddressee`: `Spec => []OnlyAddressee`.  The property speaks of
  lists and sessions; its strengthening `AllMeant` extends it to the pipelines and
  the answers.  That an answer goes to the right session rests on `LrangeAligned`,
  and that the session of a name is his on `MapSound`: a list read under one name
  and forwarded under another is how mail would go astray.  After a lost
  connection it does; that mail is excepted by name (`givenUp`).

`ChatMailboxProofs` proves, for one process (`OneProcess`) and any sets of sessions,
users and messages, that the chat path implements `Mailbox`:

- `MailboxImplemented`: `ASSUME OneProcess PROVE Spec => MailboxSpec`.  What is held
  is collected from lists, pipelines, answers and queues, so the refinement needs
  to know where a message is.  The invariant `MailboxInv` adds to that of
  `ChatDeliveryProofs`: DEL follows its LRANGE in the pipeline, so that a
  list that was read is as good as empty (`PipeInv`); a process that leaves has
  QUIT before it, and connections are lost once (`LinkInv`); mail in a queue
  persists, and a session that was overridden holds only mail that was given up
  (`QueueInv`), so that `finish` returns all that `on_write` has not confirmed;
  nothing is anywhere that was not sent (`SentInv`); and a message that was
  neither given up nor under way when a connection was lost is in one place,
  until it is delivered or expires, and then in none (`CleanInv`).  Without the last
  a delivered message could be held a second time.  Each step either accepts a
  message (`Accepting`), which is `Post` or `Refuse`, or accepts none (`Keeping`) and
  only adds to what is done, which is `Discard` (a delivery is the special case of
  one message).  From the invariant each message is not sent, held, or done
  (`Accounted`), and the user a message is held for, who is read off the list or
  session where it is, is the one it was sent to (`HeldInv`, from `AllMeant` of
  `ChatDeliveryProofs`): the mapping does not presuppose it.
- `MailAccountedFor`: `ASSUME OneProcess PROVE Spec => []NothingLost`.  With two
  processes it is false (run `ChatReadThenDelete`): the RPUSH of the other process
  may come between LRANGE and DEL.

The hypothesis `OneProcess` is what the refinement needs and not
what the proof needs: the case with two processes is refuted.

`PostsProofs` proves, for any sets of processes, users and ids, without `Quiet`:

- `AddPostsSorts`: `AddPosts` returns a sorted vector that holds what it was
  given, each as often.  The rank that the insertion gives an element counts the
  elements before it; it is shown to be one-to-one, hence (`Ordering`) onto the
  indices, and monotonic.
- `AlwaysSorted`: `Spec => []Sorted`.  `remove_post` takes one out and views replace in
  place, which keeps the order; everything else adds.
- `TypeCorrect`: `Spec => []TypeOK`.  HVALS answers with an enumeration of the
  stored posts, which is a sequence only if they are finitely many:
  `Inv == TypeOK /\ Sorted /\ IsFiniteSet(stored)`.
- `ArchivedFirst`: `ASSUME Seen, ViewsOnly PROVE Spec => Archived`.  `Seen` is
  needed, since `delete_post` archives whatever the lower bound finds, and
  `ViewsOnly`, since a body may have replaced the content of a post.  Each post in a vector, an
  answer or on its way is the published one but for its views (`Provenance`), a
  lower bound in a sorted vector that has the id finds it (`GetFinds`), and each
  HDEL in a pipeline follows the HSET of the archive (`ArchivesFirst`).

- `ViewsCountedOnce`: `ASSUME NoViewsBrought PROVE Spec => []ViewedOnce`, with
  neither `Quiet` nor `Seen` nor `ViewsOnly`.
  Its invariant `Balance` bounds, for every process and post, what the process
  shows, has in its answers and will be told by the views requested; what is
  announced is paired, one-to-one, with the HINCRBY that follows it in the same
  pipeline, so that a number that is loaded cannot contain a view that will still
  be announced.  `load_visualizations` walks both vectors with a cursor (a
  recursive function): that a number is added only to the post it belongs to is
  shown by induction over the set of indices.

`PostsNewsProofs` proves what needs `Quiet`, `Seen` and `ViewsOnly`, for any sets of processes,
users and ids, by following the entries about a post through all the queues:

- `StoredIsShown`: `ASSUME Quiet, Seen, ViewsOnly PROVE Spec => []Shown`.  The invariant
  `ShownInv` says where each process is (`Lines`): down, in one of the three stages
  of `HelloCmds` while nothing else is in progress, or subscribed; that the list
  of posts comes before any question about views (`ListsFirst`), so that the
  acceptor opens after the load; and for each post its `Course`: one HSET,
  followed by its news in the same pipeline, HDEL before the news of the deletion,
  and nobody has heard of a post whose HSET is still queued.  From these every
  step keeps `Reaches`: a running process has a stored post, or it will ask for
  it, or the list or the news with it are on their way.  That `query`, a loop
  (`LoopExists` in `Ordering`), finds a post that the vector has is `QueryFinds`.
- `WithdrawnIsGone`: `ASSUME Quiet, Seen, ViewsOnly, MaxReconnects = 0 PROVE Spec => []Gone`.
  `remove_post` removes one post and nothing removes it later.  So the invariant
  adds that no process has a post twice or still to come a second time
  (`Single`, `Once`), and that behind a withdrawn post there are, for each process
  that has it or awaits it, news of the deletion by its author or the admin,
  until all have handled them (`Withdrawn`, `Follows`).  A process that reconnects
  adds every post again: the property is false then (run `PostsReconnect`), and
  the last assumption is what `PostsQuiet` has too.

`NotifierProofs` proves from `NotifierAssumption` and `NoneIsNoEntry`, for any
numbers of users, messages, tokens and processes:

- `TypeCorrect`: `Spec => []TypeOK`.
- `OneNotificationEach`: `Spec => []OneNotification`.  The property counts what is
  sent, queued, pending, dangling and coalesced against what was received.  Each
  step keeps the sum: expiry moves a wait to the queue, erasing moves queued
  handlers to the dangling ones, a new message adds one on both sides.
- `HandlersHaveMessages`: `Spec => []TimerHasMessage`, since only a message starts a
  wait and only erasing an entry removes its message.

The three are proved together: their conjunction is inductive.

- `TokensGetNewer`: `Spec => TokenNeverOlder`, an action property, from a second
  invariant.  A token is sent once, so that it has one place among the
  publications (`OnePlace`, `SentOnce`); a HSET is executed after the PUBLISH that
  precedes it (`StoredAfter`), so that the hash holds nothing that was not
  published; and what occase-notify knows or an event mentions was published
  before every token that comes later in its inbox (`InboxInOrder`,
  `KnownFirst`).  An entry taken from the hash late, after newer publications, is
  the case that needs the order of SUBSCRIBE and HGETALL and `insert` not to
  overwrite.

`ConnectionProofs` proves from `ConnectionAssumption`, for any connections and
any values of the limits and timeouts:

- `TypeCorrect`, `SessionsAreCounted`.  That the counter
  equals a cardinality, and stays a natural number, needs that the open
  websockets are finitely many at any time, whatever `Conn` is (`SessionInv`).
- `StayIsBounded`: `Spec => []BoundedStay`.  The bound of a stage is the bound of
  the one before plus what the new timer adds; the strengthening is that time has
  not begun for a connection that was not accepted (`Unbegun`).
- `StoppedForGood`: `Spec => StaysStopped`, an action property under `[]`: an
  accept is "aborted" only when the process is down and the acceptor open
  (`AcceptInv`), and no step leads from there back to accepting.

Only model-checked: liveness (`OnlineUserGetsMail`, `EveryTestEnds`,
`NothingRemains`, `StoredIsFound`, `MessageIsNotified`, `SessionEnds`, `Served`,
`NoLoginDropped`, `Exits`), which is out of the prover's reach, and
`AsExpected`: the scripts of the test clients are concatenations of as many rounds as
there are messages (`FlattenSeq`), and what such a script holds at a place needs
induction over the data, which the provers do not have.

## Not modelled

- A bind that throws or a listen that fails (`acceptor_mgr.cpp`): the process
  ends in a noexcept function or never serves anyone; there is nothing to order.
- `count()` (`channel.cpp:137`), which changes nothing and whose counter is not
  initialized, so that any number may be returned; `max_offline_chat_msgs` and
  the limit on search results, which the code reads nowhere; the counter of chat
  messages in Redis, which nothing reads.
- occase-notify's own loss of Redis: it subscribes once, in `init()`
  (`notifier.cpp:326`), and hears nothing after a reconnection.  The hash of
  tokens when two processes store different tokens of one user
  (`worker.cpp:540`), which a restarted occase-notify loads.
- The socket's view of a frame that `finish` hands over while its write is out
  (`ws_session.hpp:193`).
- The responses of the HTTP handlers.
- What FCM is asked, and its name resolution; digests and random names; TLS and
  HTTP below the level of operations that complete or fail; options,
  configuration files, logging and statistics other than the counter of
  sessions.

## Plan

What would come next, in this order:

1. occase-db and occase-notify together: the hash of tokens when two processes
   store tokens, messages that are stored again, occase-notify without Redis.
2. The abstract board of posts, which `Posts` under `Quiet` and `Seen` implements.
