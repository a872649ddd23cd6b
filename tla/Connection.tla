----------------------------- MODULE Connection -----------------------------
(***************************************************************************)
(* The TCP connections of one occase-db process from the listen queue to   *)
(* their end, and the life of the process around them: acceptor_mgr.cpp,   *)
(* http_session_impl.hpp with its plain and its TLS session, the part of   *)
(* ws_session.hpp that opens and closes a websocket, and the start and the *)
(* shutdown in worker.cpp.                                                 *)
(*                                                                         *)
(* Time passes in ticks.  due[c] is the time left on the timer of the      *)
(* stream of c, and no tick goes by a timer that has run out.  Boost.Asio, *)
(* Boost.Beast, the kernel and Redis are outside this repository.  What an *)
(* HTTP request does is the matter of Posts, and what a websocket carries  *)
(* after the login that of ChatWorker: here every client logs in as a user *)
(* of his own.                                                             *)
(*                                                                         *)
(* Every byte that arrives on an open websocket restarts its idle timer.   *)
(* Clients in Lively make use of it without saying anything: they send     *)
(* pings, or bytes of messages that they do not finish.                    *)
(***************************************************************************)
EXTENDS Integers, Sequences, FiniteSets

CONSTANTS Conn,             \* the connections that clients ever make
          Tls,              \* those that begin with a TLS handshake
          Lively,           \* those that keep a websocket alive
          MaxOpen,          \* file descriptors there are for connections
          MaxListen,        \* max_listen_connections
          DetectTimeout,    \* the 30 seconds of detect_session
          SessionTimeout,   \* http_session_timeout
          ShutdownTimeout,  \* ssl_shutdown_timeout
          HandshakeTimeout, \* timeouts.handshake
          IdleTimeout,      \* timeouts.idle
          MaxLosses         \* how often the connection to Redis is lost

ASSUME ConnectionAssumption ==
  /\ Tls \subseteq Conn /\ Lively \subseteq Conn
  /\ MaxOpen \in Nat /\ MaxListen \in Nat /\ MaxLosses \in Nat
  /\ DetectTimeout \in Nat /\ SessionTimeout \in Nat
  /\ ShutdownTimeout \in Nat /\ HandshakeTimeout \in Nat /\ IdleTimeout \in Nat

VARIABLES stage,     \* where a connection is
          due,       \* what is left on its timer, Never if it has none
          loggedIn,  \* is_logged_in()
          pongs,     \* pong_counter_, up to two
          isOpen,    \* acceptor_.is_open()
          accept,    \* the state of async_accept
          sessions,  \* ws_stats_.number_of_sessions
          pipe,      \* commands to Redis that are not answered
          redisUp,   \* the connection to Redis has not been quit
          down,      \* shutdown_impl() has run
          running,   \* worker::run() has not returned
          \* History:
          age,       \* ticks since the accept, or since the upgrade
          losses,    \* losses of the connection to Redis
          late       \* something was begun after shutdown_impl()

streamVars == <<stage, due, age, loggedIn, pongs>>
processVars == <<isOpen, accept, pipe, redisUp, losses, down, running, late>>
vars == <<streamVars, sessions, processVars>>

HttpStage == {"detect", "handshake", "read", "write", "eof"}
WsStage == {"open", "closing"}
\* "accepted": the kernel has handed over the socket, on_accept() has not run.
Stage == {"none", "backlog", "accepted", "closed", "upgrade"} \cup HttpStage
           \cup WsStage
Never == -1

Init ==
  /\ stage = [c \in Conn |-> "none"]
  /\ due = [c \in Conn |-> Never]
  /\ loggedIn = [c \in Conn |-> FALSE]
  /\ pongs = [c \in Conn |-> 0]
  /\ isOpen = FALSE /\ accept = "none"
  /\ sessions = 0
  /\ pipe = <<"hello">> /\ redisUp = TRUE
  /\ down = FALSE /\ running = TRUE
  /\ age = [c \in Conn |-> 0] /\ losses = 0 /\ late = FALSE

-----------------------------------------------------------------------------
(* What the handlers are made of.                                          *)

\* Connection c goes to stage s with d on its timer.
Go(c, s, d) ==
  /\ stage' = [stage EXCEPT ![c] = s]
  /\ due' = [due EXCEPT ![c] = d]

\* The last handler of c returns: its stream is destroyed.
Drop(c) == Go(c, "closed", Never) /\ UNCHANGED <<age, loggedIn, pongs>>

At(st) == {c \in Conn : stage[c] = st}
Descriptors == {c \in Conn : stage[c] \notin {"none", "backlog", "closed"}}
Websockets == {c \in Conn : stage[c] \in WsStage}

\* do_eof(): TLS is shut down under a timer of its own, a plain socket at once.
DoEof(c) ==
  IF c \in Tls THEN Go(c, "eof", ShutdownTimeout) ELSE Go(c, "closed", Never)

\* async_accept() is started when there is an acceptor to accept for.
DoAccept == accept' = "waiting"

-----------------------------------------------------------------------------
(* Accepting: acceptor_mgr.cpp.                                            *)

\* A client connects: the kernel queues it, whether anyone accepts or not.
Connect(c) ==
  /\ stage[c] = "none" /\ running /\ isOpen
  /\ Cardinality(At("backlog")) < MaxListen
  /\ Go(c, "backlog", Never)
  /\ UNCHANGED <<age, loggedIn, pongs, sessions, processVars>>

\* async_accept completes: the handler is queued with the socket.
KernelAccept(c) ==
  /\ accept = "waiting" /\ stage[c] = "backlog"
  /\ Cardinality(Descriptors) < MaxOpen
  /\ accept' = "ready"
  /\ Go(c, "accepted", Never)
  /\ UNCHANGED <<age, loggedIn, pongs, sessions, isOpen, pipe,
                 redisUp, losses, down, running, late>>

\* No descriptor is left: accept fails with EMFILE.
KernelAcceptFails ==
  /\ accept = "waiting" /\ At("backlog") # {}
  /\ Cardinality(Descriptors) >= MaxOpen
  /\ accept' = "failed"
  /\ UNCHANGED <<streamVars, sessions, isOpen, pipe, redisUp, losses,
                 down, running, late>>

\* on_accept() with a socket: detect_session::run(), then the next accept.
OnAccept(c) ==
  /\ accept = "ready" /\ stage[c] = "accepted"
  /\ Go(c, "detect", DetectTimeout)
  /\ DoAccept
  /\ late' = (late \/ down)
  /\ UNCHANGED <<age, loggedIn, pongs, sessions, isOpen, pipe, redisUp,
                 losses, down, running>>

\* Mutant: every error ends the accepting.
OnAcceptErrorStops ==
  /\ accept \in {"failed", "aborted"}
  /\ accept' = "none"
  /\ UNCHANGED <<streamVars, sessions, isOpen, pipe, redisUp, losses,
                 down, running, late>>
\* Mutant: no error ends the accepting.
OnAcceptErrorGoesOn ==
  /\ accept \in {"failed", "aborted"}
  /\ DoAccept
  /\ UNCHANGED <<streamVars, sessions, isOpen, pipe, redisUp, losses,
                 down, running, late>>
\* on_accept() with an error: operation_aborted ends the accepting.
OnAcceptError ==
  /\ \/ accept = "failed" /\ DoAccept
     \/ accept = "aborted" /\ accept' = "none"
  /\ UNCHANGED <<streamVars, sessions, isOpen, pipe, redisUp, losses,
                 down, running, late>>

-----------------------------------------------------------------------------
(* HTTP: detect_session, http_session_impl.hpp, the TLS and plain session. *)

\* on_detect() without error; the TLS session waits for its handshake first.
OnDetect(c) ==
  /\ stage[c] = "detect"
  /\ Go(c, IF c \in Tls THEN "handshake" ELSE "read", SessionTimeout)
  /\ UNCHANGED <<age, loggedIn, pongs, sessions, processVars>>

\* on_handshake() without error: the timer goes on.
OnHandshake(c) ==
  /\ stage[c] = "handshake"
  /\ Go(c, "read", due[c])
  /\ UNCHANGED <<age, loggedIn, pongs, sessions, processVars>>

\* on_read() of a request: process_request() answers every method, every target
\* and every exception of a handler, and the response is written.
OnRequest(c) ==
  /\ stage[c] = "read"
  /\ Go(c, "write", due[c])
  /\ UNCHANGED <<age, loggedIn, pongs, sessions, processVars>>

\* on_read() with end_of_stream.
OnEndOfStream(c) ==
  /\ stage[c] = "read"
  /\ DoEof(c)
  /\ UNCHANGED <<age, loggedIn, pongs, sessions, processVars>>

\* on_write(), with or without error.
OnHttpWrite(c) ==
  /\ stage[c] = "write"
  /\ DoEof(c)
  /\ UNCHANGED <<age, loggedIn, pongs, sessions, processVars>>

\* Any other error, or the end of the TLS shutdown: nothing keeps the session.
OnHttpError(c) ==
  /\ stage[c] \in {"detect", "handshake", "read", "eof", "upgrade"}
  /\ Drop(c)
  /\ UNCHANGED <<sessions, processVars>>

-----------------------------------------------------------------------------
(* The websocket: the upgrade and ws_session.hpp.                          *)

\* Mutant: the timer of the HTTP session is still the only one.
OnUpgradeUntimed(c) ==
  /\ stage[c] = "read"
  /\ Go(c, "upgrade", Never)
  /\ age' = [age EXCEPT ![c] = 0]
  /\ UNCHANGED <<loggedIn, pongs, sessions, processVars>>
\* on_read() of an upgrade: the HTTP timer is switched off and run() sets the
\* timeouts of the websocket, whose handshake begins.
OnUpgrade(c) ==
  /\ stage[c] = "read"
  /\ Go(c, "upgrade", HandshakeTimeout)
  /\ age' = [age EXCEPT ![c] = 0]
  /\ UNCHANGED <<loggedIn, pongs, sessions, processVars>>

\* Mutant: the session is not counted in.
OnRunUncounted(c) ==
  /\ stage[c] = "upgrade"
  /\ Go(c, "open", IdleTimeout)
  /\ UNCHANGED <<age, loggedIn, pongs, sessions, processVars>>
\* on_run() without error.
OnRun(c) ==
  /\ stage[c] = "upgrade"
  /\ Go(c, "open", IdleTimeout)
  /\ sessions' = sessions + 1
  /\ UNCHANGED <<age, loggedIn, pongs, processVars>>

\* shutdown() of the websockets of C; those that are closing are left alone.
\* An open stream waits for the close frame as long as for a handshake.
Shutdown(C) ==
  LET closing == {c \in C : stage[c] = "open"}
  IN  /\ stage' = [c \in Conn |-> IF c \in closing THEN "closing" ELSE stage[c]]
      /\ due' = [c \in Conn |-> IF c \in closing THEN HandshakeTimeout
                                                 ELSE due[c]]

\* Whatever arrives on an open stream restarts its idle timer.
Alive(c) == due' = [due EXCEPT ![c] = IF stage[c] = "open" THEN IdleTimeout ELSE @]

\* on_app_login() of a valid user; closing_ is not looked at, nor is down.
OnLogin(c) ==
  /\ c \in Websockets /\ ~loggedIn[c]
  /\ loggedIn' = [loggedIn EXCEPT ![c] = TRUE]
  /\ Alive(c)
  /\ late' = (late \/ down)
  /\ UNCHANGED <<stage, age, pongs, sessions, isOpen, accept, pipe,
                 redisUp, losses, down, running>>

\* A frame the worker accepts, of a client who is logged in.
OnFrame(c) ==
  /\ c \in Websockets /\ loggedIn[c]
  /\ Alive(c)
  /\ UNCHANGED <<stage, age, loggedIn, pongs, sessions, processVars>>

\* on_app() returns a failure and handle_ev() shuts the session down.
OnAppFails(c) ==
  /\ c \in Websockets
  /\ Shutdown({c})
  /\ UNCHANGED <<age, loggedIn, pongs, sessions, processVars>>

\* A ping, of which the control callback takes no notice, or bytes of a message
\* whose end does not come: no handler acts, but the stream is not idle.
OnBytes(c) ==
  /\ c \in Websockets \cap Lively
  /\ Alive(c)
  /\ UNCHANGED <<stage, age, loggedIn, pongs, sessions, processVars>>

\* Mutant: pongs are counted and never acted upon.
PongsIgnored(c, n) == Alive(c) /\ UNCHANGED stage
\* The n-th pong of a client who has not logged in: the second ends it.
OnPongs(c, n) ==
  IF n > 1 /\ ~loggedIn[c] THEN Shutdown({c}) ELSE Alive(c) /\ UNCHANGED stage

\* The answer to a ping, which is sent when half of the idle time is over.
OnPong(c) ==
  /\ stage[c] = "open" /\ due[c] <= IdleTimeout \div 2
  /\ LET n == IF pongs[c] < 2 THEN pongs[c] + 1 ELSE 2
     IN  pongs' = [pongs EXCEPT ![c] = n] /\ OnPongs(c, n)
  /\ UNCHANGED <<age, loggedIn, sessions, processVars>>

\* Mutant: only sessions that are logged in are subtracted.
CountAfterFinishLoggedIn(c) == IF loggedIn[c] THEN sessions - 1 ELSE sessions
\* finish() counts the session out, logged in or not.
CountAfterFinish(c) == sessions - 1

\* on_read() of the websocket with an error: finish(), then it is destroyed.
OnReadError(c) ==
  /\ c \in Websockets
  /\ sessions' = CountAfterFinish(c)
  /\ Drop(c)
  /\ UNCHANGED processVars

-----------------------------------------------------------------------------
(* Time.                                                                   *)

\* The age is counted as long as it matters, and no further than this.
AgeBound == DetectTimeout + SessionTimeout + ShutdownTimeout +
              2 * HandshakeTimeout + 2 * IdleTimeout
Counted(c) ==
  \/ stage[c] \in HttpStage \cup {"upgrade"}
  \/ stage[c] \in WsStage /\ ~loggedIn[c] /\ c \notin Lively
\* A tick passes.
Tick ==
  /\ \E c \in Conn : due[c] # Never
  /\ \A c \in Conn : due[c] # 0
  /\ due' = [c \in Conn |-> IF due[c] = Never THEN Never ELSE due[c] - 1]
  /\ age' = [c \in Conn |-> IF Counted(c) /\ age[c] < AgeBound THEN age[c] + 1
                                                           ELSE age[c]]
  /\ UNCHANGED <<stage, loggedIn, pongs, sessions, processVars>>

\* The timer of c has run out: its operation fails.
Timeout(c) ==
  /\ due[c] = 0
  /\ OnHttpError(c) \/ OnHttpWrite(c) \/ OnReadError(c)

-----------------------------------------------------------------------------
(* The process and Redis: worker.cpp.                                      *)

\* Redis answers the first of the commands; the process asks for cmds next.
Answered(cmd, cmds) ==
  /\ pipe # <<>> /\ Head(pipe) = cmd
  /\ pipe' = Tail(pipe) \o cmds

OnHello ==
  /\ Answered("hello", <<"hvals">>)
  /\ UNCHANGED <<streamVars, sessions, isOpen, accept, redisUp, losses,
                 down, running, late>>

OnHvals ==
  /\ Answered("hvals", <<"hgetall">>)
  /\ UNCHANGED <<streamVars, sessions, isOpen, accept, redisUp, losses,
                 down, running, late>>

\* acceptor_mgr::run() when the acceptor is not open; down is not looked at.
OnHgetall ==
  /\ Answered("hgetall", <<>>)
  /\ IF isOpen
     THEN UNCHANGED <<isOpen, accept, late>>
     ELSE isOpen' = TRUE /\ DoAccept /\ late' = (late \/ down)
  /\ UNCHANGED <<streamVars, sessions, redisUp, losses, down, running>>

\* on_quit(): Redis closes the connection, what was sent later is not executed.
OnQuit ==
  /\ pipe # <<>> /\ Head(pipe) = "quit"
  /\ pipe' = <<>> /\ redisUp' = FALSE
  /\ UNCHANGED <<streamVars, sessions, isOpen, accept, losses, down,
                 running, late>>

\* The connection to Redis is lost and established again.  A loss after QUIT
\* was sent is not modelled.
RedisLost ==
  /\ redisUp /\ ~down /\ losses < MaxLosses
  /\ losses' = losses + 1
  /\ pipe' = <<"hello">>
  /\ UNCHANGED <<streamVars, sessions, isOpen, accept, redisUp, down,
                 running, late>>

\* Mutant: the acceptor is closed, so that it may be opened again.
StopAcceptorClosing ==
  /\ isOpen' = FALSE
  /\ accept' = IF isOpen /\ accept = "waiting" THEN "aborted" ELSE accept
\* acceptor_mgr::shutdown(): only an accept that still waits is cancelled, and
\* the acceptor stays open.
StopAcceptor ==
  /\ accept' = IF isOpen /\ accept = "waiting" THEN "aborted" ELSE accept
  /\ UNCHANGED isOpen

\* Mutant: no session is told.
ToldNobody == {}
\* The sessions in sessions_.
ToldToLeave == {c \in Websockets : loggedIn[c]}

\* on_signal() and shutdown_impl().  The signals are not waited for again.
OnSignal ==
  /\ running /\ ~down
  /\ down' = TRUE
  /\ StopAcceptor
  /\ Shutdown(ToldToLeave)
  /\ pipe' = Append(pipe, "quit")
  /\ UNCHANGED <<age, loggedIn, pongs, sessions, redisUp, losses,
                 running, late>>

\* io_context::run() returns when nothing is left to wait for; the kernel
\* resets the connections in the backlog.
Exit ==
  /\ running /\ down /\ ~redisUp
  /\ accept = "none" /\ Descriptors = {}
  /\ running' = FALSE
  /\ stage' = [c \in Conn |-> IF stage[c] = "backlog" THEN "closed" ELSE stage[c]]
  /\ UNCHANGED <<due, age, loggedIn, pongs, sessions, isOpen, accept,
                 pipe, redisUp, losses, down, late>>

-----------------------------------------------------------------------------

AcceptStep ==
  KernelAcceptFails \/ OnAcceptError \/ \E c \in Conn : KernelAccept(c) \/ OnAccept(c)

HttpStep(c) ==
  \/ OnDetect(c) \/ OnHandshake(c) \/ OnRequest(c)
  \/ OnEndOfStream(c) \/ OnHttpWrite(c) \/ OnHttpError(c)

WsStep(c) ==
  \/ OnUpgrade(c) \/ OnRun(c) \/ OnLogin(c) \/ OnFrame(c) \/ OnAppFails(c)
  \/ OnBytes(c) \/ OnPong(c) \/ OnReadError(c)

RedisStep == OnHello \/ OnHvals \/ OnHgetall \/ OnQuit

Next ==
  \/ \E c \in Conn : Connect(c) \/ HttpStep(c) \/ WsStep(c) \/ Timeout(c)
  \/ AcceptStep \/ Tick \/ RedisStep \/ RedisLost \/ OnSignal \/ Exit

Spec == Init /\ [][Next]_vars

\* Time passes and timers fire, the kernel accepts, Redis answers and handlers
\* run.  Nothing is assumed of the clients, nor that a signal ever comes.
FairSpec ==
  /\ Spec
  /\ WF_vars(Tick) /\ WF_vars(AcceptStep) /\ WF_vars(RedisStep) /\ WF_vars(Exit)
  /\ \A c \in Conn : WF_vars(Timeout(c))

-----------------------------------------------------------------------------
(* Properties.                                                             *)

\* Type invariant of a process and its connections.
TypeOK ==
  /\ stage \in [Conn -> Stage]
  /\ due \in [Conn -> Nat \cup {Never}]
  /\ loggedIn \in [Conn -> BOOLEAN]
  /\ pongs \in [Conn -> 0 .. 2]
  /\ isOpen \in BOOLEAN
  /\ accept \in {"none", "waiting", "ready", "failed", "aborted"}
  /\ sessions \in Nat
  /\ pipe \in Seq({"hello", "hvals", "hgetall", "quit"})
  /\ redisUp \in BOOLEAN /\ down \in BOOLEAN /\ running \in BOOLEAN
  /\ age \in [Conn -> Nat] /\ losses \in 0 .. MaxLosses /\ late \in BOOLEAN

\* /stats: number_of_sessions is the number of websockets, whichever of the
\* timeouts, errors and shutdowns ended the others.
SessionsCounted == sessions = Cardinality(Websockets)

\* Before it is a websocket, a connection lasts no longer than the timeouts of the
\* stages it goes through, whether the client sends nothing, sends slowly or never
\* reads.  A websocket of a client that sends neither a login nor pings nor parts
\* of messages, and thus is not Lively, lasts no longer than two idle times and the
\* two handshakes, although it answers the pings of the server.  In every stage,
\* the time spent and the time left stay within.
TimeLimit(c) ==
  CASE stage[c] = "detect" -> DetectTimeout
    [] stage[c] \in {"handshake", "read", "write"} ->
         DetectTimeout + SessionTimeout
    [] stage[c] = "eof" -> DetectTimeout + SessionTimeout + ShutdownTimeout
    [] stage[c] = "upgrade" -> HandshakeTimeout
    [] stage[c] = "open" ->
         HandshakeTimeout + IdleTimeout + IF pongs[c] = 0 THEN 0 ELSE IdleTimeout
    [] stage[c] = "closing" -> 2 * HandshakeTimeout + 2 * IdleTimeout
Timed(c) == Counted(c) => due[c] # Never /\ age[c] + due[c] <= TimeLimit(c)
BoundedStay == \A c \in Conn : Timed(c)

\* Once the shutdown has cancelled the accept, nothing is accepted any more:
\* on_accept() ends with operation_aborted, and the reload that follows a
\* reconnection finds the acceptor still open and does not run it again.
StaysStopped ==
  [](accept = "aborted" => [](accept \in {"aborted", "none"}))

\* A connection in the backlog does not stay there while descriptors come free
\* and nobody has shut the process down, however often accept failed before.
Served ==
  \A c \in Conn :
    []<>(Cardinality(Descriptors) < MaxOpen) =>
      (stage[c] = "backlog" ~> (stage[c] # "backlog" \/ down))

\* no_login() in occase-db-tests.cpp: the server drops a websocket that sends
\* nothing, not even a login.  One that is Lively stays.
NoLoginDropped ==
  \A c \in Conn \ Lively :
    stage[c] = "open" ~> (stage[c] # "open" \/ loggedIn[c])

\* After the signal the process ends, however its clients behave, unless
\* something was begun after the shutdown: an accept that was complete when it
\* was to be cancelled, a reply to HGETALL on its way, a login; or a client that
\* is not logged in is Lively and keeps its websocket open.
Exits ==
  [](down => <>(~running \/ late \/ \E c \in Lively : stage[c] = "open"))
=============================================================================
