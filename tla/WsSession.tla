------------------------------ MODULE WsSession ------------------------------
(***************************************************************************)
(* src/ws_session.hpp: the websocket sessions of all occase-db processes.  *)
(* Every handler runs on the single thread of the process that owns the    *)
(* session, so a handler is one step.  The session keeps the frames it     *)
(* still has to write in msg_queue_; at most one async_write is out at a   *)
(* time and its completion handler starts the next one.                    *)
(*                                                                         *)
(* The websocket stream itself (Boost.Beast) is outside this repository:   *)
(* it may complete a write, fail it, or fail the pending read at any time, *)
(* and after async_close it may still hand over frames that were on their  *)
(* way.                                                                    *)
(***************************************************************************)
EXTENDS ChatBase, FiniteSets

VARIABLES phase,    \* "idle" (not accepted), "open" or "gone" (destroyed)
          home,     \* the process that accepted the session
          hash,     \* pub_hash_: the user logged in, None for ""
          queue,    \* msg_queue_
          closing,  \* closing_: async_close has been started
          writes    \* async_write operations outstanding

sessionVars == <<phase, home, hash, queue, closing, writes>>

SessionTypeOK ==
  /\ phase \in [Session -> {"idle", "open", "gone"}]
  /\ home \in [Session -> Node \cup {None}]
  /\ \A s \in Session : phase[s] = "open" => home[s] \in Node
  /\ hash \in [Session -> User \cup {None}]
  /\ queue \in [Session -> Seq(Entry)]
  /\ closing \in [Session -> BOOLEAN]
  /\ writes \in [Session -> Nat]

SessionInit ==
  /\ phase = [s \in Session |-> "idle"]
  /\ home = [s \in Session |-> None]
  /\ hash = [s \in Session |-> None]
  /\ queue = [s \in Session |-> <<>>]
  /\ closing = [s \in Session |-> FALSE]
  /\ writes = [s \in Session |-> 0]

Open(s) == phase[s] = "open"
LoggedIn(s) == hash[s] # None

-----------------------------------------------------------------------------
(* What the handlers are made of.                                          *)

\* Mutant: the frames are put at the front of the queue.
PushAllFront(q, S, msgs, persist) ==
  [s \in Session |->
     IF s \in S
     THEN [i \in 1 .. Len(msgs) |-> [msg |-> msgs[i], persist |-> persist]] \o q[s]
     ELSE q[s]]
\* The queues after msgs have been pushed to the queue of every session of S.
PushAll(q, S, msgs, persist) ==
  [s \in Session |->
     IF s \in S
     THEN q[s] \o [i \in 1 .. Len(msgs) |-> [msg |-> msgs[i], persist |-> persist]]
     ELSE q[s]]

\* Mutant: a write is started although one is out.
SendEachAtOnce(q) ==
  /\ queue' = q
  /\ writes' = [s \in Session |->
                  IF Len(q[s]) > Len(queue[s]) /\ ~closing[s]
                  THEN writes[s] + 1 ELSE writes[s]]
\* send(): the queues become q, and a session whose queue was empty starts a
\* write unless it is closing.
Send(q) ==
  /\ queue' = q
  /\ writes' = [s \in Session |->
                  IF queue[s] = <<>> /\ q[s] # <<>> /\ ~closing[s]
                  THEN writes[s] + 1 ELSE writes[s]]

\* shutdown() of every session of S.
Shutdown(S) == closing' = [s \in Session |-> closing[s] \/ s \in S]

\* The elements of a finite set of numbers in ascending order.
Ascending(K) ==
  CHOOSE f \in [1 .. Cardinality(K) -> K] :
    \A i, j \in 1 .. Cardinality(K) : i < j => f[i] < f[j]

\* The places in the queue of s of the frames that persist.
Kept(s) == {i \in 1 .. Len(queue[s]) : queue[s][i].persist}

\* Mutant: entries are handed over instead of their messages.
UnsentEntries(s) ==
  [i \in 1 .. Cardinality(Kept(s)) |-> queue[s][Ascending(Kept(s))[i]]]
\* The messages finish() hands to the worker: the unsent persistent ones.
Unsent(s) ==
  [i \in 1 .. Cardinality(Kept(s)) |-> queue[s][Ascending(Kept(s))[i]].msg]

-----------------------------------------------------------------------------
(* The handlers that concern the session alone.                            *)

\* on_run(): the handshake is over and the first read is started.
OnRun(s, n) ==
  /\ phase[s] = "idle"
  /\ phase' = [phase EXCEPT ![s] = "open"]
  /\ home' = [home EXCEPT ![s] = n]
  /\ UNCHANGED <<hash, queue, closing, writes>>

\* on_write() without error: the front was sent, the next write is started.
OnWrite(s) ==
  /\ Open(s)
  /\ writes[s] > 0
  /\ queue' = [queue EXCEPT ![s] = Tail(@)]
  /\ writes' = [writes EXCEPT ![s] = IF Len(queue[s]) = 1 THEN @ - 1 ELSE @]
  /\ UNCHANGED <<phase, home, hash, closing>>

\* on_write() with an error: nothing is popped and no write is started.
OnWriteError(s) ==
  /\ Open(s)
  /\ writes[s] > 0
  /\ writes' = [writes EXCEPT ![s] = @ - 1]
  /\ UNCHANGED <<phase, home, hash, queue, closing>>

\* The pong control callback, from the second pong on: a session that has not
\* logged in is shut down.  Earlier pongs and pongs after the login are ignored,
\* and a session lives through any number of them.
OnPong(s) ==
  /\ Open(s) /\ ~LoggedIn(s)
  /\ Shutdown({s})
  /\ UNCHANGED <<phase, home, hash, queue, writes>>

\* The session's part of finish(), run by on_read() with an error.  No handler
\* is left that reads the members, so they are reset.
Finish(s) ==
  /\ Open(s)
  /\ phase' = [phase EXCEPT ![s] = "gone"]
  /\ queue' = [queue EXCEPT ![s] = <<>>]
  /\ writes' = [writes EXCEPT ![s] = 0]
  /\ UNCHANGED <<home, hash, closing>>
=============================================================================
