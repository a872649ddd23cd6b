------------------------------- MODULE Clients -------------------------------
(***************************************************************************)
(* The clients of occase-db-tests.cpp against the chat path of occase-db.  *)
(* Each test is a coroutine that runs a script: it waits for each frame it *)
(* expects before it goes on.  In test 5 publishers and their repliers     *)
(* write to each other, in test 6 a peer leaves a letter for a user who is *)
(* offline, and in test 4 a client never logs in.                          *)
(*                                                                         *)
(* A client that has written a frame only reads until it is answered, so   *)
(* that writing the frame and its handling by the worker are one step.     *)
(***************************************************************************)
EXTENDS ChatWorker, SequencesExt

CONSTANTS Partner,  \* the session a session of the tests writes to
          First,    \* the publishers, the users who are offline, the silent
          Messages, \* what a session writes, in order
          Launched  \* the sessions main() launches for a test

ASSUME ClientsAssumption ==
  /\ First \subseteq Session
  /\ Partner \in [Session -> Session]
  /\ \A s \in Session : Partner[Partner[s]] = s /\ (s \in First <=> Partner[s] \notin First)
  /\ Messages \in [Session -> Seq(Chat)]
  /\ \A s \in Session : Len(Messages[s]) = Len(Messages[Partner[s]])
  /\ Launched \in [4 .. 6 -> SUBSET Session]

VARIABLES test,  \* the test that is run
          pc,    \* the step of its script a client is at
          cred   \* the user id a client was given

clientVars == <<test, pc, cred>>
allVars == <<vars, clientVars>>

-----------------------------------------------------------------------------
(* The scripts.                                                            *)

Do(what) == <<[do |-> what, msg |-> Ack]>>
Expect(m) == <<[do |-> "read", msg |-> m]>>
Write(m) == <<[do |-> "chat", msg |-> m]>>

LogIn == Do("connect") \o Do("login") \o Expect(Ack)

\* A message, its ack, the answer to it.
ReplierRound(s, i) ==
  Write(Messages[s][i]) \o Expect(Ack) \o Expect(Messages[Partner[s]][i])
PublisherRound(s, i) ==
  Expect(Messages[Partner[s]][i]) \o Write(Messages[s][i]) \o Expect(Ack)

Publisher(s) ==
  Do("register") \o LogIn
    \o FlattenSeq([i \in DOMAIN Messages[s] |-> PublisherRound(s, i)]) \o Do("close")
LaunchReplier(s) ==
  LogIn
    \o FlattenSeq([i \in DOMAIN Messages[s] |-> ReplierRound(s, i)]) \o Do("close")
OfflineUser(s) ==
  Do("register") \o LogIn \o Expect(Messages[Partner[s]][1]) \o Do("close")
OfflinePeer(s) ==
  LogIn \o Write(Messages[s][1]) \o Expect(Ack) \o Do("close")
NoLogin == Do("connect") \o Do("dropped")

\* What main() launches for each test.
Scripts ==
  [t \in 4 .. 6 |->
     [s \in Session |->
        CASE s \notin Launched[t] -> <<>>
          [] s \in Launched[t] /\ t = 4 -> NoLogin
          [] OTHER -> IF s \in First
                      THEN IF t = 5 THEN Publisher(s) ELSE OfflineUser(s)
                      ELSE IF t = 5 THEN LaunchReplier(s) ELSE OfflinePeer(s)]]
Script(s) == Scripts[test][s]

Left(s) == pc[s] > Len(Script(s))

\* The second of two begins when it knows the user id of the first; the user
\* who is offline comes back when his peer has left.
Turn(s) ==
  /\ test # 4 /\ s \notin First => cred[Partner[s]] # None
  /\ test = 6 /\ s \in First /\ cred[s] # None => Left(Partner[s])

-----------------------------------------------------------------------------
(* The steps of the clients.                                               *)

ClientsInit ==
  /\ Init
  /\ test \in 4 .. 6
  /\ pc = [s \in Session |-> 1]
  /\ cred = [s \in Session |-> None]

\* Client s does the next step of its script, which is what.
Step(s, what) ==
  /\ ~Left(s) /\ Turn(s)
  /\ Script(s)[pc[s]].do = what
  /\ pc' = [pc EXCEPT ![s] = @ + 1]
  /\ UNCHANGED test

\* make_request() of /get-user-id: everyone is given a user id of his own.
FreshId ==
  CHOOSE f \in [Session -> User] : \A s, x \in Session : f[s] = f[x] => s = x
GetUserId(s) == cred' = [cred EXCEPT ![s] = FreshId[s]]

\* cred_pub(): the user id of the first of two, whom the other will write to.
CredPub(s) ==
  /\ Step(s, "register")
  /\ GetUserId(s)
  /\ UNCHANGED vars

\* The websocket is opened; who has no user id yet has asked for one before.
ConnectWs(s) ==
  /\ Step(s, "connect")
  /\ \E n \in Node : SessionRun(s, n)
  /\ IF cred[s] = None THEN GetUserId(s) ELSE UNCHANGED cred

WriteLogin(s) ==
  /\ Step(s, "login")
  /\ OnAppLogin(s, cred[s])
  /\ UNCHANGED cred

WriteChat(s) ==
  /\ Step(s, "chat")
  /\ OnAppChat(s, Script(s)[pc[s]].msg, cred[Partner[s]], TRUE)
  /\ UNCHANGED cred

\* A frame is read: it was written to the socket before, and in this order.
ReadFrame(s) ==
  /\ Step(s, "read")
  /\ SessionWrite(s) /\ Head(queue[s]).msg = Script(s)[pc[s]].msg
  /\ UNCHANGED cred

CloseWs(s) ==
  /\ Step(s, "close")
  /\ UNCHANGED <<vars, cred>>

\* The pending read of the silent client fails.
ReadFails(s) ==
  /\ Step(s, "dropped")
  /\ phase[s] = "gone"
  /\ UNCHANGED <<vars, cred>>

ClientStep(s) ==
  \/ CredPub(s) \/ ConnectWs(s) \/ WriteLogin(s) \/ WriteChat(s)
  \/ ReadFrame(s) \/ CloseWs(s) \/ ReadFails(s)

-----------------------------------------------------------------------------
(* The steps of the server that the clients see.                           *)

\* Clients log in long before their second pong, but for those of test 4.
Pong(s) ==
  /\ test = 4 /\ SessionPong(s)
  /\ UNCHANGED clientVars

\* The read fails when the client has left or the close is complete.
EndOfSession(s) ==
  /\ Left(s) \/ closing[s]
  /\ OnReadError(s)
  /\ UNCHANGED clientVars

ServerStep(n) == (OnReply(n) \/ Redis(n)) /\ UNCHANGED clientVars

ClientsNext ==
  \/ \E s \in Session : ClientStep(s) \/ Pong(s) \/ EndOfSession(s)
  \/ \E n \in Node : ServerStep(n)

\* The tests go on, writes complete, connections that end are noticed, Redis
\* answers; nothing fails.
ClientsSpec ==
  /\ ClientsInit /\ [][ClientsNext]_allVars
  /\ \A s \in Session :
       /\ WF_allVars(ClientStep(s)) /\ WF_allVars(Pong(s) /\ ~closing[s])
       /\ WF_allVars(EndOfSession(s))
  /\ \A n \in Node : WF_allVars(ServerStep(n))

-----------------------------------------------------------------------------
(* Properties.                                                             *)

\* The assert_equal of the tests: whatever the clients do at the same time, the
\* frame a client reads is the one its script expects next: an ack before the
\* answer, questions in order, nothing twice and nothing of another's.
AsExpected ==
  \A s \in Session :
    ~Left(s) /\ Script(s)[pc[s]].do = "read" /\ queue[s] # <<>> =>
      Head(queue[s]).msg = Script(s)[pc[s]].msg

\* Every test comes to its end: nobody waits for a frame that does not come,
\* and the server drops the client that does not log in.
EveryTestEnds == <>(\A s \in Session : Left(s))

\* Whoever has left is forgotten: no entry in sessions_, no subscription, no
\* message that waits in a list, and no name in user_ids_chat_queue.
NothingRemains ==
  <>[](/\ \A n \in Node : /\ subs[n] = {} /\ chatQueue[n] = <<>>
                          /\ \A u \in User : sessions[n][u] = None
       /\ \A key \in Key : lists[key] = <<>>)
=============================================================================
