-------------------------- MODULE ConnectionProofs --------------------------
(***************************************************************************)
(* Proofs about Connection for any connections, limits and timeouts.       *)
(***************************************************************************)
EXTENDS Connection, TLAPS, FiniteSetTheorems, SequenceTheorems

-----------------------------------------------------------------------------
(* The invariant and its parts.                                            *)

StreamTypeOK ==
  /\ stage \in [Conn -> Stage]
  /\ due \in [Conn -> Nat \cup {Never}]
  /\ loggedIn \in [Conn -> BOOLEAN]
  /\ pongs \in [Conn -> 0 .. 2]
  /\ age \in [Conn -> Nat]

ProcessTypeOK ==
  /\ isOpen \in BOOLEAN
  /\ accept \in {"none", "waiting", "ready", "failed", "aborted"}
  /\ pipe \in Seq({"hello", "hvals", "hgetall", "quit"})
  /\ redisUp \in BOOLEAN /\ down \in BOOLEAN /\ running \in BOOLEAN
  /\ losses \in 0 .. MaxLosses /\ late \in BOOLEAN

\* The time of a connection that was not accepted has not begun.
Unbegun(c) == stage[c] \in {"none", "backlog", "accepted"} => age[c] = 0

StreamInv == StreamTypeOK /\ \A c \in Conn : Timed(c) /\ Unbegun(c)
SessionInv ==
  sessions \in Nat /\ IsFiniteSet(Websockets) /\ SessionsCounted
\* Only the shutdown cancels the accept, and the acceptor was open then.
AcceptInv == accept = "aborted" => down /\ isOpen

Inv == StreamInv /\ SessionInv /\ ProcessTypeOK /\ AcceptInv

LEMMA InvParts ==
  Inv => /\ TypeOK /\ SessionsCounted /\ BoundedStay
         /\ (accept = "aborted" => down /\ isOpen)
  BY DEF Inv, StreamInv, StreamTypeOK, SessionInv, ProcessTypeOK,
         AcceptInv, TypeOK, BoundedStay

LEMMA Durations ==
  /\ DetectTimeout \in Nat /\ SessionTimeout \in Nat /\ ShutdownTimeout \in Nat
  /\ HandshakeTimeout \in Nat /\ IdleTimeout \in Nat /\ AgeBound \in Nat
  BY ConnectionAssumption DEF AgeBound

LEMMA InitInv == Init => Inv
<1> SUFFICES ASSUME Init PROVE Inv
  OBVIOUS
<1>1. StreamInv
  BY DEF Init, StreamInv, StreamTypeOK, Timed, Counted, Unbegun, Stage,
         HttpStage, WsStage, Never
<1>2. SessionInv
  <2>1. Websockets = {}
    BY DEF Init, Websockets, WsStage
  <2> QED BY <2>1, FS_EmptySet DEF Init, SessionInv, SessionsCounted
<1>3. ProcessTypeOK /\ AcceptInv
  <2>1. <<"hello">> \in Seq({"hello", "hvals", "hgetall", "quit"})
    OBVIOUS
  <2>2. pipe \in Seq({"hello", "hvals", "hgetall", "quit"})
    BY <2>1 DEF Init
  <2>3. losses \in 0 .. MaxLosses
    BY ConnectionAssumption DEF Init
  <2>4. AcceptInv /\ accept \in {"none", "waiting", "ready", "failed", "aborted"}
    BY DEF Init, AcceptInv
  <2>5. /\ isOpen \in BOOLEAN /\ redisUp \in BOOLEAN /\ down \in BOOLEAN
        /\ running \in BOOLEAN /\ late \in BOOLEAN
    BY DEF Init
  <2> QED BY <2>2, <2>3, <2>4, <2>5 DEF ProcessTypeOK
<1> QED BY <1>1, <1>2, <1>3 DEF Inv

-----------------------------------------------------------------------------
(* What a step leaves alone.                                               *)

\* The streams of all connections but c stay as they are.
OnlyAt(c) ==
  \A x \in Conn \ {c} :
    /\ stage'[x] = stage[x] /\ due'[x] = due[x] /\ age'[x] = age[x]
    /\ loggedIn'[x] = loggedIn[x] /\ pongs'[x] = pongs[x]

LEMMA StreamStep ==
  ASSUME StreamInv, NEW c \in Conn, StreamTypeOK', OnlyAt(c), Timed(c)', Unbegun(c)'
  PROVE  StreamInv'
<1>1. ASSUME NEW x \in Conn \ {c} PROVE Timed(x)' /\ Unbegun(x)'
  BY <1>1 DEF StreamInv, OnlyAt, Timed, Counted, TimeLimit, Unbegun
<1> QED BY <1>1 DEF StreamInv

LEMMA StreamKept ==
  ASSUME StreamInv, UNCHANGED streamVars
  PROVE  StreamInv'
  BY DEF StreamInv, StreamTypeOK, streamVars, Timed, Counted, TimeLimit, Unbegun

LEMMA GoTypes ==
  ASSUME StreamTypeOK, NEW c \in Conn, NEW s \in Stage, NEW d \in Nat \cup {Never},
         Go(c, s, d)
  PROVE  /\ stage' \in [Conn -> Stage] /\ due' \in [Conn -> Nat \cup {Never}]
         /\ stage'[c] = s /\ due'[c] = d
         /\ \A x \in Conn \ {c} : stage'[x] = stage[x] /\ due'[x] = due[x]
  BY DEF StreamTypeOK, Go

\* Connection c goes to stage s and nothing else of its stream changes.
LEMMA GoStep ==
  ASSUME StreamInv, NEW c \in Conn, NEW s \in Stage, NEW d \in Nat \cup {Never},
         Go(c, s, d), UNCHANGED <<age, loggedIn, pongs>>, Timed(c)', Unbegun(c)'
  PROVE  StreamInv'
<1>1. StreamTypeOK' /\ OnlyAt(c)
  BY GoTypes DEF StreamInv, StreamTypeOK, OnlyAt
<1> QED BY <1>1, StreamStep

LEMMA DropStep ==
  ASSUME StreamInv, NEW c \in Conn, Drop(c)
  PROVE  StreamInv' /\ stage' = [stage EXCEPT ![c] = "closed"]
<1>1. "closed" \in Stage /\ Never \in Nat \cup {Never} /\ StreamTypeOK
  BY DEF Stage, StreamInv
<1>2. Go(c, "closed", Never) /\ UNCHANGED <<age, loggedIn, pongs>>
  BY DEF Drop
<1>3. stage'[c] = "closed"
  BY <1>1, <1>2, GoTypes
<1>4. Timed(c)' /\ Unbegun(c)'
  BY <1>3 DEF Timed, Counted, HttpStage, WsStage, Unbegun
<1>5. StreamInv'
  BY <1>1, <1>2, <1>4, GoStep
<1> QED BY <1>2, <1>5 DEF Go

\* The set of websockets does not change, nor does its count.
LEMMA SessionKept ==
  ASSUME SessionInv, sessions' = sessions,
         \A x \in Conn : stage'[x] \in WsStage <=> stage[x] \in WsStage
  PROVE  SessionInv'
<1>1. Websockets' = Websockets
  BY DEF Websockets
<1> QED BY <1>1 DEF SessionInv, SessionsCounted

LEMMA GoOutside ==
  ASSUME SessionInv, sessions' = sessions, StreamTypeOK, NEW c \in Conn,
         NEW s, NEW d, Go(c, s, d), stage[c] \notin WsStage, s \notin WsStage
  PROVE  SessionInv'
<1>1. \A x \in Conn : stage'[x] \in WsStage <=> stage[x] \in WsStage
  BY DEF Go, StreamTypeOK
<1> QED BY <1>1, SessionKept

LEMMA ProcessKept ==
  ASSUME ProcessTypeOK, AcceptInv, UNCHANGED processVars
  PROVE  ProcessTypeOK' /\ AcceptInv'
  BY DEF ProcessTypeOK, AcceptInv, processVars

-----------------------------------------------------------------------------
(* Accepting.                                                              *)

LEMMA ConnectInv == ASSUME Inv, NEW c \in Conn, Connect(c) PROVE Inv'
<1>1. /\ StreamInv /\ SessionInv /\ stage[c] = "none" /\ Go(c, "backlog", Never)
      /\ UNCHANGED <<age, loggedIn, pongs, sessions>>
  BY DEF Inv, Connect
<1>2. "backlog" \in Stage /\ Never \in Nat \cup {Never} /\ StreamTypeOK
  BY <1>1 DEF Stage, StreamInv
<1>3. stage'[c] = "backlog" /\ age'[c] = 0
  BY <1>1, <1>2, GoTypes DEF StreamInv, Unbegun
<1>4. StreamInv'
  <2>1. Timed(c)' /\ Unbegun(c)'
    BY <1>3 DEF Timed, Counted, HttpStage, WsStage, Unbegun
  <2> QED BY <1>1, <1>2, <2>1, GoStep
<1>5. SessionInv'
  <2>1. stage[c] \notin WsStage /\ "backlog" \notin WsStage
    BY <1>1 DEF WsStage
  <2> QED BY <1>1, <1>2, <2>1, GoOutside
<1> QED BY <1>4, <1>5, ProcessKept DEF Inv, Connect

\* The handler of async_accept is queued: only accept and the stream change.
LEMMA KernelAcceptInv == ASSUME Inv, NEW c \in Conn, KernelAccept(c) PROVE Inv'
<1>1. /\ StreamInv /\ SessionInv /\ stage[c] = "backlog"
      /\ Go(c, "accepted", Never)
      /\ UNCHANGED <<age, loggedIn, pongs, sessions>>
  BY DEF Inv, KernelAccept
<1>2. "accepted" \in Stage /\ Never \in Nat \cup {Never} /\ StreamTypeOK
  BY <1>1 DEF Stage, StreamInv
<1>3. stage'[c] = "accepted" /\ age'[c] = 0
  BY <1>1, <1>2, GoTypes DEF StreamInv, Unbegun
<1>4. StreamInv'
  <2>1. Timed(c)' /\ Unbegun(c)'
    BY <1>3 DEF Timed, Counted, HttpStage, WsStage, Unbegun
  <2> QED BY <1>1, <1>2, <2>1, GoStep
<1>5. SessionInv'
  <2>1. stage[c] \notin WsStage /\ "accepted" \notin WsStage
    BY <1>1 DEF WsStage
  <2> QED BY <1>1, <1>2, <2>1, GoOutside
<1>6. ProcessTypeOK' /\ AcceptInv'
  BY DEF Inv, ProcessTypeOK, AcceptInv, KernelAccept
<1> QED BY <1>4, <1>5, <1>6 DEF Inv, KernelAccept

LEMMA OnAcceptInv == ASSUME Inv, NEW c \in Conn, OnAccept(c) PROVE Inv'
<1>1. /\ StreamInv /\ SessionInv /\ stage[c] = "accepted"
      /\ Go(c, "detect", DetectTimeout)
      /\ UNCHANGED <<age, loggedIn, pongs, sessions>>
  BY DEF Inv, OnAccept
<1>2. /\ "detect" \in Stage /\ DetectTimeout \in Nat \cup {Never}
      /\ DetectTimeout \in Nat /\ StreamTypeOK
  BY <1>1, Durations DEF Stage, HttpStage, StreamInv
<1>3. stage'[c] = "detect" /\ due'[c] = DetectTimeout /\ age'[c] = 0
  BY <1>1, <1>2, GoTypes DEF StreamInv, Unbegun
<1>4. StreamInv'
  <2>1. Timed(c)' /\ Unbegun(c)'
    BY <1>2, <1>3 DEF Timed, TimeLimit, Unbegun, Never
  <2> QED BY <1>1, <1>2, <2>1, GoStep
<1>5. SessionInv'
  <2>1. stage[c] \notin WsStage /\ "detect" \notin WsStage
    BY <1>1 DEF WsStage
  <2> QED BY <1>1, <1>2, <2>1, GoOutside
<1>6. ProcessTypeOK' /\ AcceptInv'
  <2>1. late' \in BOOLEAN
    BY DEF OnAccept
  <2> QED BY <2>1 DEF Inv, ProcessTypeOK, AcceptInv, OnAccept, DoAccept
<1> QED BY <1>4, <1>5, <1>6 DEF Inv, OnAccept

LEMMA AcceptOnlyInv ==
  ASSUME Inv, KernelAcceptFails \/ OnAcceptError
  PROVE  Inv'
<1>1. StreamInv' /\ UNCHANGED <<stage, sessions>>
  BY StreamKept DEF Inv, KernelAcceptFails, OnAcceptError, streamVars
<1>2. SessionInv'
  BY <1>1, SessionKept DEF Inv
<1>3. ProcessTypeOK' /\ AcceptInv'
  BY DEF Inv, ProcessTypeOK, AcceptInv, KernelAcceptFails, OnAcceptError, DoAccept
<1> QED BY <1>1, <1>2, <1>3 DEF Inv

-----------------------------------------------------------------------------
(* HTTP.                                                                   *)

\* A handler of the HTTP session moves c on, or ends it.
LEMMA HttpMove ==
  ASSUME Inv, NEW c \in Conn, stage[c] \in HttpStage \cup {"upgrade"},
         NEW s \in HttpStage \cup {"closed"}, NEW d \in Nat \cup {Never},
         Go(c, s, d), UNCHANGED <<age, loggedIn, pongs, sessions, processVars>>,
         s # "closed" => /\ d \in Nat
                         /\ age[c] + d <= IF s = "detect" THEN DetectTimeout
                              ELSE IF s = "eof"
                              THEN DetectTimeout + SessionTimeout + ShutdownTimeout
                              ELSE DetectTimeout + SessionTimeout
  PROVE  StreamInv' /\ SessionInv' /\ ProcessTypeOK' /\ AcceptInv'
<1>1. /\ StreamInv /\ StreamTypeOK /\ SessionInv /\ s \in Stage
      /\ stage[c] \notin WsStage /\ s \notin WsStage
  BY DEF Inv, StreamInv, Stage, HttpStage, WsStage
<1>2. stage'[c] = s /\ due'[c] = d /\ age'[c] = age[c]
  BY <1>1, GoTypes
<1>3. Timed(c)'
  <2>1. CASE s = "closed"
    BY <1>2, <2>1 DEF Timed, Counted, HttpStage, WsStage
  <2>2. CASE s # "closed"
    BY <1>2, <2>2 DEF Timed, TimeLimit, HttpStage, Never
  <2> QED BY <2>1, <2>2
<1>4. Unbegun(c)'
  BY <1>2 DEF Unbegun, HttpStage
<1>5. StreamInv'
  BY <1>1, <1>3, <1>4, GoStep
<1>6. SessionInv'
  BY <1>1, GoOutside
<1> QED BY <1>5, <1>6, ProcessKept DEF Inv

\* The time that c has spent when it is in an HTTP stage.
LEMMA HttpAge ==
  ASSUME StreamInv, NEW c \in Conn
  PROVE  /\ age[c] \in Nat
         /\ stage[c] = "detect" => age[c] <= DetectTimeout
         /\ stage[c] \in {"handshake", "read", "write"} =>
              /\ due[c] \in Nat
              /\ age[c] + due[c] <= DetectTimeout + SessionTimeout
              /\ age[c] <= DetectTimeout + SessionTimeout
<1>1. age[c] \in Nat /\ due[c] \in Nat \cup {Never} /\ Timed(c)
  BY DEF StreamInv, StreamTypeOK
<1>2. CASE stage[c] \in {"detect", "handshake", "read", "write"}
  <2>1. due[c] \in Nat /\ age[c] + due[c] <= TimeLimit(c)
    BY <1>1, <1>2 DEF Timed, Counted, HttpStage
  <2> QED BY <1>1, <1>2, <2>1, Durations DEF TimeLimit
<1> QED BY <1>1, <1>2

LEMMA OnDetectInv == ASSUME Inv, NEW c \in Conn, OnDetect(c) PROVE Inv'
<1> DEFINE s == IF c \in Tls THEN "handshake" ELSE "read"
<1>1. /\ stage[c] = "detect" /\ Go(c, s, SessionTimeout)
      /\ UNCHANGED <<age, loggedIn, pongs, sessions, processVars>>
  BY DEF OnDetect
<1>2. s \in {"handshake", "read"} /\ SessionTimeout \in Nat
  BY Durations
<1>3. age[c] + SessionTimeout <= DetectTimeout + SessionTimeout
  BY <1>1, Durations, HttpAge DEF Inv
<1> HIDE DEF s
<1>4. s \in HttpStage \cup {"closed"} /\ stage[c] \in HttpStage \cup {"upgrade"}
  BY <1>1, <1>2 DEF HttpStage
<1>5. StreamInv' /\ SessionInv' /\ ProcessTypeOK' /\ AcceptInv'
  BY <1>1, <1>2, <1>3, <1>4, HttpMove
<1> QED BY <1>5 DEF Inv, OnDetect

LEMMA OnHandshakeInv == ASSUME Inv, NEW c \in Conn, OnHandshake(c) PROVE Inv'
<1>1. /\ stage[c] = "handshake" /\ Go(c, "read", due[c])
      /\ UNCHANGED <<age, loggedIn, pongs, sessions, processVars>>
  BY DEF OnHandshake
<1>2. due[c] \in Nat /\ age[c] + due[c] <= DetectTimeout + SessionTimeout
  BY <1>1, HttpAge DEF Inv
<1>3. "read" \in HttpStage /\ "handshake" \in HttpStage
  BY DEF HttpStage
<1>4. StreamInv' /\ SessionInv' /\ ProcessTypeOK' /\ AcceptInv'
  BY <1>1, <1>2, <1>3, HttpMove
<1> QED BY <1>4 DEF Inv, OnHandshake

LEMMA OnRequestInv == ASSUME Inv, NEW c \in Conn, OnRequest(c) PROVE Inv'
<1>1. /\ stage[c] = "read" /\ Go(c, "write", due[c])
      /\ UNCHANGED <<age, loggedIn, pongs, sessions, processVars>>
  BY DEF OnRequest
<1>2. due[c] \in Nat /\ age[c] + due[c] <= DetectTimeout + SessionTimeout
  BY <1>1, HttpAge DEF Inv
<1>3. "read" \in HttpStage /\ "write" \in HttpStage
  BY DEF HttpStage
<1>4. StreamInv' /\ SessionInv' /\ ProcessTypeOK' /\ AcceptInv'
  BY <1>1, <1>2, <1>3, HttpMove
<1> QED BY <1>4 DEF Inv

LEMMA DoEofInv ==
  ASSUME Inv, NEW c \in Conn, stage[c] \in {"read", "write"}, DoEof(c),
         UNCHANGED <<age, loggedIn, pongs, sessions, processVars>>
  PROVE  StreamInv' /\ SessionInv' /\ ProcessTypeOK' /\ AcceptInv'
<1>1. stage[c] \in HttpStage /\ "eof" \in HttpStage
  BY DEF HttpStage
<1>2. CASE c \in Tls
  <2>1. /\ ShutdownTimeout \in Nat
        /\ age[c] + ShutdownTimeout <=
              DetectTimeout + SessionTimeout + ShutdownTimeout
    BY Durations, HttpAge DEF Inv
  <2>2. Go(c, "eof", ShutdownTimeout)
    BY <1>2 DEF DoEof
  <2> QED BY <1>1, <2>1, <2>2, HttpMove
<1>3. CASE c \notin Tls
  <2>1. Go(c, "closed", Never) /\ Never \in Nat \cup {Never}
    BY <1>3 DEF DoEof
  <2> QED BY <1>1, <2>1, HttpMove
<1> QED BY <1>2, <1>3

LEMMA OnEndOfStreamInv == ASSUME Inv, NEW c \in Conn, OnEndOfStream(c) PROVE Inv'
  BY DoEofInv DEF Inv, OnEndOfStream

LEMMA OnHttpWriteInv == ASSUME Inv, NEW c \in Conn, OnHttpWrite(c) PROVE Inv'
  BY DoEofInv DEF Inv, OnHttpWrite

LEMMA OnHttpErrorInv == ASSUME Inv, NEW c \in Conn, OnHttpError(c) PROVE Inv'
<1>1. /\ stage[c] \in HttpStage \cup {"upgrade"} /\ Go(c, "closed", Never)
      /\ UNCHANGED <<age, loggedIn, pongs, sessions, processVars>>
  BY DEF OnHttpError, Drop, HttpStage
<1>2. StreamInv' /\ SessionInv' /\ ProcessTypeOK' /\ AcceptInv'
  BY <1>1, HttpMove
<1> QED BY <1>2 DEF Inv, OnHttpError

-----------------------------------------------------------------------------
(* The websocket.                                                          *)

LEMMA OnUpgradeInv == ASSUME Inv, NEW c \in Conn, OnUpgrade(c) PROVE Inv'
<1>1. /\ StreamInv /\ StreamTypeOK /\ SessionInv /\ stage[c] = "read"
      /\ Go(c, "upgrade", HandshakeTimeout) /\ age' = [age EXCEPT ![c] = 0]
      /\ UNCHANGED <<loggedIn, pongs, sessions>>
  BY DEF Inv, StreamInv, OnUpgrade
<1>2. "upgrade" \in Stage /\ HandshakeTimeout \in Nat
  BY Durations DEF Stage
<1>3. /\ StreamTypeOK' /\ OnlyAt(c)
      /\ stage'[c] = "upgrade" /\ due'[c] = HandshakeTimeout /\ age'[c] = 0
  BY <1>1, <1>2, GoTypes DEF StreamTypeOK, OnlyAt
<1>4. Timed(c)' /\ Unbegun(c)'
  BY <1>2, <1>3 DEF Timed, TimeLimit, Unbegun, Never
<1>5. StreamInv'
  BY <1>1, <1>3, <1>4, StreamStep
<1>6. SessionInv'
  <2>1. stage[c] \notin WsStage /\ "upgrade" \notin WsStage
    BY <1>1 DEF WsStage
  <2> QED BY <1>1, <2>1, GoOutside
<1> QED BY <1>5, <1>6, ProcessKept DEF Inv, OnUpgrade

\* The time a websocket has spent that is not logged in and not Lively.
LEMMA WsAge ==
  ASSUME StreamInv, NEW c \in Conn
  PROVE  /\ age[c] \in Nat /\ pongs[c] \in 0 .. 2
         /\ stage[c] = "upgrade" => age[c] <= HandshakeTimeout
         /\ stage[c] = "open" /\ ~loggedIn[c] /\ c \notin Lively =>
              /\ due[c] \in Nat
              /\ age[c] <= HandshakeTimeout + 2 * IdleTimeout
              /\ pongs[c] = 0 => age[c] <= HandshakeTimeout + IdleTimeout
<1>1. age[c] \in Nat /\ due[c] \in Nat \cup {Never} /\ Timed(c) /\ pongs[c] \in 0 .. 2
  BY DEF StreamInv, StreamTypeOK
<1>2. CASE stage[c] = "upgrade"
  <2>1. due[c] \in Nat /\ age[c] + due[c] <= TimeLimit(c)
    BY <1>1, <1>2 DEF Timed, Counted
  <2> QED BY <1>1, <1>2, <2>1, Durations DEF TimeLimit
<1>3. CASE stage[c] = "open" /\ ~loggedIn[c] /\ c \notin Lively
  <2>1. due[c] \in Nat /\ age[c] + due[c] <= TimeLimit(c)
    BY <1>1, <1>3 DEF Timed, Counted, WsStage
  <2> QED BY <1>1, <1>3, <2>1, Durations DEF TimeLimit
<1> QED BY <1>1, <1>2, <1>3

LEMMA OnRunInv == ASSUME Inv, NEW c \in Conn, OnRun(c) PROVE Inv'
<1>1. /\ StreamInv /\ StreamTypeOK /\ SessionInv /\ stage[c] = "upgrade"
      /\ Go(c, "open", IdleTimeout) /\ sessions' = sessions + 1
      /\ UNCHANGED <<age, loggedIn, pongs>>
  BY DEF Inv, StreamInv, OnRun
<1>2. "open" \in Stage /\ IdleTimeout \in Nat /\ IdleTimeout \in Nat \cup {Never}
  BY Durations DEF Stage, WsStage
<1>3. stage'[c] = "open" /\ due'[c] = IdleTimeout /\ age'[c] = age[c]
      /\ pongs'[c] = pongs[c]
  BY <1>1, <1>2, GoTypes
<1>4. StreamInv'
  <2>1. age[c] \in Nat /\ age[c] <= HandshakeTimeout
    BY <1>1, WsAge
  <2>2. Timed(c)'
    BY <1>3, <2>1, Durations DEF Timed, TimeLimit, Never
  <2>3. Unbegun(c)'
    BY <1>3 DEF Unbegun
  <2> QED BY <1>1, <1>2, <2>2, <2>3, GoStep
<1>5. SessionInv'
  <2>1. Websockets' = Websockets \cup {c} /\ c \notin Websockets
    BY <1>1 DEF Websockets, WsStage, Go, StreamTypeOK
  <2>2. /\ IsFiniteSet(Websockets \cup {c})
        /\ Cardinality(Websockets \cup {c}) = Cardinality(Websockets) + 1
    BY <1>1, <2>1, FS_AddElement DEF SessionInv
  <2> QED BY <1>1, <2>1, <2>2 DEF SessionInv, SessionsCounted
<1> QED BY <1>4, <1>5, ProcessKept DEF Inv, OnRun

\* Something arrives on websocket c that keeps it, or only its timer restarts.
LEMMA AliveStep ==
  ASSUME Inv, NEW c \in Conn, c \in Websockets, Alive(c), stage' = stage, age' = age,
         sessions' = sessions,
         loggedIn' \in [Conn -> BOOLEAN], pongs' \in [Conn -> 0 .. 2],
         \A x \in Conn \ {c} : loggedIn'[x] = loggedIn[x] /\ pongs'[x] = pongs[x],
         Timed(c)'
  PROVE  StreamInv' /\ SessionInv'
<1>1. StreamInv /\ StreamTypeOK /\ SessionInv /\ IdleTimeout \in Nat
  BY Durations DEF Inv, StreamInv
<1>2. StreamTypeOK' /\ OnlyAt(c)
  BY <1>1 DEF StreamTypeOK, OnlyAt, Alive
<1>3. Unbegun(c)'
  BY DEF Unbegun, Websockets, WsStage
<1>4. StreamInv'
  BY <1>1, <1>2, <1>3, StreamStep
<1> QED BY <1>1, <1>4, SessionKept

LEMMA OnLoginInv == ASSUME Inv, NEW c \in Conn, OnLogin(c) PROVE Inv'
<1>1. /\ c \in Websockets /\ loggedIn' = [loggedIn EXCEPT ![c] = TRUE] /\ Alive(c)
      /\ UNCHANGED <<stage, age, pongs, sessions>> /\ StreamTypeOK
  BY DEF Inv, StreamInv, OnLogin
<1>2. /\ loggedIn' \in [Conn -> BOOLEAN] /\ pongs' \in [Conn -> 0 .. 2]
      /\ \A x \in Conn \ {c} : loggedIn'[x] = loggedIn[x] /\ pongs'[x] = pongs[x]
      /\ loggedIn'[c]
  BY <1>1 DEF StreamTypeOK
<1>3. Timed(c)'
  BY <1>1, <1>2 DEF Timed, Counted, Websockets, WsStage, HttpStage
<1>4. StreamInv' /\ SessionInv'
  BY <1>1, <1>2, <1>3, AliveStep
<1>5. ProcessTypeOK' /\ AcceptInv'
  <2>1. late' \in BOOLEAN
    BY DEF OnLogin
  <2> QED BY <2>1 DEF Inv, ProcessTypeOK, AcceptInv, OnLogin
<1> QED BY <1>4, <1>5 DEF Inv, OnLogin

\* A frame of a client who is logged in, or bytes of a Lively one: his time is not counted.
LEMMA FrameInv ==
  ASSUME Inv, NEW c \in Conn, OnFrame(c) \/ OnBytes(c)
  PROVE  Inv'
<1>1. /\ c \in Websockets /\ Alive(c) /\ StreamTypeOK
      /\ UNCHANGED <<stage, age, loggedIn, pongs, sessions, processVars>>
      /\ loggedIn[c] \/ c \in Lively
  BY DEF Inv, StreamInv, OnFrame, OnBytes
<1>2. loggedIn' \in [Conn -> BOOLEAN] /\ pongs' \in [Conn -> 0 .. 2]
  BY <1>1 DEF StreamTypeOK
<1>3. Timed(c)'
  BY <1>1 DEF Timed, Counted, Websockets, WsStage, HttpStage
<1>4. StreamInv' /\ SessionInv'
  BY <1>1, <1>2, <1>3, AliveStep
<1> QED BY <1>1, <1>4, ProcessKept DEF Inv

\* Websockets are closed: each has the time of a handshake left.
LEMMA ShutdownStep ==
  ASSUME Inv, NEW C, C \subseteq Websockets, Shutdown(C),
         UNCHANGED <<age, loggedIn, sessions>>, pongs' \in [Conn -> 0 .. 2],
         \A x \in Conn \ C : pongs'[x] = pongs[x]
  PROVE  StreamInv' /\ SessionInv'
<1> DEFINE closing == {c \in C : stage[c] = "open"}
<1>1. /\ StreamInv /\ StreamTypeOK /\ SessionInv
      /\ stage' = [c \in Conn |-> IF c \in closing THEN "closing" ELSE stage[c]]
      /\ due' = [c \in Conn |-> IF c \in closing THEN HandshakeTimeout ELSE due[c]]
      /\ HandshakeTimeout \in Nat /\ "closing" \in Stage
  BY Durations DEF Inv, StreamInv, Shutdown, Stage, WsStage
<1>2. \A x \in closing : x \in Conn /\ stage[x] = "open"
  BY DEF Websockets
<1>3. \A x \in C : stage[x] \in WsStage
  BY DEF Websockets
<1> HIDE DEF closing
<1>4. StreamTypeOK'
  BY <1>1 DEF StreamTypeOK
<1>5. ASSUME NEW x \in Conn PROVE Timed(x)' /\ Unbegun(x)'
  <2>1. CASE x \in closing
    <3>1. stage[x] = "open" /\ stage'[x] = "closing" /\ due'[x] = HandshakeTimeout
      BY <1>1, <1>2, <2>1
    <3>2. Unbegun(x)'
      BY <3>1 DEF Unbegun
    <3>3. Counted(x)' => ~loggedIn[x] /\ x \notin Lively
      BY <3>1 DEF Counted, HttpStage
    <3>4. Timed(x)'
      BY <1>1, <3>1, <3>3, WsAge, Durations DEF Timed, TimeLimit, Never
    <3> QED BY <3>2, <3>4
  <2>2. CASE x \notin closing
    <3>1. stage'[x] = stage[x] /\ due'[x] = due[x] /\ Timed(x) /\ Unbegun(x)
      BY <1>1, <2>2 DEF StreamInv
    <3>2. stage[x] = "open" => x \notin C
      BY <2>2 DEF closing
    <3>3. CASE stage[x] = "open"
      BY <3>1, <3>2, <3>3 DEF Timed, Counted, TimeLimit, Unbegun
    <3>4. CASE stage[x] # "open"
      <4>1. (Counted(x)' <=> Counted(x)) /\ age'[x] = age[x]
        BY <3>1 DEF Counted
      <4>2. Counted(x) => TimeLimit(x)' = TimeLimit(x)
        BY <3>1, <3>4 DEF Counted, TimeLimit, HttpStage, WsStage
      <4> QED BY <3>1, <4>1, <4>2 DEF Timed, Unbegun
    <3> QED BY <3>3, <3>4
  <2> QED BY <2>1, <2>2
<1>6. SessionInv'
  <2>1. \A x \in Conn : stage'[x] \in WsStage <=> stage[x] \in WsStage
    BY <1>1, <1>2 DEF WsStage
  <2> QED BY <1>1, <2>1, SessionKept
<1> QED BY <1>4, <1>5, <1>6 DEF StreamInv

LEMMA OnAppFailsInv == ASSUME Inv, NEW c \in Conn, OnAppFails(c) PROVE Inv'
<1>1. /\ {c} \subseteq Websockets /\ Shutdown({c}) /\ pongs' \in [Conn -> 0 .. 2]
      /\ UNCHANGED <<age, loggedIn, pongs, sessions, processVars>>
  BY DEF Inv, StreamInv, StreamTypeOK, OnAppFails
<1>2. StreamInv' /\ SessionInv'
  BY <1>1, ShutdownStep
<1> QED BY <1>1, <1>2, ProcessKept DEF Inv

LEMMA OnPongInv == ASSUME Inv, NEW c \in Conn, OnPong(c) PROVE Inv'
<1> DEFINE n == IF pongs[c] < 2 THEN pongs[c] + 1 ELSE 2
<1>1. /\ StreamInv /\ StreamTypeOK /\ stage[c] = "open" /\ c \in Websockets
      /\ pongs' = [pongs EXCEPT ![c] = n] /\ OnPongs(c, n)
      /\ UNCHANGED <<age, loggedIn, sessions, processVars>>
  BY DEF Inv, StreamInv, OnPong, Websockets, WsStage
<1>2. /\ pongs[c] \in 0 .. 2 /\ n \in 1 .. 2
      /\ n <= 1 => pongs[c] = 0
      /\ loggedIn' \in [Conn -> BOOLEAN]
  BY <1>1 DEF StreamTypeOK
<1> HIDE DEF n
<1>3. /\ pongs' \in [Conn -> 0 .. 2] /\ pongs'[c] = n
      /\ \A x \in Conn \ {c} : pongs'[x] = pongs[x] /\ loggedIn'[x] = loggedIn[x]
  <2>1. n \in 0 .. 2 /\ pongs \in [Conn -> 0 .. 2]
    BY <1>1, <1>2 DEF StreamTypeOK
  <2>2. pongs' = [pongs EXCEPT ![c] = n] /\ loggedIn' = loggedIn
    BY <1>1
  <2> QED BY <2>1, <2>2
<1>4. StreamInv' /\ SessionInv'
  <2>1. CASE n > 1 /\ ~loggedIn[c]
    <3>1. Shutdown({c}) /\ {c} \subseteq Websockets
      BY <1>1, <2>1 DEF OnPongs
    <3> QED BY <1>1, <1>3, <3>1, ShutdownStep
  <2>2. CASE ~(n > 1 /\ ~loggedIn[c])
    <3>1. Alive(c) /\ stage' = stage
      BY <1>1, <2>2 DEF OnPongs
    <3>2. due'[c] = IdleTimeout /\ stage'[c] = "open" /\ age'[c] = age[c]
      BY <1>1, <3>1 DEF Alive, StreamTypeOK
    <3>3. Timed(c)'
      <4>1. Counted(c)' => ~loggedIn[c] /\ c \notin Lively
        BY <1>1, <3>2 DEF Counted, HttpStage
      <4>2. Counted(c)' => age[c] \in Nat /\ age[c] <= HandshakeTimeout + IdleTimeout
        <5>1. StreamInv /\ stage[c] = "open"
          BY <1>1
        <5>2. Counted(c)' => pongs[c] = 0
          BY <1>2, <2>2, <4>1
        <5> QED BY <4>1, <5>1, <5>2, WsAge
      <4>3. pongs'[c] \in 1 .. 2
        BY <1>2, <1>3
      <4>4. TimeLimit(c)' = HandshakeTimeout + IdleTimeout + IdleTimeout
        BY <3>2, <4>3 DEF TimeLimit
      <4> QED BY <3>2, <4>2, <4>4, Durations DEF Timed, Never
    <3> QED BY <1>1, <1>2, <1>3, <3>1, <3>3, AliveStep
  <2> QED BY <2>1, <2>2
<1> QED BY <1>1, <1>4, ProcessKept DEF Inv

LEMMA OnReadErrorInv == ASSUME Inv, NEW c \in Conn, OnReadError(c) PROVE Inv'
<1>1. /\ StreamInv /\ StreamTypeOK /\ SessionInv /\ c \in Websockets /\ Drop(c)
      /\ sessions' = sessions - 1 /\ UNCHANGED <<processVars>>
  BY DEF Inv, StreamInv, OnReadError, CountAfterFinish
<1>2. StreamInv' /\ stage' = [stage EXCEPT ![c] = "closed"]
  BY <1>1, DropStep
<1>3. SessionInv'
  <2>1. Websockets' = Websockets \ {c}
    BY <1>1, <1>2 DEF Websockets, WsStage, StreamTypeOK
  <2>2. /\ IsFiniteSet(Websockets \ {c})
        /\ Cardinality(Websockets \ {c}) = Cardinality(Websockets) - 1
    BY <1>1, FS_RemoveElement DEF SessionInv
  <2>3. Cardinality(Websockets \ {c}) \in Nat
    BY <2>2, FS_CardinalityType
  <2> QED BY <1>1, <2>1, <2>2, <2>3 DEF SessionInv, SessionsCounted
<1> QED BY <1>1, <1>2, <1>3, ProcessKept DEF Inv

-----------------------------------------------------------------------------
(* Time.                                                                   *)

LEMMA TickInv == ASSUME Inv, Tick PROVE Inv'
<1>1. /\ StreamInv /\ StreamTypeOK
      /\ \A c \in Conn : due[c] # 0
      /\ due' = [c \in Conn |-> IF due[c] = Never THEN Never ELSE due[c] - 1]
      /\ age' = [c \in Conn |-> IF Counted(c) /\ age[c] < AgeBound
                                THEN age[c] + 1 ELSE age[c]]
      /\ UNCHANGED <<stage, loggedIn, pongs, sessions, processVars>>
  BY DEF Inv, StreamInv, Tick
<1>2. StreamTypeOK'
  <2>1. ASSUME NEW c \in Conn
        PROVE  /\ (IF due[c] = Never THEN Never ELSE due[c] - 1) \in Nat \cup {Never}
               /\ (IF Counted(c) /\ age[c] < AgeBound THEN age[c] + 1 ELSE age[c])
                    \in Nat
    <3>1. due[c] \in Nat \cup {Never} /\ age[c] \in Nat /\ due[c] # 0
      BY <1>1 DEF StreamTypeOK
    <3>2. (IF due[c] = Never THEN Never ELSE due[c] - 1) \in Nat \cup {Never}
      BY <3>1 DEF Never
    <3> QED BY <3>1, <3>2
  <2>2. due' \in [Conn -> Nat \cup {Never}] /\ age' \in [Conn -> Nat]
    BY <1>1, <2>1
  <2> QED BY <1>1, <2>2 DEF StreamTypeOK
<1>3. ASSUME NEW c \in Conn PROVE Timed(c)' /\ Unbegun(c)'
  <2>1. /\ Timed(c) /\ Unbegun(c) /\ due[c] # 0
        /\ age[c] \in Nat /\ due[c] \in Nat \cup {Never}
        /\ Counted(c)' <=> Counted(c)
    BY <1>1 DEF StreamInv, StreamTypeOK, Counted
  <2>2. CASE Counted(c)
    <3>1. /\ due[c] \in Nat \ {0} /\ age[c] + due[c] <= TimeLimit(c)
          /\ stage[c] \notin {"none", "backlog", "accepted"}
      BY <2>1, <2>2 DEF Timed, Counted, HttpStage, WsStage
    <3>2. due'[c] = due[c] - 1 /\ due'[c] # Never
      BY <1>1, <3>1 DEF Never
    <3>3. age'[c] = age[c] \/ age'[c] = age[c] + 1
      BY <1>1
    <3>4. TimeLimit(c)' = TimeLimit(c)
      BY <1>1 DEF TimeLimit
    <3>5. TimeLimit(c) \in Nat
      BY <2>2, Durations DEF TimeLimit, Counted, HttpStage, WsStage
    <3>6. age'[c] + due'[c] <= age[c] + due[c]
      BY <2>1, <3>1, <3>2, <3>3
    <3>7. age'[c] + due'[c] <= TimeLimit(c)
      BY <2>1, <3>1, <3>2, <3>3, <3>5
    <3>8. Timed(c)'
      BY <3>2, <3>4, <3>7 DEF Timed
    <3> QED BY <1>1, <3>1, <3>8 DEF Unbegun
  <2>3. CASE ~Counted(c)
    <3>1. age'[c] = age[c]
      BY <1>1, <2>3
    <3> QED BY <1>1, <2>1, <2>3, <3>1 DEF Timed, Unbegun
  <2> QED BY <2>2, <2>3
<1>4. SessionInv'
  BY <1>1, SessionKept DEF Inv
<1> QED BY <1>1, <1>2, <1>3, <1>4, ProcessKept DEF Inv, StreamInv

\* The timer of c has run out and one of the handlers that end a stage runs.
LEMMA TimeoutInv == ASSUME Inv, NEW c \in Conn, Timeout(c) PROVE Inv'
  BY OnHttpErrorInv, OnHttpWriteInv, OnReadErrorInv DEF Timeout

-----------------------------------------------------------------------------
(* Redis and the process.                                                  *)

Cmds == {"hello", "hvals", "hgetall", "quit"}

\* A step that leaves the streams and the sessions alone.
LEMMA ProcessOnly ==
  ASSUME Inv, UNCHANGED <<streamVars, sessions>>, ProcessTypeOK', AcceptInv'
  PROVE  Inv'
<1>1. StreamInv' /\ SessionInv'
  BY StreamKept, SessionKept DEF Inv, streamVars
<1> QED BY <1>1 DEF Inv

LEMMA AnsweredType ==
  ASSUME pipe \in Seq(Cmds), NEW cmd, NEW cmds \in Seq(Cmds), Answered(cmd, cmds)
  PROVE  pipe' \in Seq(Cmds)
<1>1. pipe # <<>> /\ pipe' = Tail(pipe) \o cmds
  BY DEF Answered
<1>2. Tail(pipe) \in Seq(Cmds)
  BY <1>1, HeadTailProperties
<1> QED BY <1>1, <1>2, ConcatProperties

\* Redis answers HELLO or HVALS and the next command goes out.
LEMMA RedisAnswerInv == ASSUME Inv, OnHello \/ OnHvals PROVE Inv'
<1>1. /\ ProcessTypeOK /\ AcceptInv /\ pipe \in Seq(Cmds)
      /\ UNCHANGED <<streamVars, sessions, isOpen, accept, redisUp, losses,
                     down, running, late>>
  BY DEF Inv, ProcessTypeOK, Cmds, OnHello, OnHvals
<1>2. <<"hvals">> \in Seq(Cmds) /\ <<"hgetall">> \in Seq(Cmds)
  BY DEF Cmds
<1>3. pipe' \in Seq(Cmds)
  BY <1>1, <1>2, AnsweredType DEF OnHello, OnHvals
<1>4. ProcessTypeOK' /\ AcceptInv'
  BY <1>1, <1>3 DEF ProcessTypeOK, AcceptInv, Cmds
<1> QED BY <1>1, <1>4, ProcessOnly

LEMMA OnHgetallInv == ASSUME Inv, OnHgetall PROVE Inv'
<1>1. /\ ProcessTypeOK /\ AcceptInv /\ pipe \in Seq(Cmds)
      /\ UNCHANGED <<streamVars, sessions, redisUp, losses, down, running>>
  BY DEF Inv, ProcessTypeOK, Cmds, OnHgetall
<1>2. <<>> \in Seq(Cmds)
  OBVIOUS
<1>3. pipe' \in Seq(Cmds)
  BY <1>1, <1>2, AnsweredType DEF OnHgetall
<1>4. /\ isOpen' \in BOOLEAN /\ late' \in BOOLEAN /\ AcceptInv'
      /\ accept' \in {"none", "waiting", "ready", "failed", "aborted"}
  <2>1. CASE isOpen
    BY <1>1, <2>1 DEF ProcessTypeOK, AcceptInv, OnHgetall
  <2>2. CASE ~isOpen
    BY <1>1, <2>2 DEF ProcessTypeOK, AcceptInv, OnHgetall, DoAccept
  <2> QED BY <2>1, <2>2
<1>5. ProcessTypeOK'
  BY <1>1, <1>3, <1>4 DEF ProcessTypeOK, Cmds
<1> QED BY <1>1, <1>4, <1>5, ProcessOnly

\* The connection to Redis ends: nothing that was sent is answered any more.
LEMMA RedisEndsInv == ASSUME Inv, OnQuit \/ RedisLost PROVE Inv'
<1>1. /\ ProcessTypeOK /\ AcceptInv
      /\ UNCHANGED <<streamVars, sessions, isOpen, accept, down, running,
                     late>>
  BY DEF Inv, OnQuit, RedisLost
<1>2. <<>> \in Seq(Cmds) /\ <<"hello">> \in Seq(Cmds)
  BY DEF Cmds
<1>3. pipe' \in Seq(Cmds)
  BY <1>2 DEF OnQuit, RedisLost
<1>4. redisUp' \in BOOLEAN
  BY <1>1 DEF ProcessTypeOK, OnQuit, RedisLost
<1>5. losses' \in 0 .. MaxLosses
  BY <1>1, ConnectionAssumption DEF ProcessTypeOK, OnQuit, RedisLost
<1>6. ProcessTypeOK' /\ AcceptInv'
  BY <1>1, <1>3, <1>4, <1>5 DEF ProcessTypeOK, AcceptInv, Cmds
<1> QED BY <1>1, <1>6, ProcessOnly

LEMMA OnSignalInv == ASSUME Inv, OnSignal PROVE Inv'
<1>1. /\ ProcessTypeOK /\ AcceptInv /\ Shutdown(ToldToLeave) /\ StopAcceptor
      /\ down' = TRUE /\ pipe' = Append(pipe, "quit")
      /\ UNCHANGED <<age, loggedIn, pongs, sessions, redisUp, losses,
                     running, late>>
  BY DEF Inv, OnSignal
<1>2. ToldToLeave \subseteq Websockets /\ pongs' \in [Conn -> 0 .. 2]
  BY <1>1 DEF Inv, StreamInv, StreamTypeOK, ToldToLeave
<1>3. StreamInv' /\ SessionInv'
  BY <1>1, <1>2, ShutdownStep
<1>4. pipe' \in Seq(Cmds)
  <2>1. pipe \in Seq(Cmds) /\ "quit" \in Cmds
    BY <1>1 DEF ProcessTypeOK, Cmds
  <2> QED BY <1>1, <2>1, AppendProperties
<1>5. /\ isOpen' \in BOOLEAN /\ AcceptInv'
      /\ accept' \in {"none", "waiting", "ready", "failed", "aborted"}
  BY <1>1 DEF ProcessTypeOK, AcceptInv, StopAcceptor
<1>6. ProcessTypeOK'
  BY <1>1, <1>4, <1>5 DEF ProcessTypeOK, Cmds
<1> QED BY <1>1, <1>3, <1>5, <1>6 DEF Inv

LEMMA ExitInv == ASSUME Inv, Exit PROVE Inv'
<1>1. /\ StreamInv /\ StreamTypeOK /\ SessionInv /\ running' = FALSE
      /\ stage' = [c \in Conn |-> IF stage[c] = "backlog" THEN "closed" ELSE stage[c]]
      /\ UNCHANGED <<due, age, loggedIn, pongs, sessions, isOpen, accept,
                     pipe, redisUp, losses, down, late>>
  BY DEF Inv, StreamInv, Exit
<1>2. StreamTypeOK'
  BY <1>1 DEF StreamTypeOK, Stage
<1>3. ASSUME NEW c \in Conn PROVE Timed(c)' /\ Unbegun(c)'
  BY <1>1 DEF StreamInv, Timed, Counted, TimeLimit, Unbegun, HttpStage, WsStage
<1>4. SessionInv'
  <2>1. \A x \in Conn : stage'[x] \in WsStage <=> stage[x] \in WsStage
    BY <1>1 DEF WsStage
  <2> QED BY <1>1, <2>1, SessionKept
<1>5. ProcessTypeOK' /\ AcceptInv'
  BY <1>1 DEF Inv, ProcessTypeOK, AcceptInv
<1> QED BY <1>1, <1>2, <1>3, <1>4, <1>5 DEF Inv, StreamInv

-----------------------------------------------------------------------------
(* Every step, and what follows from the invariant.                        *)

LEMMA NextInv == ASSUME Inv, [Next]_vars PROVE Inv'
<1>1. ASSUME NEW c \in Conn, Connect(c) \/ Timeout(c) PROVE Inv'
  BY <1>1, ConnectInv, TimeoutInv
<1>2. ASSUME NEW c \in Conn, HttpStep(c) PROVE Inv'
  BY <1>2, OnDetectInv, OnHandshakeInv, OnRequestInv, OnEndOfStreamInv,
     OnHttpWriteInv, OnHttpErrorInv DEF HttpStep
<1>3. ASSUME NEW c \in Conn, WsStep(c) PROVE Inv'
  BY <1>3, OnUpgradeInv, OnRunInv, OnLoginInv, FrameInv, OnAppFailsInv, OnPongInv,
     OnReadErrorInv DEF WsStep
<1>4. CASE AcceptStep
  BY <1>4, AcceptOnlyInv, KernelAcceptInv, OnAcceptInv DEF AcceptStep
<1>5. CASE RedisStep \/ RedisLost
  BY <1>5, RedisAnswerInv, OnHgetallInv, RedisEndsInv DEF RedisStep
<1>6. CASE UNCHANGED vars
  <2>1. /\ UNCHANGED <<streamVars, sessions>>
        /\ UNCHANGED processVars
    BY <1>6 DEF vars, streamVars, processVars
  <2> QED BY <2>1, ProcessKept, ProcessOnly DEF Inv
<1> QED BY <1>1, <1>2, <1>3, <1>4, <1>5, <1>6, TickInv, OnSignalInv, ExitInv DEF Next

\* The invariant holds in every state a process can reach.
THEOREM InvHolds == Spec => []Inv
  BY InitInv, NextInv, PTL DEF Spec

\* Every variable of a process and its connections keeps its type: timers are
\* never below zero and the number of sessions is never negative.
THEOREM TypeCorrect == Spec => []TypeOK
  BY InvHolds, InvParts, PTL

\* number_of_sessions in ws_stats_ is the number of websockets, however many
\* there are and however they end.
THEOREM SessionsAreCounted == Spec => []SessionsCounted
  BY InvHolds, InvParts, PTL

\* For all values of the timeouts: before it is a websocket, a connection is dropped
\* before the timeouts of the stages it went through have passed, and a websocket of a
\* client that is neither logged in nor Lively before two idle times and two
\* handshakes have.
THEOREM StayIsBounded == Spec => []BoundedStay
  BY InvHolds, InvParts, PTL

-----------------------------------------------------------------------------
(* After the accept has been cancelled.                                    *)

Cancelled == accept \in {"aborted", "none"} /\ down /\ isOpen

\* down is never taken back, and only an accept that waits can do anything.
LEMMA CancelledStays == ASSUME Cancelled, [Next]_vars PROVE Cancelled'
<1>1. ASSUME NEW c \in Conn, Connect(c) \/ HttpStep(c) \/ OnUpgrade(c) \/ OnRun(c)
                               \/ OnFrame(c) \/ OnAppFails(c) \/ OnBytes(c)
                               \/ OnPong(c) \/ OnReadError(c) \/ Timeout(c)
      PROVE Cancelled'
  <2>1. UNCHANGED processVars
    BY <1>1 DEF Connect, HttpStep, OnDetect, OnHandshake, OnRequest, OnEndOfStream,
                OnHttpWrite, OnHttpError, OnUpgrade, OnRun, OnFrame, OnAppFails,
                OnBytes, OnPong, OnReadError, Timeout
  <2> QED BY <2>1 DEF Cancelled, processVars
<1>2. ASSUME NEW c \in Conn, OnLogin(c) PROVE Cancelled'
  BY <1>2 DEF Cancelled, OnLogin
<1>3. CASE AcceptStep
  BY <1>3 DEF Cancelled, AcceptStep, KernelAccept, KernelAcceptFails, OnAccept,
              OnAcceptError
<1>4. CASE RedisStep
  BY <1>4 DEF Cancelled, RedisStep, OnHello, OnHvals, OnHgetall, OnQuit
<1>5. CASE RedisLost \/ OnSignal \/ Exit
  BY <1>5 DEF Cancelled, RedisLost, OnSignal, Exit
<1>6. CASE Tick \/ UNCHANGED vars
  BY <1>6 DEF Cancelled, Tick, processVars, vars
<1> QED BY <1>1, <1>2, <1>3, <1>4, <1>5, <1>6 DEF Next, WsStep

\* Once the shutdown has cancelled the accept, nothing is accepted any more.
THEOREM StoppedForGood == Spec => StaysStopped
<1>1. Inv /\ accept = "aborted" => Cancelled
  BY InvParts DEF Cancelled
<1>2. Cancelled => accept \in {"aborted", "none"}
  BY DEF Cancelled
<1> QED BY <1>1, <1>2, InvHolds, CancelledStays, PTL DEF Spec, StaysStopped
=============================================================================
