----------------------------- MODULE FcmSession -----------------------------
(***************************************************************************)
(* src/ntf_session.cpp: the HTTPS requests to FCM that on_timeout() of     *)
(* Notifier starts, one session for each notification.  A session shares   *)
(* nothing with the others but the process, with which it ends; it tries   *)
(* nothing twice and reports to nobody.                                    *)
(*                                                                         *)
(* The peer may fail or stay silent at any time.  The stream has no timer  *)
(* before the first expires_after().  The first MaxSessions sessions of a  *)
(* user are followed.                                                      *)
(***************************************************************************)
EXTENDS Notifier

CONSTANT MaxSessions

\* session[u][k] sends notified[u][k]: what it waits for, and whether the timer
\* of its stream is set.
VARIABLE session

fcmVars == <<session, vars>>

Stage(stage, timed) == [stage |-> stage, timed |-> timed]
Ended == Stage("ended", FALSE)

\* The k-th session of u was at stage from and goes on to s.
GoOn(u, k, from, s) ==
  /\ k \in DOMAIN session[u] /\ session[u][k].stage = from
  /\ session' = [session EXCEPT ![u][k] = s]

\* A step of the notifier: run() begins to connect for each notification that
\* the step sends, and the sessions end with the process.
NotifierStep ==
  /\ Next
  /\ session' = [u \in User |->
                   [k \in DOMAIN notified'[u] \cap 1 .. MaxSessions |->
                      IF k \in DOMAIN session[u] THEN session[u][k]
                      ELSE Stage("connect", FALSE)]]

OnConnect(u, k) == GoOn(u, k, "connect", Stage("handshake", FALSE))

\* Mutant: the timer is not set.
OnHandshakeUntimed(u, k) == GoOn(u, k, "handshake", Stage("write", FALSE))
OnHandshake(u, k) == GoOn(u, k, "handshake", Stage("write", TRUE))

OnWrite(u, k) == GoOn(u, k, "write", [session[u][k] EXCEPT !.stage = "read"])

\* on_read(): whatever FCM answers, TLS is shut down under a new timer.
OnRead(u, k) == GoOn(u, k, "read", Stage("shutdown", TRUE))

\* on_shutdown(), or any handler with an error: nothing keeps the session.
OnEnd(u, k) ==
  \E stage \in {"connect", "handshake", "write", "read", "shutdown"} :
    GoOn(u, k, stage, Ended)

\* The timer fails the operation that is outstanding.
SessionTimeout(u, k) ==
  /\ k \in DOMAIN session[u] /\ session[u][k].timed
  /\ OnEnd(u, k)
  /\ UNCHANGED vars

FcmInit == Init /\ session = [u \in User |-> <<>>]

FcmStep(u, k) ==
  \/ SessionTimeout(u, k)
  \/ /\ \/ OnConnect(u, k) \/ OnHandshake(u, k) \/ OnWrite(u, k)
        \/ OnRead(u, k) \/ OnEnd(u, k)
     /\ UNCHANGED vars

FcmNext == NotifierStep \/ \E u \in User, k \in 1 .. MaxSessions : FcmStep(u, k)

\* As in Notifier, and timers fire; nothing is assumed of FCM.
FcmSpec ==
  /\ FcmInit /\ [][FcmNext]_fcmVars
  /\ Fairness
  /\ \A u \in User, k \in 1 .. MaxSessions : WF_fcmVars(SessionTimeout(u, k))

-----------------------------------------------------------------------------

\* However FCM behaves, a session that got past its TLS handshake ends.  Of the
\* handshake this cannot be said, although ntf_session.hpp:41 speaks of a
\* timeout for it.
SessionEnds ==
  \A u \in User, k \in 1 .. MaxSessions :
    (k \in DOMAIN session[u] /\ session[u][k].stage \in {"write", "read", "shutdown"})
      ~> (k \in DOMAIN session[u] => session[u][k] = Ended)
=============================================================================
