------------------------------- MODULE Mailbox -------------------------------
(***************************************************************************)
(* What occase-db promises about persistent messages ("will be persisted   *)
(* on the database and sent to the user next time he reconnects"): a       *)
(* message that was accepted for a user is held for him until it is        *)
(* delivered to him or openly discarded, and it does not come back.        *)
(***************************************************************************)
CONSTANTS User, Mail

VARIABLES held,      \* the messages held, each with the user it is held for
          delivered, \* the messages delivered, each with the user who got it
          discarded  \* the messages discarded

vars == <<held, delivered, discarded>>

For(u, m) == [user |-> u, mail |-> m]

Init ==
  /\ held = {}
  /\ delivered = {}
  /\ discarded = {}

\* Nobody has sent m before.
Unknown(m) ==
  /\ \A h \in held \cup delivered : h.mail # m
  /\ m \notin discarded

Post(u, m) ==
  /\ Unknown(m)
  /\ held' = held \cup {For(u, m)}
  /\ UNCHANGED <<delivered, discarded>>

Deliver(u, m) ==
  /\ For(u, m) \in held
  /\ held' = held \ {For(u, m)}
  /\ delivered' = delivered \cup {For(u, m)}
  /\ UNCHANGED discarded

\* A process that has told Redis to close its connection takes a message for a
\* user who is offline and cannot store it.
Refuse(u, m) ==
  /\ Unknown(m)
  /\ discarded' = discarded \cup {m}
  /\ UNCHANGED <<held, delivered>>

\* A new login disregards what the old session holds; an old list expires; a
\* session that is closed by a shutdown hands over what cannot be stored; a
\* connection to Redis is lost with the messages under way, whoever they are for;
\* after that the list of one user is handed on to another.
Discard ==
  \E S \in SUBSET held :
    /\ held' = held \ S
    /\ discarded' = discarded \cup {h.mail : h \in S}
    /\ UNCHANGED delivered

Next ==
  \/ Discard
  \/ \E u \in User, m \in Mail : Post(u, m) \/ Deliver(u, m) \/ Refuse(u, m)

Spec == Init /\ [][Next]_vars
=============================================================================
