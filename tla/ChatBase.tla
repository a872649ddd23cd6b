------------------------------ MODULE ChatBase ------------------------------
(***************************************************************************)
(* The vocabulary that the modules about chat share.                       *)
(***************************************************************************)
EXTENDS Integers, Sequences

CONSTANTS Session,   \* the websocket connections that are ever accepted
          Node,      \* the occase-db processes
          User,      \* the user ids (digests of user name and key)
          Chat,      \* chat messages: stored for the user if undeliverable
          PubAck,    \* publish acknowledgements, sent with persist = true;
                     \* an element of both sets is used as one or the other
          Presence,  \* presence messages: never stored
          None,      \* the empty pub_hash_, the missing map entry
          Ack        \* a login_ack or a server_ack frame

\* What finish() saves for the user, and everything users send each other.
Mail == Chat \cup PubAck
Msg == Mail \cup Presence

ASSUME ConstantsDiffer ==
  /\ None \notin Session \cup Node \cup User
  /\ Ack \notin Msg
  /\ Mail \cap Presence = {}

\* A frame in msg_queue_.  Acks are always sent with persist = false.
Entry == [msg : Msg, persist : BOOLEAN] \cup [msg : {Ack}, persist : {FALSE}]

\* A string made of a user id and depth copies of chat_msg_prefix before it:
\* depth 0 is the user id, depth 1 the key of the list of his messages.
Names(depths) == [user : User, depth : depths]
Key == Names(1 .. 2)
UserId(u) == [user |-> u, depth |-> 0]
ChatKey(name) == [name EXCEPT !.depth = @ + 1]
=============================================================================
