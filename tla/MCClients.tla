------------------------------ MODULE MCClients ------------------------------
(* Clients with two pairs of sessions, a with b and x with y, for TLC. *)
EXTENDS Clients

PartnerOf == [s \in Session |-> CASE s = "a" -> "b" [] s = "b" -> "a"
                                 [] s = "x" -> "y" [] s = "y" -> "x"]
MessagesOf == [s \in Session |-> CASE s = "a" -> <<"a1", "a2", "a3">>
                                  [] s = "b" -> <<"b1", "b2", "b3">>
                                  [] s = "x" -> <<"x1">>
                                  [] s = "y" -> <<"y1">>]
LaunchedFor == [t \in 4 .. 6 |-> CASE t = 4 -> {"a", "x"}
                                   [] t = 5 -> {"a", "b"}
                                   [] t = 6 -> Session]
=============================================================================
