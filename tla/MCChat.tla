------------------------------- MODULE MCChat -------------------------------
(* ChatWorker with sets of model values for TLC. *)
EXTENDS ChatWorker, TLC

\* No action and no property tells two elements of one of these sets apart.
Symmetric == Permutations(Session) \cup Permutations(Node) \cup
             Permutations(User) \cup Permutations(Chat)
=============================================================================
