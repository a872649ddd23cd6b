----------------------------- MODULE MCNotifier -----------------------------
(* Notifier with sets of model values for TLC.  Under FairSpec symmetry is *)
(* not sound, and the violation needs one element of each set only.        *)
EXTENDS FcmSession, TLC
=============================================================================
