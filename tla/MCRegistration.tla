---------------------------- MODULE MCRegistration ----------------------------
(* Instances of Registration for TLC. *)
EXTENDS RegistrationRefinement

MCServices == {11, 12, 13}
TwoServices == {11, 12}
OneService == {11}
NoMultiline == {}
OneMultiline == {11}
=============================================================================
