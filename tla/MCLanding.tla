----------------------------- MODULE MCLanding ------------------------------
(***************************************************************************)
(* Small instances of Landing: the default template, one more that is      *)
(* built in and one that is only upstream.                                 *)
(***************************************************************************)
EXTENDS Landing, TLC

=============================================================================
