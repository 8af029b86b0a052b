-------------------------- MODULE MCScreenSession --------------------------
(* Instances of ScreenSession for TLC. *)
EXTENDS ScreenSession, TLC

CONSTANTS saved, refused

(* One notice that ends by itself and one that stays, in words of their own. *)
OwnWords == [r \in {saved, refused} |-> r]
=============================================================================
