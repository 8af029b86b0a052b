---------------------------- MODULE MCAgentRelay ----------------------------
(* Instances of AgentRelay for TLC. *)
EXTENDS AgentRelay, TLC

CONSTANTS c1, c2

Asking(kind1, kind2, spent) == [kinds |-> (c1 :> kind1) @@ (c2 :> kind2), spent |-> spent]

(* Two calls that watch, over two links; over one, a plain call beside one that   *)
(* only looks, and two saves of which one may replace.                        *)
TwoAtOnce == {Asking("watch", "watch", 0), Asking("plain", "look", 1), Asking("save", "replace", 1)}
=============================================================================
