-------------------------- MODULE MCDocumentChange --------------------------
(* Instances of DocumentChange for TLC: the one agent the page installs, and  *)
(* two readings of the clock. Every write makes a new document, so MaxEdit    *)
(* bounds them; undo, redo, rounds and registrations are unbounded.          *)
EXTENDS DocumentChange, TLC

CONSTANT a
ASSUME a \in Agents

Sizes == [edit \in 0 .. MaxEdit |-> IF edit \in {1, 2} THEN 2 ELSE 1]

IncomingStamps ==
    {[scheduleUpdatedAt |-> 1, lastEditedBy |-> author, settingsUpdatedAt |-> 2] :
         author \in {a, Other}}

(* Files of other sessions only: AG-12 itself leaves out a file whose last    *)
(* writer bears the agent's name.                                            *)
ForeignStamps == {stamp \in IncomingStamps : stamp.lastEditedBy = Other}
=============================================================================
