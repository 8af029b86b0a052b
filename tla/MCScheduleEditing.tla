------------------------- MODULE MCScheduleEditing -------------------------
(* An instance of ScheduleEditing for TLC. A behaviour opens one of the four  *)
(* documents below.                                                           *)
EXTENDS ScheduleEditing, TLC

CONSTANTS g1, g2, g3, g4, b, n
ASSUME {g1, g2, g3, g4} \subseteq GroupIds /\ b \in BoxIds /\ n \in NoteIds

Task(parent, preds) == [parent |-> parent, preds |-> preds]
Group(parent, named, source) == [parent |-> parent, named |-> named, source |-> source]

(* Task 1 carries task 2 of another task group, which derives from it and     *)
(* hangs below the one deriving from task 1.                                  *)
Nested ==
    [mark |-> 4,
     tasks |-> 1 :> Task(Null, {}) @@ 2 :> Task(1, {1}),
     groups |-> g1 :> Group(Null, FALSE, 1) @@ g2 :> Group(g1, FALSE, 2),
     members |-> {<<1, g1>>, <<2, g2>>}, visuals |-> {1, 2}, origins |-> {2},
     resources |-> {3}, assignments |-> {[uid |-> 4, task |-> 2, resource |-> 3]},
     notes |-> n :> [band |-> g1, task |-> 2, box |-> Null, point |-> "side"],
     boxes |-> b :> [top |-> g1, bottom |-> g2],
     pinned |-> {g2}, shown |-> {2}, listed |-> {3}]

(* Task 1 stands on the task group deriving from its child, task 2, which     *)
(* stands on a task group made by hand, below that one.                       *)
Crossed ==
    [mark |-> 2,
     tasks |-> 1 :> Task(Null, {2}) @@ 2 :> Task(1, {}),
     groups |-> g1 :> Group(Null, FALSE, 2) @@ g2 :> Group(g1, TRUE, Null),
     members |-> {<<1, g1>>, <<2, g2>>}, visuals |-> {1, 2}, origins |-> {},
     resources |-> {}, assignments |-> {},
     notes |-> n :> [band |-> g2, task |-> Null, box |-> b, point |-> "top"],
     boxes |-> b :> [top |-> g1, bottom |-> g1],
     pinned |-> {}, shown |-> {}, listed |-> {}]

(* Two tasks that stand on each other's task group.                           *)
Swapped ==
    [mark |-> 2,
     tasks |-> 1 :> Task(Null, {}) @@ 2 :> Task(Null, {1}),
     groups |-> g1 :> Group(Null, FALSE, 2) @@ g2 :> Group(g1, FALSE, 1),
     members |-> {<<1, g1>>, <<2, g2>>}, visuals |-> {1, 2}, origins |-> {},
     resources |-> {}, assignments |-> {}, notes |-> <<>>, boxes |-> <<>>,
     pinned |-> {g1}, shown |-> {1}, listed |-> {}]

(* A chain of three tasks, the last of which stands beside the first.         *)
Chained ==
    [mark |-> 3,
     tasks |-> 1 :> Task(Null, {}) @@ 2 :> Task(1, {}) @@ 3 :> Task(2, {1, 2}),
     groups |-> g1 :> Group(Null, FALSE, 1) @@ g2 :> Group(Null, FALSE, 2),
     members |-> {<<1, g1>>, <<2, g2>>, <<3, g1>>}, visuals |-> {1, 2, 3}, origins |-> {3},
     resources |-> {}, assignments |-> {}, notes |-> <<>>,
     boxes |-> b :> [top |-> g1, bottom |-> g2],
     pinned |-> {}, shown |-> {1, 3}, listed |-> {}]

OpenedDocuments == {Nested, Crossed, Swapped, Chained}
=============================================================================
