-------------------------- MODULE MCImportDocument --------------------------
(* An instance of ImportDocument for TLC: two issues of a master, a file of   *)
(* another tool that names no master, and a document of the program.          *)
EXTENDS ImportDocument, TLC

CONSTANTS g1, g2, g3, n, P, Ann, Bob
ASSUME {g1, g2, g3} \subseteq GroupIds /\ n \in NoteIds /\ P \in Masters

Task(parent, preds) == [parent |-> parent, preds |-> preds]
Group(parent, named, source) == [parent |-> parent, named |-> named, source |-> source]

Bare(mark, tasks, groups, members) ==
    [mark |-> mark, tasks |-> tasks, groups |-> groups, members |-> members,
     visuals |-> DOMAIN tasks, origins |-> {}, resources |-> {}, assignments |-> {},
     notes |-> <<>>, boxes |-> <<>>, pinned |-> {}, shown |-> {}, listed |-> {}]

File(format, master, d, names) ==
    [format |-> format, master |-> master, document |-> d, nameOf |-> names,
     originOf |-> <<>>, sequence |-> 0]

(* A root task and a leaf below it, which has no task group of its own.       *)
FirstIssue ==
    File("mspdi", P,
         [Bare(2, 1 :> Task(Null, {}) @@ 2 :> Task(1, {}),
               g1 :> Group(Null, FALSE, 1), {<<1, g1>>, <<2, g1>>})
            EXCEPT !.resources = {1}, !.assignments = {[uid |-> 1, task |-> 2, resource |-> 1]}],
         1 :> Ann)

(* The leaf is gone, a branch has come whose root bears the uid that the      *)
(* first issue's root gets where it is taken in as different, and the         *)
(* resources are numbered anew.                                               *)
NextIssue ==
    File("mspdi", P,
         [Bare(4, 1 :> Task(Null, {4}) @@ 3 :> Task(1, {}) @@ 4 :> Task(3, {}),
               g1 :> Group(Null, FALSE, 1) @@ g3 :> Group(g1, FALSE, 3),
               {<<1, g1>>, <<3, g3>>, <<4, g3>>})
            EXCEPT !.resources = {1, 2}, !.assignments = {[uid |-> 1, task |-> 1, resource |-> 1],
                                                          [uid |-> 2, task |-> 3, resource |-> 2]}],
         1 :> Bob @@ 2 :> Ann)

(* A document drawn here and saved after a merge had brought its task 2 from  *)
(* the master, with a note on a task.                                         *)
Drawn ==
    [File("grsJson", Null,
         [Bare(2, 1 :> Task(2, {}) @@ 2 :> Task(Null, {}),
               g1 :> Group(Null, TRUE, Null) @@ g2 :> Group(g1, FALSE, 2),
               {<<1, g1>>, <<2, g2>>})
            EXCEPT !.notes = n :> [band |-> g1, task |-> 1, box |-> Null, point |-> "side"],
                   !.origins = {2}],
         <<>>)
        EXCEPT !.originOf = 2 :> [master |-> P, uid |-> 3, seen |-> 1], !.sequence = 1]

MCFiles == {FirstIssue, NextIssue, Drawn}
MCOpenings == {f.document : f \in MCFiles}
TasksOfFiles == UNION {Tasks(f.document) : f \in MCFiles}
=============================================================================
