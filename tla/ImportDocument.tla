--------------------------- MODULE ImportDocument ---------------------------
(* Opening a file into the held document and merging one in                   *)
(* (use-case/import-document), between the edits of ScheduleEditing.          *)
(*                                                                            *)
(* A file is a document that passed the intake: its rows land and stand once. *)
(* MSPDI holds neither looks nor places on task groups nor notes, so its      *)
(* reader made the task groups out of the tasks. A file whose profile         *)
(* conflicts is refused as one whose settings do: the screen asks about the   *)
(* tasks alone (PND-423). Calendars are united as resources are, and left out *)
(* as they are in ScheduleEditing; a baseline changes no row kept here.       *)
EXTENDS ScheduleEditing

CONSTANTS
    Files,         \* the files that can be opened and merged in
    Masters,       \* the ids projects bear in the files of other tools
    Names,         \* the names of resources
    MaxSequence    \* bound: the imports of a behaviour

VARIABLES
    originOf,         \* taskOrigins by task: whose task of which master it was
    importSequence,   \* the number of the last merge, kept in the project
    nameOf,           \* the names of the resources that have one
    missing,          \* taskUidsMissingSinceLastImport of the last report
    delivered         \* history: the held tasks the last merge landed on

importVars == <<originOf, importSequence, nameOf, missing, delivered>>

OriginRows == [master : Masters \cup {Null}, uid : Nat, seen : Nat]

ASSUME ImportAssumption ==
    /\ Null \notin Masters
    /\ MaxSequence \in Nat

(* What a uid must differ from to be a new one.                               *)
MarksAndUids(d) ==
    {d.mark} \cup Tasks(d) \cup d.resources \cup {one.uid : one \in d.assignments}

(* The mark is at no uid's back: every uid minted from it is a new one.       *)
IsCovered(d) == \A uid \in MarksAndUids(d) : uid <= d.mark

(* Row IV-1 and MG-5: an assignment has a uid and a pair of its own.          *)
AssignedOnce(d) ==
    \A one, other \in d.assignments :
        \/ one = other
        \/ one.uid # other.uid /\ <<one.task, one.resource>> # <<other.task, other.resource>>

(* A file, and the rows of it that ScheduleEditing has no column for.         *)
ASSUME FilesAssumption ==
    \A f \in Files :
        /\ f.format \in {"grsJson", "mspdi"}
        /\ f.master \in Masters \cup {Null}
        /\ f.document \in Openings
        /\ f.nameOf \in [DOMAIN f.nameOf -> Names]
        /\ DOMAIN f.nameOf \subseteq f.document.resources
        /\ f.sequence \in Nat
        /\ f.originOf \in [f.document.origins -> OriginRows]
        /\ \A uid \in f.document.origins : f.originOf[uid].seen \in 1 .. f.sequence
        /\ \A uid, other \in f.document.origins :
              /\ f.originOf[uid].master # Null
              /\ f.originOf[uid].master = f.originOf[other].master
              /\ f.originOf[uid].uid = f.originOf[other].uid
              => uid = other
        /\ f.format = "mspdi" =>
              /\ f.document.origins = {}
              /\ DOMAIN f.document.notes \cup DOMAIN f.document.boxes = {}
              /\ f.document.pinned \cup f.document.shown \cup f.document.listed = {}

(* The mark is the greatest uid issued (AT-20), and a pair is assigned once:  *)
(* so the program writes its files and so its reader leaves those of MSPDI.   *)
(* The intake of GRS JSON asks for neither. A task group that came with a     *)
(* file may go on deriving from a task of the file that landed elsewhere.     *)
ASSUME RowsAssumption ==
    \A f \in Files :
        /\ IsCovered(f.document)
        /\ AssignedOnce(f.document)
        /\ Tasks(f.document) \subseteq StrayTasks

-----------------------------------------------------------------------------
(* The held tasks that an earlier import made of a task of the file's master. *)
(* A file that names no master matches none (judgedSource).                   *)
CarriedTasks(f, uid) ==
    {task \in document.origins \cap Tasks(document) :
        /\ f.master # Null
        /\ originOf[task].master = f.master
        /\ originOf[task].uid = uid}

Candidates(f) ==
    {uid \in Tasks(f.document) \cap Tasks(document) : CarriedTasks(f, uid) = {}}

(* The highest of the marks and of the uids of every row: an imported mark    *)
(* may be lower than its rows.                                                *)
HighWaterOf(d, e) ==
    LET uids == MarksAndUids(d) \cup MarksAndUids(e)
    IN CHOOSE top \in uids : \A uid \in uids : uid <= top

(* A resource goes to the held one of its name; any other keeps its uid       *)
(* unless a held resource bears it.                                           *)
NamesakesOf(f, uid) ==
    {held \in document.resources \cap DOMAIN nameOf :
        uid \in DOMAIN f.nameOf /\ nameOf[held] = f.nameOf[uid]}

RenumberedResources(f) ==
    {uid \in f.document.resources \cap document.resources : NamesakesOf(f, uid) = {}}

ResourceUidOf(f) ==
    LET top == HighWaterOf(document, f.document)
        renumbered == RenumberedResources(f)
    IN [uid \in f.document.resources |->
            IF NamesakesOf(f, uid) # {}
            THEN CHOOSE held \in NamesakesOf(f, uid) :
                    \A other \in NamesakesOf(f, uid) : held <= other
            ELSE IF uid \in renumbered THEN top + RankIn(renumbered, uid) ELSE uid]

(* The candidates become tasks of their own when the person says they differ. *)
AddedAsDifferent(f, answer) == IF answer = "different" THEN Candidates(f) ELSE {}

(* Where the tasks of the file land (mergedUidOf): on the held task they      *)
(* became before, on the held task of the same uid when the person says they  *)
(* are the same, and else on a task of their own.                             *)
LandsOnHeldUidsFirst(f, answer) ==
    LET mark == HighWaterOf(document, f.document) + Cardinality(RenumberedResources(f))
        added == AddedAsDifferent(f, answer)
    IN [uid \in Tasks(f.document) |->
            IF uid \in added THEN mark + RankIn(added, uid)
            ELSE IF uid \in Tasks(document) \/ CarriedTasks(f, uid) = {} THEN uid
            ELSE CHOOSE task \in CarriedTasks(f, uid) : TRUE]

LandsOn(f, answer) ==
    LET mark == HighWaterOf(document, f.document) + Cardinality(RenumberedResources(f))
        added == AddedAsDifferent(f, answer)
    IN [uid \in Tasks(f.document) |->
            IF CarriedTasks(f, uid) # {} THEN CHOOSE task \in CarriedTasks(f, uid) : TRUE
            ELSE IF uid \in added THEN mark + RankIn(added, uid) ELSE uid]

Landed(landsOn) == {landsOn[uid] : uid \in DOMAIN landsOn}

(* Of two tasks of the file that land on one, the later row stays.            *)
LastOnto(landsOn, task) ==
    CHOOSE uid \in DOMAIN landsOn :
        /\ landsOn[uid] = task
        /\ \A other \in DOMAIN landsOn : landsOn[other] = task => other <= uid

AsInTheFile(landsOn, uid) == uid

MovedTo(landsOn, uid) == IF uid \in DOMAIN landsOn THEN landsOn[uid] ELSE Null

(* An assignment joins the held one of the same task and resource; any other  *)
(* keeps its uid unless a held assignment bears it.                           *)
JoiningAssignments(f, answer, landsOn, resourceUidOf) ==
    LET pair(one) == <<landsOn[one.task], resourceUidOf[one.resource]>>
        held == {<<one.task, one.resource>> : one \in document.assignments}
        incoming == f.document.assignments
        added == {one \in incoming :
                    /\ pair(one) \notin held
                    /\ ~ \E other \in incoming : pair(other) = pair(one) /\ other.uid < one.uid}
        renumbered == {one.uid : one \in added} \cap {one.uid : one \in document.assignments}
        mark == HighWaterOf(document, f.document) + Cardinality(RenumberedResources(f))
                    + Cardinality(AddedAsDifferent(f, answer))
    IN [rows |-> {[uid |-> IF one.uid \in renumbered
                           THEN mark + RankIn(renumbered, one.uid) ELSE one.uid,
                   task |-> landsOn[one.task],
                   resource |-> resourceUidOf[one.resource]] : one \in added},
        mark |-> mark + Cardinality(renumbered)]

(* A file in GRS JSON brings the place of each of its tasks; one in MSPDI     *)
(* only those of the tasks that were not held.                                *)
Places(f, landsOn) ==
    {task \in Landed(landsOn) : f.format = "grsJson" \/ task \notin Tasks(document)}

MergedMembers(f, landsOn) ==
    {one \in document.members : one[1] \notin Places(f, landsOn)}
        \cup {one \in Landed(landsOn) \X TaskGroups(f.document) :
                /\ one[1] \in Places(f, landsOn)
                /\ <<LastOnto(landsOn, one[1]), one[2]>> \in f.document.members}

(* builtMerge: the rows of both, those of the file over the held ones where   *)
(* they land, the held task groups and notes over those of the same id.       *)
MergedDocument(f, answer, landsOn) ==
    LET resourceUidOf == ResourceUidOf(f)
        joining == JoiningAssignments(f, answer, landsOn, resourceUidOf)
        row(task) == f.document.tasks[LastOnto(landsOn, task)]
        ids == TaskGroups(document) \cup TaskGroups(f.document)
        note(id) == f.document.notes[id]
    IN [document EXCEPT
            !.mark = joining.mark,
            !.tasks = [task \in Tasks(document) \cup Landed(landsOn) |->
                IF task \in Landed(landsOn)
                THEN [parent |-> MovedTo(landsOn, row(task).parent),
                      preds |-> {landsOn[pred] : pred \in row(task).preds \cap DOMAIN landsOn}]
                ELSE document.tasks[task]],
            !.groups = [id \in ids |->
                IF id \in TaskGroups(document) THEN document.groups[id]
                ELSE f.document.groups[id]],
            !.members = MergedMembers(f, landsOn),
            !.visuals = @ \cup Places(f, landsOn),
            !.origins = @ \cup Landed(landsOn),
            !.resources = @ \cup {resourceUidOf[uid] : uid \in f.document.resources},
            !.assignments = @ \cup joining.rows,
            !.notes = [id \in DOMAIN document.notes \cup DOMAIN f.document.notes |->
                IF id \in DOMAIN document.notes THEN document.notes[id]
                ELSE [note(id) EXCEPT !.task = MovedTo(landsOn, @),
                                      !.point = IF note(id).task # Null
                                                     /\ note(id).task \notin DOMAIN landsOn
                                                THEN Null ELSE @]],
            !.boxes = [id \in DOMAIN document.boxes \cup DOMAIN f.document.boxes |->
                IF id \in DOMAIN document.boxes THEN document.boxes[id]
                ELSE f.document.boxes[id]]]

(* The tasks the last import delivered and this one does not, by the number   *)
(* each origin was last seen at.                                              *)
MissingFromThisImport(landsOn) ==
    {task \in (Tasks(document) \ Landed(landsOn)) \cap document.origins :
        originOf[task].seen = importSequence + 1}

MissingSinceLastImport(landsOn) ==
    {task \in (Tasks(document) \ Landed(landsOn)) \cap document.origins :
        importSequence > 0 /\ originOf[task].seen = importSequence}

OriginsAfter(f, landsOn) ==
    [task \in document.origins \cup Landed(landsOn) |->
        IF task \in Landed(landsOn)
        THEN [master |-> f.master, uid |-> LastOnto(landsOn, task),
              seen |-> importSequence + 1]
        ELSE originOf[task]]

-----------------------------------------------------------------------------
(* The document a file opens with: MSPDI has neither a mark nor a number of   *)
(* imports of its own, and its reader takes those of the held document.       *)
OpenedFrom(f) ==
    IF f.format = "grsJson" THEN f.document
    ELSE [f.document EXCEPT !.mark = IF document.mark > @ THEN document.mark ELSE @]

ImportInit ==
    /\ Init
    /\ \E f \in Files :
          /\ document = f.document
          /\ originOf = f.originOf
          /\ importSequence = f.sequence
          /\ nameOf = f.nameOf
          /\ delivered = {uid \in f.document.origins : f.originOf[uid].seen = f.sequence}
    /\ missing = {}

(* A document is put in place of the held one, or changed, as a whole.        *)
Lands(landed) ==
    /\ ~inBundle
    /\ document' = landed
    /\ draft' = landed
    /\ UNCHANGED <<freshRowId, inBundle, commands>>

ReplaceDocument(f) ==
    /\ Lands(OpenedFrom(f))
    /\ originOf' = f.originOf
    /\ importSequence' = IF f.format = "grsJson" THEN f.sequence ELSE importSequence
    /\ nameOf' = f.nameOf
    /\ missing' = {}
    /\ delivered' = {uid \in f.document.origins : f.originOf[uid].seen = importSequence'}

(* MG-12: a file whose settings differ asks what the screen cannot.           *)
SettingsAgree(f) ==
    f.format = "grsJson" =>
        /\ f.document.pinned = document.pinned
        /\ f.document.shown = document.shown
        /\ f.document.listed = document.listed

MergeDocument(f, answer) ==
    LET landsOn == LandsOn(f, answer)
        resourceUidOf == ResourceUidOf(f)
        united == {uid \in DOMAIN f.nameOf : NamesakesOf(f, uid) = {}}
    IN /\ importSequence < MaxSequence
       /\ SettingsAgree(f)
       /\ Lands(MergedDocument(f, answer, landsOn))
       /\ originOf' = OriginsAfter(f, landsOn)
       /\ importSequence' = importSequence + 1
       /\ nameOf' = [uid \in (DOMAIN nameOf \cap document.resources)
                                \cup {resourceUidOf[one] : one \in united} |->
                        IF uid \in document.resources THEN nameOf[uid]
                        ELSE f.nameOf[CHOOSE one \in united : resourceUidOf[one] = uid]]
       /\ missing' = MissingSinceLastImport(landsOn)
       /\ delivered' = Landed(landsOn)

ImportNext ==
    \/ Next /\ UNCHANGED importVars
    \/ \E f \in Files : ReplaceDocument(f)
    \/ \E f \in Files, answer \in {"same", "different"} : MergeDocument(f, answer)

importSpecVars == <<vars, importVars>>

ImportSpec == ImportInit /\ [][ImportNext]_importSpecVars

-----------------------------------------------------------------------------
(* Rows IV-2, IV-6, IV-8, IV-20 and IV-23 of T-220, for which no check runs   *)
(* after a merge: whatever is merged in, edited and merged in again, every    *)
(* column names a row of the document - but derivedFromTaskUid, which the     *)
(* merge brings in as it is, so it may name the stray task of a file -, every *)
(* task stands once, and no uid is given to two rows.                         *)
MergedRowsAreSound ==
    \A d \in {document, draft} :
        /\ IsDocument(d)
        /\ AllLand(d)
        /\ AllStandOnce(d)
        /\ AllNamed(d)
        /\ AssignedOnce(d)

(* MG-3: a task of a master stands for one task of the document at most, in   *)
(* whatever order its issues, those of other masters and the edits come.      *)
MasterTasksStandOnce ==
    \A task, other \in document.origins :
        /\ originOf[task].master # Null
        /\ originOf[task].master = originOf[other].master
        /\ originOf[task].uid = originOf[other].uid
        => task = other

(* MG-11: what a merge tells as gone is what the merge before it landed on,   *)
(* as far as it is still held and this one does not land on it.               *)
MissingIsTold ==
    [][(\E f \in Files, answer \in {"same", "different"} : MergeDocument(f, answer))
         => missing' = (delivered \cap Tasks(document)) \ delivered']_importSpecVars
=============================================================================
