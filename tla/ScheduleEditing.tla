-------------------------- MODULE ScheduleEditing --------------------------
(* The structure of the schedule under the commands of EditDocument          *)
(* (use-case/edit-document): the tasks and their WBS, the tree of task        *)
(* groups they stand on, dependencies, resources and assignments, the notes   *)
(* and highlight boxes, and the settings that name any of them. A write is a  *)
(* bundle of commands judged one after the other where each lands, and        *)
(* applied only when none is refused (editedInTurn).                          *)
(*                                                                            *)
(* Dates, looks, names' wording, the order of siblings and the rows of the    *)
(* calendar are left out: no property here tells them apart. A list of rows   *)
(* is the function from their key, and the order of the rows is that of their *)
(* uids.                                                                      *)
EXTENDS Naturals, FiniteSets

CONSTANTS
    GroupIds,      \* the ids task groups can bear
    BoxIds,        \* the ids highlight boxes can bear
    NoteIds,       \* the ids comment boxes can bear
    Null,          \* the null of the document's columns
    Openings,      \* the documents a write can find
    StrayTasks,    \* uids a merge may have left in derivedFromTaskUid, of no task here
    MaxDepth,      \* maxGroupDepth (S-125)
    MaxPins,       \* pinnedTaskGroupMax
    MaxMark,       \* bound: the mark at which no more uids are minted
    MaxCommands    \* bound: the commands of a behaviour

ASSUME NullAssumption == Null \notin Nat \cup GroupIds \cup BoxIds \cup NoteIds

ASSUME BoundsAssumption ==
    /\ MaxDepth \in Nat \ {0}
    /\ MaxPins \in Nat
    /\ MaxMark \in Nat
    /\ MaxCommands \in Nat

VARIABLES
    document,      \* the held document
    draft,         \* held of editedInTurn: the document as the bundle left it
    freshRowId,    \* freshRowIdOf the commands taken so far
    inBundle,      \* a bundle of commands is being edited in turn
    commands       \* the commands taken so far, for the bound

vars == <<document, draft, freshRowId, inBundle, commands>>

(* The keys of a table, and a table with a row put in or rows left out.      *)
With(table, key, row) ==
    [one \in DOMAIN table \cup {key} |-> IF one = key THEN row ELSE table[one]]

Except(table, gone) == [one \in DOMAIN table \ gone |-> table[one]]

Tasks(d) == DOMAIN d.tasks
TaskGroups(d) == DOMAIN d.groups

ParentTasks(d) == [uid \in Tasks(d) |-> d.tasks[uid].parent]
ParentGroups(d) == [id \in TaskGroups(d) |-> d.groups[id].parent]

(* What hangs below the seeds in a table of parents, the seeds included: the  *)
(* sweep of wbsSubtreesOf and of subtreeOf, which ends at the least set that  *)
(* holds the seeds and every child of its members.                            *)
Subtree(parent, seeds) ==
    {key \in DOMAIN parent :
        \A held \in SUBSET DOMAIN parent :
            (/\ seeds \cap DOMAIN parent \subseteq held
             /\ \A one \in DOMAIN parent : parent[one] \in held => one \in held)
            => key \in held}

(* The level of a row under the root, and the levels of a subtree.            *)
DepthOf(parent, key) ==
    Cardinality({above \in DOMAIN parent : key \in Subtree(parent, {above})})

HeightOf(parent, root) ==
    Cardinality({DepthOf(parent, key) : key \in Subtree(parent, {root})})

(* The depth at which rows put under a parent would start.                    *)
DepthUnder(d, parentId) ==
    IF parentId = Null THEN 0 ELSE DepthOf(ParentGroups(d), parentId)

SettledKeepingItsSource(group) == [group EXCEPT !.named = TRUE]
SettledWithoutItsName(group) == [group EXCEPT !.source = Null]

(* The task group takes its name for good and derives from no task.           *)
SettledTaskGroup(group) == [group EXCEPT !.named = TRUE, !.source = Null]

-----------------------------------------------------------------------------
(* A tip snapped to what goes away falls back to a free point in the band     *)
(* where its target stands, as far as that band stays.                        *)
TaskBandOf(d, uid, band, keptGroups) ==
    LET bands == {id \in TaskGroups(d) : <<uid, id>> \in d.members}
    IN IF band \in bands \/ bands \cap keptGroups = {} THEN band
       ELSE CHOOSE id \in bands \cap keptGroups : TRUE

HighlightBandOf(box, point, band, keptGroups) ==
    LET row == IF point = "top" THEN box.top
               ELSE IF point = "bottom" THEN box.bottom ELSE Null
    IN IF row \in keptGroups THEN row ELSE band

ReleasedAnchorOf(d, note, goneTasks, goneBoxes, keptGroups) ==
    IF note.task \in goneTasks
    THEN [band |-> TaskBandOf(d, note.task, note.band, keptGroups),
          task |-> Null, box |-> Null, point |-> Null]
    ELSE IF note.box \in goneBoxes
    THEN [band |-> HighlightBandOf(d.boxes[note.box], note.point, note.band, keptGroups),
          task |-> Null, box |-> Null, point |-> Null]
    ELSE note

CommentBoxesLeft(d, goneTasks, goneBoxes, keptGroups) ==
    [id \in {id \in DOMAIN d.notes :
                d.notes[id].task \notin goneTasks /\ d.notes[id].box \notin goneBoxes}
        |-> d.notes[id]]

CommentBoxesReleasedFrom(d, goneTasks, goneBoxes, keptGroups) ==
    [id \in DOMAIN d.notes |->
        ReleasedAnchorOf(d, d.notes[id], goneTasks, goneBoxes, keptGroups)]

(* The rows checked in the tables are kept among those of the document.       *)
TableViewsKeptIn(d) ==
    [d EXCEPT !.shown = @ \cap Tasks(d), !.listed = @ \cap d.resources]

(* The documents left when tasks and task groups go: what CD-1 and CD-2 say   *)
(* goes with them goes in the same command.                                   *)
RowsWithoutTasks(d, doomed) ==
    [d EXCEPT
        !.tasks = [uid \in Tasks(d) \ doomed |->
                      [d.tasks[uid] EXCEPT !.preds = @ \ doomed]],
        !.groups = [id \in TaskGroups(d) |->
                      IF d.groups[id].source \in doomed
                      THEN SettledTaskGroup(d.groups[id]) ELSE d.groups[id]],
        !.members = {one \in @ : one[1] \notin doomed},
        !.visuals = @ \ doomed,
        !.origins = @ \ doomed,
        !.assignments = {one \in @ : one.task \notin doomed},
        !.notes = CommentBoxesReleasedFrom(d, doomed, {}, TaskGroups(d))]

WithoutTasks(d, doomed) == TableViewsKeptIn(RowsWithoutTasks(d, doomed))

WithoutTaskGroups(d, doomedGroups, doomed) ==
    LET kept == TaskGroups(d) \ doomedGroups
        goneBoxes == {id \in DOMAIN d.boxes :
                        {d.boxes[id].top, d.boxes[id].bottom} \cap doomedGroups # {}}
        released == CommentBoxesReleasedFrom(d, doomed, goneBoxes, kept)
    IN [WithoutTasks(d, doomed) EXCEPT
            !.groups = Except(@, doomedGroups),
            !.members = {one \in @ : one[2] \notin doomedGroups},
            !.boxes = Except(@, goneBoxes),
            !.notes = Except(released, {id \in DOMAIN released :
                                           released[id].band \in doomedGroups}),
            !.pinned = @ \ doomedGroups]

-----------------------------------------------------------------------------
(* Copies: their uids, the bonds they take along, and the parent task each    *)
(* takes from the place it lands on.                                          *)
RankIn(uids, uid) == Cardinality({one \in uids : one <= uid})

UidsBesideTheSources(mark, sources) == [uid \in sources |-> mark + uid]

PastedUidsOf(mark, sources) == [uid \in sources |-> mark + RankIn(sources, uid)]

Copies(uidOf) == {uidOf[uid] : uid \in DOMAIN uidOf}

SourceOf(uidOf, copy) == CHOOSE uid \in DOMAIN uidOf : uidOf[uid] = copy

CopiedParent(d, uidOf, uid) ==
    IF d.tasks[uid].parent \in DOMAIN uidOf THEN uidOf[d.tasks[uid].parent] ELSE Null

DerivesFromAny(group, uids, passed) == group.source \in uids

DerivesUnpassed(group, uids, passed) == group.source \in uids \ passed

(* nearestDerivedTaskUid: the walk from a task group to the root, which       *)
(* passes the task groups that derive from no task, or from one of passed.    *)
NearestDerivedTaskUid(groups, uids, landing, passed) ==
    LET walk[step \in 0 .. Cardinality(DOMAIN groups)] ==
            IF step = 0 THEN landing
            ELSE LET below == walk[step - 1]
                 IN IF below = Null THEN Null ELSE groups[below].parent
        derived == {step \in 0 .. Cardinality(DOMAIN groups) :
                       /\ walk[step] \in DOMAIN groups
                       /\ DerivesUnpassed(groups[walk[step]], uids, passed)}
        first == {step \in derived : \A other \in derived : step <= other}
    IN IF first = {} THEN Null ELSE groups[walk[CHOOSE step \in first : TRUE]].source

(* withInferredCopyParents: one copy after the other, in the order of the     *)
(* rows, each walking from where it landed past its own copied descendants as *)
(* they stand at its turn.                                                    *)
InferredCopyParents(d, groups, landingOf, uidOf) ==
    LET sources == DOMAIN uidOf
        uids == Tasks(d) \cup Copies(uidOf)
        landing(uid) == landingOf[uid]
        start(uid) ==
            IF groups[landing(uid)].source \in {uid, uidOf[uid]}
            THEN groups[landing(uid)].parent ELSE landing(uid)
        inferred(settled, uid) ==
            NearestDerivedTaskUid(groups, uids, start(uid),
                                  Subtree(settled, {uidOf[uid]}))
        settledAfter[turn \in 0 .. Cardinality(sources)] ==
            IF turn = 0
            THEN [copy \in Copies(uidOf) |-> CopiedParent(d, uidOf, SourceOf(uidOf, copy))]
            ELSE LET settled == settledAfter[turn - 1]
                     uid == CHOOSE one \in sources : RankIn(sources, one) = turn
                 IN IF d.tasks[uid].parent \in sources THEN settled
                    ELSE [settled EXCEPT ![uidOf[uid]] = inferred(settled, uid)]
    IN [uid \in sources |->
            IF d.tasks[uid].parent \in sources THEN CopiedParent(d, uidOf, uid)
            ELSE inferred(settledAfter[RankIn(sources, uid) - 1], uid)]

Assigned(d, sources) == {one \in d.assignments : one.task \in sources}

(* The copies of the assignments take the uids after those of the tasks.      *)
AssignmentCopies(d, uidOf) ==
    LET assigned == Assigned(d, DOMAIN uidOf)
        mark == d.mark + Cardinality(DOMAIN uidOf)
    IN {[uid |-> mark + RankIn({other.uid : other \in assigned}, one.uid),
         task |-> uidOf[one.task], resource |-> one.resource] : one \in assigned}

(* The document with the copies of its tasks, and what they take along.       *)
WithCopies(d, groups, landingOf, uidOf) ==
    LET sources == DOMAIN uidOf
        parentOf == InferredCopyParents(d, groups, landingOf, uidOf)
    IN [d EXCEPT
            !.mark = @ + Cardinality(sources) + Cardinality(Assigned(d, sources)),
            !.tasks = [uid \in Tasks(d) \cup Copies(uidOf) |->
                IF uid \in Tasks(d) THEN d.tasks[uid]
                ELSE LET source == SourceOf(uidOf, uid)
                     IN [parent |-> parentOf[source],
                         preds |-> {uidOf[pred] : pred \in d.tasks[source].preds \cap sources}]],
            !.groups = groups,
            !.members = @ \cup {<<uidOf[uid], landingOf[uid]>> : uid \in sources},
            !.visuals = @ \cup {uidOf[uid] : uid \in @ \cap sources},
            !.assignments = @ \cup AssignmentCopies(d, uidOf)]

-----------------------------------------------------------------------------
Init ==
    /\ document \in Openings
    /\ draft = document
    /\ freshRowId = Null
    /\ inBundle = FALSE
    /\ commands = 0

(* One command of a bundle is taken, on the document its forerunners left.    *)
TakesWithRow(edited, row) ==
    /\ commands' = commands + 1
    /\ inBundle' = TRUE
    /\ draft' = edited
    /\ freshRowId' = IF freshRowId = Null THEN row ELSE freshRowId
    /\ UNCHANGED document

Takes(edited) == TakesWithRow(edited, Null)

(* A task is made on a task group; one no task group bears makes the task     *)
(* group, deriving from the task.                                             *)
CreateTask(groupId) ==
    LET uid == draft.mark + 1
        made == [parent |-> Null, named |-> FALSE, source |-> uid]
    IN /\ draft.mark < MaxMark
       /\ Takes([draft EXCEPT
                    !.mark = uid,
                    !.tasks = With(@, uid, [parent |-> Null, preds |-> {}]),
                    !.visuals = @ \cup {uid},
                    !.members = @ \cup {<<uid, groupId>>},
                    !.groups = IF groupId \in DOMAIN @ THEN @ ELSE With(@, groupId, made)])

(* A uid that an earlier command of the bundle took away is no error.         *)
DeleteTask(uid) ==
    Takes(WithoutTasks(draft, Subtree(ParentTasks(draft), {uid})))

PasteTasks(sources, landingOf) ==
    LET uidOf == PastedUidsOf(draft.mark, sources)
        after == WithCopies(draft, draft.groups, landingOf, uidOf)
    IN /\ sources # {}
       /\ draft.mark < MaxMark
       /\ Takes(after)

SetTaskParentTask(uid, parentUid) ==
    /\ parentUid # Null =>
         /\ parentUid \in Tasks(draft)
         /\ parentUid \notin Subtree(ParentTasks(draft), {uid})
    /\ Takes([draft EXCEPT !.tasks[uid].parent = parentUid])

MoveTaskToTaskGroup(uid, groupId) ==
    /\ \E one \in draft.members : one[1] = uid
    /\ Takes([draft EXCEPT
                !.members = {IF one[1] = uid THEN <<uid, groupId>> ELSE one : one \in @}])

CreateTaskGroup(id, parentId, named, source) ==
    /\ id \notin TaskGroups(draft)
    /\ named \/ source # Null
    /\ DepthUnder(draft, parentId) < MaxDepth
    /\ Takes([draft EXCEPT
                !.groups = With(@, id, [parent |-> parentId, named |-> named, source |-> source])])

DeleteTaskGroupWithItsSources(id, newId) ==
    LET doomedGroups == Subtree(ParentGroups(draft), {id})
        seeds == {uid \in Tasks(draft) :
                    \E group \in doomedGroups :
                        <<uid, group>> \in draft.members \/ draft.groups[group].source = uid}
        doomed == Subtree(ParentTasks(draft), seeds)
    IN TakesWithRow(WithoutTaskGroups(draft, doomedGroups, doomed), newId)

(* newId is the id of the one task group the document keeps when none stays.  *)
DeleteTaskGroup(id, newId) ==
    LET doomedGroups == Subtree(ParentGroups(draft), {id})
        seeds == {uid \in Tasks(draft) :
                    \E one \in draft.members : one[1] = uid /\ one[2] \in doomedGroups}
        doomed == Subtree(ParentTasks(draft), seeds)
    IN TakesWithRow(WithoutTaskGroups(draft, doomedGroups, doomed), newId)

(* A copied task group follows the copy of the task it derives from, or       *)
(* settles its name.                                                          *)
CopiedTaskGroupOf(d, sourceId, parentId, idOf, uidOf) ==
    [id \in DOMAIN idOf |->
        LET group == d.groups[id]
            pasted == [group EXCEPT !.parent =
                          IF id = sourceId THEN parentId
                          ELSE IF @ \in DOMAIN idOf THEN idOf[@] ELSE @]
        IN IF group.source = Null THEN pasted
           ELSE IF group.source \in DOMAIN uidOf
                THEN [pasted EXCEPT !.source = uidOf[@]]
                ELSE SettledTaskGroup(pasted)]

PasteTaskGroupSubtree(sourceId, parentId, idOf) ==
    LET copied == Subtree(ParentGroups(draft), {sourceId})
        riders == {uid \in Tasks(draft) :
                     \E one \in draft.members : one[1] = uid /\ one[2] \in copied}
        uidOf == PastedUidsOf(draft.mark, riders)
        landingOf == [uid \in riders |->
                        idOf[CHOOSE id \in copied : <<uid, id>> \in draft.members]]
        copyOf == CopiedTaskGroupOf(draft, sourceId, parentId, idOf, uidOf)
        fresh == {idOf[id] : id \in copied}
        groups == [id \in TaskGroups(draft) \cup fresh |->
                     IF id \in TaskGroups(draft) THEN draft.groups[id]
                     ELSE copyOf[CHOOSE one \in copied : idOf[one] = id]]
        after == WithCopies(draft, groups, landingOf, uidOf)
    IN /\ DepthUnder(draft, parentId) + HeightOf(ParentGroups(draft), sourceId) <= MaxDepth
       /\ fresh \cap TaskGroups(draft) = {}
       /\ \A one, other \in copied : idOf[one] = idOf[other] => one = other
       /\ draft.mark < MaxMark
       /\ Takes(after)

SetTaskGroupName(id, named) ==
    /\ named \/ draft.groups[id].source # Null
    /\ Takes([draft EXCEPT !.groups[id].named = named])

(* The task of a task group that moves to another parent moves in the WBS     *)
(* too: under the task of the nearest task group above that derives from one. *)
MoveTaskGroup(id, parentId) ==
    LET source == draft.groups[id].source
        moved == [draft EXCEPT !.groups[id].parent = parentId]
        parentUid == NearestDerivedTaskUid(draft.groups, Tasks(draft), parentId, {})
    IN /\ parentId \notin Subtree(ParentGroups(draft), {id})
       /\ DepthUnder(draft, parentId) + HeightOf(ParentGroups(draft), id) <= MaxDepth
       /\ \/ /\ source \notin Tasks(draft) \/ parentId = draft.groups[id].parent
             /\ Takes(moved)
          \/ /\ source \in Tasks(draft) /\ parentId # draft.groups[id].parent
             /\ parentUid \notin Subtree(ParentTasks(draft), {source})
             /\ Takes([moved EXCEPT !.tasks[source].parent = parentUid])

CreateDependency(pred, succ) ==
    /\ pred # succ
    /\ pred \notin draft.tasks[succ].preds
    /\ Takes([draft EXCEPT !.tasks[succ].preds = @ \cup {pred}])

DeleteDependency(pred, succ) ==
    Takes([draft EXCEPT !.tasks[succ].preds = @ \ {pred}])

-----------------------------------------------------------------------------
(* Resources and assignments take their uids from the mark of the tasks.      *)
CreateResource ==
    /\ draft.mark < MaxMark
    /\ Takes([draft EXCEPT !.mark = @ + 1, !.resources = @ \cup {draft.mark + 1}])

DeleteResources(uids) ==
    /\ uids # {}
    /\ Takes(TableViewsKeptIn([draft EXCEPT
                !.resources = @ \ uids,
                !.assignments = {one \in @ : one.resource \notin uids}]))

DeleteUnreferencedResources ==
    Takes(TableViewsKeptIn([draft EXCEPT
              !.resources = @ \cap {one.resource : one \in draft.assignments}]))

CreateAssignment(uid, resourceUid) ==
    /\ ~ \E one \in draft.assignments : one.task = uid /\ one.resource = resourceUid
    /\ draft.mark < MaxMark
    /\ Takes([draft EXCEPT
                !.mark = @ + 1,
                !.assignments = @ \cup
                    {[uid |-> draft.mark + 1, task |-> uid, resource |-> resourceUid]}])

DeleteAssignment(uid, resourceUid) ==
    /\ \E one \in draft.assignments : one.task = uid /\ one.resource = resourceUid
    /\ Takes([draft EXCEPT
                !.assignments = {one \in @ : one.task # uid \/ one.resource # resourceUid}])

(* A tip is a free point in a band, or snapped to a task or a highlight box.  *)
Anchors(d) ==
    [band : TaskGroups(d), task : {Null}, box : {Null}, point : {Null}]
        \cup [band : TaskGroups(d), task : Tasks(d), box : {Null}, point : {"side"}]
        \cup [band : TaskGroups(d), task : {Null}, box : DOMAIN d.boxes,
              point : {"top", "side", "bottom"}]

CreateCommentBox(id, anchor) ==
    /\ id \notin DOMAIN draft.notes
    /\ Takes([draft EXCEPT !.notes = With(@, id, anchor)])

SetCommentBoxAnchor(id, anchor) ==
    Takes([draft EXCEPT !.notes[id] = anchor])

DeleteCommentBox(id) ==
    Takes([draft EXCEPT !.notes = Except(@, {id})])

CreateHighlightBox(id, top, bottom) ==
    /\ id \notin DOMAIN draft.boxes
    /\ Takes([draft EXCEPT !.boxes = With(@, id, [top |-> top, bottom |-> bottom])])

SetHighlightBoxRange(id, top, bottom) ==
    Takes([draft EXCEPT !.boxes[id] = [top |-> top, bottom |-> bottom]])

DeleteHighlightBox(id) ==
    Takes([draft EXCEPT
              !.boxes = Except(@, {id}),
              !.notes = CommentBoxesReleasedFrom(draft, {}, {id}, TaskGroups(draft))])

(* The screen pins the task group whose row is pressed.                       *)
PinTaskGroup(id) ==
    /\ id \in draft.pinned \/ Cardinality(draft.pinned) < MaxPins
    /\ Takes([draft EXCEPT !.pinned = @ \cup {id}])

UnpinTaskGroup(id) ==
    Takes([draft EXCEPT !.pinned = @ \ {id}])

(* A table of tasks, or the resource list: the screen checks rows it shows.   *)
SetTableView(shown, listed) ==
    Takes([draft EXCEPT !.shown = shown, !.listed = listed])

-----------------------------------------------------------------------------
(* A document that a bundle left without a task group keeps one, under the id *)
(* the first deletion carries (documentHoldingOneTaskGroup).                  *)
DocumentHoldingOneTaskGroup(d, id) ==
    IF TaskGroups(d) # {} \/ id = Null THEN d
    ELSE [d EXCEPT !.groups =
              With(@, id, [parent |-> Null, named |-> TRUE, source |-> Null])]

(* The bundle is through: what it made is the held document.                  *)
PlanDocumentChange ==
    LET settled == DocumentHoldingOneTaskGroup(draft, freshRowId)
    IN /\ inBundle
       /\ document' = settled
       /\ draft' = settled
       /\ freshRowId' = Null
       /\ inBundle' = FALSE
       /\ UNCHANGED commands

(* A command is refused, and the write with it: any bundle can hold one, for  *)
(* it may name a uid no row has.                                              *)
RefuseDocumentChange ==
    /\ inBundle
    /\ draft' = document
    /\ freshRowId' = Null
    /\ inBundle' = FALSE
    /\ UNCHANGED <<document, commands>>

EditTask ==
    \/ \E id \in GroupIds : CreateTask(id)
    \/ \E uid \in 1 .. draft.mark : DeleteTask(uid)
    \/ \E sources \in SUBSET Tasks(draft) :
          \E landingOf \in [sources -> TaskGroups(draft)] : PasteTasks(sources, landingOf)
    \/ \E uid \in Tasks(draft), parentUid \in Tasks(draft) \cup {Null} :
          SetTaskParentTask(uid, parentUid)
    \/ \E uid \in Tasks(draft), id \in TaskGroups(draft) : MoveTaskToTaskGroup(uid, id)

EditTaskGroup ==
    \/ \E id \in GroupIds, parentId \in TaskGroups(draft) \cup {Null}, named \in BOOLEAN,
          source \in Tasks(draft) \cup {Null} : CreateTaskGroup(id, parentId, named, source)
    \/ \E id \in TaskGroups(draft), newId \in GroupIds : DeleteTaskGroup(id, newId)
    \/ \E id \in TaskGroups(draft), parentId \in TaskGroups(draft) \cup {Null} :
          \E idOf \in [Subtree(ParentGroups(draft), {id}) -> GroupIds] :
             PasteTaskGroupSubtree(id, parentId, idOf)
    \/ \E id \in TaskGroups(draft), named \in BOOLEAN : SetTaskGroupName(id, named)
    \/ \E id \in TaskGroups(draft), parentId \in TaskGroups(draft) \cup {Null} :
          MoveTaskGroup(id, parentId)

EditDependency ==
    \E pred, succ \in Tasks(draft) :
        CreateDependency(pred, succ) \/ DeleteDependency(pred, succ)

EditResource ==
    \/ CreateResource
    \/ \E uids \in SUBSET draft.resources : DeleteResources(uids)
    \/ DeleteUnreferencedResources
    \/ \E uid \in Tasks(draft), resourceUid \in draft.resources :
          CreateAssignment(uid, resourceUid) \/ DeleteAssignment(uid, resourceUid)

EditAnnotation ==
    \/ \E id \in NoteIds, anchor \in Anchors(draft) : CreateCommentBox(id, anchor)
    \/ \E id \in DOMAIN draft.notes, anchor \in Anchors(draft) : SetCommentBoxAnchor(id, anchor)
    \/ \E id \in DOMAIN draft.notes : DeleteCommentBox(id)
    \/ \E id \in BoxIds, top, bottom \in TaskGroups(draft) : CreateHighlightBox(id, top, bottom)
    \/ \E id \in DOMAIN draft.boxes, top, bottom \in TaskGroups(draft) :
          SetHighlightBoxRange(id, top, bottom)
    \/ \E id \in DOMAIN draft.boxes : DeleteHighlightBox(id)

EditDocumentSettings ==
    \/ \E id \in TaskGroups(draft) : PinTaskGroup(id)
    \/ \E id \in draft.pinned : UnpinTaskGroup(id)
    \/ \E uids \in SUBSET Tasks(draft) : SetTableView(uids, draft.listed)
    \/ \E uids \in SUBSET draft.resources : SetTableView(draft.shown, uids)

EditDocument ==
    \/ EditTask
    \/ EditTaskGroup
    \/ EditDependency
    \/ EditResource
    \/ EditAnnotation
    \/ EditDocumentSettings

Next ==
    \/ commands < MaxCommands /\ EditDocument
    \/ PlanDocumentChange
    \/ RefuseDocumentChange

Spec == Init /\ [][Next]_vars

-----------------------------------------------------------------------------
TaskRows == [parent : Nat \cup {Null}, preds : SUBSET Nat]
TaskGroupRows == [parent : GroupIds \cup {Null}, named : BOOLEAN, source : Nat \cup {Null}]
AssignmentRows == [uid : Nat, task : Nat, resource : Nat]
AnchorRows == [band : GroupIds, task : Nat \cup {Null}, box : BoxIds \cup {Null},
               point : {"top", "side", "bottom", Null}]

IsDocument(d) ==
    /\ d \in [mark : Nat, tasks : [Tasks(d) -> TaskRows],
              groups : [TaskGroups(d) -> TaskGroupRows],
              members : SUBSET (Nat \X GroupIds), visuals : SUBSET Nat, origins : SUBSET Nat,
              resources : SUBSET Nat, assignments : SUBSET AssignmentRows,
              notes : [DOMAIN d.notes -> AnchorRows],
              boxes : [DOMAIN d.boxes -> [top : GroupIds, bottom : GroupIds]],
              pinned : SUBSET GroupIds, shown : SUBSET Nat, listed : SUBSET Nat]
    /\ Tasks(d) \subseteq 1 .. d.mark
    /\ TaskGroups(d) \subseteq GroupIds
    /\ DOMAIN d.notes \subseteq NoteIds
    /\ DOMAIN d.boxes \subseteq BoxIds

(* Rows IV-6 and IV-23: every task stands on one task group and has one look, *)
(* however it was made, copied and moved.                                     *)
StandsOnce(d, uid) ==
    /\ uid \in d.visuals
    /\ \E id \in TaskGroups(d) : {one \in d.members : one[1] = uid} = {<<uid, id>>}

AllStandOnce(d) == \A uid \in Tasks(d) : StandsOnce(d, uid)

TasksStandOnce == AllStandOnce(document) /\ AllStandOnce(draft)

(* The type invariant of the held document and of the one being edited, which *)
(* says also that every task stands once.                                     *)
TypeOK ==
    /\ IsDocument(document)
    /\ IsDocument(draft)
    /\ freshRowId \in GroupIds \cup {Null}
    /\ inBundle \in BOOLEAN
    /\ commands \in 0 .. MaxCommands
    /\ TasksStandOnce

(* Rows IV-2 and IV-3 of T-220, and CD-1's: whatever a column names is in the *)
(* document, also in the middle of a bundle. A document that a merge made may  *)
(* hold task groups that derive from a stray task; where none was, none comes. *)
AllLand(d) ==
    /\ \A uid \in Tasks(d) :
          /\ d.tasks[uid].parent \in Tasks(d) \cup {Null}
          /\ d.tasks[uid].preds \subseteq Tasks(d)
    /\ \A id \in TaskGroups(d) :
          /\ d.groups[id].parent \in TaskGroups(d) \cup {Null}
          /\ d.groups[id].source \in Tasks(d) \cup StrayTasks \cup {Null}
    /\ d.members \subseteq Tasks(d) \X TaskGroups(d)
    /\ d.visuals \subseteq Tasks(d)
    /\ d.origins \subseteq Tasks(d)
    /\ \A one \in d.assignments : one.task \in Tasks(d) /\ one.resource \in d.resources
    /\ \A id \in DOMAIN d.notes :
          /\ d.notes[id].band \in TaskGroups(d)
          /\ d.notes[id].task \in Tasks(d) \cup {Null}
          /\ d.notes[id].box \in DOMAIN d.boxes \cup {Null}
    /\ \A id \in DOMAIN d.boxes : {d.boxes[id].top, d.boxes[id].bottom} \subseteq TaskGroups(d)
    /\ d.pinned \subseteq TaskGroups(d)
    /\ d.shown \subseteq Tasks(d)
    /\ d.listed \subseteq d.resources

ReferencesLand == AllLand(document) /\ AllLand(draft)

HasNoRing(parent) ==
    \A rows \in SUBSET DOMAIN parent : rows # {} => \E key \in rows : parent[key] \notin rows

TreesStand(d) ==
    /\ HasNoRing(ParentTasks(d))
    /\ HasNoRing(ParentGroups(d))
    /\ \A id \in TaskGroups(d) : DepthOf(ParentGroups(d), id) <= MaxDepth

(* Rows IV-4, IV-5 and IV-18: neither the WBS nor the tree of task groups     *)
(* closes a ring - the parent a copy infers, and the parent a task takes when  *)
(* its task group moves, included - and no task group lies past the depth.    *)
TreesHaveNoRing == TreesStand(document) /\ TreesStand(draft)

(* Rows IV-8 and IV-20: a task group without a name derives from a task, and  *)
(* the held document has a task group whatever a bundle deleted.              *)
AllNamed(d) ==
    \A id \in TaskGroups(d) : d.groups[id].named \/ d.groups[id].source # Null

TaskGroupsAreNamed ==
    /\ AllNamed(document)
    /\ AllNamed(draft)
    /\ TaskGroups(document) # {}

(* What a write finds: a document that keeps the rows above, whose rows are    *)
(* finitely many.                                                              *)
IsSound(d) ==
    /\ IsDocument(d)
    /\ AllLand(d)
    /\ AllStandOnce(d)
    /\ AllNamed(d)
    /\ IsFiniteSet(d.assignments)

ASSUME OpeningsAssumption ==
    \A d \in Openings :
        /\ IsSound(d) /\ TreesStand(d)
        /\ TaskGroups(d) # {}
        /\ IsFiniteSet(TaskGroups(d)) /\ IsFiniteSet(d.resources)

(* CD-1: a command that takes a task away takes away all that hangs below it  *)
(* in the WBS, on whatever task group it stands, and nothing else goes with   *)
(* it than what hangs below a task of a task group taken away.                *)
DescendantsGoAlong ==
    [][LET gone == Tasks(draft) \ Tasks(draft')
           goneGroups == TaskGroups(draft) \ TaskGroups(draft')
       IN inBundle' =>
            /\ Subtree(ParentTasks(draft), gone) = gone
            /\ goneGroups # {} =>
                 gone = Subtree(ParentTasks(draft),
                           {uid \in Tasks(draft) :
                               \E id \in goneGroups : <<uid, id>> \in draft.members})]_vars

(* FR-019: a comment box outlives the task or the highlight box its tip is    *)
(* snapped to, as a free point; it goes when it is deleted itself, or when    *)
(* the band it falls back to goes.                                            *)
TipsAreReleased ==
    [][\A id \in DOMAIN draft.notes :
          LET note == draft.notes[id]
          IN (/\ inBundle'
              /\ \/ note.task # Null /\ note.task \notin Tasks(draft')
                 \/ note.box # Null /\ note.box \notin DOMAIN draft'.boxes
              /\ TaskGroups(draft) \subseteq TaskGroups(draft'))
             => /\ id \in DOMAIN draft'.notes
                /\ draft'.notes[id].task = Null /\ draft'.notes[id].box = Null]_vars
=============================================================================
