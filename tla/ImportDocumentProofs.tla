------------------------ MODULE ImportDocumentProofs ------------------------
(* Theorems about ImportDocument, for every set of files and masters and any  *)
(* number of merges: the merged document is sound although no check runs on   *)
(* it, no task of a master is taken in twice, and what an import did not      *)
(* bring again is told. The first needs of the mark that it is at no uid's    *)
(* back, so that no uid is minted twice; the others need of the edits that    *)
(* the tasks they make lie over the mark and that an origin goes with its     *)
(* task and not before.                                                       *)
EXTENDS ImportDocument, ScheduleEditingProofs

(* The rows of a document bear uids the mark covers, each assignment its own. *)
IsNumbered(d) == IsCovered(d) /\ AssignedOnce(d)

(* One document comes of another by edits: the tasks that are new lie over    *)
(* its mark, and the origins are those of the tasks that are left.            *)
IsEditOf(d, e) ==
    /\ d.mark <= e.mark
    /\ \A uid \in Tasks(e) : uid \in Tasks(d) \/ uid > d.mark
    /\ e.origins = d.origins \cap Tasks(e)

(* A step of the draft that mints no uid.                                     *)
MintsNothing ==
    /\ draft'.mark = draft.mark
    /\ Tasks(draft') \subseteq Tasks(draft)
    /\ draft'.origins = draft.origins \cap Tasks(draft')
    /\ draft'.resources \subseteq draft.resources
    /\ draft'.assignments \subseteq draft.assignments

(* A step of the draft whose uids, if it mints any, are new ones.             *)
MintsFresh == IsNumbered(draft') /\ IsEditOf(draft, draft')

(* What the last import delivered is what bears its number, and only what is  *)
(* held can have been delivered.                                              *)
DeliveredIsSeen ==
    /\ importSequence \in Nat
    /\ \A task \in document.origins :
          originOf[task].seen \in Nat /\ originOf[task].seen <= importSequence
    /\ \A uid \in delivered : uid \in Nat /\ uid <= document.mark
    /\ delivered \cap Tasks(document) =
          {task \in document.origins :
              importSequence > 0 /\ originOf[task].seen = importSequence}

(* The inductive invariant: both documents are sound and numbered and come to *)
(* the end of a bundle with a task group (RowsInv), and the origins tell who  *)
(* came from where and when.                                                  *)
RowsInv == IInv /\ IsNumbered(document) /\ IsNumbered(draft)

ImportInv ==
    /\ RowsInv
    /\ IsEditOf(document, draft)
    /\ MasterTasksStandOnce
    /\ DeliveredIsSeen

-----------------------------------------------------------------------------
(* A document is covered when its other rows are: its tasks always are.       *)
LEMMA RestIsCovered ==
    ASSUME NEW d, IsDocument(d),
           \A uid \in d.resources : uid <= d.mark,
           \A one \in d.assignments : one.uid <= d.mark
    PROVE  IsCovered(d)
<1>1. d.mark \in Nat /\ Tasks(d) \subseteq 1 .. d.mark
    BY DEF IsDocument
<1> QED BY <1>1 DEF IsCovered, MarksAndUids

(* What of a sound document the numbers are about.                            *)
LEMMA NumbersOfASoundDocument ==
    ASSUME NEW d, IsSound(d)
    PROVE  /\ IsRecord(d) /\ IsDocument(d)
           /\ d.mark \in Nat /\ Tasks(d) \subseteq 1 .. d.mark
           /\ d.origins \subseteq Tasks(d)
           /\ d.resources \subseteq Nat
           /\ d.assignments \subseteq AssignmentRows
           /\ \A one \in d.assignments :
                 one.uid \in Nat /\ one.task \in Tasks(d) /\ one.resource \in d.resources
           /\ IsNumbered(d) => /\ \A uid \in d.resources : uid <= d.mark
                               /\ \A one \in d.assignments : one.uid <= d.mark
<1>1. /\ IsRecord(d) /\ IsDocument(d)
      /\ d.mark \in Nat /\ Tasks(d) \subseteq 1 .. d.mark
      /\ d.origins \subseteq Tasks(d)
      /\ d.resources \subseteq Nat
      /\ d.assignments \subseteq AssignmentRows
      /\ \A one \in d.assignments : one.task \in Tasks(d) /\ one.resource \in d.resources
    BY DEF IsSound, IsDocument, AllLand, IsRecord
<1>2. \A one \in d.assignments : one.uid \in Nat
    BY <1>1 DEF AssignmentRows
<1>3. IsNumbered(d) => /\ \A uid \in d.resources : uid <= d.mark
                       /\ \A one \in d.assignments : one.uid <= d.mark
    BY DEF IsNumbered, IsCovered, MarksAndUids
<1> QED BY <1>1, <1>2, <1>3

(* Edits of edits are edits.                                                  *)
LEMMA EditsAddUp ==
    ASSUME NEW d, IsSound(d), NEW e, IsSound(e), NEW g, IsSound(g),
           IsEditOf(d, e), IsEditOf(e, g)
    PROVE  IsEditOf(d, g)
<1>1. /\ d.mark \in Nat /\ e.mark \in Nat /\ g.mark \in Nat
      /\ Tasks(d) \subseteq 1 .. d.mark /\ Tasks(g) \subseteq 1 .. g.mark
      /\ d.origins \subseteq Tasks(d)
    BY NumbersOfASoundDocument
<1>2. d.mark <= g.mark
    BY <1>1 DEF IsEditOf
<1>3. \A uid \in Tasks(g) : uid \in Tasks(e) \/ (uid \notin Tasks(d) /\ uid > d.mark)
    BY <1>1 DEF IsEditOf
<1>4. \A uid \in Tasks(g) : uid \in Tasks(d) \/ uid > d.mark
    BY <1>3 DEF IsEditOf
<1>5. g.origins = d.origins \cap Tasks(g)
    BY <1>1, <1>3 DEF IsEditOf
<1> QED BY <1>2, <1>4, <1>5 DEF IsEditOf

(* Where no uid is minted, each goes on being covered and borne once.         *)
LEMMA NothingMintedIsFresh ==
    ASSUME IsSound(draft), IsNumbered(draft), IsSound(draft'), MintsNothing
    PROVE  MintsFresh
<1>1. /\ IsDocument(draft')
      /\ \A uid \in draft'.resources : uid <= draft'.mark
      /\ \A one \in draft'.assignments : one.uid <= draft'.mark
      /\ draft.mark \in Nat
    BY NumbersOfASoundDocument DEF MintsNothing
<1>2. IsCovered(draft')
    BY <1>1, RestIsCovered
<1>3. AssignedOnce(draft')
    BY DEF MintsNothing, IsNumbered, AssignedOnce
<1>4. IsEditOf(draft, draft')
    BY <1>1 DEF MintsNothing, IsEditOf
<1> QED BY <1>2, <1>3, <1>4 DEF MintsFresh, IsNumbered

(* The settings, the notes and the dependencies bear no uids.                 *)
LEMMA SettingsMintNothing ==
    ASSUME IsSound(draft), EditDocumentSettings \/ EditAnnotation \/ EditDependency
    PROVE  MintsNothing
<1>1. IsRecord(draft) /\ draft.origins \subseteq Tasks(draft)
    BY NumbersOfASoundDocument
<1> USE <1>1 DEF IsRecord, MintsNothing, Tasks, Takes, TakesWithRow
<1>2. CASE EditDocumentSettings
    BY <1>2 DEF EditDocumentSettings, PinTaskGroup, UnpinTaskGroup, SetTableView
<1>3. CASE EditDependency
    BY <1>3 DEF EditDependency, CreateDependency, DeleteDependency
<1>4. ASSUME NEW id, NEW anchor, CreateCommentBox(id, anchor) \/ SetCommentBoxAnchor(id, anchor)
      PROVE  MintsNothing
    BY <1>4 DEF CreateCommentBox, SetCommentBoxAnchor
<1>5. ASSUME NEW id, DeleteCommentBox(id) \/ DeleteHighlightBox(id) PROVE MintsNothing
    BY <1>5 DEF DeleteCommentBox, DeleteHighlightBox
<1>6. ASSUME NEW id, NEW top, NEW bottom,
             CreateHighlightBox(id, top, bottom) \/ SetHighlightBoxRange(id, top, bottom)
      PROVE  MintsNothing
    BY <1>6 DEF CreateHighlightBox, SetHighlightBoxRange
<1> QED BY <1>2, <1>3, <1>4, <1>5, <1>6 DEF EditAnnotation

(* A task that goes takes its assignments and its origin along (CD-1) and     *)
(* leaves the mark.                                                           *)
LEMMA TasksTakeTheirRowsAlong ==
    ASSUME NEW d, IsSound(d), NEW doomed
    PROVE  /\ IsRecord(WithoutTasks(d, doomed))
           /\ WithoutTasks(d, doomed).mark = d.mark
           /\ Tasks(WithoutTasks(d, doomed)) = Tasks(d) \ doomed
           /\ WithoutTasks(d, doomed).origins = d.origins \cap (Tasks(d) \ doomed)
           /\ WithoutTasks(d, doomed).resources = d.resources
           /\ WithoutTasks(d, doomed).assignments \subseteq d.assignments
<1> DEFINE rows == RowsWithoutTasks(d, doomed)
<1>1. IsRecord(d) /\ d.origins \subseteq Tasks(d)
    BY NumbersOfASoundDocument
<1>2. IsRecord(rows)
  <2>1. rows = [column \in DOMAIN rows |-> rows[column]] /\ DOMAIN rows = DOMAIN d
      BY DEF RowsWithoutTasks
  <2> QED BY <1>1, <2>1 DEF IsRecord
<1>3. /\ rows.mark = d.mark /\ rows.resources = d.resources
      /\ rows.assignments \subseteq d.assignments
      /\ rows.origins = d.origins \ doomed /\ DOMAIN rows.tasks = Tasks(d) \ doomed
    BY <1>1 DEF RowsWithoutTasks, IsRecord
<1>4. WithoutTasks(d, doomed) = TableViewsKeptIn(rows)
    BY DEF WithoutTasks
<1> HIDE DEF rows
<1> QED BY <1>1, <1>2, <1>3, <1>4 DEF TableViewsKeptIn, IsRecord, Tasks

(* Copies take the uids after the mark, their assignments those after theirs. *)
LEMMA CopiesAreFresh ==
    ASSUME NEW d, IsSound(d), IsNumbered(d), NEW sources \in SUBSET Tasks(d), NEW groups,
           NEW landingOf, NEW uidOf, uidOf = PastedUidsOf(d.mark, sources),
           IsSound(WithCopies(d, groups, landingOf, uidOf))
    PROVE  /\ IsNumbered(WithCopies(d, groups, landingOf, uidOf))
           /\ IsEditOf(d, WithCopies(d, groups, landingOf, uidOf))
<1> DEFINE e == WithCopies(d, groups, landingOf, uidOf)
           assigned == Assigned(d, sources)
           mark == d.mark + Cardinality(sources)
           uids == {other.uid : other \in assigned}
           copy(one) == [uid |-> mark + RankIn(uids, one.uid),
                         task |-> uidOf[one.task], resource |-> one.resource]
<1>1. /\ DOMAIN uidOf = sources /\ Cardinality(sources) \in Nat
      /\ \A uid \in sources : /\ uidOf[uid] \in Nat /\ uidOf[uid] \notin Tasks(d)
                              /\ uidOf[uid] \in d.mark + 1 .. d.mark + Cardinality(sources)
      /\ \A a, b \in sources : uidOf[a] = uidOf[b] => a = b
  <2>1. AreFresh(d, sources, uidOf)
      BY PastedUidsAreFresh
  <2> QED BY <2>1 DEF AreFresh
<1>2. IsFiniteSet(assigned) /\ Cardinality(assigned) \in Nat
    BY AssignmentCopiesLand
<1>3. /\ assigned \subseteq d.assignments /\ assigned \subseteq AssignmentRows
      /\ \A one \in assigned : one.task \in sources
    BY DEF Assigned, IsSound, IsDocument
<1>4. IsFiniteSet(uids) /\ uids \in SUBSET Nat /\ Cardinality(uids) <= Cardinality(assigned)
      /\ Cardinality(uids) \in Nat
  <2> DEFINE uidOfOne == [one \in assigned |-> one.uid]
  <2>1. uids \in SUBSET Nat
      BY <1>3 DEF AssignmentRows
  <2>2. uidOfOne \in Surjection(assigned, uids)
      BY DEF Surjection
  <2> HIDE DEF uidOfOne, uids, assigned
  <2>3. IsFiniteSet(uids) /\ Cardinality(uids) <= Cardinality(assigned)
      BY <1>2, <2>2, FS_Surjection
  <2> QED BY <2>1, <2>3, FS_CardinalityType
<1>5. /\ \A uid \in uids : RankIn(uids, uid) \in 1 .. Cardinality(uids)
      /\ \A a, b \in uids : RankIn(uids, a) = RankIn(uids, b) => a = b
    BY <1>4, RankIsInjective
<1>6. AssignmentCopies(d, uidOf) = {copy(one) : one \in assigned}
    BY <1>1 DEF AssignmentCopies
<1>7. /\ e.mark = d.mark + Cardinality(sources) + Cardinality(assigned)
      /\ e.resources = d.resources
      /\ e.assignments = d.assignments \cup AssignmentCopies(d, uidOf)
      /\ e.origins = d.origins
      /\ Tasks(e) = Tasks(d) \cup Copies(uidOf)
  <2>1. IsRecord(d)
      BY NumbersOfASoundDocument
  <2> QED BY <1>1, <2>1 DEF WithCopies, IsRecord, Tasks
<1>8. /\ d.mark \in Nat /\ d.resources \subseteq Nat /\ d.origins \subseteq Tasks(d)
      /\ Tasks(d) \subseteq 1 .. d.mark
      /\ \A one \in d.assignments : one.task \in Tasks(d)
    BY NumbersOfASoundDocument
<1>9. /\ \A uid \in d.resources : uid <= d.mark
      /\ \A one \in d.assignments : one.uid \in Nat /\ one.uid <= d.mark
    BY NumbersOfASoundDocument
<1>10. ASSUME NEW one \in assigned
       PROVE  /\ copy(one).uid \in Nat /\ copy(one).uid > d.mark /\ copy(one).uid <= e.mark
              /\ copy(one).task = uidOf[one.task] /\ copy(one).resource = one.resource
  <2>1. one.uid \in uids
      OBVIOUS
  <2>2. RankIn(uids, one.uid) \in 1 .. Cardinality(uids)
      BY <1>5, <2>1
  <2> HIDE DEF uids, assigned, e
  <2> QED BY <1>1, <1>2, <1>4, <1>7, <1>8, <2>2
<1>11. ASSUME NEW one \in assigned, NEW other \in assigned,
              \/ copy(one).uid = copy(other).uid
              \/ <<copy(one).task, copy(one).resource>> = <<copy(other).task, copy(other).resource>>
       PROVE  one = other
  <2>1. one.uid \in uids /\ other.uid \in uids
      OBVIOUS
  <2>2. /\ one \in d.assignments /\ one.task \in sources
        /\ other \in d.assignments /\ other.task \in sources
      BY <1>3
  <2>3. RankIn(uids, one.uid) \in Nat /\ RankIn(uids, other.uid) \in Nat
    <3>1. RankIn(uids, one.uid) \in 1 .. Cardinality(uids)
          /\ RankIn(uids, other.uid) \in 1 .. Cardinality(uids)
        BY <1>5, <2>1
    <3> QED BY <3>1
  <2>4. one.uid = other.uid \/ (one.task = other.task /\ one.resource = other.resource)
    <3>1. CASE copy(one).uid = copy(other).uid
      <4>1. mark + RankIn(uids, one.uid) = mark + RankIn(uids, other.uid)
          BY <3>1
      <4>2. RankIn(uids, one.uid) = RankIn(uids, other.uid)
        <5> HIDE DEF uids
        <5> QED BY <1>1, <1>8, <2>3, <4>1
      <4> QED BY <1>5, <2>1, <4>2
    <3>2. CASE <<copy(one).task, copy(one).resource>> = <<copy(other).task, copy(other).resource>>
        BY <1>1, <2>2, <3>2
    <3> QED BY <1>11, <3>1, <3>2
  <2> QED BY <2>2, <2>4 DEF IsNumbered, AssignedOnce
<1> HIDE DEF copy, e, assigned
<1>12. AssignedOnce(e)
  <2> SUFFICES ASSUME NEW one \in e.assignments, NEW other \in e.assignments, one # other
               PROVE  /\ one.uid # other.uid
                      /\ <<one.task, one.resource>> # <<other.task, other.resource>>
      BY DEF AssignedOnce
  <2>1. CASE one \in d.assignments /\ other \in d.assignments
      BY <2>1 DEF IsNumbered, AssignedOnce
  <2>2. \A held \in d.assignments, source \in assigned :
           /\ held.uid # copy(source).uid
           /\ held.task # copy(source).task
    <3> TAKE held \in d.assignments, source \in assigned
    <3>1. held.uid # copy(source).uid
        BY <1>8, <1>9, <1>10
    <3>2. held.task # copy(source).task
        BY <1>1, <1>3, <1>8, <1>10
    <3> QED BY <3>1, <3>2
  <2>3. CASE one \in AssignmentCopies(d, uidOf) /\ other \in AssignmentCopies(d, uidOf)
      BY <1>6, <1>11, <2>3
  <2> QED BY <1>6, <1>7, <2>1, <2>2, <2>3
<1>13. IsCovered(e)
  <2>1. IsDocument(e)
      BY DEF IsSound, e
  <2>2. d.mark <= e.mark /\ e.mark \in Nat
      BY <1>1, <1>2, <1>7, <1>8
  <2>3. \A uid \in e.resources : uid <= e.mark
      BY <1>7, <1>8, <1>9, <2>2
  <2>4. \A one \in e.assignments : one.uid <= e.mark
      BY <1>6, <1>7, <1>8, <1>9, <1>10, <2>2
  <2> QED BY <2>1, <2>3, <2>4, RestIsCovered
<1>14. IsEditOf(d, e)
  <2>1. \A uid \in Copies(uidOf) : uid > d.mark
      BY <1>1, <1>8 DEF Copies
  <2>2. d.mark <= e.mark
      BY <1>1, <1>2, <1>7, <1>8
  <2> QED BY <1>7, <1>8, <2>1, <2>2 DEF IsEditOf
<1> QED BY <1>12, <1>13, <1>14 DEF IsNumbered, e

(* The commands of resources and assignments mint one uid at most, over the   *)
(* mark.                                                                      *)
LEMMA EditResourceMintsFresh ==
    ASSUME IsSound(draft), IsNumbered(draft), IsSound(draft'), EditResource
    PROVE  MintsFresh
<1>1. /\ IsRecord(draft) /\ IsDocument(draft')
      /\ draft.mark \in Nat /\ draft.resources \subseteq Nat
      /\ draft.origins \subseteq Tasks(draft)
      /\ \A uid \in draft.resources : uid <= draft.mark
      /\ \A one \in draft.assignments : one.uid \in Nat /\ one.uid <= draft.mark
    BY NumbersOfASoundDocument
<1>2. ASSUME draft'.mark = draft.mark + 1, Tasks(draft') = Tasks(draft),
             draft'.origins = draft.origins
      PROVE  IsEditOf(draft, draft')
    BY <1>1, <1>2 DEF IsEditOf
<1>3. CASE CreateResource
  <2>1. /\ draft'.mark = draft.mark + 1 /\ Tasks(draft') = Tasks(draft)
        /\ draft'.origins = draft.origins
        /\ draft'.resources = draft.resources \cup {draft.mark + 1}
        /\ draft'.assignments = draft.assignments
      BY <1>1, <1>3 DEF CreateResource, Takes, TakesWithRow, IsRecord, Tasks
  <2>2. IsCovered(draft')
      BY <1>1, <2>1, RestIsCovered
  <2>3. AssignedOnce(draft')
      BY <2>1 DEF IsNumbered, AssignedOnce
  <2> QED BY <1>2, <2>1, <2>2, <2>3 DEF MintsFresh, IsNumbered
<1>4. ASSUME NEW uid \in Tasks(draft), NEW resourceUid \in draft.resources,
             CreateAssignment(uid, resourceUid)
      PROVE  MintsFresh
  <2> DEFINE made == [uid |-> draft.mark + 1, task |-> uid, resource |-> resourceUid]
  <2>1. /\ draft'.mark = draft.mark + 1 /\ Tasks(draft') = Tasks(draft)
        /\ draft'.origins = draft.origins
        /\ draft'.resources = draft.resources
        /\ draft'.assignments = draft.assignments \cup {made}
      BY <1>1, <1>4 DEF CreateAssignment, Takes, TakesWithRow, IsRecord, Tasks
  <2>2. \A one \in draft.assignments : one.task # uid \/ one.resource # resourceUid
      BY <1>4 DEF CreateAssignment
  <2>3. made.uid = draft.mark + 1 /\ made.task = uid /\ made.resource = resourceUid
      OBVIOUS
  <2> HIDE DEF made
  <2>4. IsCovered(draft')
    <3>1. \A one \in draft'.assignments : one.uid <= draft'.mark
        BY <1>1, <2>1, <2>3
    <3>2. \A one \in draft'.resources : one <= draft'.mark
        BY <1>1, <2>1
    <3> QED BY <1>1, <3>1, <3>2, RestIsCovered
  <2>5. \A one \in draft.assignments :
           one.uid # made.uid /\ <<one.task, one.resource>> # <<made.task, made.resource>>
    <3> TAKE one \in draft.assignments
    <3>1. one.uid # made.uid
        BY <1>1, <2>3
    <3> QED BY <2>2, <2>3, <3>1
  <2>6. AssignedOnce(draft')
      BY <2>1, <2>5 DEF IsNumbered, AssignedOnce
  <2> QED BY <1>2, <2>1, <2>4, <2>6 DEF MintsFresh, IsNumbered
<1>5. ASSUME NEW uids, DeleteResources(uids) PROVE MintsNothing
    BY <1>1, <1>5
       DEF MintsNothing, DeleteResources, TableViewsKeptIn, Takes, TakesWithRow, IsRecord, Tasks
<1>6. CASE DeleteUnreferencedResources
  <2>1. MintsNothing
      BY <1>1, <1>6 DEF MintsNothing, DeleteUnreferencedResources, TableViewsKeptIn, Takes,
                       TakesWithRow, IsRecord, Tasks
  <2> QED BY <2>1, NothingMintedIsFresh
<1>7. ASSUME NEW uid, NEW resourceUid, DeleteAssignment(uid, resourceUid) PROVE MintsNothing
    BY <1>1, <1>7 DEF MintsNothing, DeleteAssignment, Takes, TakesWithRow, IsRecord, Tasks
<1> QED BY <1>3, <1>4, <1>5, <1>6, <1>7, NothingMintedIsFresh DEF EditResource

(* A task made takes the uid over the mark.                                   *)
LEMMA EditTaskMintsFresh ==
    ASSUME IsSound(draft), IsNumbered(draft), IsSound(draft'), EditTask
    PROVE  MintsFresh
<1>1. /\ IsRecord(draft) /\ IsDocument(draft')
      /\ draft.mark \in Nat /\ draft.resources \subseteq Nat
      /\ draft.origins \subseteq Tasks(draft)
      /\ \A uid \in draft.resources : uid <= draft.mark
      /\ \A one \in draft.assignments : one.uid \in Nat /\ one.uid <= draft.mark
    BY NumbersOfASoundDocument
<1>2. ASSUME NEW id, CreateTask(id) PROVE MintsFresh
  <2>1. /\ draft'.mark = draft.mark + 1
        /\ Tasks(draft') = Tasks(draft) \cup {draft.mark + 1}
        /\ draft'.origins = draft.origins
        /\ draft'.resources = draft.resources
        /\ draft'.assignments = draft.assignments
      BY <1>1, <1>2 DEF CreateTask, With, Takes, TakesWithRow, IsRecord, Tasks
  <2>2. IsCovered(draft')
    <3>1. /\ \A uid \in draft'.resources : uid <= draft'.mark
          /\ \A one \in draft'.assignments : one.uid <= draft'.mark
        BY <1>1, <2>1
    <3> QED BY <1>1, <3>1, RestIsCovered
  <2>3. AssignedOnce(draft')
      BY <2>1 DEF IsNumbered, AssignedOnce
  <2>4. IsEditOf(draft, draft')
      BY <1>1, <2>1 DEF IsEditOf
  <2> QED BY <2>2, <2>3, <2>4 DEF MintsFresh, IsNumbered
<1>3. ASSUME NEW uid, DeleteTask(uid) PROVE MintsNothing
  <2>1. PICK doomed : draft' = WithoutTasks(draft, doomed)
      BY <1>3 DEF DeleteTask, Takes, TakesWithRow
  <2> QED BY <2>1, TasksTakeTheirRowsAlong DEF MintsNothing
<1>4. ASSUME NEW sources \in SUBSET Tasks(draft), NEW landingOf, PasteTasks(sources, landingOf)
      PROVE  MintsFresh
  <2>1. draft' = WithCopies(draft, draft.groups, landingOf, PastedUidsOf(draft.mark, sources))
      BY <1>4 DEF PasteTasks, Takes, TakesWithRow
  <2> QED BY <2>1, CopiesAreFresh DEF MintsFresh
<1>5. ASSUME NEW uid, NEW parentUid, SetTaskParentTask(uid, parentUid) PROVE MintsNothing
    BY <1>1, <1>5 DEF SetTaskParentTask, MintsNothing, Takes, TakesWithRow, IsRecord, Tasks
<1>6. ASSUME NEW uid, NEW id, MoveTaskToTaskGroup(uid, id) PROVE MintsNothing
    BY <1>1, <1>6 DEF MoveTaskToTaskGroup, MintsNothing, Takes, TakesWithRow, IsRecord, Tasks
<1> QED BY <1>2, <1>3, <1>4, <1>5, <1>6, NothingMintedIsFresh DEF EditTask

(* Task groups bear no uid; the tasks copied with them do.                    *)
LEMMA EditTaskGroupMintsFresh ==
    ASSUME IsSound(draft), IsNumbered(draft), IsSound(draft'), EditTaskGroup
    PROVE  MintsFresh
<1>1. IsRecord(draft) /\ draft.origins \subseteq Tasks(draft)
    BY NumbersOfASoundDocument
<1>2. ASSUME NEW id, NEW parentId, NEW named, NEW source,
             CreateTaskGroup(id, parentId, named, source)
      PROVE  MintsNothing
    BY <1>1, <1>2 DEF CreateTaskGroup, MintsNothing, Takes, TakesWithRow, IsRecord, Tasks
<1>3. ASSUME NEW id, NEW newId, DeleteTaskGroup(id, newId) PROVE MintsNothing
  <2>1. PICK doomedGroups, doomed : draft' = WithoutTaskGroups(draft, doomedGroups, doomed)
      BY <1>3 DEF DeleteTaskGroup, TakesWithRow
  <2>2. IsRecord(WithoutTasks(draft, doomed))
      BY TasksTakeTheirRowsAlong
  <2>3. /\ draft'.mark = WithoutTasks(draft, doomed).mark
        /\ Tasks(draft') = Tasks(WithoutTasks(draft, doomed))
        /\ draft'.origins = WithoutTasks(draft, doomed).origins
        /\ draft'.resources = WithoutTasks(draft, doomed).resources
        /\ draft'.assignments = WithoutTasks(draft, doomed).assignments
      BY <2>1, <2>2 DEF WithoutTaskGroups, IsRecord, Tasks
  <2> QED BY <2>3, TasksTakeTheirRowsAlong DEF MintsNothing
<1>4. ASSUME NEW id, NEW parentId, NEW idOf, PasteTaskGroupSubtree(id, parentId, idOf)
      PROVE  MintsFresh
  <2> DEFINE copied == Subtree(ParentGroups(draft), {id})
             riders == {uid \in Tasks(draft) :
                           \E one \in draft.members : one[1] = uid /\ one[2] \in copied}
  <2>1. \E groups, landingOf :
           Takes(WithCopies(draft, groups, landingOf, PastedUidsOf(draft.mark, riders)))
      BY <1>4 DEF PasteTaskGroupSubtree
  <2>2. riders \in SUBSET Tasks(draft)
      OBVIOUS
  <2> HIDE DEF riders
  <2>3. PICK groups, landingOf :
            draft' = WithCopies(draft, groups, landingOf, PastedUidsOf(draft.mark, riders))
      BY <2>1 DEF Takes, TakesWithRow
  <2> QED BY <2>2, <2>3, CopiesAreFresh DEF MintsFresh
<1>5. ASSUME NEW id, NEW named, SetTaskGroupName(id, named) PROVE MintsNothing
    BY <1>1, <1>5 DEF SetTaskGroupName, MintsNothing, Takes, TakesWithRow, IsRecord, Tasks
<1>6. ASSUME NEW id, NEW parentId, MoveTaskGroup(id, parentId) PROVE MintsNothing
  <2>1. CASE Takes([draft EXCEPT !.groups[id].parent = parentId])
      BY <1>1, <2>1 DEF MintsNothing, Takes, TakesWithRow, IsRecord, Tasks
  <2>2. ASSUME NEW source, NEW parentUid,
               Takes([[draft EXCEPT !.groups[id].parent = parentId]
                         EXCEPT !.tasks[source].parent = parentUid])
        PROVE  MintsNothing
      BY <1>1, <2>2 DEF MintsNothing, Takes, TakesWithRow, IsRecord, Tasks
  <2> QED BY <1>6, <2>1, <2>2 DEF MoveTaskGroup
<1> QED BY <1>2, <1>3, <1>4, <1>5, <1>6, NothingMintedIsFresh DEF EditTaskGroup

(* Whatever is edited between two imports, and however the bundle ends.       *)
LEMMA EditsKeepImportInv ==
    ASSUME ImportInv, [Next]_vars, UNCHANGED importVars
    PROVE  ImportInv'
<1>1. IInv'
    BY StepKeepsIInv DEF ImportInv, RowsInv
<1>2. /\ IsSound(document) /\ IsSound(draft) /\ IsSound(draft') /\ IsSound(document')
      /\ IsNumbered(document) /\ IsNumbered(draft)
    BY <1>1 DEF ImportInv, RowsInv, IInv
<1>3. UNCHANGED <<originOf, importSequence, delivered>>
    BY DEF importVars
<1>4. ASSUME IsEditOf(document, document'), IsNumbered(document'),
             IsEditOf(document', draft'), IsNumbered(draft')
      PROVE  ImportInv'
  <2>1. /\ document.origins \subseteq Tasks(document)
        /\ document.mark \in Nat /\ document'.mark \in Nat
        /\ document.mark <= document'.mark
        /\ document'.origins = document.origins \cap Tasks(document')
        /\ \A uid \in Tasks(document') : uid \in Tasks(document) \/ uid > document.mark
      BY <1>2, <1>4, NumbersOfASoundDocument DEF IsEditOf
  <2>2. MasterTasksStandOnce'
      BY <1>3, <2>1 DEF MasterTasksStandOnce, ImportInv
  <2>3. \A uid \in delivered : uid \in Nat /\ uid <= document.mark
      BY DEF ImportInv, DeliveredIsSeen
  <2>4. delivered \cap Tasks(document') = (delivered \cap Tasks(document)) \cap Tasks(document')
    <3>1. ASSUME NEW uid \in delivered \cap Tasks(document') PROVE uid \in Tasks(document)
        BY <2>1, <2>3, <3>1
    <3> QED BY <3>1
  <2>5. delivered \cap Tasks(document') =
          {task \in document'.origins : importSequence > 0 /\ originOf[task].seen = importSequence}
      BY <2>1, <2>4 DEF ImportInv, DeliveredIsSeen
  <2>6. \A uid \in delivered : uid \in Nat /\ uid <= document'.mark
      BY <2>1, <2>3
  <2>7. DeliveredIsSeen'
      BY <1>3, <2>1, <2>5, <2>6 DEF ImportInv, DeliveredIsSeen
  <2> QED BY <1>1, <1>4, <2>2, <2>7 DEF ImportInv, RowsInv
<1>5. IsEditOf(document, document)
    BY <1>2, NumbersOfASoundDocument DEF IsEditOf
<1>6. CASE EditDocument
  <2>1. document' = document
    <3>1. CASE \E id \in TaskGroups(draft), newId \in GroupIds : DeleteTaskGroup(id, newId)
        BY <3>1 DEF DeleteTaskGroup, TakesWithRow
    <3>2. CASE ~ \E id \in TaskGroups(draft), newId \in GroupIds : DeleteTaskGroup(id, newId)
      <4>1. SoundlyTakes
          BY <1>2, <1>6, <3>2, EditTaskKeepsSound, EditTaskGroupKeepsSound,
             EditDependencyKeepsSound, EditResourceKeepsSound, EditAnnotationKeepsSound,
             EditDocumentSettingsKeepsSound DEF EditDocument
      <4> QED BY <4>1 DEF SoundlyTakes, Takes, TakesWithRow
    <3> QED BY <3>1, <3>2
  <2>2. MintsFresh
      BY <1>2, <1>6, SettingsMintNothing, NothingMintedIsFresh, EditTaskMintsFresh,
         EditTaskGroupMintsFresh, EditResourceMintsFresh DEF EditDocument
  <2>3. IsEditOf(document, draft')
      BY <1>2, <2>2, EditsAddUp DEF MintsFresh, ImportInv
  <2> QED BY <1>2, <1>4, <1>5, <2>1, <2>2, <2>3 DEF MintsFresh
<1>7. CASE PlanDocumentChange
  <2>1. document' = DocumentHoldingOneTaskGroup(draft, freshRowId) /\ draft' = document'
      BY <1>7 DEF PlanDocumentChange
  <2>2. MintsNothing
    <3>1. IsRecord(draft) /\ draft.origins \subseteq Tasks(draft)
        BY <1>2, NumbersOfASoundDocument
    <3> QED BY <2>1, <3>1 DEF MintsNothing, DocumentHoldingOneTaskGroup, IsRecord, Tasks
  <2>3. MintsFresh
      BY <1>2, <2>2, NothingMintedIsFresh
  <2>4. IsEditOf(document, draft')
      BY <1>2, <2>3, EditsAddUp DEF MintsFresh, ImportInv
  <2>5. IsEditOf(document', draft')
      BY <1>2, <2>1, NumbersOfASoundDocument DEF IsEditOf
  <2> QED BY <1>4, <2>1, <2>3, <2>4, <2>5 DEF MintsFresh
<1>8. CASE RefuseDocumentChange
    BY <1>2, <1>4, <1>5, <1>8 DEF RefuseDocumentChange
<1>9. CASE UNCHANGED vars
    BY <1>2, <1>4, <1>5, <1>9 DEF vars, ImportInv
<1> QED BY <1>6, <1>7, <1>8, <1>9 DEF Next

-----------------------------------------------------------------------------
(* Of finitely many uids one is the greatest: the one of the highest rank.    *)
LEMMA GreatestExists ==
    ASSUME NEW uids \in SUBSET Nat, IsFiniteSet(uids), uids # {}
    PROVE  \E top \in uids : \A uid \in uids : uid <= top
<1> DEFINE n == Cardinality(uids)
           rank == [uid \in uids |-> RankIn(uids, uid)]
<1>1. n \in Nat \ {0}
    BY FS_CardinalityType, FS_EmptySet
<1>2. rank \in Injection(uids, 1 .. n)
    BY RankIsInjective DEF Injection, IsInjective
<1>3. IsFiniteSet(1 .. n) /\ Cardinality(1 .. n) = n
    BY <1>1, FS_Interval
<1>4. rank \in Surjection(uids, 1 .. n)
    BY <1>2, <1>3, FS_Injection
<1>5. PICK top \in uids : rank[top] = n
  <2> HIDE DEF n, rank
  <2>1. n \in 1 .. n
      BY <1>1
  <2> QED BY <1>4, <2>1 DEF Surjection
<1> DEFINE below == {one \in uids : one <= top}
<1>6. Cardinality(below) = Cardinality(uids)
    BY <1>5 DEF RankIn
<1>7. below \in SUBSET uids
    OBVIOUS
<1>8. below = uids
    BY <1>6, <1>7, FS_Subset
<1> QED BY <1>8

(* Where a task was landed on, a task of the file landed last.                *)
LEMMA OneLandedLast ==
    ASSUME NEW f \in Files, NEW landsOn, DOMAIN landsOn = Tasks(f.document),
           NEW task \in Landed(landsOn)
    PROVE  LastOnto(landsOn, task) \in DOMAIN landsOn /\ landsOn[LastOnto(landsOn, task)] = task
<1> DEFINE onto == {uid \in DOMAIN landsOn : landsOn[uid] = task}
<1>1. Tasks(f.document) \subseteq 1 .. f.document.mark /\ f.document.mark \in Nat
    BY FilesAssumption, OpeningsAssumption DEF IsSound, IsDocument
<1>2. onto \in SUBSET Nat /\ onto # {}
    BY <1>1 DEF Landed
<1>3. IsFiniteSet(onto)
  <2>1. IsFiniteSet(1 .. f.document.mark) /\ onto \in SUBSET 1 .. f.document.mark
      BY <1>1, FS_Interval
  <2> QED BY <2>1, FS_Subset
<1>4. \E top \in onto : \A uid \in onto : uid <= top
    BY <1>2, <1>3, GreatestExists
<1>5. \E uid \in DOMAIN landsOn :
         /\ landsOn[uid] = task
         /\ \A other \in DOMAIN landsOn : landsOn[other] = task => other <= uid
    BY <1>4
<1> QED BY <1>5 DEF LastOnto

(* A file is a sound document, opened under its own mark or a higher one.     *)
LEMMA FilesAreNumbered ==
    ASSUME NEW f \in Files
    PROVE  /\ IsSound(f.document) /\ IsNumbered(f.document) /\ TaskGroups(f.document) # {}
           /\ Tasks(f.document) \subseteq StrayTasks
<1>1. IsSound(f.document) /\ TaskGroups(f.document) # {}
    BY FilesAssumption, OpeningsAssumption
<1>2. IsNumbered(f.document) /\ Tasks(f.document) \subseteq StrayTasks
    BY RowsAssumption DEF IsNumbered
<1> QED BY <1>1, <1>2

(* A document with a higher mark is as sound.                                 *)
LEMMA RaisedMarkIsSound ==
    ASSUME NEW d, IsSound(d), IsNumbered(d), NEW mark \in Nat, d.mark <= mark, NEW e,
           e = [d EXCEPT !.mark = mark]
    PROVE  IsSound(e) /\ IsNumbered(e) /\ TaskGroups(e) = TaskGroups(d)
<1>1. IsDocument(d) /\ IsRecord(d)
    BY DEF IsSound, IsDocument, IsRecord
<1>2. /\ IsRecord(e)
      /\ e.mark = mark /\ e.tasks = d.tasks /\ e.groups = d.groups /\ e.members = d.members
      /\ e.visuals = d.visuals /\ e.origins = d.origins /\ e.resources = d.resources
      /\ e.assignments = d.assignments /\ e.notes = d.notes /\ e.boxes = d.boxes
      /\ e.pinned = d.pinned /\ e.shown = d.shown /\ e.listed = d.listed
    BY <1>1 DEF IsRecord
<1>3. Tasks(e) = Tasks(d) /\ TaskGroups(e) = TaskGroups(d)
    BY <1>2 DEF Tasks, TaskGroups
<1>4. d.mark \in Nat /\ Tasks(e) \subseteq 1 .. e.mark
  <2>1. d.mark \in Nat /\ Tasks(d) \subseteq 1 .. d.mark
      BY <1>1 DEF IsDocument
  <2> QED BY <1>2, <1>3, <2>1
<1>5. IsDocument(e)
  <2>1. /\ e.tasks \in [Tasks(e) -> TaskRows] /\ e.groups \in [TaskGroups(e) -> TaskGroupRows]
        /\ e.members \subseteq Nat \X GroupIds /\ e.visuals \subseteq Nat
        /\ e.origins \subseteq Nat /\ e.resources \subseteq Nat
        /\ e.assignments \subseteq AssignmentRows
        /\ e.notes \in [DOMAIN e.notes -> AnchorRows]
        /\ e.boxes \in [DOMAIN e.boxes -> [top : GroupIds, bottom : GroupIds]]
        /\ e.pinned \subseteq GroupIds /\ e.shown \subseteq Nat /\ e.listed \subseteq Nat
        /\ TaskGroups(e) \subseteq GroupIds /\ DOMAIN e.notes \subseteq NoteIds
        /\ DOMAIN e.boxes \subseteq BoxIds
      BY <1>1, <1>2, <1>3 DEF IsDocument
  <2> QED BY <1>2, <1>4, <2>1, FieldsMakeADocument
<1>6. AllLand(e) /\ AllStandOnce(e) /\ AllNamed(e) /\ IsFiniteSet(e.assignments)
  <2>1. AllLand(d) /\ AllStandOnce(d) /\ AllNamed(d) /\ IsFiniteSet(d.assignments)
      BY DEF IsSound
  <2>2. AllLand(e)
      BY <1>2, <1>3, <2>1 DEF AllLand
  <2>3. AllStandOnce(e)
      BY <1>2, <1>3, <2>1 DEF AllStandOnce, StandsOnce
  <2> QED BY <1>2, <1>3, <2>1, <2>2, <2>3 DEF AllNamed
<1>7. AssignedOnce(e)
    BY <1>2 DEF IsNumbered, AssignedOnce
<1>8. IsCovered(e)
  <2>1. /\ d.resources \subseteq Nat /\ \A one \in d.assignments : one.uid \in Nat
      BY <1>1 DEF IsDocument, AssignmentRows
  <2>2. /\ \A uid \in d.resources : uid <= d.mark
        /\ \A one \in d.assignments : one.uid <= d.mark
      BY DEF IsNumbered, IsCovered, MarksAndUids
  <2>3. /\ \A uid \in e.resources : uid <= e.mark
        /\ \A one \in e.assignments : one.uid <= e.mark
      BY <1>2, <1>4, <2>1, <2>2
  <2> QED BY <1>5, <2>3, RestIsCovered
<1> QED BY <1>3, <1>5, <1>6, <1>7, <1>8 DEF IsSound, IsNumbered

(* A document opened brings the origins it was saved with, and what the last  *)
(* import it knows of delivered.                                              *)
LEMMA ReplacingKeepsImportInv ==
    ASSUME ImportInv, NEW f \in Files, ReplaceDocument(f)
    PROVE  ImportInv'
<1>1. /\ IsSound(f.document) /\ IsNumbered(f.document) /\ TaskGroups(f.document) # {}
      /\ f.document.mark \in Nat /\ document.mark \in Nat
      /\ IsRecord(f.document) /\ f.document.origins \subseteq Tasks(f.document)
    BY FilesAreNumbered, NumbersOfASoundDocument DEF ImportInv, RowsInv, IInv
<1>2. /\ IsSound(OpenedFrom(f)) /\ IsNumbered(OpenedFrom(f)) /\ TaskGroups(OpenedFrom(f)) # {}
      /\ Tasks(OpenedFrom(f)) = Tasks(f.document)
      /\ OpenedFrom(f).origins = f.document.origins
  <2>1. CASE f.format = "grsJson"
      BY <1>1, <2>1 DEF OpenedFrom
  <2>2. CASE f.format # "grsJson"
    <3> DEFINE mark == IF document.mark > f.document.mark THEN document.mark ELSE f.document.mark
    <3>1. mark \in Nat /\ f.document.mark <= mark
        BY <1>1
    <3>2. OpenedFrom(f) = [f.document EXCEPT !.mark = mark]
        BY <2>2 DEF OpenedFrom
    <3> HIDE DEF mark
    <3>3. Tasks(OpenedFrom(f)) = Tasks(f.document) /\ OpenedFrom(f).origins = f.document.origins
        BY <1>1, <3>2 DEF Tasks, IsRecord
    <3> QED BY <1>1, <3>1, <3>2, <3>3, RaisedMarkIsSound
  <2> QED BY <2>1, <2>2
<1>3. /\ document' = OpenedFrom(f) /\ draft' = OpenedFrom(f)
      /\ UNCHANGED <<freshRowId, inBundle, commands>>
      /\ originOf' = f.originOf
      /\ importSequence' = IF f.format = "grsJson" THEN f.sequence ELSE importSequence
      /\ delivered' = {uid \in f.document.origins : f.originOf[uid].seen = importSequence'}
    BY DEF ReplaceDocument, Lands
<1>4. RowsInv'
    BY <1>2, <1>3 DEF ImportInv, RowsInv, IInv, TaskGroups
<1>5. IsEditOf(document', draft')
    BY <1>2, <1>3, NumbersOfASoundDocument DEF IsEditOf
<1>6. MasterTasksStandOnce'
    BY <1>2, <1>3, FilesAssumption DEF MasterTasksStandOnce
<1>7. DeliveredIsSeen'
  <2>1. importSequence' \in Nat
      BY <1>3, FilesAssumption DEF ImportInv, DeliveredIsSeen
  <2>2. \A task \in f.document.origins :
           /\ f.originOf[task].seen \in Nat /\ f.originOf[task].seen > 0
           /\ f.originOf[task].seen <= importSequence'
    <3>1. /\ \A task \in f.document.origins : f.originOf[task].seen \in 1 .. f.sequence
          /\ f.sequence \in Nat
          /\ f.format = "grsJson" \/ f.document.origins = {}
        BY FilesAssumption
    <3> QED BY <1>3, <3>1
  <2>3. \A uid \in delivered' : uid \in Nat /\ uid <= document'.mark
    <3>1. Tasks(document') \subseteq 1 .. document'.mark /\ document'.mark \in Nat
        BY <1>2, <1>3, NumbersOfASoundDocument
    <3>2. delivered' \subseteq Tasks(document')
        BY <1>1, <1>2, <1>3
    <3> QED BY <3>1, <3>2
  <2>4. delivered' \cap Tasks(document') =
          {task \in document'.origins :
              importSequence' > 0 /\ originOf'[task].seen = importSequence'}
      BY <1>1, <1>2, <1>3, <2>1, <2>2
  <2> QED BY <1>2, <1>3, <2>1, <2>2, <2>3, <2>4 DEF DeliveredIsSeen
<1> QED BY <1>4, <1>5, <1>6, <1>7 DEF ImportInv

(* The uids that come new to the merge lie over those of both documents, in   *)
(* the order resources, tasks, assignments.                                   *)
MarkOfTasks(f) == HighWaterOf(document, f.document) + Cardinality(RenumberedResources(f))

MarkOfAssignments(f, answer) == MarkOfTasks(f) + Cardinality(AddedAsDifferent(f, answer))

LEMMA MarksRise ==
    ASSUME RowsInv, NEW f \in Files, NEW answer
    PROVE  /\ HighWaterOf(document, f.document) \in Nat
           /\ document.mark <= HighWaterOf(document, f.document)
           /\ f.document.mark <= HighWaterOf(document, f.document)
           /\ IsFiniteSet(RenumberedResources(f)) /\ RenumberedResources(f) \subseteq Nat
           /\ Cardinality(RenumberedResources(f)) \in Nat
           /\ IsFiniteSet(AddedAsDifferent(f, answer)) /\ AddedAsDifferent(f, answer) \subseteq Nat
           /\ Cardinality(AddedAsDifferent(f, answer)) \in Nat
<1> DEFINE d == document
           e == f.document
           uids == MarksAndUids(d) \cup MarksAndUids(e)
<1>1. IsDocument(d) /\ IsCovered(d) /\ IsDocument(e) /\ IsCovered(e)
    BY FilesAreNumbered DEF RowsInv, IInv, IsSound, IsNumbered
<1>2. /\ d.mark \in Nat /\ e.mark \in Nat
      /\ d.resources \subseteq Nat /\ Tasks(d) \subseteq 1 .. d.mark
    BY <1>1 DEF IsDocument
<1>3. d.mark \in uids /\ e.mark \in uids
    BY DEF MarksAndUids
<1>4. /\ \A uid \in MarksAndUids(d) : uid <= d.mark /\ uid \in Nat
      /\ \A uid \in MarksAndUids(e) : uid <= e.mark /\ uid \in Nat
  <2>1. MarksAndUids(d) \subseteq Nat /\ MarksAndUids(e) \subseteq Nat
      BY <1>1 DEF MarksAndUids, IsDocument, AssignmentRows
  <2> QED BY <1>1, <2>1 DEF IsCovered
<1>5. \E top \in uids : \A uid \in uids : uid <= top
  <2>1. CASE d.mark <= e.mark
    <3>1. \A uid \in uids : uid <= e.mark
        BY <1>2, <1>4, <2>1
    <3> QED BY <1>3, <3>1
  <2>2. CASE e.mark <= d.mark
    <3>1. \A uid \in uids : uid <= d.mark
        BY <1>2, <1>4, <2>2
    <3> QED BY <1>3, <3>1
  <2> QED BY <1>2, <2>1, <2>2
<1>6. HighWaterOf(d, e) \in uids /\ \A uid \in uids : uid <= HighWaterOf(d, e)
  <2> HIDE DEF uids
  <2>1. HighWaterOf(d, e) = CHOOSE top \in uids : \A uid \in uids : uid <= top
      BY DEF HighWaterOf, uids
  <2> QED BY <1>5, <2>1
<1>7. RenumberedResources(f) \subseteq 0 .. d.mark
  <2>1. \A uid \in d.resources : uid <= d.mark /\ uid \in Nat
      BY <1>1, <1>2 DEF IsCovered, MarksAndUids
  <2> QED BY <1>2, <2>1 DEF RenumberedResources
<1>8. AddedAsDifferent(f, answer) \subseteq 0 .. d.mark
    BY <1>2 DEF AddedAsDifferent, Candidates
<1>9. IsFiniteSet(0 .. d.mark)
    BY <1>2, FS_Interval
<1>10. IsFiniteSet(RenumberedResources(f)) /\ IsFiniteSet(AddedAsDifferent(f, answer))
  <2>1. /\ RenumberedResources(f) \in SUBSET (0 .. d.mark)
        /\ AddedAsDifferent(f, answer) \in SUBSET (0 .. d.mark)
      BY <1>7, <1>8
  <2> QED BY <1>9, <2>1, FS_Subset
<1>11. RenumberedResources(f) \subseteq Nat /\ AddedAsDifferent(f, answer) \subseteq Nat
    BY <1>7, <1>8
<1>12. HighWaterOf(d, e) \in Nat
    BY <1>4, <1>6
<1> QED BY <1>3, <1>6, <1>10, <1>11, <1>12, FS_CardinalityType

(* Each resource of the file goes to a held one, to a new uid, or keeps its.  *)
LEMMA ResourcesLand ==
    ASSUME RowsInv, NEW f \in Files
    PROVE  /\ DOMAIN ResourceUidOf(f) = f.document.resources
           /\ \A uid \in f.document.resources : ResourceUidOf(f)[uid] \in 0 .. MarkOfTasks(f)
<1> DEFINE top == HighWaterOf(document, f.document)
           renumbered == RenumberedResources(f)
           least(uid) == CHOOSE held \in NamesakesOf(f, uid) :
                            \A other \in NamesakesOf(f, uid) : held <= other
<1>1. /\ top \in Nat /\ document.mark <= top /\ f.document.mark <= top
      /\ IsFiniteSet(renumbered) /\ renumbered \in SUBSET Nat /\ Cardinality(renumbered) \in Nat
    BY MarksRise
<1>2. /\ document.mark \in Nat /\ f.document.mark \in Nat
      /\ \A uid \in document.resources : uid \in Nat /\ uid <= document.mark
      /\ \A uid \in f.document.resources : uid \in Nat /\ uid <= f.document.mark
    BY FilesAreNumbered
       DEF RowsInv, IInv, IsSound, IsDocument, IsNumbered, IsCovered, MarksAndUids
<1>3. \A uid \in renumbered : RankIn(renumbered, uid) \in 1 .. Cardinality(renumbered)
    BY <1>1, RankIsInjective
<1>4. ASSUME NEW uid \in f.document.resources PROVE ResourceUidOf(f)[uid] \in 0 .. MarkOfTasks(f)
  <2>1. CASE NamesakesOf(f, uid) # {}
    <3>1. NamesakesOf(f, uid) \in SUBSET Nat /\ NamesakesOf(f, uid) \subseteq document.resources
        BY <1>2 DEF NamesakesOf
    <3>2. least(uid) \in NamesakesOf(f, uid)
        BY <2>1, <3>1, LeastExists
    <3>3. ResourceUidOf(f)[uid] = least(uid)
        BY <2>1 DEF ResourceUidOf
    <3>4. least(uid) \in document.resources
        BY <3>1, <3>2
    <3> HIDE DEF least
    <3> QED BY <1>1, <1>2, <3>3, <3>4 DEF MarkOfTasks
  <2>2. CASE NamesakesOf(f, uid) = {} /\ uid \in renumbered
    <3>1. ResourceUidOf(f)[uid] = top + RankIn(renumbered, uid)
        BY <2>2 DEF ResourceUidOf
    <3>2. RankIn(renumbered, uid) \in 1 .. Cardinality(renumbered)
        BY <1>3, <2>2
    <3> HIDE DEF top, renumbered
    <3> QED BY <1>1, <3>1, <3>2 DEF MarkOfTasks, top, renumbered
  <2>3. CASE NamesakesOf(f, uid) = {} /\ uid \notin renumbered
    <3>1. ResourceUidOf(f)[uid] = uid
        BY <2>3 DEF ResourceUidOf
    <3> HIDE DEF top, renumbered
    <3> QED BY <1>1, <1>2, <3>1 DEF MarkOfTasks, top, renumbered
  <2> QED BY <2>1, <2>2, <2>3
<1>5. DOMAIN ResourceUidOf(f) = f.document.resources
    BY DEF ResourceUidOf
<1> QED BY <1>4, <1>5

(* Each task of the file lands on a held one, on a new uid, or on its own.    *)
LEMMA TasksLand ==
    ASSUME RowsInv, NEW f \in Files, NEW answer
    PROVE  /\ DOMAIN LandsOn(f, answer) = Tasks(f.document)
           /\ \A uid \in Tasks(f.document) :
                 /\ LandsOn(f, answer)[uid] \in 1 .. MarkOfAssignments(f, answer)
                 /\ LandsOn(f, answer)[uid] \in Tasks(document)
                       \/ LandsOn(f, answer)[uid] > MarkOfTasks(f)
                       \/ LandsOn(f, answer)[uid] = uid
<1> DEFINE top == MarkOfTasks(f)
           added == AddedAsDifferent(f, answer)
           landsOn == LandsOn(f, answer)
<1>1. /\ top \in Nat /\ document.mark <= top /\ f.document.mark <= top
      /\ IsFiniteSet(added) /\ added \in SUBSET Nat /\ Cardinality(added) \in Nat
  <2>1. document.mark \in Nat /\ f.document.mark \in Nat
      BY FilesAreNumbered DEF RowsInv, IInv, IsSound, IsDocument
  <2> QED BY <2>1, MarksRise DEF MarkOfTasks
<1>2. /\ document.mark \in Nat /\ f.document.mark \in Nat
      /\ Tasks(document) \subseteq 1 .. document.mark
      /\ Tasks(f.document) \subseteq 1 .. f.document.mark
    BY FilesAreNumbered DEF RowsInv, IInv, IsSound, IsDocument
<1>3. \A uid \in added : RankIn(added, uid) \in 1 .. Cardinality(added)
    BY <1>1, RankIsInjective
<1>4. landsOn = [uid \in Tasks(f.document) |->
            IF CarriedTasks(f, uid) # {} THEN CHOOSE task \in CarriedTasks(f, uid) : TRUE
            ELSE IF uid \in added THEN top + RankIn(added, uid) ELSE uid]
    BY DEF LandsOn, MarkOfTasks
<1>5. MarkOfAssignments(f, answer) = top + Cardinality(added)
    BY DEF MarkOfAssignments
<1> HIDE DEF top, added, landsOn
<1>6. ASSUME NEW uid \in Tasks(f.document)
      PROVE  /\ landsOn[uid] \in 1 .. top + Cardinality(added)
             /\ landsOn[uid] \in Tasks(document) \/ landsOn[uid] > top \/ landsOn[uid] = uid
  <2>1. CASE CarriedTasks(f, uid) # {}
    <3>1. landsOn[uid] \in Tasks(document)
        BY <1>4, <2>1 DEF CarriedTasks
    <3> QED BY <1>1, <1>2, <3>1
  <2>2. CASE CarriedTasks(f, uid) = {} /\ uid \in added
    <3>1. landsOn[uid] = top + RankIn(added, uid)
        BY <1>4, <2>2
    <3>2. RankIn(added, uid) \in 1 .. Cardinality(added)
        BY <1>3, <2>2
    <3> QED BY <1>1, <3>1, <3>2
  <2>3. CASE CarriedTasks(f, uid) = {} /\ uid \notin added
    <3>1. landsOn[uid] = uid
        BY <1>4, <2>3
    <3> QED BY <1>1, <1>2, <3>1
  <2> QED BY <2>1, <2>2, <2>3
<1> QED BY <1>4, <1>5, <1>6 DEF top, landsOn

(* The assignments that join are of what the merge landed, and each has a uid *)
(* and a pair that no held one and no other has.                              *)
LEMMA JoiningIsNumbered ==
    ASSUME RowsInv, NEW f \in Files, NEW answer, NEW landsOn, NEW resourceUidOf,
           landsOn = LandsOn(f, answer), resourceUidOf = ResourceUidOf(f),
           NEW joining, joining = JoiningAssignments(f, answer, landsOn, resourceUidOf)
    PROVE  /\ joining.mark \in Nat /\ MarkOfAssignments(f, answer) <= joining.mark
           /\ IsFiniteSet(joining.rows) /\ joining.rows \subseteq AssignmentRows
           /\ \A row \in joining.rows :
                 /\ row.task \in Landed(landsOn)
                 /\ row.resource \in {resourceUidOf[uid] : uid \in f.document.resources}
                 /\ row.uid <= joining.mark
                 /\ \A held \in document.assignments :
                       /\ held.uid # row.uid
                       /\ <<held.task, held.resource>> # <<row.task, row.resource>>
                 /\ \A other \in joining.rows :
                       \/ other = row
                       \/ /\ other.uid # row.uid
                          /\ <<other.task, other.resource>> # <<row.task, row.resource>>
<1> DEFINE d == document
           e == f.document
           pair(one) == <<landsOn[one.task], resourceUidOf[one.resource]>>
           held == {<<one.task, one.resource>> : one \in d.assignments}
           heldUids == {one.uid : one \in d.assignments}
           added == {one \in e.assignments :
                       /\ pair(one) \notin held
                       /\ ~ \E other \in e.assignments :
                              pair(other) = pair(one) /\ other.uid < one.uid}
           renumbered == {one.uid : one \in added} \cap heldUids
           mark == MarkOfAssignments(f, answer)
           made(one) == [uid |-> IF one.uid \in renumbered
                                 THEN mark + RankIn(renumbered, one.uid) ELSE one.uid,
                         task |-> landsOn[one.task],
                         resource |-> resourceUidOf[one.resource]]
<1>1. joining.rows = {made(one) : one \in added} /\ joining.mark = mark + Cardinality(renumbered)
    BY DEF JoiningAssignments, MarkOfAssignments, MarkOfTasks
<1>2. /\ IsDocument(d) /\ IsNumbered(d) /\ IsFiniteSet(d.assignments) /\ d.mark \in Nat
      /\ IsDocument(e) /\ IsNumbered(e) /\ AllLand(e) /\ IsFiniteSet(e.assignments)
      /\ e.mark \in Nat
    BY FilesAreNumbered DEF RowsInv, IInv, IsSound, IsDocument
<1>3. /\ \A one \in d.assignments : one.uid \in Nat /\ one.uid <= d.mark
      /\ \A one \in e.assignments :
            /\ one.uid \in Nat /\ one.uid <= e.mark
            /\ one.task \in Tasks(e) /\ one.resource \in e.resources
    BY <1>2 DEF IsNumbered, IsCovered, MarksAndUids, IsDocument, AssignmentRows, AllLand
<1>4. mark \in Nat /\ d.mark <= mark /\ e.mark <= mark
    BY <1>2, MarksRise DEF MarkOfAssignments, MarkOfTasks
<1>5. added \in SUBSET e.assignments /\ IsFiniteSet(added)
  <2>1. added \in SUBSET e.assignments
      OBVIOUS
  <2> HIDE DEF added
  <2> QED BY <1>2, <2>1, FS_Subset
<1>6. IsFiniteSet(renumbered) /\ renumbered \in SUBSET Nat /\ Cardinality(renumbered) \in Nat
  <2> DEFINE uidOf == [one \in added |-> one.uid]
             uids == {uidOf[one] : one \in added}
  <2>1. IsFiniteSet(uids)
    <3> HIDE DEF uidOf, added
    <3> QED BY <1>5, ImageIsFinite
  <2>2. renumbered \in SUBSET uids /\ uids \in SUBSET Nat
      BY <1>3
  <2> HIDE DEF renumbered, uids
  <2> QED BY <2>1, <2>2, FS_Subset, FS_CardinalityType
<1>7. /\ \A uid \in renumbered : RankIn(renumbered, uid) \in 1 .. Cardinality(renumbered)
      /\ \A a, b \in renumbered : RankIn(renumbered, a) = RankIn(renumbered, b) => a = b
    BY <1>6, RankIsInjective
<1>8. ASSUME NEW one \in added
      PROVE  \/ /\ one.uid \in renumbered
                /\ made(one).uid = mark + RankIn(renumbered, one.uid)
                /\ RankIn(renumbered, one.uid) \in 1 .. Cardinality(renumbered)
             \/ made(one).uid = one.uid /\ one.uid \notin heldUids
    BY <1>7
<1>9. \A one \in added : made(one).task = landsOn[one.task]
                         /\ made(one).resource = resourceUidOf[one.resource]
    OBVIOUS
<1>10. /\ DOMAIN landsOn = Tasks(e) /\ \A uid \in Tasks(e) : landsOn[uid] \in Nat
       /\ DOMAIN resourceUidOf = e.resources /\ \A uid \in e.resources : resourceUidOf[uid] \in Nat
    BY TasksLand, ResourcesLand
<1>11. \A one \in added :
          /\ one \in e.assignments /\ one.uid \in Nat /\ one.uid <= e.mark
          /\ one.task \in Tasks(e) /\ one.resource \in e.resources
          /\ pair(one) \notin held
          /\ \A other \in e.assignments : pair(other) = pair(one) => ~ other.uid < one.uid
    BY <1>3
<1>12. \A one \in d.assignments : one.uid \in heldUids /\ <<one.task, one.resource>> \in held
    OBVIOUS
<1> HIDE DEF renumbered, mark, heldUids, held, added
<1>13. ASSUME NEW one \in added
       PROVE  /\ made(one).uid \in Nat /\ made(one).uid <= mark + Cardinality(renumbered)
              /\ made(one) \in AssignmentRows
              /\ made(one).task \in Landed(landsOn)
              /\ made(one).resource \in {resourceUidOf[uid] : uid \in e.resources}
  <2>1. made(one).uid \in Nat /\ made(one).uid <= mark + Cardinality(renumbered)
    <3>1. one.uid \in Nat /\ one.uid <= e.mark
        BY <1>11
    <3> HIDE DEF made
    <3> QED BY <1>2, <1>4, <1>6, <1>8, <3>1
  <2>2. made(one).task \in Nat /\ made(one).resource \in Nat
      BY <1>9, <1>10, <1>11
  <2>3. made(one) \in AssignmentRows
      BY <2>1, <2>2 DEF AssignmentRows
  <2>4. made(one).task \in Landed(landsOn)
      BY <1>9, <1>10, <1>11 DEF Landed
  <2>5. made(one).resource \in {resourceUidOf[uid] : uid \in e.resources}
      BY <1>9, <1>11
  <2> QED BY <2>1, <2>3, <2>4, <2>5
<1>14. ASSUME NEW one \in added, NEW other \in d.assignments
       PROVE  /\ other.uid # made(one).uid
              /\ <<other.task, other.resource>> # <<made(one).task, made(one).resource>>
  <2>1. other.uid \in Nat /\ other.uid <= d.mark /\ other.uid \in heldUids
      BY <1>3, <1>12
  <2>2. other.uid # made(one).uid
    <3> HIDE DEF made
    <3> QED BY <1>2, <1>4, <1>6, <1>8, <2>1
  <2>3. <<other.task, other.resource>> # <<made(one).task, made(one).resource>>
      BY <1>9, <1>11, <1>12
  <2> QED BY <2>2, <2>3
<1>15. ASSUME NEW one \in added, NEW other \in added,
              \/ made(one).uid = made(other).uid
              \/ <<made(one).task, made(one).resource>> = <<made(other).task, made(other).resource>>
       PROVE  one = other
  <2>1. one.uid = other.uid
    <3>1. one.uid \in Nat /\ one.uid <= e.mark /\ other.uid \in Nat /\ other.uid <= e.mark
        BY <1>11
    <3>2. CASE made(one).uid = made(other).uid
      <4> HIDE DEF made
      <4>1. CASE one.uid \in renumbered /\ other.uid \in renumbered
                 /\ made(one).uid = mark + RankIn(renumbered, one.uid)
                 /\ made(other).uid = mark + RankIn(renumbered, other.uid)
        <5>1. RankIn(renumbered, one.uid) = RankIn(renumbered, other.uid)
          <6>1. RankIn(renumbered, one.uid) \in Nat /\ RankIn(renumbered, other.uid) \in Nat
            <7>1. RankIn(renumbered, one.uid) \in 1 .. Cardinality(renumbered)
                  /\ RankIn(renumbered, other.uid) \in 1 .. Cardinality(renumbered)
                BY <1>7, <4>1
            <7> QED BY <7>1
          <6>2. mark + RankIn(renumbered, one.uid) = mark + RankIn(renumbered, other.uid)
              BY <3>2, <4>1
          <6> QED BY <1>4, <6>1, <6>2
        <5> QED BY <1>7, <4>1, <5>1
      <4>2. CASE ~ (one.uid \in renumbered /\ other.uid \in renumbered
                    /\ made(one).uid = mark + RankIn(renumbered, one.uid)
                    /\ made(other).uid = mark + RankIn(renumbered, other.uid))
          BY <1>2, <1>4, <1>6, <1>8, <3>1, <3>2, <4>2
      <4> QED BY <4>1, <4>2
    <3>3. CASE <<made(one).task, made(one).resource>> = <<made(other).task, made(other).resource>>
      <4>1. pair(one) = pair(other)
          BY <1>9, <3>3
      <4>2. ~ one.uid < other.uid /\ ~ other.uid < one.uid
        <5> HIDE DEF pair
        <5> QED BY <1>11, <4>1
      <4> QED BY <3>1, <4>2
    <3> QED BY <1>15, <3>2, <3>3
  <2> QED BY <1>2, <1>11, <2>1 DEF IsNumbered, AssignedOnce
<1>16. IsFiniteSet({made(one) : one \in added})
  <2> DEFINE madeOf == [one \in added |-> made(one)]
  <2>1. {made(one) : one \in added} = {madeOf[one] : one \in added}
      OBVIOUS
  <2> HIDE DEF madeOf, made
  <2> QED BY <1>5, <2>1, ImageIsFinite
<1> HIDE DEF made
<1>17. joining.mark \in Nat /\ mark <= joining.mark
    BY <1>1, <1>4, <1>6
<1>18. IsFiniteSet(joining.rows) /\ joining.rows \subseteq AssignmentRows
    BY <1>1, <1>13, <1>16
<1>19. ASSUME NEW row \in joining.rows
       PROVE  /\ row.task \in Landed(landsOn)
              /\ row.resource \in {resourceUidOf[uid] : uid \in e.resources}
              /\ row.uid <= joining.mark
              /\ \A one \in d.assignments :
                    one.uid # row.uid /\ <<one.task, one.resource>> # <<row.task, row.resource>>
              /\ \A other \in joining.rows :
                    \/ other = row
                    \/ /\ other.uid # row.uid
                       /\ <<other.task, other.resource>> # <<row.task, row.resource>>
  <2>1. PICK one \in added : row = made(one)
      BY <1>1, <1>19
  <2>2. ASSUME NEW other \in joining.rows, other # row
        PROVE  /\ other.uid # row.uid
               /\ <<other.task, other.resource>> # <<row.task, row.resource>>
    <3>1. PICK another \in added : other = made(another)
        BY <1>1, <2>2
    <3> QED BY <1>15, <2>1, <2>2, <3>1
  <2> QED BY <1>1, <1>13, <1>14, <2>1, <2>2
<1> QED BY <1>17, <1>18, <1>19 DEF mark

(* The rows of both, those of the file where they landed: every column names  *)
(* a row of the merged document, and every task stands once.                  *)
LEMMA MergedIsSound ==
    ASSUME RowsInv, NEW f \in Files, NEW answer, NEW merged,
           merged = MergedDocument(f, answer, LandsOn(f, answer))
    PROVE  /\ IsSound(merged) /\ IsNumbered(merged) /\ TaskGroups(merged) # {}
           /\ Tasks(merged) = Tasks(document) \cup Landed(LandsOn(f, answer))
           /\ merged.origins = document.origins \cup Landed(LandsOn(f, answer))
<1> DEFINE d == document
           e == f.document
           landsOn == LandsOn(f, answer)
           landed == Landed(landsOn)
           resourceUidOf == ResourceUidOf(f)
           joining == JoiningAssignments(f, answer, landsOn, resourceUidOf)
           last(task) == LastOnto(landsOn, task)
           row(task) == IF task \in landed
                        THEN [parent |-> MovedTo(landsOn, e.tasks[last(task)].parent),
                              preds |-> {landsOn[pred] :
                                  pred \in e.tasks[last(task)].preds \cap DOMAIN landsOn}]
                        ELSE d.tasks[task]
           note(id) == IF id \in DOMAIN d.notes THEN d.notes[id]
                       ELSE [e.notes[id] EXCEPT
                                !.task = MovedTo(landsOn, @),
                                !.point = IF e.notes[id].task # Null
                                               /\ e.notes[id].task \notin DOMAIN landsOn
                                          THEN Null ELSE @]
           places == Places(f, landsOn)
<1>1. /\ IsSound(d) /\ IsNumbered(d)
      /\ IsDocument(d) /\ AllLand(d) /\ AllStandOnce(d) /\ AllNamed(d)
      /\ IsFiniteSet(d.assignments) /\ IsRecord(d) /\ TaskGroups(d) # {}
      /\ IsSound(e) /\ IsNumbered(e)
      /\ IsDocument(e) /\ AllLand(e) /\ AllStandOnce(e) /\ AllNamed(e)
      /\ IsRecord(e) /\ Tasks(e) \subseteq StrayTasks
    BY FilesAreNumbered DEF RowsInv, IInv, IsSound, IsDocument, IsRecord
<1>2. /\ DOMAIN landsOn = Tasks(e)
      /\ \A uid \in Tasks(e) : landsOn[uid] \in landed
      /\ landed \subseteq 1 .. MarkOfAssignments(f, answer)
    BY TasksLand DEF Landed
<1>3. \A task \in landed : last(task) \in Tasks(e) /\ landsOn[last(task)] = task
    BY <1>2, OneLandedLast
<1>4. /\ DOMAIN resourceUidOf = e.resources
      /\ \A uid \in e.resources : resourceUidOf[uid] \in 0 .. MarkOfTasks(f)
    BY ResourcesLand
<1>5. /\ joining.mark \in Nat /\ MarkOfAssignments(f, answer) <= joining.mark
      /\ IsFiniteSet(joining.rows) /\ joining.rows \subseteq AssignmentRows
      /\ \A one \in joining.rows :
            /\ one.task \in landed
            /\ one.resource \in {resourceUidOf[uid] : uid \in e.resources}
            /\ one.uid <= joining.mark
            /\ \A held \in d.assignments :
                  /\ held.uid # one.uid
                  /\ <<held.task, held.resource>> # <<one.task, one.resource>>
            /\ \A other \in joining.rows :
                  \/ other = one
                  \/ /\ other.uid # one.uid
                     /\ <<other.task, other.resource>> # <<one.task, one.resource>>
  <2> HIDE DEF landsOn, resourceUidOf
  <2> QED BY JoiningIsNumbered DEF landsOn, resourceUidOf
<1>6. /\ MarkOfTasks(f) \in Nat /\ MarkOfAssignments(f, answer) \in Nat
      /\ d.mark \in Nat /\ d.mark <= MarkOfTasks(f)
      /\ MarkOfTasks(f) <= MarkOfAssignments(f, answer)
    BY <1>1, MarksRise DEF MarkOfTasks, MarkOfAssignments, IsDocument
<1>7. /\ places \subseteq landed
      /\ \A task \in landed : task \in places \/ task \in Tasks(d)
    BY DEF Places
<1>8. /\ IsRecord(merged)
      /\ merged.mark = joining.mark
      /\ merged.tasks = [task \in Tasks(d) \cup landed |-> row(task)]
      /\ merged.groups = [id \in TaskGroups(d) \cup TaskGroups(e) |->
                             IF id \in TaskGroups(d) THEN d.groups[id] ELSE e.groups[id]]
      /\ merged.members = MergedMembers(f, landsOn)
      /\ merged.visuals = d.visuals \cup places
      /\ merged.origins = d.origins \cup landed
      /\ merged.resources = d.resources \cup {resourceUidOf[uid] : uid \in e.resources}
      /\ merged.assignments = d.assignments \cup joining.rows
      /\ merged.notes = [id \in DOMAIN d.notes \cup DOMAIN e.notes |-> note(id)]
      /\ merged.boxes = [id \in DOMAIN d.boxes \cup DOMAIN e.boxes |->
                            IF id \in DOMAIN d.boxes THEN d.boxes[id] ELSE e.boxes[id]]
      /\ merged.pinned = d.pinned /\ merged.shown = d.shown /\ merged.listed = d.listed
  <2> DEFINE tasks == [task \in Tasks(d) \cup landed |-> row(task)]
             groups == [id \in TaskGroups(d) \cup TaskGroups(e) |->
                             IF id \in TaskGroups(d) THEN d.groups[id] ELSE e.groups[id]]
             members == MergedMembers(f, landsOn)
             visuals == d.visuals \cup places
             origins == d.origins \cup landed
             resources == d.resources \cup {resourceUidOf[uid] : uid \in e.resources}
             assignments == d.assignments \cup joining.rows
             notes == [id \in DOMAIN d.notes \cup DOMAIN e.notes |-> note(id)]
             boxes == [id \in DOMAIN d.boxes \cup DOMAIN e.boxes |->
                            IF id \in DOMAIN d.boxes THEN d.boxes[id] ELSE e.boxes[id]]
             mark == joining.mark
  <2>1. merged = [d EXCEPT !.mark = mark, !.tasks = tasks, !.groups = groups,
                           !.members = members, !.visuals = visuals, !.origins = origins,
                           !.resources = resources, !.assignments = assignments,
                           !.notes = notes, !.boxes = boxes]
    <3> HIDE DEF landsOn, landed, resourceUidOf, places, joining
    <3>1. merged = MergedDocument(f, answer, landsOn)
        BY DEF landsOn
    <3> QED BY <3>1, Zenon DEF MergedDocument, landed, resourceUidOf, places, joining
  <2> HIDE DEF tasks, groups, members, visuals, origins, resources, assignments, notes, boxes, mark
  <2> HIDE DEF d, e, landsOn, landed, resourceUidOf, joining, row, note, places
  <2>2. IsRecord(d)
      BY <1>1
  <2>3. IsRecord(merged)
      BY <2>1, <2>2 DEF IsRecord
  <2>4. /\ merged.mark = mark /\ merged.tasks = tasks /\ merged.groups = groups
        /\ merged.members = members /\ merged.visuals = visuals
      BY <2>1, <2>2 DEF IsRecord
  <2>5. /\ merged.origins = origins /\ merged.resources = resources
        /\ merged.assignments = assignments
      BY <2>1, <2>2 DEF IsRecord
  <2>6. merged.notes = notes /\ merged.boxes = boxes
      BY <2>1, <2>2 DEF IsRecord
  <2>7. merged.pinned = d.pinned /\ merged.shown = d.shown /\ merged.listed = d.listed
      BY <2>1, <2>2 DEF IsRecord
  <2> QED BY <2>3, <2>4, <2>5, <2>6, <2>7 DEF tasks, groups, members, visuals,
                                                origins, resources, assignments, notes, boxes,
                                                mark
<1>9. /\ Tasks(merged) = Tasks(d) \cup landed
      /\ TaskGroups(merged) = TaskGroups(d) \cup TaskGroups(e)
      /\ DOMAIN merged.notes = DOMAIN d.notes \cup DOMAIN e.notes
      /\ DOMAIN merged.boxes = DOMAIN d.boxes \cup DOMAIN e.boxes
    BY <1>8 DEF Tasks, TaskGroups
<1>10. ASSUME NEW task \in Tasks(d) \cup landed
       PROVE  /\ row(task) \in TaskRows
              /\ row(task).parent \in Tasks(d) \cup landed \cup {Null}
              /\ row(task).preds \subseteq Tasks(d) \cup landed
  <2>1. CASE task \in landed
    <3> DEFINE parent == MovedTo(landsOn, e.tasks[last(task)].parent)
               preds == {landsOn[pred] : pred \in e.tasks[last(task)].preds \cap DOMAIN landsOn}
    <3>1. row(task) = [parent |-> parent, preds |-> preds]
        BY <2>1
    <3>2. parent \in landed \cup {Null} /\ preds \subseteq landed
        BY <1>2 DEF MovedTo
    <3>3. landed \subseteq Nat
        BY <1>2
    <3> HIDE DEF parent, preds, row, landed
    <3> QED BY <3>1, <3>2, <3>3 DEF TaskRows
  <2>2. CASE task \notin landed
    <3>1. row(task) = d.tasks[task] /\ task \in Tasks(d)
        BY <1>10, <2>2
    <3> HIDE DEF row, landed
    <3> QED BY <1>1, <3>1 DEF IsDocument, AllLand
  <2> QED BY <2>1, <2>2
<1>11. ASSUME NEW id \in DOMAIN d.notes \cup DOMAIN e.notes
       PROVE  /\ note(id) \in AnchorRows
              /\ note(id).band \in TaskGroups(d) \cup TaskGroups(e)
              /\ note(id).task \in Tasks(d) \cup landed \cup {Null}
              /\ note(id).box \in DOMAIN d.boxes \cup DOMAIN e.boxes \cup {Null}
  <2>1. CASE id \in DOMAIN d.notes
    <3>1. note(id) = d.notes[id]
        BY <2>1
    <3> HIDE DEF note, landed
    <3> QED BY <1>1, <2>1, <3>1 DEF IsDocument, AllLand
  <2>2. CASE id \notin DOMAIN d.notes
    <3> DEFINE brought == e.notes[id]
               task == MovedTo(landsOn, brought.task)
               point == IF brought.task # Null /\ brought.task \notin DOMAIN landsOn
                        THEN Null ELSE brought.point
    <3>1. /\ brought \in AnchorRows /\ brought.band \in TaskGroups(e)
          /\ brought.box \in DOMAIN e.boxes \cup {Null}
        BY <1>1, <1>11, <2>2 DEF IsDocument, AllLand
    <3>2. task \in landed \cup {Null}
        BY <1>2 DEF MovedTo
    <3>3. point \in {"top", "side", "bottom", Null}
        BY <3>1 DEF AnchorRows
    <3>4. note(id) = [brought EXCEPT !.task = task, !.point = point]
        BY <2>2
    <3>5. landed \subseteq Nat
        BY <1>2
    <3> HIDE DEF note, landed, brought, task, point
    <3> QED BY <3>1, <3>2, <3>3, <3>4, <3>5 DEF AnchorRows
  <2> QED BY <2>1, <2>2
<1> HIDE DEF row, note, joining, landsOn, landed, resourceUidOf, places, last
<1>12. IsDocument(merged)
  <2>1. merged.mark \in Nat /\ Tasks(merged) \subseteq 1 .. merged.mark
    <3>1. d.mark \in Nat /\ Tasks(d) \subseteq 1 .. d.mark
        BY <1>1 DEF IsDocument
    <3>2. landed \subseteq 1 .. joining.mark
        BY <1>2, <1>5, <1>6
    <3>3. Tasks(d) \subseteq 1 .. joining.mark
        BY <1>5, <1>6, <3>1
    <3> QED BY <1>5, <1>8, <1>9, <3>2, <3>3
  <2>2. merged.tasks \in [Tasks(merged) -> TaskRows]
      BY <1>8, <1>9, <1>10
  <2>3. /\ merged.groups \in [TaskGroups(merged) -> TaskGroupRows]
        /\ TaskGroups(merged) \subseteq GroupIds
      BY <1>1, <1>8, <1>9 DEF IsDocument
  <2>4. merged.members \subseteq Nat \X GroupIds
    <3>1. landed \subseteq Nat /\ TaskGroups(e) \subseteq GroupIds
          /\ d.members \subseteq Nat \X GroupIds
        BY <1>1, <1>2 DEF IsDocument
    <3>2. MergedMembers(f, landsOn) \subseteq d.members \cup (landed \X TaskGroups(e))
        BY DEF MergedMembers, landed
    <3>3. landed \X TaskGroups(e) \subseteq Nat \X GroupIds
        BY <3>1
    <3>4. merged.members \subseteq d.members \cup (landed \X TaskGroups(e))
        BY <1>8, <3>2
    <3> HIDE DEF d, e
    <3> QED BY <3>1, <3>3, <3>4
  <2>5. merged.visuals \subseteq Nat /\ merged.origins \subseteq Nat
    <3>1. landed \subseteq Nat /\ d.visuals \subseteq Nat /\ d.origins \subseteq Nat
        BY <1>1, <1>2 DEF IsDocument
    <3> QED BY <1>7, <1>8, <3>1
  <2>6. merged.resources \subseteq Nat /\ merged.assignments \subseteq AssignmentRows
    <3>1. d.resources \subseteq Nat /\ d.assignments \subseteq AssignmentRows
        BY <1>1 DEF IsDocument
    <3>2. \A uid \in e.resources : resourceUidOf[uid] \in Nat
        BY <1>4, <1>6
    <3> QED BY <1>5, <1>8, <3>1, <3>2
  <2>7. /\ merged.notes \in [DOMAIN merged.notes -> AnchorRows]
        /\ DOMAIN merged.notes \subseteq NoteIds
    <3>1. DOMAIN d.notes \subseteq NoteIds /\ DOMAIN e.notes \subseteq NoteIds
        BY <1>1 DEF IsDocument
    <3> QED BY <1>8, <1>9, <1>11, <3>1
  <2>8. /\ merged.boxes \in [DOMAIN merged.boxes -> [top : GroupIds, bottom : GroupIds]]
        /\ DOMAIN merged.boxes \subseteq BoxIds
    <3>1. /\ d.boxes \in [DOMAIN d.boxes -> [top : GroupIds, bottom : GroupIds]]
          /\ e.boxes \in [DOMAIN e.boxes -> [top : GroupIds, bottom : GroupIds]]
          /\ DOMAIN d.boxes \subseteq BoxIds /\ DOMAIN e.boxes \subseteq BoxIds
        BY <1>1 DEF IsDocument
    <3> QED BY <1>8, <1>9, <3>1
  <2>9. /\ merged.pinned \subseteq GroupIds
        /\ merged.shown \subseteq Nat /\ merged.listed \subseteq Nat
      BY <1>1, <1>8 DEF IsDocument
  <2> QED BY <1>8, <2>1, <2>2, <2>3, <2>4, <2>5, <2>6, <2>7, <2>8, <2>9, FieldsMakeADocument
<1>13. AllLand(merged)
  <2>1. \A uid \in Tasks(merged) :
           /\ merged.tasks[uid].parent \in Tasks(merged) \cup {Null}
           /\ merged.tasks[uid].preds \subseteq Tasks(merged)
      BY <1>8, <1>9, <1>10
  <2>2. \A id \in TaskGroups(merged) :
           /\ merged.groups[id].parent \in TaskGroups(merged) \cup {Null}
           /\ merged.groups[id].source \in Tasks(merged) \cup StrayTasks \cup {Null}
    <3>1. \A id \in TaskGroups(d) :
             /\ d.groups[id].parent \in TaskGroups(d) \cup {Null}
             /\ d.groups[id].source \in Tasks(d) \cup StrayTasks \cup {Null}
        BY <1>1 DEF AllLand
    <3>2. \A id \in TaskGroups(e) :
             /\ e.groups[id].parent \in TaskGroups(e) \cup {Null}
             /\ e.groups[id].source \in StrayTasks \cup {Null}
        BY <1>1 DEF AllLand
    <3> QED BY <1>8, <1>9, <3>1, <3>2
  <2>3. /\ merged.members \subseteq Tasks(merged) \X TaskGroups(merged)
        /\ merged.visuals \subseteq Tasks(merged) /\ merged.origins \subseteq Tasks(merged)
    <3>1. /\ d.members \subseteq Tasks(d) \X TaskGroups(d)
          /\ d.visuals \subseteq Tasks(d) /\ d.origins \subseteq Tasks(d)
        BY <1>1 DEF AllLand
    <3>2. MergedMembers(f, landsOn) \subseteq d.members \cup (landed \X TaskGroups(e))
        BY DEF MergedMembers, landed
    <3> QED BY <1>7, <1>8, <1>9, <3>1, <3>2
  <2>4. \A one \in merged.assignments :
           one.task \in Tasks(merged) /\ one.resource \in merged.resources
    <3>1. \A one \in d.assignments : one.task \in Tasks(d) /\ one.resource \in d.resources
        BY <1>1 DEF AllLand
    <3> QED BY <1>5, <1>8, <1>9, <3>1
  <2>5. \A id \in DOMAIN merged.notes :
           /\ merged.notes[id].band \in TaskGroups(merged)
           /\ merged.notes[id].task \in Tasks(merged) \cup {Null}
           /\ merged.notes[id].box \in DOMAIN merged.boxes \cup {Null}
      BY <1>8, <1>9, <1>11
  <2>6. \A id \in DOMAIN merged.boxes :
           {merged.boxes[id].top, merged.boxes[id].bottom} \subseteq TaskGroups(merged)
    <3>1. /\ \A id \in DOMAIN d.boxes :
                {d.boxes[id].top, d.boxes[id].bottom} \subseteq TaskGroups(d)
          /\ \A id \in DOMAIN e.boxes :
                {e.boxes[id].top, e.boxes[id].bottom} \subseteq TaskGroups(e)
        BY <1>1 DEF AllLand
    <3> QED BY <1>8, <1>9, <3>1
  <2>7. /\ merged.pinned \subseteq TaskGroups(merged) /\ merged.shown \subseteq Tasks(merged)
        /\ merged.listed \subseteq merged.resources
    <3>1. /\ d.pinned \subseteq TaskGroups(d) /\ d.shown \subseteq Tasks(d)
          /\ d.listed \subseteq d.resources
        BY <1>1 DEF AllLand
    <3> QED BY <1>8, <1>9, <3>1
  <2> QED BY <2>1, <2>2, <2>3, <2>4, <2>5, <2>6, <2>7 DEF AllLand
<1>14. ASSUME NEW task \in Tasks(merged) PROVE StandsOnce(merged, task)
  <2>1. CASE task \in places
    <3>1. task \in landed /\ last(task) \in Tasks(e)
        BY <1>3, <1>7, <2>1
    <3>2. PICK id \in TaskGroups(e) :
              {one \in e.members : one[1] = last(task)} = {<<last(task), id>>}
        BY <1>1, <3>1 DEF AllStandOnce, StandsOnce
    <3>3. <<task, id>> \in merged.members
      <4>1. <<last(task), id>> \in e.members
          BY <3>2
      <4> QED BY <1>8, <2>1, <3>1, <3>2, <4>1 DEF MergedMembers, landed, last, places
    <3>4. ASSUME NEW one \in merged.members, one[1] = task PROVE one = <<task, id>>
      <4>1. /\ one \in landed \X TaskGroups(e)
            /\ <<last(one[1]), one[2]>> \in e.members
          BY <1>8, <2>1, <3>4 DEF MergedMembers, landed, last, places
      <4>2. <<last(task), one[2]>> \in {other \in e.members : other[1] = last(task)}
          BY <3>4, <4>1
      <4>3. one[2] = id
          BY <3>2, <4>2
      <4> QED BY <3>4, <4>1, <4>3
    <3>5. {one \in merged.members : one[1] = task} = {<<task, id>>}
        BY <3>3, <3>4
    <3> QED BY <1>8, <1>9, <2>1, <3>5 DEF StandsOnce
  <2>2. CASE task \notin places
    <3>1. task \in Tasks(d)
        BY <1>7, <1>9, <2>2
    <3>2. PICK id \in TaskGroups(d) : {one \in d.members : one[1] = task} = {<<task, id>>}
        BY <1>1, <3>1 DEF AllStandOnce, StandsOnce
    <3>3. {one \in merged.members : one[1] = task} = {<<task, id>>}
        BY <1>8, <2>2, <3>2 DEF MergedMembers, places
    <3>4. task \in merged.visuals
        BY <1>1, <1>8, <3>1 DEF AllStandOnce, StandsOnce
    <3> QED BY <1>9, <3>3, <3>4 DEF StandsOnce
  <2> QED BY <2>1, <2>2
<1>15. AllNamed(merged)
    BY <1>1, <1>8, <1>9 DEF AllNamed
<1>16. IsFiniteSet(merged.assignments)
  <2>1. IsFiniteSet(d.assignments) /\ IsFiniteSet(joining.rows)
      BY <1>1, <1>5
  <2>2. IsFiniteSet(d.assignments \cup joining.rows)
      BY <2>1, FS_Union
  <2> QED BY <1>8, <2>2
<1>17. AssignedOnce(merged)
  <2> SUFFICES ASSUME NEW one \in merged.assignments, NEW other \in merged.assignments, one # other
               PROVE  /\ one.uid # other.uid
                      /\ <<one.task, one.resource>> # <<other.task, other.resource>>
      BY DEF AssignedOnce
  <2>1. CASE one \in d.assignments /\ other \in d.assignments
      BY <1>1, <2>1 DEF IsNumbered, AssignedOnce
  <2>2. CASE one \in joining.rows
      BY <1>5, <1>8, <2>2
  <2>3. CASE other \in joining.rows
      BY <1>5, <1>8, <2>3
  <2> QED BY <1>8, <2>1, <2>2, <2>3
<1>18. IsCovered(merged)
  <2>1. /\ \A uid \in d.resources : uid \in Nat /\ uid <= d.mark
        /\ \A one \in d.assignments : one.uid \in Nat /\ one.uid <= d.mark
      BY <1>1 DEF IsNumbered, IsCovered, MarksAndUids, IsDocument, AssignmentRows
  <2>2. \A uid \in merged.resources : uid <= merged.mark
    <3>1. \A uid \in e.resources : resourceUidOf[uid] <= joining.mark
        BY <1>4, <1>5, <1>6
    <3> QED BY <1>5, <1>6, <1>8, <2>1, <3>1
  <2>3. \A one \in merged.assignments : one.uid <= merged.mark
      BY <1>5, <1>6, <1>8, <2>1
  <2> QED BY <1>12, <2>2, <2>3, RestIsCovered
<1> QED
  <2>1. AllStandOnce(merged)
      BY <1>14 DEF AllStandOnce
  <2>2. IsSound(merged) /\ IsNumbered(merged) /\ TaskGroups(merged) # {}
      BY <1>1, <1>9, <1>12, <1>13, <1>15, <1>16, <1>17, <1>18, <2>1 DEF IsSound, IsNumbered
  <2>3. /\ Tasks(merged) = Tasks(document) \cup Landed(LandsOn(f, answer))
        /\ merged.origins = document.origins \cup Landed(LandsOn(f, answer))
      BY <1>8, <1>9 DEF landed, landsOn
  <2> QED BY <2>2, <2>3

-----------------------------------------------------------------------------
(* A task of the master that was taken in before is found by its origin, so   *)
(* the task it landed on then is the one it lands on now.                     *)
LEMMA MergingKeepsMasterTasks ==
    ASSUME ImportInv, NEW f \in Files, NEW answer, MergeDocument(f, answer)
    PROVE  MasterTasksStandOnce'
<1> DEFINE landsOn == LandsOn(f, answer)
           landed == Landed(landsOn)
<1>1. originOf' = OriginsAfter(f, landsOn) /\ document'.origins = document.origins \cup landed
  <2>1. document' = MergedDocument(f, answer, landsOn) /\ originOf' = OriginsAfter(f, landsOn)
      BY DEF MergeDocument, Lands
  <2> QED BY <2>1, MergedIsSound DEF ImportInv
<1>2. DOMAIN landsOn = Tasks(f.document)
    BY DEF LandsOn
<1>3. document.origins \subseteq Tasks(document)
    BY NumbersOfASoundDocument DEF ImportInv, RowsInv, IInv
<1>4. \A task \in document'.origins :
         IF task \in landed
         THEN originOf'[task].master = f.master /\ originOf'[task].uid = LastOnto(landsOn, task)
         ELSE originOf'[task] = originOf[task]
    BY <1>1 DEF OriginsAfter
<1>5. ASSUME NEW uid \in Tasks(f.document), CarriedTasks(f, uid) # {}
      PROVE  CarriedTasks(f, uid) = {landsOn[uid]}
  <2>1. landsOn[uid] \in CarriedTasks(f, uid)
      BY <1>5 DEF LandsOn
  <2>2. \A task, other \in CarriedTasks(f, uid) : task = other
      BY DEF CarriedTasks, ImportInv, MasterTasksStandOnce
  <2> QED BY <2>1, <2>2
<1> HIDE DEF landsOn
<1>6. ASSUME NEW task \in document'.origins, NEW other \in document'.origins,
             originOf'[task].master # Null,
             originOf'[task].master = originOf'[other].master,
             originOf'[task].uid = originOf'[other].uid,
             task \in landed
      PROVE  task = other
  <2> DEFINE uid == LastOnto(landsOn, task)
  <2>1. uid \in Tasks(f.document) /\ landsOn[uid] = task
      BY <1>2, <1>6, OneLandedLast
  <2>2. originOf'[task].master = f.master /\ originOf'[task].uid = uid
      BY <1>4, <1>6
  <2>3. CASE other \in landed
    <3>1. /\ originOf'[other].uid = LastOnto(landsOn, other)
          /\ landsOn[LastOnto(landsOn, other)] = other
        BY <1>2, <1>4, <2>3, OneLandedLast
    <3> QED BY <1>6, <2>1, <2>2, <3>1
  <2>4. CASE other \notin landed
    <3>1. other \in document.origins /\ originOf'[other] = originOf[other]
        BY <1>1, <1>4, <2>4
    <3>2. other \in CarriedTasks(f, uid)
        BY <1>3, <1>6, <2>2, <3>1 DEF CarriedTasks
    <3>3. other = landsOn[uid]
        BY <1>5, <2>1, <3>2
    <3> QED BY <2>1, <3>3
  <2> QED BY <2>3, <2>4
<1>7. ASSUME NEW task \in document'.origins, NEW other \in document'.origins,
             originOf'[task].master # Null,
             originOf'[task].master = originOf'[other].master,
             originOf'[task].uid = originOf'[other].uid
      PROVE  task = other
  <2>1. CASE task \in landed
      BY <1>6, <1>7, <2>1
  <2>2. CASE other \in landed
      BY <1>6, <1>7, <2>2
  <2>3. CASE task \notin landed /\ other \notin landed
    <3>1. /\ task \in document.origins /\ originOf'[task] = originOf[task]
          /\ other \in document.origins /\ originOf'[other] = originOf[other]
        BY <1>1, <1>4, <2>3
    <3> QED BY <1>7, <3>1 DEF ImportInv, MasterTasksStandOnce
  <2> QED BY <2>1, <2>2, <2>3
<1> QED BY <1>7 DEF MasterTasksStandOnce

(* A merge leaves a sound document, in which the tasks it landed on bear its  *)
(* number and the others those of earlier imports.                            *)
LEMMA MergingKeepsImportInv ==
    ASSUME ImportInv, NEW f \in Files, NEW answer, MergeDocument(f, answer)
    PROVE  ImportInv'
<1> DEFINE landsOn == LandsOn(f, answer)
           landed == Landed(landsOn)
<1>1. /\ document' = MergedDocument(f, answer, landsOn)
      /\ draft' = document' /\ UNCHANGED <<freshRowId, inBundle, commands>>
      /\ originOf' = OriginsAfter(f, landsOn)
      /\ importSequence' = importSequence + 1
      /\ delivered' = landed
    BY DEF MergeDocument, Lands
<1>2. /\ IsSound(document') /\ IsNumbered(document') /\ TaskGroups(document') # {}
      /\ Tasks(document') = Tasks(document) \cup landed
      /\ document'.origins = document.origins \cup landed
    BY <1>1, MergedIsSound DEF ImportInv
<1>3. RowsInv'
    BY <1>1, <1>2 DEF ImportInv, RowsInv, IInv, TaskGroups
<1>4. IsEditOf(document', draft')
    BY <1>1, <1>2, NumbersOfASoundDocument DEF IsEditOf
<1>5. DeliveredIsSeen'
  <2> HIDE DEF landed
  <2>1. /\ importSequence \in Nat
        /\ \A task \in document.origins :
              originOf[task].seen \in Nat /\ originOf[task].seen <= importSequence
      BY DEF ImportInv, DeliveredIsSeen
  <2>2. \A task \in document'.origins :
           originOf'[task].seen = IF task \in landed THEN importSequence + 1
                                  ELSE originOf[task].seen
      BY <1>1, <1>2 DEF OriginsAfter, landed
  <2>3. \A task \in document'.origins :
           /\ originOf'[task].seen \in Nat /\ originOf'[task].seen <= importSequence'
           /\ originOf'[task].seen = importSequence' <=> task \in landed
      BY <1>1, <1>2, <2>1, <2>2
  <2>4. \A uid \in landed : uid \in Nat /\ uid <= document'.mark
    <3>1. Tasks(document') \subseteq 1 .. document'.mark /\ document'.mark \in Nat
        BY <1>2, NumbersOfASoundDocument
    <3> QED BY <1>2, <3>1
  <2>5. delivered' \cap Tasks(document') =
          {task \in document'.origins :
              importSequence' > 0 /\ originOf'[task].seen = importSequence'}
    <3>1. importSequence' > 0 /\ importSequence' \in Nat
        BY <1>1, <2>1
    <3> QED BY <1>1, <1>2, <2>3, <3>1
  <2> QED BY <1>1, <2>1, <2>3, <2>4, <2>5 DEF DeliveredIsSeen
<1> QED BY <1>3, <1>4, <1>5, MergingKeepsMasterTasks DEF ImportInv

-----------------------------------------------------------------------------
(* The invariant of whatever is opened, merged in and edited.                 *)
LEMMA ImportSpecKeepsImportInv == ImportSpec => []ImportInv
<1>1. ImportInit => ImportInv
  <2>1. SUFFICES ASSUME ImportInit PROVE ImportInv
      OBVIOUS
  <2>2. PICK f \in Files : /\ document = f.document
                           /\ originOf = f.originOf
                           /\ importSequence = f.sequence
                           /\ delivered = {uid \in f.document.origins :
                                              f.originOf[uid].seen = f.sequence}
      BY <2>1 DEF ImportInit
  <2>3. Init /\ draft = document
      BY <2>1 DEF ImportInit, Init
  <2>4. RowsInv
      BY <2>2, <2>3, InitKeepsIInv, FilesAreNumbered DEF RowsInv
  <2>5. /\ document.origins \subseteq Tasks(document)
        /\ Tasks(document) \subseteq 1 .. document.mark /\ document.mark \in Nat
      BY <2>4, NumbersOfASoundDocument DEF RowsInv, IInv
  <2>6. IsEditOf(document, draft)
      BY <2>3, <2>5 DEF IsEditOf
  <2>7. MasterTasksStandOnce
      BY <2>2, FilesAssumption DEF MasterTasksStandOnce
  <2>8. /\ f.sequence \in Nat
        /\ \A uid \in f.document.origins : f.originOf[uid].seen \in 1 .. f.sequence
      BY FilesAssumption
  <2>9. DeliveredIsSeen
    <3>1. \A task \in document.origins :
             /\ originOf[task].seen \in Nat /\ originOf[task].seen > 0
             /\ originOf[task].seen <= importSequence
        BY <2>2, <2>8
    <3>2. \A uid \in delivered : uid \in Nat /\ uid <= document.mark
        BY <2>2, <2>5
    <3>3. delivered \cap Tasks(document) =
            {task \in document.origins :
                importSequence > 0 /\ originOf[task].seen = importSequence}
        BY <2>2, <2>5, <2>8, <3>1
    <3> QED BY <2>2, <2>8, <3>1, <3>2, <3>3 DEF DeliveredIsSeen
  <2> QED BY <2>4, <2>6, <2>7, <2>9 DEF ImportInv
<1>2. ImportInv /\ [ImportNext]_importSpecVars => ImportInv'
  <2>1. SUFFICES ASSUME ImportInv, [ImportNext]_importSpecVars PROVE ImportInv'
      OBVIOUS
  <2>2. CASE [Next]_vars /\ UNCHANGED importVars
      BY <2>1, <2>2, EditsKeepImportInv
  <2>3. CASE \E f \in Files : ReplaceDocument(f)
      BY <2>1, <2>3, ReplacingKeepsImportInv
  <2>4. CASE \E f \in Files, answer \in {"same", "different"} : MergeDocument(f, answer)
      BY <2>1, <2>4, MergingKeepsImportInv
  <2>5. \/ [Next]_vars /\ UNCHANGED importVars
        \/ \E f \in Files : ReplaceDocument(f)
        \/ \E f \in Files, answer \in {"same", "different"} : MergeDocument(f, answer)
      BY <2>1 DEF ImportNext, importSpecVars
  <2> QED BY <2>2, <2>3, <2>4, <2>5
<1> QED BY <1>1, <1>2, PTL DEF ImportSpec

(* Rows IV-2, IV-6, IV-8, IV-20 and IV-23: no check runs after a merge, and   *)
(* none is needed - whatever files are merged in, in whatever order and with  *)
(* whatever answers, every column of what is held names a row of it.          *)
THEOREM MergedRowsAreAlwaysSound == ImportSpec => []MergedRowsAreSound
<1>1. ImportInv => MergedRowsAreSound
    BY DEF ImportInv, RowsInv, IInv, IsSound, IsNumbered, MergedRowsAreSound
<1> QED BY <1>1, ImportSpecKeepsImportInv, PTL

(* MG-3: whatever masters are opened and merged in, in whatever order and     *)
(* with whatever answers, no task of a master stands for two of the document. *)
THEOREM MasterTasksAlwaysStandOnce == ImportSpec => []MasterTasksStandOnce
<1>1. ImportInv => MasterTasksStandOnce
    BY DEF ImportInv
<1> QED BY <1>1, ImportSpecKeepsImportInv, PTL

(* MG-11: however many edits, openings and merges lie between two merges, the *)
(* second tells as gone what the first landed on, as far as it is still held  *)
(* and not landed on again.                                                   *)
THEOREM MissingIsAlwaysTold == ImportSpec => MissingIsTold
<1>1. ASSUME ImportInv, \E f \in Files, answer \in {"same", "different"} : MergeDocument(f, answer)
      PROVE  missing' = (delivered \cap Tasks(document)) \ delivered'
  <2>1. PICK f \in Files, answer \in {"same", "different"} : MergeDocument(f, answer)
      BY <1>1
  <2> DEFINE landed == Landed(LandsOn(f, answer))
  <2>2. /\ delivered' = landed
        /\ missing' = {task \in (Tasks(document) \ landed) \cap document.origins :
                          importSequence > 0 /\ originOf[task].seen = importSequence}
      BY <2>1 DEF MergeDocument, MissingSinceLastImport
  <2>3. delivered \cap Tasks(document) =
          {task \in document.origins :
              importSequence > 0 /\ originOf[task].seen = importSequence}
      BY <1>1 DEF ImportInv, DeliveredIsSeen
  <2> HIDE DEF landed
  <2> QED BY <2>2, <2>3
<1>2. ImportInv /\ [ImportNext]_importSpecVars
        => [(\E f \in Files, answer \in {"same", "different"} : MergeDocument(f, answer))
              => missing' = (delivered \cap Tasks(document)) \ delivered']_importSpecVars
    BY <1>1
<1> QED BY <1>2, ImportSpecKeepsImportInv, PTL DEF ImportSpec, MissingIsTold
=============================================================================
