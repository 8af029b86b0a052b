----------------------- MODULE ScheduleEditingProofs -----------------------
(* Theorems about ScheduleEditing, for every document a write can find and    *)
(* every bound: the types, and the rows of T-220 that hold whatever the       *)
(* commands of a bundle are, but for those of the trees, which are in         *)
(* ScheduleTreesProofs.                                                       *)
EXTENDS ScheduleEditing, FiniteSetTheorems, TLAPS

(* The inductive invariant: both documents are sound, and a draft without a   *)
(* task group has the id of the one it will keep.                             *)
IInv ==
    /\ IsSound(document)
    /\ IsSound(draft)
    /\ TaskGroups(document) # {}
    /\ TaskGroups(draft) = {} => freshRowId # Null
    /\ freshRowId \in GroupIds \cup {Null}
    /\ inBundle \in BOOLEAN
    /\ commands \in 0 .. MaxCommands

(* A record of the columns of a document.                                     *)
IsRecord(d) ==
    /\ d = [column \in DOMAIN d |-> d[column]]
    /\ DOMAIN d = {"mark", "tasks", "groups", "members", "visuals", "origins", "resources",
                   "assignments", "notes", "boxes", "pinned", "shown", "listed"}

(* A set of rows from which nothing hangs that is not in it.                  *)
Closed(parent, rows) ==
    \A one \in DOMAIN parent : parent[one] \in rows => one \in rows

-----------------------------------------------------------------------------
(* A subtree holds its seeds and all that hangs below its members.            *)
LEMMA SubtreeIsClosed ==
    ASSUME NEW parent, NEW seeds
    PROVE  /\ Subtree(parent, seeds) \subseteq DOMAIN parent
           /\ seeds \cap DOMAIN parent \subseteq Subtree(parent, seeds)
           /\ Closed(parent, Subtree(parent, seeds))
<1>1. Subtree(parent, seeds) \subseteq DOMAIN parent
    BY DEF Subtree
<1>2. seeds \cap DOMAIN parent \subseteq Subtree(parent, seeds)
    BY DEF Subtree
<1>3. ASSUME NEW one \in DOMAIN parent, parent[one] \in Subtree(parent, seeds)
      PROVE  one \in Subtree(parent, seeds)
  <2>1. SUFFICES ASSUME NEW held \in SUBSET DOMAIN parent,
                        seeds \cap DOMAIN parent \subseteq held,
                        \A other \in DOMAIN parent : parent[other] \in held => other \in held
                 PROVE  one \in held
      BY DEF Subtree
  <2>2. parent[one] \in held
      BY <1>3, <2>1 DEF Subtree
  <2> QED BY <2>1, <2>2
<1> QED BY <1>1, <1>2, <1>3 DEF Closed

(* What a function takes finitely many rows to is finitely many.              *)
LEMMA ImageIsFinite ==
    ASSUME NEW rows, IsFiniteSet(rows), NEW f
    PROVE  IsFiniteSet({f[one] : one \in rows})
<1> DEFINE image == {f[one] : one \in rows}
           onto == [one \in rows |-> f[one]]
<1>1. onto \in Surjection(rows, image)
    BY DEF Surjection
<1> QED BY <1>1, FS_Surjection

(* The rank of a uid among finitely many is from one to their number, and no  *)
(* two have the same.                                                         *)
LEMMA RankIsInjective ==
    ASSUME NEW uids \in SUBSET Nat, IsFiniteSet(uids)
    PROVE  /\ \A uid \in uids : RankIn(uids, uid) \in 1 .. Cardinality(uids)
           /\ \A a, b \in uids : RankIn(uids, a) = RankIn(uids, b) => a = b
<1> DEFINE upTo(uid) == {one \in uids : one <= uid}
<1>1. \A uid \in uids : /\ IsFiniteSet(upTo(uid))
                        /\ Cardinality(upTo(uid)) \in Nat
                        /\ Cardinality(upTo(uid)) <= Cardinality(uids)
                        /\ Cardinality(upTo(uid)) # 0
  <2>1. TAKE uid \in uids
  <2>2. upTo(uid) \in SUBSET uids /\ uid \in upTo(uid)
      OBVIOUS
  <2>3. IsFiniteSet(upTo(uid)) /\ Cardinality(upTo(uid)) <= Cardinality(uids)
      BY <2>2, FS_Subset
  <2>4. Cardinality(upTo(uid)) \in Nat
      BY <2>3, FS_CardinalityType
  <2>5. Cardinality(upTo(uid)) # 0
      BY <2>2, <2>3, FS_EmptySet
  <2> QED BY <2>3, <2>4, <2>5
<1>2. ASSUME NEW a \in uids, NEW b \in uids,
             Cardinality(upTo(a)) = Cardinality(upTo(b)), a <= b
      PROVE  a = b
  <2>1. ASSUME NEW one \in upTo(a) PROVE one \in upTo(b)
    <3>1. one \in Nat /\ a \in Nat /\ b \in Nat /\ one <= a
        OBVIOUS
    <3>2. one <= b
        BY <1>2, <3>1
    <3> QED BY <3>2
  <2>2. upTo(b) = upTo(a)
    <3>1. upTo(a) \in SUBSET upTo(b)
        BY <2>1
    <3> QED BY <1>1, <1>2, <3>1, FS_Subset
  <2> QED BY <1>2, <2>2
<1>3. Cardinality(uids) \in Nat
    BY FS_CardinalityType
<1>4. \A uid \in uids : RankIn(uids, uid) = Cardinality(upTo(uid))
    BY DEF RankIn
<1> HIDE DEF upTo
<1>5. \A uid \in uids : RankIn(uids, uid) \in 1 .. Cardinality(uids)
    BY <1>1, <1>3, <1>4
<1>6. \A a, b \in uids : RankIn(uids, a) = RankIn(uids, b) => a = b
    BY <1>2, <1>4
<1> QED BY <1>5, <1>6

(* A set of numbers that is not empty has a least element.                   *)
LEMMA LeastExists ==
    ASSUME NEW numbers \in SUBSET Nat, numbers # {}
    PROVE  \E one \in numbers : \A other \in numbers : one <= other
<1> DEFINE upTo == {1 .. one : one \in numbers}
<1>1. IsWellFoundedOn(StrictSubsetOrdering(Nat), FiniteSubsetsOf(Nat))
    BY FS_StrictSubsetOrderingWellFounded
<1>2. upTo \subseteq FiniteSubsetsOf(Nat)
  <2> SUFFICES ASSUME NEW one \in numbers PROVE 1 .. one \in FiniteSubsetsOf(Nat)
      OBVIOUS
  <2>1. IsFiniteSet(1 .. one)
      BY FS_Interval
  <2> QED BY <2>1 DEF FiniteSubsetsOf
<1>3. PICK first \in upTo : \A other \in upTo : ~(<<other, first>> \in StrictSubsetOrdering(Nat))
  <2>1. upTo # {}
      OBVIOUS
  <2> HIDE DEF upTo
  <2> QED BY <1>1, <1>2, <2>1, WFMin
<1>4. PICK one \in numbers : first = 1 .. one
    OBVIOUS
<1>5. ASSUME NEW other \in numbers, other < one PROVE FALSE
  <2>1. 1 .. other \in upTo
      OBVIOUS
  <2>2. 1 .. other \subseteq 1 .. one /\ one \in 1 .. one /\ one \notin 1 .. other
      BY <1>5
  <2>3. <<1 .. other, 1 .. one>> \in StrictSubsetOrdering(Nat)
      BY <2>2 DEF StrictSubsetOrdering
  <2> QED BY <1>3, <1>4, <2>1, <2>3
<1> QED BY <1>5

-----------------------------------------------------------------------------
(* The released notes keep their ids, stand in a band of the document and     *)
(* name nothing that went.                                                    *)
LEMMA ReleasedNotesLand ==
    ASSUME NEW d, IsSound(d), NEW goneTasks \in SUBSET Tasks(d),
           NEW goneBoxes \in SUBSET DOMAIN d.boxes, NEW keptGroups \in SUBSET TaskGroups(d),
           NEW id \in DOMAIN d.notes
    PROVE  LET note == ReleasedAnchorOf(d, d.notes[id], goneTasks, goneBoxes, keptGroups)
           IN /\ note \in AnchorRows
              /\ note.band \in TaskGroups(d)
              /\ note.task \in (Tasks(d) \ goneTasks) \cup {Null}
              /\ note.box \in (DOMAIN d.boxes \ goneBoxes) \cup {Null}
<1> DEFINE note == d.notes[id]
           released == ReleasedAnchorOf(d, note, goneTasks, goneBoxes, keptGroups)
           free(band) == [band |-> band, task |-> Null, box |-> Null, point |-> Null]
<1>1. /\ note \in AnchorRows
      /\ note.band \in TaskGroups(d)
      /\ note.task \in Tasks(d) \cup {Null}
      /\ note.box \in DOMAIN d.boxes \cup {Null}
    BY DEF IsSound, IsDocument, AllLand
<1>2. TaskGroups(d) \subseteq GroupIds
    BY DEF IsSound, IsDocument
<1>3. ASSUME NEW band \in TaskGroups(d)
      PROVE  /\ free(band) \in AnchorRows
             /\ free(band).band \in TaskGroups(d)
             /\ free(band).task = Null /\ free(band).box = Null
    BY <1>2 DEF AnchorRows
<1>4. TaskBandOf(d, note.task, note.band, keptGroups) \in TaskGroups(d)
    BY <1>1 DEF TaskBandOf
<1>5. HighlightBandOf(d.boxes[note.box], note.point, note.band, keptGroups) \in TaskGroups(d)
    BY <1>1 DEF HighlightBandOf
<1>6. CASE note.task \in goneTasks
  <2>1. released = free(TaskBandOf(d, note.task, note.band, keptGroups))
      BY <1>6 DEF ReleasedAnchorOf
  <2> QED BY <1>3, <1>4, <2>1
<1>7. CASE note.task \notin goneTasks /\ note.box \in goneBoxes
  <2>1. released = free(HighlightBandOf(d.boxes[note.box], note.point, note.band, keptGroups))
      BY <1>7 DEF ReleasedAnchorOf
  <2> QED BY <1>3, <1>5, <2>1
<1>8. CASE note.task \notin goneTasks /\ note.box \notin goneBoxes
  <2>1. released = note
      BY <1>8 DEF ReleasedAnchorOf
  <2> QED BY <1>1, <1>8, <2>1
<1> QED BY <1>6, <1>7, <1>8

(* A document is made of columns of its types.                                *)
LEMMA FieldsMakeADocument ==
    ASSUME NEW d, IsRecord(d),
           d.mark \in Nat, d.tasks \in [Tasks(d) -> TaskRows],
           d.groups \in [TaskGroups(d) -> TaskGroupRows],
           d.members \subseteq Nat \X GroupIds, d.visuals \subseteq Nat, d.origins \subseteq Nat,
           d.resources \subseteq Nat, d.assignments \subseteq AssignmentRows,
           d.notes \in [DOMAIN d.notes -> AnchorRows],
           d.boxes \in [DOMAIN d.boxes -> [top : GroupIds, bottom : GroupIds]],
           d.pinned \subseteq GroupIds, d.shown \subseteq Nat, d.listed \subseteq Nat,
           Tasks(d) \subseteq 1 .. d.mark, TaskGroups(d) \subseteq GroupIds,
           DOMAIN d.notes \subseteq NoteIds, DOMAIN d.boxes \subseteq BoxIds
    PROVE  IsDocument(d)
BY DEF IsRecord, IsDocument

(* Tasks that go with all that hangs below them leave a sound document.       *)
LEMMA WithoutTasksIsSound ==
    ASSUME NEW d, IsSound(d), NEW doomed \in SUBSET Tasks(d), Closed(ParentTasks(d), doomed)
    PROVE  /\ IsSound(WithoutTasks(d, doomed))
           /\ TaskGroups(WithoutTasks(d, doomed)) = TaskGroups(d)
<1> DEFINE e == WithoutTasks(d, doomed)
           notes == CommentBoxesReleasedFrom(d, doomed, {}, TaskGroups(d))
<1>1. /\ Tasks(e) = Tasks(d) \ doomed
      /\ TaskGroups(e) = TaskGroups(d)
      /\ e.mark = d.mark /\ e.resources = d.resources /\ e.boxes = d.boxes
      /\ e.pinned = d.pinned /\ e.notes = notes
      /\ e.visuals = d.visuals \ doomed /\ e.origins = d.origins \ doomed
      /\ e.members = {one \in d.members : one[1] \notin doomed}
      /\ e.assignments = {one \in d.assignments : one.task \notin doomed}
      /\ e.shown = d.shown \cap (Tasks(d) \ doomed) /\ e.listed = d.listed \cap d.resources
    BY DEF WithoutTasks, RowsWithoutTasks, TableViewsKeptIn, Tasks, TaskGroups, IsSound,
           IsDocument
<1>2. /\ e.tasks \in [Tasks(d) \ doomed -> TaskRows]
      /\ \A uid \in Tasks(d) \ doomed :
            /\ e.tasks[uid].parent = d.tasks[uid].parent
            /\ e.tasks[uid].preds = d.tasks[uid].preds \ doomed
    BY DEF WithoutTasks, RowsWithoutTasks, TableViewsKeptIn, Tasks, TaskGroups, IsSound,
           IsDocument, TaskRows
<1>3. /\ e.groups \in [TaskGroups(d) -> TaskGroupRows]
      /\ \A id \in TaskGroups(d) :
            /\ e.groups[id].parent = d.groups[id].parent
            /\ \/ d.groups[id].source \in doomed
                  /\ e.groups[id].source = Null /\ e.groups[id].named = TRUE
               \/ d.groups[id].source \notin doomed /\ e.groups[id] = d.groups[id]
  <2>1. e.groups = [id \in TaskGroups(d) |->
                      IF d.groups[id].source \in doomed
                      THEN SettledTaskGroup(d.groups[id]) ELSE d.groups[id]]
      BY DEF WithoutTasks, RowsWithoutTasks, TableViewsKeptIn, IsSound, IsDocument
  <2>2. \A id \in TaskGroups(d) : d.groups[id] \in TaskGroupRows
      BY DEF IsSound, IsDocument
  <2>3. \A group \in TaskGroupRows :
           /\ SettledTaskGroup(group) \in TaskGroupRows
           /\ SettledTaskGroup(group).parent = group.parent
           /\ SettledTaskGroup(group).source = Null
           /\ SettledTaskGroup(group).named = TRUE
      BY DEF SettledTaskGroup, TaskGroupRows
  <2> HIDE DEF e
  <2> QED BY <2>1, <2>2, <2>3
<1>4. notes \in [DOMAIN d.notes -> AnchorRows]
    BY ReleasedNotesLand DEF CommentBoxesReleasedFrom
<1>5. \A id \in DOMAIN d.notes :
         /\ notes[id].band \in TaskGroups(d)
         /\ notes[id].task \in (Tasks(d) \ doomed) \cup {Null}
         /\ notes[id].box \in DOMAIN d.boxes \cup {Null}
    BY ReleasedNotesLand DEF CommentBoxesReleasedFrom
<1>6. IsDocument(e)
  <2>1. IsRecord(e)
    <3>1. IsRecord(d)
        BY DEF IsRecord, IsSound, IsDocument
    <3>2. IsRecord(RowsWithoutTasks(d, doomed))
        BY <3>1 DEF IsRecord, RowsWithoutTasks
    <3> QED BY <3>2 DEF IsRecord, WithoutTasks, TableViewsKeptIn
  <2> HIDE DEF e
  <2>2. /\ e.mark \in Nat /\ e.tasks \in [Tasks(e) -> TaskRows]
        /\ e.groups \in [TaskGroups(e) -> TaskGroupRows]
        /\ e.notes \in [DOMAIN e.notes -> AnchorRows]
        /\ e.boxes \in [DOMAIN e.boxes -> [top : GroupIds, bottom : GroupIds]]
      BY <1>1, <1>2, <1>3, <1>4 DEF IsSound, IsDocument
  <2>3. /\ e.members \subseteq Nat \X GroupIds
        /\ e.visuals \subseteq Nat /\ e.origins \subseteq Nat
        /\ e.resources \subseteq Nat /\ e.assignments \subseteq AssignmentRows
        /\ e.pinned \subseteq GroupIds /\ e.shown \subseteq Nat /\ e.listed \subseteq Nat
      BY <1>1 DEF IsSound, IsDocument
  <2>4. /\ Tasks(e) \subseteq 1 .. e.mark /\ TaskGroups(e) \subseteq GroupIds
        /\ DOMAIN e.notes \subseteq NoteIds /\ DOMAIN e.boxes \subseteq BoxIds
      BY <1>1, <1>4 DEF IsSound, IsDocument
  <2> QED BY <2>1, <2>2, <2>3, <2>4, FieldsMakeADocument
<1> HIDE DEF e, notes
<1>7. AllLand(e)
  <2>1. \A uid \in Tasks(d) \ doomed : d.tasks[uid].parent \notin doomed
      BY DEF Closed, ParentTasks
  <2>2. \A id \in TaskGroups(e) :
           /\ e.groups[id].parent \in TaskGroups(e) \cup {Null}
           /\ e.groups[id].source \in Tasks(e) \cup StrayTasks \cup {Null}
    <3>1. \A id \in TaskGroups(d) :
             /\ d.groups[id].parent \in TaskGroups(d) \cup {Null}
             /\ d.groups[id].source \in Tasks(d) \cup StrayTasks \cup {Null}
        BY DEF IsSound, AllLand
    <3> QED BY <1>1, <1>3, <3>1
  <2> QED BY <1>1, <1>2, <1>4, <1>5, <2>1, <2>2, NullAssumption DEF IsSound, AllLand, IsDocument
<1>8. AllStandOnce(e)
    BY <1>1 DEF IsSound, AllStandOnce, StandsOnce
<1>9. AllNamed(e)
    BY <1>1, <1>3 DEF IsSound, AllNamed
<1>10. IsFiniteSet(e.assignments)
    BY <1>1, FS_Subset DEF IsSound
<1> QED BY <1>1, <1>6, <1>7, <1>8, <1>9, <1>10 DEF IsSound, e

(* Task groups that go with all that hangs below them, and with the tasks     *)
(* standing on them, leave a sound document.                                  *)
LEMMA WithoutTaskGroupsIsSound ==
    ASSUME NEW d, IsSound(d),
           NEW doomedGroups \in SUBSET TaskGroups(d), Closed(ParentGroups(d), doomedGroups),
           NEW doomed \in SUBSET Tasks(d), Closed(ParentTasks(d), doomed),
           \A one \in d.members : one[2] \in doomedGroups => one[1] \in doomed
    PROVE  IsSound(WithoutTaskGroups(d, doomedGroups, doomed))
<1> DEFINE c == WithoutTasks(d, doomed)
           e == WithoutTaskGroups(d, doomedGroups, doomed)
           kept == TaskGroups(d) \ doomedGroups
           goneBoxes == {id \in DOMAIN d.boxes :
                           {d.boxes[id].top, d.boxes[id].bottom} \cap doomedGroups # {}}
           released == CommentBoxesReleasedFrom(d, doomed, goneBoxes, kept)
           goneNotes == {id \in DOMAIN released : released[id].band \in doomedGroups}
<1>1. IsSound(c) /\ TaskGroups(c) = TaskGroups(d)
    BY WithoutTasksIsSound
<1>2. /\ Tasks(c) = Tasks(d) \ doomed
      /\ c.members = {one \in d.members : one[1] \notin doomed}
      /\ c.boxes = d.boxes /\ c.pinned = d.pinned
      /\ \A id \in TaskGroups(d) : c.groups[id].parent = d.groups[id].parent
  <2>1. \A id \in TaskGroups(d) : d.groups[id] \in TaskGroupRows
      BY DEF IsSound, IsDocument
  <2>2. \A group \in TaskGroupRows : SettledTaskGroup(group).parent = group.parent
      BY DEF SettledTaskGroup, TaskGroupRows
  <2>3. c.groups = [id \in TaskGroups(d) |->
                      IF d.groups[id].source \in doomed
                      THEN SettledTaskGroup(d.groups[id]) ELSE d.groups[id]]
      BY DEF WithoutTasks, RowsWithoutTasks, TableViewsKeptIn, IsSound, IsDocument
  <2>4. /\ Tasks(c) = Tasks(d) \ doomed
        /\ c.members = {one \in d.members : one[1] \notin doomed}
        /\ c.boxes = d.boxes /\ c.pinned = d.pinned
      BY DEF WithoutTasks, RowsWithoutTasks, TableViewsKeptIn, Tasks, TaskGroups, IsSound,
             IsDocument
  <2> HIDE DEF c
  <2> QED BY <2>1, <2>2, <2>3, <2>4
<1> HIDE DEF c
<1>3. /\ e.mark = c.mark /\ e.tasks = c.tasks /\ Tasks(e) = Tasks(c)
      /\ e.visuals = c.visuals /\ e.origins = c.origins /\ e.resources = c.resources
      /\ e.assignments = c.assignments /\ e.shown = c.shown /\ e.listed = c.listed
      /\ e.groups = Except(c.groups, doomedGroups)
      /\ e.members = {one \in c.members : one[2] \notin doomedGroups}
      /\ e.boxes = Except(c.boxes, goneBoxes)
      /\ e.notes = Except(released, goneNotes)
      /\ e.pinned = c.pinned \ doomedGroups
    BY <1>1 DEF WithoutTaskGroups, c, Tasks, IsSound, IsDocument
<1>4. IsRecord(e)
  <2>1. IsRecord(c)
      BY <1>1 DEF IsRecord, IsSound, IsDocument
  <2> QED BY <2>1 DEF IsRecord, WithoutTaskGroups, c
<1> HIDE DEF e
<1>5. /\ released \in [DOMAIN d.notes -> AnchorRows]
      /\ \A id \in DOMAIN d.notes :
            /\ released[id].band \in TaskGroups(d)
            /\ released[id].task \in (Tasks(d) \ doomed) \cup {Null}
            /\ released[id].box \in (DOMAIN d.boxes \ goneBoxes) \cup {Null}
    BY ReleasedNotesLand DEF CommentBoxesReleasedFrom
<1>6. /\ e.notes \in [DOMAIN d.notes \ goneNotes -> AnchorRows]
      /\ \A id \in DOMAIN d.notes \ goneNotes :
            /\ e.notes[id] = released[id] /\ released[id].band \notin doomedGroups
  <2> HIDE DEF released
  <2> QED BY <1>3, <1>5 DEF Except
<1> HIDE DEF released, goneNotes
<1>7. /\ TaskGroups(e) = kept
      /\ e.groups \in [kept -> TaskGroupRows]
      /\ \A id \in kept : e.groups[id] = c.groups[id]
      /\ DOMAIN e.boxes = DOMAIN d.boxes \ goneBoxes
      /\ e.boxes \in [DOMAIN e.boxes -> [top : GroupIds, bottom : GroupIds]]
      /\ \A id \in DOMAIN e.boxes : e.boxes[id] = d.boxes[id]
    BY <1>1, <1>2, <1>3 DEF Except, TaskGroups, IsSound, IsDocument
<1>8. IsDocument(e)
  <2>1. /\ e.mark \in Nat /\ e.tasks \in [Tasks(e) -> TaskRows]
        /\ e.groups \in [TaskGroups(e) -> TaskGroupRows]
        /\ e.notes \in [DOMAIN e.notes -> AnchorRows]
        /\ e.boxes \in [DOMAIN e.boxes -> [top : GroupIds, bottom : GroupIds]]
      BY <1>1, <1>3, <1>6, <1>7 DEF IsSound, IsDocument
  <2>2. /\ e.members \subseteq Nat \X GroupIds
        /\ e.visuals \subseteq Nat /\ e.origins \subseteq Nat
        /\ e.resources \subseteq Nat /\ e.assignments \subseteq AssignmentRows
        /\ e.pinned \subseteq GroupIds /\ e.shown \subseteq Nat /\ e.listed \subseteq Nat
      BY <1>1, <1>3 DEF IsSound, IsDocument
  <2>3. /\ Tasks(e) \subseteq 1 .. e.mark /\ TaskGroups(e) \subseteq GroupIds
        /\ DOMAIN e.notes \subseteq NoteIds /\ DOMAIN e.boxes \subseteq BoxIds
      BY <1>1, <1>3, <1>6, <1>7 DEF IsSound, IsDocument
  <2> QED BY <1>4, <2>1, <2>2, <2>3, FieldsMakeADocument
<1>9. AllLand(e)
  <2>1. \A id \in kept : d.groups[id].parent \notin doomedGroups
      BY DEF Closed, ParentGroups
  <2>2. /\ \A uid \in Tasks(e) :
              /\ e.tasks[uid].parent \in Tasks(e) \cup {Null}
              /\ e.tasks[uid].preds \subseteq Tasks(e)
        /\ e.visuals \subseteq Tasks(e)
        /\ e.origins \subseteq Tasks(e)
        /\ \A one \in e.assignments : one.task \in Tasks(e) /\ one.resource \in e.resources
        /\ e.shown \subseteq Tasks(e)
        /\ e.listed \subseteq e.resources
      BY <1>1, <1>3 DEF IsSound, AllLand
  <2>3. \A id \in TaskGroups(e) :
          /\ e.groups[id].parent \in TaskGroups(e) \cup {Null}
          /\ e.groups[id].source \in Tasks(e) \cup StrayTasks \cup {Null}
      BY <1>1, <1>2, <1>3, <1>7, <2>1 DEF IsSound, AllLand
  <2>4. /\ e.members \subseteq Tasks(e) \X TaskGroups(e)
        /\ e.pinned \subseteq TaskGroups(e)
      BY <1>1, <1>3, <1>7 DEF IsSound, AllLand
  <2>5. \A id \in DOMAIN e.notes :
          /\ e.notes[id].band \in TaskGroups(e)
          /\ e.notes[id].task \in Tasks(e) \cup {Null}
          /\ e.notes[id].box \in DOMAIN e.boxes \cup {Null}
      BY <1>2, <1>3, <1>5, <1>6, <1>7, SMTT(30)
  <2>6. \A id \in DOMAIN e.boxes : {e.boxes[id].top, e.boxes[id].bottom} \subseteq TaskGroups(e)
      BY <1>7 DEF IsSound, AllLand
  <2> QED BY <2>2, <2>3, <2>4, <2>5, <2>6 DEF AllLand
<1>10. AllStandOnce(e)
  <2>1. ASSUME NEW uid \in Tasks(e) PROVE StandsOnce(e, uid)
    <3>1. uid \in c.visuals
        BY <1>1, <1>3, <2>1 DEF IsSound, AllStandOnce, StandsOnce
    <3>2. PICK id \in TaskGroups(c) : {one \in c.members : one[1] = uid} = {<<uid, id>>}
        BY <1>1, <1>3, <2>1 DEF IsSound, AllStandOnce, StandsOnce
    <3>3. <<uid, id>> \in c.members
        BY <3>2
    <3>4. id \notin doomedGroups
        BY <1>2, <1>3, <2>1, <3>3
    <3>5. {one \in e.members : one[1] = uid} = {<<uid, id>>}
        BY <1>3, <3>2, <3>4
    <3> QED BY <1>1, <1>3, <1>7, <3>1, <3>2, <3>4, <3>5 DEF StandsOnce
  <2> QED BY <2>1 DEF AllStandOnce
<1>11. AllNamed(e)
    BY <1>1, <1>7 DEF IsSound, AllNamed
<1>12. IsFiniteSet(e.assignments)
    BY <1>1, <1>3 DEF IsSound
<1> QED BY <1>8, <1>9, <1>10, <1>11, <1>12 DEF IsSound, e

(* The task a walk to the root ends at is one of the document, or none.       *)
LEMMA NearestDerivedIsATask ==
    ASSUME NEW groups, NEW uids, NEW landing, NEW passed
    PROVE  NearestDerivedTaskUid(groups, uids, landing, passed) \in uids \cup {Null}
<1> DEFINE steps == 0 .. Cardinality(DOMAIN groups)
           walk == CHOOSE w : w = [step \in steps |->
                       IF step = 0 THEN landing
                       ELSE LET below == w[step - 1]
                            IN IF below = Null THEN Null ELSE groups[below].parent]
           derived == {step \in steps : /\ walk[step] \in DOMAIN groups
                                        /\ DerivesUnpassed(groups[walk[step]], uids, passed)}
           first == {step \in derived : \A other \in derived : step <= other}
<1>1. NearestDerivedTaskUid(groups, uids, landing, passed)
        = IF first = {} THEN Null ELSE groups[walk[CHOOSE step \in first : TRUE]].source
    BY DEF NearestDerivedTaskUid
<1>2. \A step \in first : groups[walk[step]].source \in uids
    BY DEF DerivesUnpassed
<1> HIDE DEF first, walk
<1> QED BY <1>1, <1>2

(* The uids of the copies are new to the project, and no two are the same.    *)
AreFresh(d, sources, uidOf) ==
    /\ IsFiniteSet(sources) /\ Cardinality(sources) \in Nat
    /\ DOMAIN uidOf = sources
    /\ \A uid \in sources : /\ uidOf[uid] \in Nat
                            /\ uidOf[uid] \in d.mark + 1 .. d.mark + Cardinality(sources)
                            /\ uidOf[uid] \notin Tasks(d)
    /\ \A a, b \in sources : uidOf[a] = uidOf[b] => a = b

(* PastedUidsOf gives each source such a uid.                                 *)
LEMMA PastedUidsAreFresh ==
    ASSUME NEW d, IsSound(d), NEW sources \in SUBSET Tasks(d), NEW uidOf,
           uidOf = PastedUidsOf(d.mark, sources)
    PROVE  AreFresh(d, sources, uidOf)
<1>1. d.mark \in Nat /\ Tasks(d) \subseteq 1 .. d.mark
    BY DEF IsSound, IsDocument
<1>2. IsFiniteSet(sources)
  <2>1. IsFiniteSet(1 .. d.mark)
      BY <1>1, FS_Interval
  <2>2. sources \in SUBSET (1 .. d.mark)
      BY <1>1
  <2> QED BY <2>1, <2>2, FS_Subset
<1>3. Cardinality(sources) \in Nat
    BY <1>2, FS_CardinalityType
<1>4. sources \in SUBSET Nat
    BY <1>1
<1>5. /\ \A uid \in sources : RankIn(sources, uid) \in 1 .. Cardinality(sources)
      /\ \A a, b \in sources : RankIn(sources, a) = RankIn(sources, b) => a = b
    BY <1>2, <1>4, RankIsInjective
<1>6. DOMAIN uidOf = sources /\ \A uid \in sources : uidOf[uid] = d.mark + RankIn(sources, uid)
    BY DEF PastedUidsOf
<1>7. \A uid \in sources : /\ uidOf[uid] \in Nat
                           /\ uidOf[uid] \in d.mark + 1 .. d.mark + Cardinality(sources)
                           /\ uidOf[uid] \notin Tasks(d)
    BY <1>1, <1>3, <1>5, <1>6
<1>8. \A a, b \in sources : uidOf[a] = uidOf[b] => a = b
  <2>1. TAKE a \in sources, b \in sources
  <2>2. RankIn(sources, a) \in Nat /\ RankIn(sources, b) \in Nat
      BY <1>5
  <2> QED BY <1>1, <1>5, <1>6, <2>2
<1> QED BY <1>2, <1>3, <1>6, <1>7, <1>8 DEF AreFresh

(* The copies of the assignments are of the copies, and finitely many.        *)
LEMMA AssignmentCopiesLand ==
    ASSUME NEW d, IsSound(d), NEW sources \in SUBSET Tasks(d), NEW uidOf,
           uidOf = PastedUidsOf(d.mark, sources)
    PROVE  /\ IsFiniteSet(Assigned(d, sources)) /\ Cardinality(Assigned(d, sources)) \in Nat
           /\ IsFiniteSet(AssignmentCopies(d, uidOf))
           /\ AssignmentCopies(d, uidOf) \subseteq AssignmentRows
           /\ \A one \in AssignmentCopies(d, uidOf) :
                 one.task \in Copies(uidOf) /\ one.resource \in d.resources
<1> DEFINE assigned == Assigned(d, sources)
           mark == d.mark + Cardinality(sources)
           uids == {other.uid : other \in assigned}
           copy(one) == [uid |-> mark + RankIn(uids, one.uid),
                         task |-> uidOf[one.task], resource |-> one.resource]
<1>1. /\ DOMAIN uidOf = sources /\ Cardinality(sources) \in Nat
      /\ \A uid \in sources : uidOf[uid] \in Nat
  <2>1. AreFresh(d, sources, uidOf)
      BY PastedUidsAreFresh
  <2> QED BY <2>1 DEF AreFresh
<1>2. /\ assigned \subseteq d.assignments /\ assigned \subseteq AssignmentRows
      /\ \A one \in assigned : one.task \in sources /\ one.resource \in d.resources
    BY DEF Assigned, IsSound, IsDocument, AllLand
<1>3. IsFiniteSet(assigned) /\ Cardinality(assigned) \in Nat
    BY <1>2, FS_Subset, FS_CardinalityType DEF IsSound
<1>4. IsFiniteSet(uids) /\ uids \in SUBSET Nat
  <2>1. uids \in SUBSET Nat
      BY <1>2 DEF AssignmentRows
  <2>2. IsFiniteSet(uids)
    <3> DEFINE uidOfOne == [one \in assigned |-> one.uid]
    <3>1. uids = {uidOfOne[one] : one \in assigned}
        OBVIOUS
    <3> HIDE DEF uidOfOne, uids, assigned
    <3> QED BY <1>3, <3>1, ImageIsFinite
  <2> QED BY <2>1, <2>2
<1>5. AssignmentCopies(d, uidOf) = {copy(one) : one \in assigned}
    BY <1>1 DEF AssignmentCopies
<1>6. IsFiniteSet({copy(one) : one \in assigned})
  <2> DEFINE copyOf == [one \in assigned |-> copy(one)]
  <2>1. {copy(one) : one \in assigned} = {copyOf[one] : one \in assigned}
      OBVIOUS
  <2> HIDE DEF copyOf, copy, assigned
  <2> QED BY <1>3, <2>1, ImageIsFinite
<1>7. \A one \in assigned : /\ copy(one) \in AssignmentRows
                            /\ copy(one).task \in Copies(uidOf)
                            /\ copy(one).resource \in d.resources
  <2>1. TAKE one \in assigned
  <2>2. one.uid \in uids /\ one \in AssignmentRows
      BY <1>2
  <2>3. RankIn(uids, one.uid) \in Nat
    <3>1. RankIn(uids, one.uid) \in 1 .. Cardinality(uids)
        BY <1>4, <2>2, RankIsInjective
    <3> QED BY <3>1
  <2>4. mark \in Nat
      BY <1>1 DEF IsSound, IsDocument
  <2>5. uidOf[one.task] \in Nat /\ uidOf[one.task] \in Copies(uidOf) /\ one.resource \in d.resources
      BY <1>1, <1>2 DEF Copies
  <2>6. one.resource \in Nat
      BY <2>2 DEF AssignmentRows
  <2> HIDE DEF mark, uids
  <2> QED BY <2>3, <2>4, <2>5, <2>6 DEF AssignmentRows
<1> HIDE DEF copy, assigned
<1> QED BY <1>3, <1>5, <1>6, <1>7 DEF assigned

(* The parent a copy takes is a task of the document, a copy, or none.        *)
LEMMA InferredParentsAreTasks ==
    ASSUME NEW d, NEW groups, NEW landingOf, NEW uidOf, NEW uid \in DOMAIN uidOf
    PROVE  InferredCopyParents(d, groups, landingOf, uidOf)[uid]
             \in Tasks(d) \cup Copies(uidOf) \cup {Null}
<1> DEFINE sources == DOMAIN uidOf
           uids == Tasks(d) \cup Copies(uidOf)
           start(one) ==
               IF groups[landingOf[one]].source \in {one, uidOf[one]}
               THEN groups[landingOf[one]].parent ELSE landingOf[one]
           inferred(settled, one) ==
               NearestDerivedTaskUid(groups, uids, start(one), Subtree(settled, {uidOf[one]}))
<1> DEFINE settledAfter ==
               CHOOSE f : f = [turn \in 0 .. Cardinality(sources) |->
                   IF turn = 0
                   THEN [copy \in Copies(uidOf) |->
                            CopiedParent(d, uidOf, SourceOf(uidOf, copy))]
                   ELSE LET settled == f[turn - 1]
                            one == CHOOSE other \in sources : RankIn(sources, other) = turn
                        IN IF d.tasks[one].parent \in sources THEN settled
                           ELSE [settled EXCEPT ![uidOf[one]] = inferred(settled, one)]]
           settled == settledAfter[RankIn(sources, uid) - 1]
<1>1. InferredCopyParents(d, groups, landingOf, uidOf)[uid]
        = IF d.tasks[uid].parent \in sources THEN CopiedParent(d, uidOf, uid)
          ELSE inferred(settled, uid)
    BY DEF InferredCopyParents
<1>2. inferred(settled, uid) \in uids \cup {Null}
    BY NearestDerivedIsATask
<1>3. d.tasks[uid].parent \in sources => CopiedParent(d, uidOf, uid) \in Copies(uidOf)
    BY DEF CopiedParent, Copies
<1> HIDE DEF inferred, start, settled, settledAfter
<1> QED BY <1>1, <1>2, <1>3

(* The tasks, their uids and the task groups a copy can be made of: what the  *)
(* task groups name is there, or is among the copies.                         *)
CanLand(d, sources, uidOf, groups, landingOf) ==
    /\ sources \subseteq Tasks(d)
    /\ uidOf = PastedUidsOf(d.mark, sources)
    /\ groups \in [DOMAIN groups -> TaskGroupRows]
    /\ TaskGroups(d) \subseteq DOMAIN groups /\ DOMAIN groups \subseteq GroupIds
    /\ \A id \in DOMAIN groups :
          /\ groups[id].parent \in DOMAIN groups \cup {Null}
          /\ groups[id].source \in Tasks(d) \cup Copies(uidOf) \cup StrayTasks \cup {Null}
          /\ groups[id].named \/ groups[id].source # Null
    /\ landingOf \in [sources -> DOMAIN groups]

(* Copies that land on task groups of a sound tree leave a sound document.    *)
LEMMA WithCopiesIsSound ==
    ASSUME NEW d, IsSound(d), NEW sources, NEW uidOf, NEW groups, NEW landingOf,
           CanLand(d, sources, uidOf, groups, landingOf)
    PROVE  /\ IsSound(WithCopies(d, groups, landingOf, uidOf))
           /\ TaskGroups(WithCopies(d, groups, landingOf, uidOf)) = DOMAIN groups
<1> SUFFICES ASSUME sources \in SUBSET Tasks(d),
                    uidOf = PastedUidsOf(d.mark, sources),
                    groups \in [DOMAIN groups -> TaskGroupRows],
                    TaskGroups(d) \subseteq DOMAIN groups, DOMAIN groups \subseteq GroupIds,
                    \A id \in DOMAIN groups :
                        /\ groups[id].parent \in DOMAIN groups \cup {Null}
                        /\ groups[id].source
                              \in Tasks(d) \cup Copies(uidOf) \cup StrayTasks \cup {Null}
                        /\ groups[id].named \/ groups[id].source # Null,
                    landingOf \in [sources -> DOMAIN groups]
             PROVE  /\ IsSound(WithCopies(d, groups, landingOf, uidOf))
                    /\ TaskGroups(WithCopies(d, groups, landingOf, uidOf)) = DOMAIN groups
    BY DEF CanLand
<1> DEFINE e == WithCopies(d, groups, landingOf, uidOf)
           parentOf == InferredCopyParents(d, groups, landingOf, uidOf)
           copies == Copies(uidOf)
           mark == d.mark + Cardinality(sources) + Cardinality(Assigned(d, sources))
           row(uid) == IF uid \in Tasks(d) THEN d.tasks[uid]
                       ELSE [parent |-> parentOf[SourceOf(uidOf, uid)],
                             preds |-> {uidOf[pred] :
                                 pred \in d.tasks[SourceOf(uidOf, uid)].preds \cap sources}]
<1>1. /\ DOMAIN uidOf = sources /\ Cardinality(sources) \in Nat
      /\ \A uid \in sources : /\ uidOf[uid] \in Nat
                              /\ uidOf[uid] \in d.mark + 1 .. d.mark + Cardinality(sources)
                              /\ uidOf[uid] \notin Tasks(d)
      /\ \A a, b \in sources : uidOf[a] = uidOf[b] => a = b
  <2>1. AreFresh(d, sources, uidOf)
      BY PastedUidsAreFresh
  <2> QED BY <2>1 DEF AreFresh
<1>2. /\ Cardinality(Assigned(d, sources)) \in Nat
      /\ IsFiniteSet(AssignmentCopies(d, uidOf))
      /\ AssignmentCopies(d, uidOf) \subseteq AssignmentRows
      /\ \A one \in AssignmentCopies(d, uidOf) : one.task \in copies /\ one.resource \in d.resources
    BY AssignmentCopiesLand
<1>3. /\ IsRecord(e) /\ Tasks(e) = Tasks(d) \cup copies /\ TaskGroups(e) = DOMAIN groups
      /\ e.mark = mark /\ e.groups = groups
      /\ e.tasks = [uid \in Tasks(d) \cup copies |-> row(uid)]
      /\ e.members = d.members \cup {<<uidOf[uid], landingOf[uid]>> : uid \in sources}
      /\ e.visuals = d.visuals \cup {uidOf[uid] : uid \in d.visuals \cap sources}
      /\ e.assignments = d.assignments \cup AssignmentCopies(d, uidOf)
      /\ e.origins = d.origins /\ e.resources = d.resources /\ e.notes = d.notes
      /\ e.boxes = d.boxes /\ e.pinned = d.pinned /\ e.shown = d.shown /\ e.listed = d.listed
  <2>1. IsRecord(d)
      BY DEF IsRecord, IsSound, IsDocument
  <2> DEFINE tasks == [uid \in Tasks(d) \cup copies |-> row(uid)]
             members == d.members \cup {<<uidOf[uid], landingOf[uid]>> : uid \in sources}
             visuals == d.visuals \cup {uidOf[uid] : uid \in d.visuals \cap sources}
             assignments == d.assignments \cup AssignmentCopies(d, uidOf)
  <2>2. e = [d EXCEPT !.mark = mark, !.tasks = tasks, !.groups = groups, !.members = members,
                      !.visuals = visuals, !.assignments = assignments]
    <3> HIDE DEF copies, parentOf
    <3> QED BY <1>1 DEF WithCopies, copies, parentOf
  <2>3. DOMAIN tasks = Tasks(d) \cup copies
      OBVIOUS
  <2> HIDE DEF e, tasks, members, visuals, assignments, copies, mark
  <2>4. IsRecord(e)
      BY <2>1, <2>2 DEF IsRecord
  <2>5. /\ e.mark = mark /\ e.tasks = tasks /\ e.groups = groups /\ e.members = members
        /\ e.visuals = visuals /\ e.assignments = assignments
      BY <2>1, <2>2 DEF IsRecord
  <2>6. /\ e.origins = d.origins /\ e.resources = d.resources /\ e.notes = d.notes
        /\ e.boxes = d.boxes /\ e.pinned = d.pinned /\ e.shown = d.shown
        /\ e.listed = d.listed
      BY <2>1, <2>2 DEF IsRecord
  <2> QED BY <2>3, <2>4, <2>5, <2>6 DEF tasks, members, visuals, assignments, Tasks, TaskGroups
<1> HIDE DEF e
<1>4. copies \subseteq Nat /\ copies \cap Tasks(d) = {}
    BY <1>1 DEF Copies
<1>5. \A uid \in copies : SourceOf(uidOf, uid) \in sources /\ uidOf[SourceOf(uidOf, uid)] = uid
    BY <1>1 DEF Copies, SourceOf
<1>6. \A uid \in sources : parentOf[uid] \in Tasks(d) \cup copies \cup {Null}
  <2> HIDE DEF parentOf, copies
  <2> QED BY <1>1, InferredParentsAreTasks DEF parentOf, copies
<1> HIDE DEF parentOf
<1>7. \A uid \in Tasks(d) :
         /\ row(uid) \in TaskRows
         /\ row(uid).parent \in Tasks(d) \cup {Null} /\ row(uid).preds \subseteq Tasks(d)
    BY DEF IsSound, IsDocument, AllLand
<1>8. \A uid \in copies :
         /\ row(uid) \in TaskRows
         /\ row(uid).parent \in Tasks(d) \cup copies \cup {Null}
         /\ row(uid).preds \subseteq copies
  <2>1. TAKE uid \in copies
  <2>2. uid \notin Tasks(d) /\ SourceOf(uidOf, uid) \in sources
      BY <1>4, <1>5
  <2>3. row(uid) = [parent |-> parentOf[SourceOf(uidOf, uid)],
                    preds |-> {uidOf[pred] :
                        pred \in d.tasks[SourceOf(uidOf, uid)].preds \cap sources}]
      BY <2>2
  <2>4. {uidOf[pred] : pred \in d.tasks[SourceOf(uidOf, uid)].preds \cap sources} \subseteq copies
      BY <1>1 DEF Copies
  <2>5. Tasks(d) \subseteq Nat
      BY DEF IsSound, IsDocument
  <2> HIDE DEF row, copies
  <2> QED BY <1>4, <1>6, <2>2, <2>3, <2>4, <2>5 DEF TaskRows
<1> HIDE DEF row
<1>9. IsDocument(e)
  <2>1. mark \in Nat /\ Tasks(e) \subseteq 1 .. mark
    <3>1. d.mark \in Nat /\ Tasks(d) \subseteq 1 .. d.mark
        BY DEF IsSound, IsDocument
    <3>2. \A uid \in copies : uid \in d.mark + 1 .. d.mark + Cardinality(sources)
        BY <1>1 DEF Copies
    <3> HIDE DEF copies
    <3> QED BY <1>1, <1>2, <1>3, <3>1, <3>2
  <2>2. e.tasks \in [Tasks(e) -> TaskRows]
    <3> HIDE DEF copies
    <3> QED BY <1>3, <1>7, <1>8
  <2>3. e.members \subseteq Nat \X GroupIds /\ e.visuals \subseteq Nat
    <3>1. \A uid \in sources : <<uidOf[uid], landingOf[uid]>> \in Nat \X GroupIds
        BY <1>1
    <3> QED BY <1>1, <1>3, <3>1 DEF IsSound, IsDocument
  <2>4. e.assignments \subseteq AssignmentRows
      BY <1>2, <1>3 DEF IsSound, IsDocument
  <2>5. /\ e.origins \subseteq Nat /\ e.resources \subseteq Nat
        /\ e.notes \in [DOMAIN e.notes -> AnchorRows]
        /\ e.boxes \in [DOMAIN e.boxes -> [top : GroupIds, bottom : GroupIds]]
        /\ e.pinned \subseteq GroupIds /\ e.shown \subseteq Nat /\ e.listed \subseteq Nat
        /\ DOMAIN e.notes \subseteq NoteIds /\ DOMAIN e.boxes \subseteq BoxIds
      BY <1>3 DEF IsSound, IsDocument
  <2>6. e.groups \in [TaskGroups(e) -> TaskGroupRows] /\ TaskGroups(e) \subseteq GroupIds
      BY <1>3
  <2> HIDE DEF mark
  <2> QED BY <1>3, <2>1, <2>2, <2>3, <2>4, <2>5, <2>6, FieldsMakeADocument
<1>10. AllLand(e)
  <2>1. \A uid \in Tasks(e) :
          /\ e.tasks[uid].parent \in Tasks(e) \cup {Null}
          /\ e.tasks[uid].preds \subseteq Tasks(e)
    <3> HIDE DEF copies
    <3> QED BY <1>3, <1>7, <1>8
  <2>2. \A id \in TaskGroups(e) :
          /\ e.groups[id].parent \in TaskGroups(e) \cup {Null}
          /\ e.groups[id].source \in Tasks(e) \cup StrayTasks \cup {Null}
      BY <1>3
  <2>3. e.members \subseteq Tasks(e) \X TaskGroups(e) /\ e.visuals \subseteq Tasks(e)
    <3>1. \A uid \in sources : uidOf[uid] \in copies
        BY <1>1 DEF Copies
    <3> HIDE DEF copies
    <3> QED BY <1>3, <3>1 DEF IsSound, AllLand
  <2>4. \A one \in e.assignments : one.task \in Tasks(e) /\ one.resource \in e.resources
      BY <1>2, <1>3 DEF IsSound, AllLand
  <2>5. /\ e.origins \subseteq Tasks(e)
        /\ \A id \in DOMAIN e.notes :
              /\ e.notes[id].band \in TaskGroups(e)
              /\ e.notes[id].task \in Tasks(e) \cup {Null}
              /\ e.notes[id].box \in DOMAIN e.boxes \cup {Null}
        /\ \A id \in DOMAIN e.boxes : {e.boxes[id].top, e.boxes[id].bottom} \subseteq TaskGroups(e)
        /\ e.pinned \subseteq TaskGroups(e)
        /\ e.shown \subseteq Tasks(e) /\ e.listed \subseteq e.resources
      BY <1>3 DEF IsSound, AllLand
  <2> QED BY <2>1, <2>2, <2>3, <2>4, <2>5 DEF AllLand
<1>11. AllStandOnce(e)
  <2>1. ASSUME NEW uid \in Tasks(d) PROVE StandsOnce(e, uid)
    <3>1. uid \in e.visuals
        BY <1>3, <2>1 DEF IsSound, AllStandOnce, StandsOnce
    <3>2. PICK id \in TaskGroups(d) : {one \in d.members : one[1] = uid} = {<<uid, id>>}
        BY <2>1 DEF IsSound, AllStandOnce, StandsOnce
    <3>3. {one \in e.members : one[1] = uid} = {<<uid, id>>}
        BY <1>1, <1>3, <3>2
    <3> QED BY <1>3, <3>1, <3>2, <3>3 DEF StandsOnce
  <2>2. ASSUME NEW source \in sources PROVE StandsOnce(e, uidOf[source])
    <3>1. source \in d.visuals
        BY <2>2 DEF IsSound, AllStandOnce, StandsOnce
    <3>2. \A one \in d.members : one[1] # uidOf[source]
        BY <1>1, <2>2 DEF IsSound, AllLand
    <3>3. {one \in e.members : one[1] = uidOf[source]} = {<<uidOf[source], landingOf[source]>>}
        BY <1>1, <1>3, <2>2, <3>2
    <3> QED BY <1>3, <2>2, <3>1, <3>3 DEF StandsOnce
  <2> QED BY <1>1, <1>3, <2>1, <2>2 DEF AllStandOnce, Copies
<1>12. AllNamed(e)
    BY <1>3 DEF AllNamed
<1>13. IsFiniteSet(e.assignments)
  <2>1. IsFiniteSet(d.assignments)
      BY DEF IsSound
  <2>2. IsFiniteSet(d.assignments \cup AssignmentCopies(d, uidOf))
    <3>1. IsFiniteSet(AssignmentCopies(d, uidOf))
        BY <1>2
    <3> QED BY <2>1, <3>1, FS_Union
  <2> QED BY <1>3, <2>2
<1> QED BY <1>3, <1>9, <1>10, <1>11, <1>12, <1>13 DEF IsSound, e

-----------------------------------------------------------------------------
(* A command leaves the draft sound, with every task group it had.            *)
SoundlyTakes ==
    /\ IsSound(draft')
    /\ TaskGroups(draft) \subseteq TaskGroups(draft')
    /\ Takes(draft')

(* Pinned rows and checked rows are rows of the document.                     *)
LEMMA EditDocumentSettingsKeepsSound ==
    ASSUME IsSound(draft), EditDocumentSettings
    PROVE  SoundlyTakes
<1>1. ASSUME NEW id \in TaskGroups(draft), PinTaskGroup(id)
      PROVE  SoundlyTakes
  <2>1. Takes(draft') /\ draft' = [draft EXCEPT !.pinned = @ \cup {id}]
      BY <1>1 DEF PinTaskGroup, Takes, TakesWithRow
  <2>2. IsDocument(draft')
      BY <1>1, <2>1 DEF IsSound, IsDocument, Tasks, TaskGroups
  <2>3. AllLand(draft')
      BY <1>1, <2>1 DEF IsSound, IsDocument, Tasks, TaskGroups, AllLand
  <2>4. AllStandOnce(draft') /\ AllNamed(draft')
      BY <1>1, <2>1
         DEF IsSound, IsDocument, Tasks, TaskGroups, AllStandOnce, StandsOnce, AllNamed
  <2>5. IsFiniteSet(draft'.assignments) /\ TaskGroups(draft) \subseteq TaskGroups(draft')
      BY <1>1, <2>1 DEF IsSound, IsDocument, Tasks, TaskGroups
  <2> QED BY <2>1, <2>2, <2>3, <2>4, <2>5 DEF SoundlyTakes, IsSound
<1>2. ASSUME NEW id \in draft.pinned, UnpinTaskGroup(id)
      PROVE  SoundlyTakes
  <2>1. Takes(draft') /\ draft' = [draft EXCEPT !.pinned = @ \ {id}]
      BY <1>2 DEF UnpinTaskGroup, Takes, TakesWithRow
  <2>2. IsDocument(draft')
      BY <1>2, <2>1 DEF IsSound, IsDocument, Tasks, TaskGroups
  <2>3. AllLand(draft')
      BY <1>2, <2>1 DEF IsSound, IsDocument, Tasks, TaskGroups, AllLand
  <2>4. AllStandOnce(draft') /\ AllNamed(draft')
      BY <1>2, <2>1
         DEF IsSound, IsDocument, Tasks, TaskGroups, AllStandOnce, StandsOnce, AllNamed
  <2>5. IsFiniteSet(draft'.assignments) /\ TaskGroups(draft) \subseteq TaskGroups(draft')
      BY <1>2, <2>1 DEF IsSound, IsDocument, Tasks, TaskGroups
  <2> QED BY <2>1, <2>2, <2>3, <2>4, <2>5 DEF SoundlyTakes, IsSound
<1>3. ASSUME NEW uids \in SUBSET Tasks(draft), SetTableView(uids, draft.listed)
      PROVE  SoundlyTakes
  <2>1. Takes(draft') /\ draft' = [draft EXCEPT !.shown = uids, !.listed = draft.listed]
      BY <1>3 DEF SetTableView, Takes, TakesWithRow
  <2>2. draft'.shown \subseteq Nat /\ draft'.listed \subseteq Nat
      BY <1>3, <2>1 DEF IsSound, IsDocument, Tasks, TaskGroups, AllLand
  <2>3. IsDocument(draft')
      BY <1>3, <2>1, <2>2 DEF IsSound, IsDocument, Tasks, TaskGroups
  <2>4. AllLand(draft')
      BY <1>3, <2>1 DEF IsSound, IsDocument, Tasks, TaskGroups, AllLand
  <2>5. AllStandOnce(draft') /\ AllNamed(draft')
      BY <1>3, <2>1
         DEF IsSound, IsDocument, Tasks, TaskGroups, AllStandOnce, StandsOnce, AllNamed
  <2>6. IsFiniteSet(draft'.assignments) /\ TaskGroups(draft) \subseteq TaskGroups(draft')
      BY <1>3, <2>1 DEF IsSound, IsDocument, Tasks, TaskGroups
  <2> QED BY <2>1, <2>3, <2>4, <2>5, <2>6 DEF SoundlyTakes, IsSound
<1>4. ASSUME NEW uids \in SUBSET draft.resources, SetTableView(draft.shown, uids)
      PROVE  SoundlyTakes
  <2>1. Takes(draft') /\ draft' = [draft EXCEPT !.shown = draft.shown, !.listed = uids]
      BY <1>4 DEF SetTableView, Takes, TakesWithRow
  <2>2. draft'.shown \subseteq Nat /\ draft'.listed \subseteq Nat
      BY <1>4, <2>1 DEF IsSound, IsDocument, Tasks, TaskGroups, AllLand
  <2>3. IsDocument(draft')
      BY <1>4, <2>1, <2>2 DEF IsSound, IsDocument, Tasks, TaskGroups
  <2>4. AllLand(draft')
      BY <1>4, <2>1 DEF IsSound, IsDocument, Tasks, TaskGroups, AllLand
  <2>5. AllStandOnce(draft') /\ AllNamed(draft')
      BY <1>4, <2>1
         DEF IsSound, IsDocument, Tasks, TaskGroups, AllStandOnce, StandsOnce, AllNamed
  <2>6. IsFiniteSet(draft'.assignments) /\ TaskGroups(draft) \subseteq TaskGroups(draft')
      BY <1>4, <2>1 DEF IsSound, IsDocument, Tasks, TaskGroups
  <2> QED BY <2>1, <2>3, <2>4, <2>5, <2>6 DEF SoundlyTakes, IsSound
<1> QED BY <1>1, <1>2, <1>3, <1>4 DEF EditDocumentSettings

(* A dependency is between tasks of the document.                             *)
LEMMA EditDependencyKeepsSound ==
    ASSUME IsSound(draft), EditDependency
    PROVE  SoundlyTakes
<1>1. ASSUME NEW pred \in Tasks(draft), NEW succ \in Tasks(draft), CreateDependency(pred, succ)
      PROVE  SoundlyTakes
  <2>1. Takes(draft') /\ draft' = [draft EXCEPT !.tasks[succ].preds = @ \cup {pred}]
      BY <1>1 DEF CreateDependency, Takes, TakesWithRow
  <2>2. draft'.tasks \in [Tasks(draft) -> TaskRows]
      BY <1>1, <2>1 DEF IsSound, IsDocument, Tasks, TaskGroups, AllLand, TaskRows
  <2>3. IsDocument(draft')
      BY <1>1, <2>1, <2>2 DEF IsSound, IsDocument, Tasks, TaskGroups
  <2>4. AllLand(draft')
      BY <1>1, <2>1 DEF IsSound, IsDocument, Tasks, TaskGroups, AllLand, TaskRows
  <2>5. AllStandOnce(draft') /\ AllNamed(draft')
      BY <1>1, <2>1
         DEF IsSound, IsDocument, Tasks, TaskGroups, AllStandOnce, StandsOnce, AllNamed
  <2>6. IsFiniteSet(draft'.assignments) /\ TaskGroups(draft) \subseteq TaskGroups(draft')
      BY <1>1, <2>1 DEF IsSound, IsDocument, Tasks, TaskGroups
  <2> QED BY <2>1, <2>3, <2>4, <2>5, <2>6 DEF SoundlyTakes, IsSound
<1>2. ASSUME NEW pred \in Tasks(draft), NEW succ \in Tasks(draft), DeleteDependency(pred, succ)
      PROVE  SoundlyTakes
  <2>1. Takes(draft') /\ draft' = [draft EXCEPT !.tasks[succ].preds = @ \ {pred}]
      BY <1>2 DEF DeleteDependency, Takes, TakesWithRow
  <2>2. draft'.tasks \in [Tasks(draft) -> TaskRows]
      BY <1>2, <2>1 DEF IsSound, IsDocument, Tasks, TaskGroups, AllLand, TaskRows
  <2>3. IsDocument(draft')
      BY <1>2, <2>1, <2>2 DEF IsSound, IsDocument, Tasks, TaskGroups
  <2>4. AllLand(draft')
      BY <1>2, <2>1 DEF IsSound, IsDocument, Tasks, TaskGroups, AllLand, TaskRows
  <2>5. AllStandOnce(draft') /\ AllNamed(draft')
      BY <1>2, <2>1
         DEF IsSound, IsDocument, Tasks, TaskGroups, AllStandOnce, StandsOnce, AllNamed
  <2>6. IsFiniteSet(draft'.assignments) /\ TaskGroups(draft) \subseteq TaskGroups(draft')
      BY <1>2, <2>1 DEF IsSound, IsDocument, Tasks, TaskGroups
  <2> QED BY <2>1, <2>3, <2>4, <2>5, <2>6 DEF SoundlyTakes, IsSound
<1> QED BY <1>1, <1>2 DEF EditDependency

(* A resource that goes takes its assignments along.                          *)
LEMMA EditResourceKeepsSound ==
    ASSUME IsSound(draft), EditResource
    PROVE  SoundlyTakes
<1>1. ASSUME CreateResource
      PROVE  SoundlyTakes
  <2>1. Takes(draft') /\ draft' = [draft EXCEPT !.mark = @ + 1,
                                            !.resources = @ \cup {draft.mark + 1}]
      BY <1>1 DEF CreateResource, Takes, TakesWithRow
  <2>2. draft'.mark \in Nat /\ 1 .. draft.mark \subseteq 1 .. draft'.mark
      BY <1>1, <2>1 DEF IsSound, IsDocument, Tasks, TaskGroups, AllLand
  <2>3. draft'.resources \subseteq Nat
      BY <1>1, <2>1 DEF IsSound, IsDocument, Tasks, TaskGroups, AllLand
  <2>4. IsDocument(draft')
      BY <1>1, <2>1, <2>2, <2>3 DEF IsSound, IsDocument, Tasks, TaskGroups
  <2>5. AllLand(draft')
      BY <1>1, <2>1 DEF IsSound, IsDocument, Tasks, TaskGroups, AllLand
  <2>6. AllStandOnce(draft') /\ AllNamed(draft')
      BY <1>1, <2>1
         DEF IsSound, IsDocument, Tasks, TaskGroups, AllStandOnce, StandsOnce, AllNamed
  <2>7. IsFiniteSet(draft'.assignments) /\ TaskGroups(draft) \subseteq TaskGroups(draft')
      BY <1>1, <2>1 DEF IsSound, IsDocument, Tasks, TaskGroups
  <2> QED BY <2>1, <2>4, <2>5, <2>6, <2>7 DEF SoundlyTakes, IsSound
<1>2. ASSUME NEW uids \in SUBSET draft.resources, DeleteResources(uids)
      PROVE  SoundlyTakes
  <2>1. Takes(draft') /\ draft' = TableViewsKeptIn([draft EXCEPT
              !.resources = @ \ uids,
              !.assignments = {one \in @ : one.resource \notin uids}])
      BY <1>2 DEF DeleteResources, Takes, TakesWithRow
  <2>2. draft'.assignments \subseteq AssignmentRows /\ draft'.resources \subseteq Nat
      BY <1>2, <2>1 DEF IsSound, IsDocument, Tasks, TaskGroups, AllLand, TableViewsKeptIn
  <2>3. IsDocument(draft')
      BY <1>2, <2>1, <2>2 DEF IsSound, IsDocument, Tasks, TaskGroups, TableViewsKeptIn
  <2>4. AllLand(draft')
      BY <1>2, <2>1 DEF IsSound, IsDocument, Tasks, TaskGroups, AllLand, TableViewsKeptIn
  <2>5. AllStandOnce(draft') /\ AllNamed(draft')
      BY <1>2, <2>1
         DEF IsSound, IsDocument, Tasks, TaskGroups, AllStandOnce, StandsOnce, AllNamed, TableViewsKeptIn
  <2>6. IsFiniteSet(draft'.assignments) /\ TaskGroups(draft) \subseteq TaskGroups(draft')
      BY <1>2, <2>1, FS_Subset DEF IsSound, IsDocument, Tasks, TaskGroups, TableViewsKeptIn
  <2> QED BY <2>1, <2>3, <2>4, <2>5, <2>6 DEF SoundlyTakes, IsSound
<1>3. ASSUME DeleteUnreferencedResources
      PROVE  SoundlyTakes
  <2>1. Takes(draft') /\ draft' = TableViewsKeptIn([draft EXCEPT
              !.resources = @ \cap {one.resource : one \in draft.assignments}])
      BY <1>3 DEF DeleteUnreferencedResources, Takes, TakesWithRow
  <2>2. draft'.resources \subseteq Nat
      BY <1>3, <2>1 DEF IsSound, IsDocument, Tasks, TaskGroups, AllLand, TableViewsKeptIn
  <2>3. IsDocument(draft')
      BY <1>3, <2>1, <2>2 DEF IsSound, IsDocument, Tasks, TaskGroups, TableViewsKeptIn
  <2>4. AllLand(draft')
      BY <1>3, <2>1 DEF IsSound, IsDocument, Tasks, TaskGroups, AllLand, TableViewsKeptIn
  <2>5. AllStandOnce(draft') /\ AllNamed(draft')
      BY <1>3, <2>1
         DEF IsSound, IsDocument, Tasks, TaskGroups, AllStandOnce, StandsOnce, AllNamed, TableViewsKeptIn
  <2>6. IsFiniteSet(draft'.assignments) /\ TaskGroups(draft) \subseteq TaskGroups(draft')
      BY <1>3, <2>1 DEF IsSound, IsDocument, Tasks, TaskGroups, TableViewsKeptIn
  <2> QED BY <2>1, <2>3, <2>4, <2>5, <2>6 DEF SoundlyTakes, IsSound
<1>4. ASSUME NEW uid \in Tasks(draft), NEW resourceUid \in draft.resources,
             CreateAssignment(uid, resourceUid)
      PROVE  SoundlyTakes
  <2>1. Takes(draft') /\ draft' = [draft EXCEPT
              !.mark = @ + 1,
              !.assignments = @ \cup
                  {[uid |-> draft.mark + 1, task |-> uid, resource |-> resourceUid]}]
      BY <1>4 DEF CreateAssignment, Takes, TakesWithRow
  <2>2. draft'.assignments \subseteq AssignmentRows
      BY <1>4, <2>1 DEF IsSound, IsDocument, Tasks, TaskGroups, AllLand, AssignmentRows
  <2>3. draft'.mark \in Nat /\ 1 .. draft.mark \subseteq 1 .. draft'.mark
      BY <1>4, <2>1 DEF IsSound, IsDocument, Tasks, TaskGroups, AllLand
  <2>4. IsDocument(draft')
      BY <1>4, <2>1, <2>2, <2>3 DEF IsSound, IsDocument, Tasks, TaskGroups
  <2>5. AllLand(draft')
      BY <1>4, <2>1 DEF IsSound, IsDocument, Tasks, TaskGroups, AllLand
  <2>6. AllStandOnce(draft') /\ AllNamed(draft')
      BY <1>4, <2>1
         DEF IsSound, IsDocument, Tasks, TaskGroups, AllStandOnce, StandsOnce, AllNamed
  <2>7. IsFiniteSet(draft'.assignments) /\ TaskGroups(draft) \subseteq TaskGroups(draft')
    <3>1. IsFiniteSet(draft.assignments)
        BY DEF IsSound
    <3>2. draft'.assignments = draft.assignments \cup
              {[uid |-> draft.mark + 1, task |-> uid, resource |-> resourceUid]}
        BY <2>1 DEF IsSound, IsDocument
    <3>3. IsFiniteSet(draft'.assignments)
        BY <3>1, <3>2, FS_AddElement
    <3> QED BY <2>1, <3>3 DEF IsSound, IsDocument, Tasks, TaskGroups
  <2> QED BY <2>1, <2>4, <2>5, <2>6, <2>7 DEF SoundlyTakes, IsSound
<1>5. ASSUME NEW uid \in Tasks(draft), NEW resourceUid \in draft.resources,
             DeleteAssignment(uid, resourceUid)
      PROVE  SoundlyTakes
  <2>1. Takes(draft') /\ draft' = [draft EXCEPT
              !.assignments = {one \in @ : one.task # uid \/ one.resource # resourceUid}]
      BY <1>5 DEF DeleteAssignment, Takes, TakesWithRow
  <2>2. draft'.assignments \subseteq AssignmentRows
      BY <1>5, <2>1 DEF IsSound, IsDocument, Tasks, TaskGroups, AllLand
  <2>3. IsDocument(draft')
      BY <1>5, <2>1, <2>2 DEF IsSound, IsDocument, Tasks, TaskGroups
  <2>4. AllLand(draft')
      BY <1>5, <2>1 DEF IsSound, IsDocument, Tasks, TaskGroups, AllLand
  <2>5. AllStandOnce(draft') /\ AllNamed(draft')
      BY <1>5, <2>1
         DEF IsSound, IsDocument, Tasks, TaskGroups, AllStandOnce, StandsOnce, AllNamed
  <2>6. IsFiniteSet(draft'.assignments) /\ TaskGroups(draft) \subseteq TaskGroups(draft')
      BY <1>5, <2>1, FS_Subset DEF IsSound, IsDocument, Tasks, TaskGroups
  <2> QED BY <2>1, <2>3, <2>4, <2>5, <2>6 DEF SoundlyTakes, IsSound
<1> QED BY <1>1, <1>2, <1>3, <1>4, <1>5 DEF EditResource

(* A note stands in a band of the document and names what is there; a box     *)
(* that goes releases the tips snapped to it.                                 *)
LEMMA EditAnnotationKeepsSound ==
    ASSUME IsSound(draft), EditAnnotation
    PROVE  SoundlyTakes
<1>1. ASSUME NEW id \in NoteIds, NEW anchor \in Anchors(draft),
             CreateCommentBox(id, anchor)
      PROVE  SoundlyTakes
  <2>1. Takes(draft') /\ draft' = [draft EXCEPT !.notes = With(@, id, anchor)]
      BY <1>1 DEF CreateCommentBox, Takes, TakesWithRow
  <2>2. draft'.notes \in [DOMAIN draft.notes \cup {id} -> AnchorRows]
      BY <1>1, <2>1
         DEF IsSound, IsDocument, Tasks, TaskGroups, AllLand, AnchorRows, With, Anchors
  <2>3. IsDocument(draft')
      BY <1>1, <2>1, <2>2 DEF IsSound, IsDocument, Tasks, TaskGroups
  <2>4. AllLand(draft')
      BY <1>1, <2>1
         DEF IsSound, IsDocument, Tasks, TaskGroups, AllLand, AnchorRows, With, Anchors
  <2>5. AllStandOnce(draft') /\ AllNamed(draft')
      BY <1>1, <2>1
         DEF IsSound, IsDocument, Tasks, TaskGroups, AllStandOnce, StandsOnce, AllNamed
  <2>6. IsFiniteSet(draft'.assignments) /\ TaskGroups(draft) \subseteq TaskGroups(draft')
      BY <1>1, <2>1 DEF IsSound, IsDocument, Tasks, TaskGroups
  <2> QED BY <2>1, <2>3, <2>4, <2>5, <2>6 DEF SoundlyTakes, IsSound
<1>2. ASSUME NEW id \in DOMAIN draft.notes, NEW anchor \in Anchors(draft),
             SetCommentBoxAnchor(id, anchor)
      PROVE  SoundlyTakes
  <2>1. Takes(draft') /\ draft' = [draft EXCEPT !.notes[id] = anchor]
      BY <1>2 DEF SetCommentBoxAnchor, Takes, TakesWithRow
  <2>2. draft'.notes \in [DOMAIN draft.notes -> AnchorRows]
      BY <1>2, <2>1 DEF IsSound, IsDocument, Tasks, TaskGroups, AllLand, AnchorRows, Anchors
  <2>3. IsDocument(draft')
      BY <1>2, <2>1, <2>2 DEF IsSound, IsDocument, Tasks, TaskGroups
  <2>4. AllLand(draft')
      BY <1>2, <2>1 DEF IsSound, IsDocument, Tasks, TaskGroups, AllLand, AnchorRows, Anchors
  <2>5. AllStandOnce(draft') /\ AllNamed(draft')
      BY <1>2, <2>1
         DEF IsSound, IsDocument, Tasks, TaskGroups, AllStandOnce, StandsOnce, AllNamed
  <2>6. IsFiniteSet(draft'.assignments) /\ TaskGroups(draft) \subseteq TaskGroups(draft')
      BY <1>2, <2>1 DEF IsSound, IsDocument, Tasks, TaskGroups
  <2> QED BY <2>1, <2>3, <2>4, <2>5, <2>6 DEF SoundlyTakes, IsSound
<1>3. ASSUME NEW id \in DOMAIN draft.notes, DeleteCommentBox(id)
      PROVE  SoundlyTakes
  <2>1. Takes(draft') /\ draft' = [draft EXCEPT !.notes = Except(@, {id})]
      BY <1>3 DEF DeleteCommentBox, Takes, TakesWithRow
  <2>2. IsDocument(draft')
      BY <1>3, <2>1 DEF IsSound, IsDocument, Tasks, TaskGroups, Except
  <2>3. AllLand(draft')
      BY <1>3, <2>1 DEF IsSound, IsDocument, Tasks, TaskGroups, AllLand, Except
  <2>4. AllStandOnce(draft') /\ AllNamed(draft')
      BY <1>3, <2>1
         DEF IsSound, IsDocument, Tasks, TaskGroups, AllStandOnce, StandsOnce, AllNamed, Except
  <2>5. IsFiniteSet(draft'.assignments) /\ TaskGroups(draft) \subseteq TaskGroups(draft')
      BY <1>3, <2>1 DEF IsSound, IsDocument, Tasks, TaskGroups, Except
  <2> QED BY <2>1, <2>2, <2>3, <2>4, <2>5 DEF SoundlyTakes, IsSound
<1>4. ASSUME NEW id \in BoxIds, NEW top \in TaskGroups(draft), NEW bottom \in TaskGroups(draft),
             CreateHighlightBox(id, top, bottom)
      PROVE  SoundlyTakes
  <2>1. Takes(draft') /\ draft' =
            [draft EXCEPT !.boxes = With(@, id, [top |-> top, bottom |-> bottom])]
      BY <1>4 DEF CreateHighlightBox, Takes, TakesWithRow
  <2>2. IsDocument(draft')
      BY <1>4, <2>1 DEF IsSound, IsDocument, Tasks, TaskGroups, With
  <2>3. AllLand(draft')
      BY <1>4, <2>1 DEF IsSound, IsDocument, Tasks, TaskGroups, AllLand, With
  <2>4. AllStandOnce(draft') /\ AllNamed(draft')
      BY <1>4, <2>1
         DEF IsSound, IsDocument, Tasks, TaskGroups, AllStandOnce, StandsOnce, AllNamed, With
  <2>5. IsFiniteSet(draft'.assignments) /\ TaskGroups(draft) \subseteq TaskGroups(draft')
      BY <1>4, <2>1 DEF IsSound, IsDocument, Tasks, TaskGroups, With
  <2> QED BY <2>1, <2>2, <2>3, <2>4, <2>5 DEF SoundlyTakes, IsSound
<1>5. ASSUME NEW id \in DOMAIN draft.boxes,
             NEW top \in TaskGroups(draft), NEW bottom \in TaskGroups(draft),
             SetHighlightBoxRange(id, top, bottom)
      PROVE  SoundlyTakes
  <2>1. Takes(draft') /\ draft' =
            [draft EXCEPT !.boxes[id] = [top |-> top, bottom |-> bottom]]
      BY <1>5 DEF SetHighlightBoxRange, Takes, TakesWithRow
  <2>2. IsDocument(draft')
      BY <1>5, <2>1 DEF IsSound, IsDocument, Tasks, TaskGroups
  <2>3. AllLand(draft')
      BY <1>5, <2>1 DEF IsSound, IsDocument, Tasks, TaskGroups, AllLand
  <2>4. AllStandOnce(draft') /\ AllNamed(draft')
      BY <1>5, <2>1
         DEF IsSound, IsDocument, Tasks, TaskGroups, AllStandOnce, StandsOnce, AllNamed
  <2>5. IsFiniteSet(draft'.assignments) /\ TaskGroups(draft) \subseteq TaskGroups(draft')
      BY <1>5, <2>1 DEF IsSound, IsDocument, Tasks, TaskGroups
  <2> QED BY <2>1, <2>2, <2>3, <2>4, <2>5 DEF SoundlyTakes, IsSound
<1>6. ASSUME NEW id \in DOMAIN draft.boxes, DeleteHighlightBox(id)
      PROVE  SoundlyTakes
  <2> DEFINE released == CommentBoxesReleasedFrom(draft, {}, {id}, TaskGroups(draft))
  <2>1. Takes(draft') /\ draft' = [draft EXCEPT !.boxes = Except(@, {id}), !.notes = released]
      BY <1>6 DEF DeleteHighlightBox, Takes, TakesWithRow
  <2>2. released \in [DOMAIN draft.notes -> AnchorRows]
      BY <1>6, ReleasedNotesLand DEF CommentBoxesReleasedFrom
  <2>3. \A one \in DOMAIN draft.notes :
           /\ released[one].band \in TaskGroups(draft)
           /\ released[one].task \in Tasks(draft) \cup {Null}
           /\ released[one].box \in (DOMAIN draft.boxes \ {id}) \cup {Null}
      BY <1>6, ReleasedNotesLand DEF CommentBoxesReleasedFrom
  <2> HIDE DEF released
  <2>4. IsDocument(draft')
      BY <1>6, <2>1, <2>2 DEF IsSound, IsDocument, Tasks, TaskGroups, Except
  <2>5. AllLand(draft')
      BY <1>6, <2>1, <2>2, <2>3 DEF IsSound, IsDocument, Tasks, TaskGroups, AllLand, Except
  <2>6. AllStandOnce(draft') /\ AllNamed(draft')
      BY <1>6, <2>1
         DEF IsSound, IsDocument, Tasks, TaskGroups, AllStandOnce, StandsOnce, AllNamed
  <2>7. IsFiniteSet(draft'.assignments) /\ TaskGroups(draft) \subseteq TaskGroups(draft')
      BY <2>1 DEF IsSound, IsDocument, TaskGroups
  <2> QED BY <2>1, <2>4, <2>5, <2>6, <2>7 DEF SoundlyTakes, IsSound
<1> QED BY <1>1, <1>2, <1>3, <1>4, <1>5, <1>6 DEF EditAnnotation

(* A task made on a task group, or with a task group of its own, stands there *)
(* alone and names nothing.                                                   *)
LEMMA CreateTaskKeepsSound ==
    ASSUME IsSound(draft), NEW groupId \in GroupIds, CreateTask(groupId)
    PROVE  SoundlyTakes
<1> DEFINE uid == draft.mark + 1
           row == [parent |-> Null, preds |-> {}]
           made == [parent |-> Null, named |-> FALSE, source |-> uid]
           groups == IF groupId \in TaskGroups(draft) THEN draft.groups
                     ELSE With(draft.groups, groupId, made)
<1>1. Takes(draft') /\ draft' = [draft EXCEPT
                                    !.mark = uid,
                                    !.tasks = With(@, uid, row),
                                    !.visuals = @ \cup {uid},
                                    !.members = @ \cup {<<uid, groupId>>},
                                    !.groups = groups]
    BY DEF CreateTask, Takes, TakesWithRow, TaskGroups, IsSound, IsDocument
<1>2. uid \in Nat /\ uid \notin Tasks(draft) /\ 1 .. draft.mark \subseteq 1 .. uid /\ uid \in 1 .. uid
    BY DEF IsSound, IsDocument
<1>3. /\ groups \in [TaskGroups(draft) \cup {groupId} -> TaskGroupRows]
      /\ \A id \in TaskGroups(draft) : groups[id] = draft.groups[id]
      /\ groupId \notin TaskGroups(draft) => groups[groupId] = made
  <2>1. made \in TaskGroupRows
      BY <1>2 DEF TaskGroupRows
  <2> HIDE DEF made
  <2> QED BY <2>1 DEF With, IsSound, IsDocument, TaskGroups
<1>4. With(draft.tasks, uid, row) \in [Tasks(draft) \cup {uid} -> TaskRows]
    BY <1>2 DEF With, IsSound, IsDocument, Tasks, TaskRows
<1>5. /\ draft'.tasks = With(draft.tasks, uid, row)
      /\ Tasks(draft') = Tasks(draft) \cup {uid} /\ TaskGroups(draft') = TaskGroups(draft) \cup {groupId}
      /\ draft'.mark = uid /\ draft'.groups = groups
      /\ draft'.visuals = draft.visuals \cup {uid}
      /\ draft'.members = draft.members \cup {<<uid, groupId>>}
  <2> HIDE DEF uid, row, groups
  <2> QED BY <1>1, <1>3, <1>4 DEF Tasks, TaskGroups, IsSound, IsDocument
<1>6. /\ draft'.origins = draft.origins /\ draft'.resources = draft.resources
      /\ draft'.assignments = draft.assignments /\ draft'.notes = draft.notes
      /\ draft'.boxes = draft.boxes /\ draft'.pinned = draft.pinned
      /\ draft'.shown = draft.shown /\ draft'.listed = draft.listed
    BY <1>1 DEF IsSound, IsDocument
<1>7. /\ draft'.tasks[uid] = row
      /\ \A one \in Tasks(draft) : draft'.tasks[one] = draft.tasks[one]
    BY <1>2, <1>5 DEF With, Tasks
<1>8. IsRecord(draft')
    BY <1>1 DEF IsRecord, IsSound, IsDocument
<1> HIDE DEF uid, groups
<1>9. IsDocument(draft')
  <2>1. /\ draft'.mark \in Nat /\ draft'.tasks \in [Tasks(draft') -> TaskRows]
        /\ draft'.groups \in [TaskGroups(draft') -> TaskGroupRows]
      BY <1>2, <1>3, <1>4, <1>5
  <2>2. draft'.members \subseteq Nat \X GroupIds /\ draft'.visuals \subseteq Nat
      BY <1>2, <1>5 DEF IsSound, IsDocument
  <2>3. Tasks(draft') \subseteq 1 .. draft'.mark /\ TaskGroups(draft') \subseteq GroupIds
    <3>1. Tasks(draft) \subseteq 1 .. draft.mark /\ TaskGroups(draft) \subseteq GroupIds
        BY DEF IsSound, IsDocument
    <3> QED BY <1>2, <1>5, <3>1
  <2>4. /\ draft'.origins \subseteq Nat /\ draft'.resources \subseteq Nat
        /\ draft'.assignments \subseteq AssignmentRows
        /\ draft'.notes \in [DOMAIN draft'.notes -> AnchorRows]
        /\ draft'.boxes \in [DOMAIN draft'.boxes -> [top : GroupIds, bottom : GroupIds]]
        /\ draft'.pinned \subseteq GroupIds /\ draft'.shown \subseteq Nat /\ draft'.listed \subseteq Nat
        /\ DOMAIN draft'.notes \subseteq NoteIds /\ DOMAIN draft'.boxes \subseteq BoxIds
      BY <1>6 DEF IsSound, IsDocument
  <2> QED BY <1>8, <2>1, <2>2, <2>3, <2>4, FieldsMakeADocument
<1>10. AllLand(draft')
  <2>1. \A one \in Tasks(draft') :
          /\ draft'.tasks[one].parent \in Tasks(draft') \cup {Null}
          /\ draft'.tasks[one].preds \subseteq Tasks(draft')
    <3>1. \A one \in Tasks(draft) : /\ draft.tasks[one].parent \in Tasks(draft) \cup {Null}
                                    /\ draft.tasks[one].preds \subseteq Tasks(draft)
        BY DEF IsSound, AllLand
    <3>2. draft'.tasks[uid].parent = Null /\ draft'.tasks[uid].preds = {}
        BY <1>7
    <3> QED BY <1>5, <1>7, <3>1, <3>2
  <2>2. \A id \in TaskGroups(draft') :
          /\ draft'.groups[id].parent \in TaskGroups(draft') \cup {Null}
          /\ draft'.groups[id].source \in Tasks(draft') \cup StrayTasks \cup {Null}
      BY <1>3, <1>5 DEF IsSound, AllLand
  <2>3. draft'.members \subseteq Tasks(draft') \X TaskGroups(draft') /\ draft'.visuals \subseteq Tasks(draft')
      BY <1>5 DEF IsSound, AllLand
  <2>4. \A one \in draft'.assignments : one.task \in Tasks(draft') /\ one.resource \in draft'.resources
      BY <1>5, <1>6 DEF IsSound, AllLand
  <2>5. /\ draft'.origins \subseteq Tasks(draft')
        /\ \A id \in DOMAIN draft'.notes :
              /\ draft'.notes[id].band \in TaskGroups(draft')
              /\ draft'.notes[id].task \in Tasks(draft') \cup {Null}
              /\ draft'.notes[id].box \in DOMAIN draft'.boxes \cup {Null}
        /\ \A id \in DOMAIN draft'.boxes :
              {draft'.boxes[id].top, draft'.boxes[id].bottom} \subseteq TaskGroups(draft')
        /\ draft'.pinned \subseteq TaskGroups(draft')
        /\ draft'.shown \subseteq Tasks(draft') /\ draft'.listed \subseteq draft'.resources
      BY <1>5, <1>6 DEF IsSound, AllLand
  <2> QED BY <2>1, <2>2, <2>3, <2>4, <2>5 DEF AllLand
<1>11. AllStandOnce(draft')
  <2>1. ASSUME NEW one \in Tasks(draft) PROVE StandsOnce(draft', one)
      BY <1>2, <1>5, <2>1 DEF IsSound, AllStandOnce, StandsOnce
  <2>2. StandsOnce(draft', uid)
    <3>1. \A one \in draft.members : one[1] # uid
        BY <1>2 DEF IsSound, AllLand
    <3> QED BY <1>5, <3>1 DEF StandsOnce
  <2> QED BY <1>5, <2>1, <2>2 DEF AllStandOnce
<1>12. AllNamed(draft')
  <2>1. uid # Null
      BY <1>2, NullAssumption
  <2> QED BY <1>3, <1>5, <2>1 DEF IsSound, AllNamed
<1> QED BY <1>1, <1>5, <1>6, <1>9, <1>10, <1>11, <1>12 DEF SoundlyTakes, IsSound

(* A task goes with all that hangs below it.                                  *)
LEMMA DeleteTaskKeepsSound ==
    ASSUME IsSound(draft), NEW uid, DeleteTask(uid)
    PROVE  SoundlyTakes
<1> DEFINE doomed == Subtree(ParentTasks(draft), {uid})
<1>1. doomed \in SUBSET Tasks(draft) /\ Closed(ParentTasks(draft), doomed)
  <2>1. DOMAIN ParentTasks(draft) = Tasks(draft)
      BY DEF ParentTasks
  <2> QED BY <2>1, SubtreeIsClosed
<1>2. Takes(draft') /\ draft' = WithoutTasks(draft, doomed)
    BY DEF DeleteTask, Takes, TakesWithRow
<1>3. /\ IsSound(WithoutTasks(draft, doomed))
      /\ TaskGroups(WithoutTasks(draft, doomed)) = TaskGroups(draft)
  <2> HIDE DEF doomed
  <2> QED BY <1>1, WithoutTasksIsSound
<1> QED BY <1>2, <1>3 DEF SoundlyTakes

(* Tasks are pasted on task groups of the document.                           *)
LEMMA PasteTasksKeepsSound ==
    ASSUME IsSound(draft), NEW sources \in SUBSET Tasks(draft),
           NEW landingOf \in [sources -> TaskGroups(draft)], PasteTasks(sources, landingOf)
    PROVE  SoundlyTakes
<1> DEFINE uidOf == PastedUidsOf(draft.mark, sources)
           e == WithCopies(draft, draft.groups, landingOf, uidOf)
<1>1. Takes(draft') /\ draft' = e
    BY DEF PasteTasks, Takes, TakesWithRow
<1>2. /\ draft.groups \in [TaskGroups(draft) -> TaskGroupRows]
      /\ TaskGroups(draft) \subseteq GroupIds
      /\ \A id \in TaskGroups(draft) :
            /\ draft.groups[id].parent \in TaskGroups(draft) \cup {Null}
            /\ draft.groups[id].source \in Tasks(draft) \cup StrayTasks \cup {Null}
            /\ draft.groups[id].named \/ draft.groups[id].source # Null
    BY DEF IsSound, IsDocument, AllLand, AllNamed
<1>3. IsSound(e) /\ TaskGroups(e) = TaskGroups(draft)
  <2> HIDE DEF uidOf
  <2>1. uidOf = PastedUidsOf(draft.mark, sources)
      BY DEF uidOf
  <2>2. CanLand(draft, sources, uidOf, draft.groups, landingOf)
      BY <1>2, <2>1 DEF CanLand, TaskGroups
  <2> QED BY <2>2, WithCopiesIsSound DEF TaskGroups
<1> QED BY <1>1, <1>3 DEF SoundlyTakes

(* The commands on tasks.                                                     *)
LEMMA EditTaskKeepsSound ==
    ASSUME IsSound(draft), EditTask
    PROVE  SoundlyTakes
<1>1. ASSUME NEW id \in GroupIds, CreateTask(id) PROVE SoundlyTakes
    BY <1>1, CreateTaskKeepsSound
<1>2. ASSUME NEW uid \in 1 .. draft.mark, DeleteTask(uid) PROVE SoundlyTakes
    BY <1>2, DeleteTaskKeepsSound
<1>3. ASSUME NEW sources \in SUBSET Tasks(draft), NEW landingOf \in [sources -> TaskGroups(draft)],
             PasteTasks(sources, landingOf)
      PROVE  SoundlyTakes
    BY <1>3, PasteTasksKeepsSound
<1>4. ASSUME NEW uid \in Tasks(draft), NEW parentUid \in Tasks(draft) \cup {Null},
             SetTaskParentTask(uid, parentUid)
      PROVE  SoundlyTakes
  <2>1. Takes(draft') /\ draft' = [draft EXCEPT !.tasks[uid].parent = parentUid]
      BY <1>4 DEF SetTaskParentTask, Takes, TakesWithRow
  <2>2. draft'.tasks \in [Tasks(draft) -> TaskRows]
      BY <1>4, <2>1 DEF IsSound, IsDocument, Tasks, TaskGroups, AllLand, TaskRows
  <2>3. IsDocument(draft')
      BY <1>4, <2>1, <2>2 DEF IsSound, IsDocument, Tasks, TaskGroups
  <2>4. AllLand(draft')
      BY <1>4, <2>1 DEF IsSound, IsDocument, Tasks, TaskGroups, AllLand, TaskRows
  <2>5. AllStandOnce(draft') /\ AllNamed(draft')
      BY <1>4, <2>1
         DEF IsSound, IsDocument, Tasks, TaskGroups, AllStandOnce, StandsOnce, AllNamed
  <2>6. IsFiniteSet(draft'.assignments) /\ TaskGroups(draft) \subseteq TaskGroups(draft')
      BY <1>4, <2>1 DEF IsSound, IsDocument, Tasks, TaskGroups
  <2> QED BY <2>1, <2>3, <2>4, <2>5, <2>6 DEF SoundlyTakes, IsSound
<1>5. ASSUME NEW uid \in Tasks(draft), NEW id \in TaskGroups(draft),
             MoveTaskToTaskGroup(uid, id)
      PROVE  SoundlyTakes
  <2>1. Takes(draft') /\ draft' = [draft EXCEPT
              !.members = {IF one[1] = uid THEN <<uid, id>> ELSE one : one \in @}]
      BY <1>5 DEF MoveTaskToTaskGroup, Takes, TakesWithRow
  <2>2. draft'.members \subseteq Nat \X GroupIds
      BY <1>5, <2>1 DEF IsSound, IsDocument, Tasks, TaskGroups, AllLand
  <2>3. IsDocument(draft')
      BY <1>5, <2>1, <2>2 DEF IsSound, IsDocument, Tasks, TaskGroups
  <2>4. AllLand(draft')
      BY <1>5, <2>1 DEF IsSound, IsDocument, Tasks, TaskGroups, AllLand
  <2>5. AllStandOnce(draft')
      BY <1>5, <2>1 DEF IsSound, IsDocument, Tasks, TaskGroups, AllStandOnce, StandsOnce
  <2>6. AllNamed(draft')
      BY <1>5, <2>1 DEF IsSound, IsDocument, Tasks, TaskGroups, AllNamed
  <2>7. IsFiniteSet(draft'.assignments) /\ TaskGroups(draft) \subseteq TaskGroups(draft')
      BY <1>5, <2>1 DEF IsSound, IsDocument, Tasks, TaskGroups
  <2> QED BY <2>1, <2>3, <2>4, <2>5, <2>6, <2>7 DEF SoundlyTakes, IsSound
<1> QED BY <1>1, <1>2, <1>3, <1>4, <1>5 DEF EditTask

(* A task group that goes takes along what hangs below it and the tasks that  *)
(* stand there, with what hangs below them.                                   *)
LEMMA DeleteTaskGroupKeepsSound ==
    ASSUME IsSound(draft), NEW id, NEW newId, DeleteTaskGroup(id, newId)
    PROVE  IsSound(draft') /\ TakesWithRow(draft', newId)
<1> DEFINE doomedGroups == Subtree(ParentGroups(draft), {id})
           seeds == {uid \in Tasks(draft) :
                       \E one \in draft.members : one[1] = uid /\ one[2] \in doomedGroups}
           doomed == Subtree(ParentTasks(draft), seeds)
<1>1. TakesWithRow(draft', newId) /\ draft' = WithoutTaskGroups(draft, doomedGroups, doomed)
    BY DEF DeleteTaskGroup, TakesWithRow
<1>2. DOMAIN ParentTasks(draft) = Tasks(draft) /\ DOMAIN ParentGroups(draft) = TaskGroups(draft)
    BY DEF ParentTasks, ParentGroups
<1>3. doomedGroups \in SUBSET TaskGroups(draft) /\ Closed(ParentGroups(draft), doomedGroups)
    BY <1>2, SubtreeIsClosed
<1>4. \A one \in draft.members : one[2] \in doomedGroups => one[1] \in seeds
    BY DEF IsSound, AllLand
<1> HIDE DEF doomedGroups, seeds
<1>5. /\ doomed \in SUBSET Tasks(draft) /\ Closed(ParentTasks(draft), doomed)
      /\ seeds \cap Tasks(draft) \subseteq doomed
    BY <1>2, SubtreeIsClosed
<1>6. seeds \subseteq Tasks(draft)
    BY DEF seeds
<1> HIDE DEF doomed
<1>7. \A one \in draft.members : one[2] \in doomedGroups => one[1] \in doomed
    BY <1>4, <1>5, <1>6
<1>8. IsSound(WithoutTaskGroups(draft, doomedGroups, doomed))
    BY <1>3, <1>5, <1>7, WithoutTaskGroupsIsSound
<1> QED BY <1>1, <1>8

(* A subtree of task groups is pasted with the tasks standing on it: each     *)
(* copied task group derives from the copy of its task, or has a name.        *)
LEMMA PasteTaskGroupSubtreeKeepsSound ==
    ASSUME IsSound(draft), NEW sourceId \in TaskGroups(draft),
           NEW parentId \in TaskGroups(draft) \cup {Null},
           NEW idOf \in [Subtree(ParentGroups(draft), {sourceId}) -> GroupIds],
           PasteTaskGroupSubtree(sourceId, parentId, idOf)
    PROVE  SoundlyTakes
<1> DEFINE copied == Subtree(ParentGroups(draft), {sourceId})
           riders == {uid \in Tasks(draft) :
                        \E one \in draft.members : one[1] = uid /\ one[2] \in copied}
           uidOf == PastedUidsOf(draft.mark, riders)
           landingOf == [uid \in riders |->
                           idOf[CHOOSE id \in copied : <<uid, id>> \in draft.members]]
           copyOf == CopiedTaskGroupOf(draft, sourceId, parentId, idOf, uidOf)
           fresh == {idOf[id] : id \in copied}
           groups == [id \in TaskGroups(draft) \cup fresh |->
                        IF id \in TaskGroups(draft) THEN draft.groups[id]
                        ELSE copyOf[CHOOSE one \in copied : idOf[one] = id]]
           e == WithCopies(draft, groups, landingOf, uidOf)
<1>1. Takes(draft') /\ draft' = e
    BY DEF PasteTaskGroupSubtree, Takes, TakesWithRow
<1>2. copied \subseteq TaskGroups(draft)
  <2>1. DOMAIN ParentGroups(draft) = TaskGroups(draft)
      BY DEF ParentGroups
  <2> QED BY <2>1, SubtreeIsClosed
<1>3. \A uid \in riders : \E id \in copied : <<uid, id>> \in draft.members
  <2>1. \A one \in draft.members : one = <<one[1], one[2]>>
      BY DEF IsSound, IsDocument
  <2> QED BY <2>1
<1> HIDE DEF copied
<1>4. landingOf \in [riders -> fresh] /\ fresh \subseteq GroupIds /\ riders \in SUBSET Tasks(draft)
    BY <1>3 DEF copied
<1> HIDE DEF riders, landingOf
<1>5. AreFresh(draft, riders, uidOf)
    BY <1>4, PastedUidsAreFresh
<1>6. uidOf = PastedUidsOf(draft.mark, riders)
    OBVIOUS
<1> HIDE DEF uidOf
<1>7. /\ DOMAIN uidOf = riders
      /\ \A uid \in riders : uidOf[uid] \in Nat /\ uidOf[uid] \in Copies(uidOf) /\ uidOf[uid] # Null
    BY <1>5, NullAssumption DEF AreFresh, Copies
<1>8. \A id \in copied :
         /\ copyOf[id] \in TaskGroupRows
         /\ copyOf[id].parent \in TaskGroups(draft) \cup fresh \cup {Null}
         /\ copyOf[id].source \in Copies(uidOf) \cup {Null}
         /\ copyOf[id].named \/ copyOf[id].source # Null
  <2>1. TAKE id \in copied
  <2> DEFINE group == draft.groups[id]
             parent == IF id = sourceId THEN parentId
                       ELSE IF group.parent \in DOMAIN idOf THEN idOf[group.parent]
                       ELSE group.parent
             pasted == [group EXCEPT !.parent = parent]
  <2>2. /\ group \in TaskGroupRows
        /\ group.parent \in TaskGroups(draft) \cup {Null}
        /\ group.named \/ group.source # Null
      BY <1>2 DEF IsSound, IsDocument, AllLand, AllNamed
  <2>3. /\ DOMAIN idOf = copied /\ TaskGroups(draft) \subseteq GroupIds
        /\ \A one \in copied : idOf[one] \in fresh
      BY DEF copied, IsSound, IsDocument
  <2>4. parent \in TaskGroups(draft) \cup fresh \cup {Null} /\ parent \in GroupIds \cup {Null}
    <3> HIDE DEF fresh
    <3> QED BY <1>4, <2>2, <2>3
  <2>5. copyOf[id] = IF group.source = Null THEN pasted
                     ELSE IF group.source \in DOMAIN uidOf
                          THEN [pasted EXCEPT !.source = uidOf[group.source]]
                          ELSE SettledTaskGroup(pasted)
    <3>1. copyOf[id] = IF group.source = Null THEN pasted
                       ELSE IF group.source \in DOMAIN uidOf
                            THEN [pasted EXCEPT !.source = uidOf[@]]
                            ELSE SettledTaskGroup(pasted)
        BY <2>2, <2>3 DEF CopiedTaskGroupOf, TaskGroupRows
    <3>2. pasted.source = group.source
        BY <2>2 DEF TaskGroupRows
    <3> HIDE DEF pasted
    <3> QED BY <3>1, <3>2
  <2>6. /\ pasted \in TaskGroupRows /\ pasted.parent = parent
        /\ pasted.source = group.source /\ pasted.named = group.named
      BY <2>2, <2>4 DEF TaskGroupRows
  <2> HIDE DEF copyOf, pasted, parent, group, fresh
  <2>7. CASE group.source = Null
      BY <2>2, <2>4, <2>5, <2>6, <2>7
  <2>8. CASE group.source # Null /\ group.source \in DOMAIN uidOf
    <3>1. copyOf[id] = [pasted EXCEPT !.source = uidOf[group.source]]
        BY <2>5, <2>8
    <3>2. uidOf[group.source] \in Nat /\ uidOf[group.source] \in Copies(uidOf)
          /\ uidOf[group.source] # Null
        BY <1>7, <2>8
    <3> QED BY <2>4, <2>6, <3>1, <3>2 DEF TaskGroupRows
  <2>9. CASE group.source # Null /\ group.source \notin DOMAIN uidOf
    <3>1. copyOf[id] = SettledTaskGroup(pasted)
        BY <2>5, <2>9
    <3> QED BY <2>4, <2>6, <3>1 DEF TaskGroupRows, SettledTaskGroup
  <2> QED BY <2>7, <2>8, <2>9
<1> HIDE DEF copyOf
<1>9. \A id \in fresh : \E one \in copied :
         (CHOOSE other \in copied : idOf[other] = id) = one
    OBVIOUS
<1> HIDE DEF fresh
<1>10. /\ groups \in [TaskGroups(draft) \cup fresh -> TaskGroupRows]
       /\ \A id \in TaskGroups(draft) \cup fresh :
            /\ groups[id].parent \in TaskGroups(draft) \cup fresh \cup {Null}
            /\ groups[id].source \in Tasks(draft) \cup Copies(uidOf) \cup StrayTasks \cup {Null}
            /\ groups[id].named \/ groups[id].source # Null
  <2>1. \A id \in TaskGroups(draft) :
           /\ groups[id] \in TaskGroupRows
           /\ groups[id].parent \in TaskGroups(draft) \cup {Null}
           /\ groups[id].source \in Tasks(draft) \cup StrayTasks \cup {Null}
           /\ groups[id].named \/ groups[id].source # Null
      BY DEF IsSound, IsDocument, AllLand, AllNamed
  <2>2. \A id \in fresh \ TaskGroups(draft) :
           /\ groups[id] \in TaskGroupRows
           /\ groups[id].parent \in TaskGroups(draft) \cup fresh \cup {Null}
           /\ groups[id].source \in Copies(uidOf) \cup {Null}
           /\ groups[id].named \/ groups[id].source # Null
      BY <1>8, <1>9
  <2> QED BY <2>1, <2>2
<1> HIDE DEF groups
<1>11. TaskGroups(draft) \subseteq GroupIds
    BY DEF IsSound, IsDocument
<1>12. DOMAIN groups = TaskGroups(draft) \cup fresh
    BY <1>10
<1>13. landingOf \in [riders -> DOMAIN groups]
    BY <1>4, <1>12
<1>14. IsSound(e) /\ TaskGroups(e) = DOMAIN groups
  <2>1. CanLand(draft, riders, uidOf, groups, landingOf)
      BY <1>4, <1>6, <1>10, <1>11, <1>12, <1>13 DEF CanLand
  <2> QED BY <2>1, WithCopiesIsSound
<1> QED BY <1>1, <1>12, <1>14 DEF SoundlyTakes

(* A task group moves, and its task in the WBS with it.                       *)
LEMMA MoveTaskGroupKeepsSound ==
    ASSUME IsSound(draft), NEW id \in TaskGroups(draft),
           NEW parentId \in TaskGroups(draft) \cup {Null}, MoveTaskGroup(id, parentId)
    PROVE  SoundlyTakes
<1> DEFINE source == draft.groups[id].source
           groups == [draft.groups EXCEPT ![id].parent = parentId]
           moved == [draft EXCEPT !.groups = groups]
           parentUid == NearestDerivedTaskUid(draft.groups, Tasks(draft), parentId, {})
           tasks == [draft.tasks EXCEPT ![source].parent = parentUid]
<1>1. /\ draft.groups \in [TaskGroups(draft) -> TaskGroupRows]
      /\ draft.tasks \in [Tasks(draft) -> TaskRows]
      /\ source \in Tasks(draft) \cup StrayTasks \cup {Null}
      /\ Tasks(draft) \subseteq Nat /\ TaskGroups(draft) \subseteq GroupIds
    BY DEF IsSound, IsDocument, AllLand
<1>2. /\ groups \in [TaskGroups(draft) -> TaskGroupRows]
      /\ \A one \in TaskGroups(draft) :
            /\ groups[one].source = draft.groups[one].source
            /\ groups[one].named = draft.groups[one].named
            /\ groups[one].parent \in {parentId, draft.groups[one].parent}
    BY <1>1 DEF TaskGroupRows
<1>3. parentUid \in Tasks(draft) \cup {Null}
    BY NearestDerivedIsATask
<1> HIDE DEF parentUid
<1>4. source # Null =>
        /\ tasks \in [Tasks(draft) -> TaskRows]
        /\ \A uid \in Tasks(draft) :
              /\ tasks[uid].preds = draft.tasks[uid].preds
              /\ tasks[uid].parent \in {parentUid, draft.tasks[uid].parent}
    BY <1>1, <1>3 DEF TaskRows
<1>5. Takes(draft') /\ (draft' = moved \/ (source # Null /\ draft' = [moved EXCEPT !.tasks = tasks]))
  <2>1. \/ Takes(moved)
        \/ source # Null /\ Takes([moved EXCEPT !.tasks = tasks])
    <3>1. moved = [draft EXCEPT !.groups[id].parent = parentId]
        BY DEF IsSound, IsDocument
    <3>2. moved.tasks = draft.tasks
        BY DEF IsSound, IsDocument
    <3>3. [moved EXCEPT !.tasks = tasks] = [moved EXCEPT !.tasks[source].parent = parentUid]
        BY <3>2
    <3>4. source \in Tasks(draft) => source # Null
        BY <1>1, NullAssumption
    <3> QED BY <3>1, <3>3, <3>4 DEF MoveTaskGroup, parentUid
  <2> HIDE DEF moved, tasks, source
  <2> QED BY <2>1 DEF Takes, TakesWithRow
<1>6. /\ draft'.groups = groups
      /\ draft'.tasks = draft.tasks \/ (source # Null /\ draft'.tasks = tasks)
      /\ Tasks(draft') = Tasks(draft) /\ TaskGroups(draft') = TaskGroups(draft)
      /\ draft'.mark = draft.mark /\ draft'.members = draft.members
      /\ draft'.visuals = draft.visuals /\ draft'.origins = draft.origins
      /\ draft'.resources = draft.resources /\ draft'.assignments = draft.assignments
      /\ draft'.notes = draft.notes /\ draft'.boxes = draft.boxes
      /\ draft'.pinned = draft.pinned /\ draft'.shown = draft.shown
      /\ draft'.listed = draft.listed
  <2> HIDE DEF groups, tasks, source
  <2> QED BY <1>1, <1>2, <1>4, <1>5 DEF Tasks, TaskGroups, IsSound, IsDocument
<1>7. IsRecord(draft')
  <2>1. IsRecord(draft)
      BY DEF IsRecord, IsSound, IsDocument
  <2> HIDE DEF groups, tasks, source
  <2> QED BY <1>5, <2>1 DEF IsRecord
<1> HIDE DEF groups, tasks, source
<1>8. draft'.tasks \in [Tasks(draft) -> TaskRows]
    BY <1>1, <1>4, <1>6
<1>9. \A uid \in Tasks(draft) :
         /\ draft'.tasks[uid].preds = draft.tasks[uid].preds
         /\ draft'.tasks[uid].parent \in {parentUid, draft.tasks[uid].parent}
    BY <1>4, <1>6
<1>10. IsDocument(draft')
  <2>1. /\ draft'.mark \in Nat /\ draft'.tasks \in [Tasks(draft') -> TaskRows]
        /\ draft'.groups \in [TaskGroups(draft') -> TaskGroupRows]
        /\ draft'.notes \in [DOMAIN draft'.notes -> AnchorRows]
        /\ draft'.boxes \in [DOMAIN draft'.boxes -> [top : GroupIds, bottom : GroupIds]]
      BY <1>2, <1>6, <1>8 DEF IsSound, IsDocument
  <2>2. /\ draft'.members \subseteq Nat \X GroupIds
        /\ draft'.visuals \subseteq Nat /\ draft'.origins \subseteq Nat
        /\ draft'.resources \subseteq Nat /\ draft'.assignments \subseteq AssignmentRows
        /\ draft'.pinned \subseteq GroupIds /\ draft'.shown \subseteq Nat
        /\ draft'.listed \subseteq Nat
        /\ Tasks(draft') \subseteq 1 .. draft'.mark /\ TaskGroups(draft') \subseteq GroupIds
        /\ DOMAIN draft'.notes \subseteq NoteIds /\ DOMAIN draft'.boxes \subseteq BoxIds
      BY <1>6 DEF IsSound, IsDocument
  <2> QED BY <1>7, <2>1, <2>2, FieldsMakeADocument
<1>11. AllLand(draft')
  <2>1. \A uid \in Tasks(draft') :
          /\ draft'.tasks[uid].parent \in Tasks(draft') \cup {Null}
          /\ draft'.tasks[uid].preds \subseteq Tasks(draft')
      BY <1>3, <1>6, <1>9 DEF IsSound, AllLand
  <2>2. \A one \in TaskGroups(draft') :
          /\ draft'.groups[one].parent \in TaskGroups(draft') \cup {Null}
          /\ draft'.groups[one].source \in Tasks(draft') \cup StrayTasks \cup {Null}
      BY <1>2, <1>6 DEF IsSound, AllLand
  <2> QED BY <1>6, <2>1, <2>2 DEF IsSound, AllLand
<1>12. AllStandOnce(draft')
    BY <1>6 DEF IsSound, AllStandOnce, StandsOnce
<1>13. AllNamed(draft')
    BY <1>2, <1>6 DEF IsSound, AllNamed
<1>14. IsFiniteSet(draft'.assignments)
    BY <1>6 DEF IsSound
<1> QED BY <1>5, <1>6, <1>10, <1>11, <1>12, <1>13, <1>14 DEF SoundlyTakes, IsSound

(* The commands on task groups other than the deletion.                       *)
LEMMA EditTaskGroupKeepsSound ==
    ASSUME IsSound(draft), EditTaskGroup,
           ~ \E id \in TaskGroups(draft), newId \in GroupIds : DeleteTaskGroup(id, newId)
    PROVE  SoundlyTakes
<1>1. ASSUME NEW id \in GroupIds, NEW parentId \in TaskGroups(draft) \cup {Null},
             NEW named \in BOOLEAN, NEW source \in Tasks(draft) \cup {Null},
             CreateTaskGroup(id, parentId, named, source)
      PROVE  SoundlyTakes
  <2>1. Takes(draft') /\ draft' = [draft EXCEPT
              !.groups = With(@, id, [parent |-> parentId, named |-> named, source |-> source])]
      BY <1>1 DEF CreateTaskGroup, Takes, TakesWithRow
  <2>2. draft'.groups \in [TaskGroups(draft) \cup {id} -> TaskGroupRows]
      BY <1>1, <2>1 DEF IsSound, IsDocument, Tasks, TaskGroups, AllLand, TaskGroupRows, With
  <2>3. IsDocument(draft')
      BY <1>1, <2>1, <2>2 DEF IsSound, IsDocument, Tasks, TaskGroups
  <2>4. AllLand(draft')
      BY <1>1, <2>1 DEF IsSound, IsDocument, Tasks, TaskGroups, AllLand, TaskGroupRows, With
  <2>5. AllStandOnce(draft')
    <3>1. /\ Tasks(draft') = Tasks(draft) /\ draft'.visuals = draft.visuals
          /\ draft'.members = draft.members
          /\ TaskGroups(draft') = TaskGroups(draft) \cup {id}
        BY <2>1 DEF IsSound, IsDocument, Tasks, TaskGroups, With
    <3> QED BY <3>1 DEF IsSound, AllStandOnce, StandsOnce
  <2>6. AllNamed(draft')
      BY <1>1, <2>1 DEF IsSound, IsDocument, Tasks, TaskGroups, AllNamed, With, CreateTaskGroup
  <2>7. IsFiniteSet(draft'.assignments) /\ TaskGroups(draft) \subseteq TaskGroups(draft')
    <3>1. /\ draft'.assignments = draft.assignments
          /\ TaskGroups(draft') = TaskGroups(draft) \cup {id}
        BY <2>1 DEF IsSound, IsDocument, TaskGroups, With
    <3> QED BY <3>1 DEF IsSound
  <2> QED BY <2>1, <2>3, <2>4, <2>5, <2>6, <2>7 DEF SoundlyTakes, IsSound
<1>2. ASSUME NEW id \in TaskGroups(draft), NEW parentId \in TaskGroups(draft) \cup {Null},
             NEW idOf \in [Subtree(ParentGroups(draft), {id}) -> GroupIds],
             PasteTaskGroupSubtree(id, parentId, idOf)
      PROVE  SoundlyTakes
    BY <1>2, PasteTaskGroupSubtreeKeepsSound
<1>3. ASSUME NEW id \in TaskGroups(draft), NEW named \in BOOLEAN, SetTaskGroupName(id, named)
      PROVE  SoundlyTakes
  <2>1. Takes(draft') /\ draft' = [draft EXCEPT !.groups[id].named = named]
      BY <1>3 DEF SetTaskGroupName, Takes, TakesWithRow
  <2>2. draft'.groups \in [TaskGroups(draft) -> TaskGroupRows]
      BY <1>3, <2>1 DEF IsSound, IsDocument, Tasks, TaskGroups, AllLand, TaskGroupRows
  <2>3. IsDocument(draft')
      BY <1>3, <2>1, <2>2 DEF IsSound, IsDocument, Tasks, TaskGroups
  <2>4. AllLand(draft')
      BY <1>3, <2>1 DEF IsSound, IsDocument, Tasks, TaskGroups, AllLand, TaskGroupRows
  <2>5. AllStandOnce(draft')
      BY <1>3, <2>1 DEF IsSound, IsDocument, Tasks, TaskGroups, AllStandOnce, StandsOnce
  <2>6. AllNamed(draft')
      BY <1>3, <2>1 DEF IsSound, IsDocument, Tasks, TaskGroups, AllNamed, SetTaskGroupName
  <2>7. IsFiniteSet(draft'.assignments) /\ TaskGroups(draft) \subseteq TaskGroups(draft')
      BY <1>3, <2>1 DEF IsSound, IsDocument, Tasks, TaskGroups
  <2> QED BY <2>1, <2>3, <2>4, <2>5, <2>6, <2>7 DEF SoundlyTakes, IsSound
<1>4. ASSUME NEW id \in TaskGroups(draft), NEW parentId \in TaskGroups(draft) \cup {Null},
             MoveTaskGroup(id, parentId)
      PROVE  SoundlyTakes
    BY <1>4, MoveTaskGroupKeepsSound
<1> QED BY <1>1, <1>2, <1>3, <1>4 DEF EditTaskGroup

-----------------------------------------------------------------------------
(* A command taken keeps the invariant.                                       *)
LEMMA EditDocumentKeepsIInv ==
    ASSUME IInv, commands < MaxCommands, EditDocument
    PROVE  IInv'
<1>1. commands \in Nat /\ MaxCommands \in Nat
    BY BoundsAssumption DEF IInv
<1>2. CASE \E id \in TaskGroups(draft), newId \in GroupIds : DeleteTaskGroup(id, newId)
  <2>1. PICK id \in TaskGroups(draft), newId \in GroupIds : DeleteTaskGroup(id, newId)
      BY <1>2
  <2>2. IsSound(draft') /\ TakesWithRow(draft', newId)
      BY <2>1, DeleteTaskGroupKeepsSound DEF IInv
  <2>3. newId # Null
      BY NullAssumption
  <2> QED BY <1>1, <2>2, <2>3 DEF IInv, TakesWithRow, TaskGroups
<1>3. CASE ~ \E id \in TaskGroups(draft), newId \in GroupIds : DeleteTaskGroup(id, newId)
  <2>1. SoundlyTakes
      BY <1>3, EditTaskKeepsSound, EditTaskGroupKeepsSound, EditDependencyKeepsSound,
         EditResourceKeepsSound, EditAnnotationKeepsSound, EditDocumentSettingsKeepsSound
         DEF EditDocument, IInv
  <2>2. TaskGroups(draft') = {} => TaskGroups(draft) = {}
      BY <2>1 DEF SoundlyTakes
  <2> QED BY <1>1, <2>1, <2>2 DEF IInv, SoundlyTakes, Takes, TakesWithRow, TaskGroups
<1> QED BY <1>2, <1>3

(* The document a bundle left is sound when it has been given a task group.   *)
LEMMA HoldingOneTaskGroupIsSound ==
    ASSUME NEW d, IsSound(d), NEW id \in GroupIds \cup {Null}, TaskGroups(d) = {} => id # Null
    PROVE  /\ IsSound(DocumentHoldingOneTaskGroup(d, id))
           /\ TaskGroups(DocumentHoldingOneTaskGroup(d, id)) # {}
<1> DEFINE row == [parent |-> Null, named |-> TRUE, source |-> Null]
           e == [d EXCEPT !.groups = With(@, id, row)]
<1>1. CASE TaskGroups(d) # {}
    BY <1>1 DEF DocumentHoldingOneTaskGroup
<1>2. CASE TaskGroups(d) = {}
  <2>1. DocumentHoldingOneTaskGroup(d, id) = e /\ id \in GroupIds
      BY <1>2 DEF DocumentHoldingOneTaskGroup
  <2>2. With(d.groups, id, row) \in [{id} -> TaskGroupRows] /\ With(d.groups, id, row)[id] = row
      BY <1>2, <2>1 DEF With, TaskGroups, TaskGroupRows
  <2>3. /\ TaskGroups(e) = {id} /\ Tasks(e) = Tasks(d) /\ e.tasks = d.tasks
        /\ e.groups = With(d.groups, id, row) /\ e.mark = d.mark
        /\ e.members = d.members /\ e.visuals = d.visuals /\ e.origins = d.origins
        /\ e.resources = d.resources /\ e.assignments = d.assignments /\ e.notes = d.notes
        /\ e.boxes = d.boxes /\ e.pinned = d.pinned /\ e.shown = d.shown /\ e.listed = d.listed
    <3> HIDE DEF row
    <3> QED BY <2>2 DEF TaskGroups, Tasks, IsSound, IsDocument
  <2>4. IsDocument(e)
    <3> HIDE DEF row
    <3> QED BY <2>1, <2>2 DEF IsSound, IsDocument, Tasks, TaskGroups
  <2> HIDE DEF e
  <2>5. AllLand(e)
      BY <1>2, <2>2, <2>3 DEF IsSound, AllLand
  <2>6. AllStandOnce(e)
      BY <1>2, <2>3 DEF IsSound, AllStandOnce, StandsOnce
  <2>7. AllNamed(e)
      BY <2>2, <2>3 DEF AllNamed
  <2>8. IsFiniteSet(e.assignments)
      BY <2>3 DEF IsSound
  <2> QED BY <2>1, <2>3, <2>4, <2>5, <2>6, <2>7, <2>8 DEF IsSound
<1> QED BY <1>1, <1>2

(* A document a write finds keeps the invariant.                              *)
LEMMA InitKeepsIInv == Init => IInv
<1> SUFFICES ASSUME Init PROVE IInv
    OBVIOUS
<1>1. document \in Openings /\ draft = document
    BY DEF Init
<1>2. IsSound(document) /\ TaskGroups(document) # {}
    BY <1>1, OpeningsAssumption
<1>3. freshRowId \in GroupIds \cup {Null} /\ inBundle \in BOOLEAN
    BY DEF Init
<1>4. commands \in 0 .. MaxCommands
  <2>1. MaxCommands \in Nat
      BY BoundsAssumption
  <2> QED BY <2>1 DEF Init
<1> QED BY <1>1, <1>2, <1>3, <1>4 DEF IInv

(* So does each step.                                                         *)
LEMMA StepKeepsIInv == IInv /\ [Next]_vars => IInv'
<1> SUFFICES ASSUME IInv, [Next]_vars PROVE IInv'
    OBVIOUS
<1>1. CASE commands < MaxCommands /\ EditDocument
    BY <1>1, EditDocumentKeepsIInv
<1>2. CASE PlanDocumentChange
  <2> DEFINE settled == DocumentHoldingOneTaskGroup(draft, freshRowId)
  <2>1. IsSound(settled) /\ TaskGroups(settled) # {}
      BY HoldingOneTaskGroupIsSound DEF IInv
  <2>2. /\ document' = settled /\ draft' = settled /\ freshRowId' = Null /\ inBundle' = FALSE
        /\ commands' = commands
      BY <1>2 DEF PlanDocumentChange
  <2> HIDE DEF settled
  <2> QED BY <2>1, <2>2 DEF IInv, TaskGroups
<1>3. CASE RefuseDocumentChange
    BY <1>3 DEF RefuseDocumentChange, IInv, TaskGroups
<1>4. CASE UNCHANGED vars
    BY <1>4 DEF vars, IInv, TaskGroups
<1> QED BY <1>1, <1>2, <1>3, <1>4 DEF Next

LEMMA SpecKeepsIInv == Spec => []IInv
BY InitKeepsIInv, StepKeepsIInv, PTL DEF Spec

(* The two documents, the minted id and the bundle keep their types, so that  *)
(* no command of EditDocument mints a uid at or below an earlier task's, and  *)
(* each task stands once (rows IV-6 and IV-23).                               *)
THEOREM TypeCorrect == Spec => []TypeOK
<1>1. IInv => TypeOK
    BY DEF IInv, TypeOK, IsSound, TasksStandOnce
<1> QED BY <1>1, SpecKeepsIInv, PTL

(* Rows IV-2 and IV-3 of T-220 and CD-1: whatever the commands of a bundle    *)
(* are, each column of the document names what is there.                      *)
THEOREM ReferencesAlwaysLand == Spec => []ReferencesLand
<1>1. IInv => ReferencesLand
    BY DEF IInv, ReferencesLand, IsSound
<1> QED BY <1>1, SpecKeepsIInv, PTL

(* Rows IV-8 and IV-20: a task group always has a name or a task to take it   *)
(* from, and the held document a task group.                                  *)
THEOREM TaskGroupsAreAlwaysNamed == Spec => []TaskGroupsAreNamed
<1>1. IInv => TaskGroupsAreNamed
    BY DEF IInv, TaskGroupsAreNamed, IsSound
<1> QED BY <1>1, SpecKeepsIInv, PTL

-----------------------------------------------------------------------------
(* A set of rows from which nothing hangs is its own subtree.                 *)
LEMMA SubtreeOfClosed ==
    ASSUME NEW parent, NEW rows \in SUBSET DOMAIN parent, Closed(parent, rows)
    PROVE  Subtree(parent, rows) = rows
<1>1. Subtree(parent, rows) \subseteq rows
    BY DEF Subtree, Closed
<1>2. rows \cap DOMAIN parent \subseteq Subtree(parent, rows)
    BY SubtreeIsClosed
<1> QED BY <1>1, <1>2

(* No command but the two deletions takes a task away.                        *)
LEMMA OtherCommandsKeepTasks ==
    ASSUME IsSound(draft), EditDocument,
           ~ \E uid \in 1 .. draft.mark : DeleteTask(uid),
           ~ \E id \in TaskGroups(draft), newId \in GroupIds : DeleteTaskGroup(id, newId)
    PROVE  Tasks(draft) \subseteq Tasks(draft')
<1> USE DEF IsSound, IsDocument, Tasks, Takes, TakesWithRow
<1>1. CASE EditTask
  <2>1. ASSUME NEW id \in GroupIds, CreateTask(id) PROVE Tasks(draft) \subseteq Tasks(draft')
      BY <2>1 DEF CreateTask, With
  <2>2. ASSUME NEW sources \in SUBSET Tasks(draft),
               NEW landingOf \in [sources -> TaskGroups(draft)], PasteTasks(sources, landingOf)
        PROVE  Tasks(draft) \subseteq Tasks(draft')
      BY <2>2 DEF PasteTasks, WithCopies
  <2>3. ASSUME NEW uid \in Tasks(draft), NEW parentUid \in Tasks(draft) \cup {Null},
               SetTaskParentTask(uid, parentUid)
        PROVE  Tasks(draft) \subseteq Tasks(draft')
      BY <2>3 DEF SetTaskParentTask
  <2>4. ASSUME NEW uid \in Tasks(draft), NEW id \in TaskGroups(draft),
               MoveTaskToTaskGroup(uid, id)
        PROVE  Tasks(draft) \subseteq Tasks(draft')
      BY <2>4 DEF MoveTaskToTaskGroup
  <2> QED BY <1>1, <2>1, <2>2, <2>3, <2>4 DEF EditTask
<1>2. CASE EditTaskGroup
  <2>1. ASSUME NEW id, NEW parentId, NEW named, NEW source,
               CreateTaskGroup(id, parentId, named, source)
        PROVE  Tasks(draft) \subseteq Tasks(draft')
      BY <2>1 DEF CreateTaskGroup
  <2>2. ASSUME NEW id, NEW parentId, NEW idOf, PasteTaskGroupSubtree(id, parentId, idOf)
        PROVE  Tasks(draft) \subseteq Tasks(draft')
      BY <2>2 DEF PasteTaskGroupSubtree, WithCopies
  <2>3. ASSUME NEW id, NEW named, SetTaskGroupName(id, named)
        PROVE  Tasks(draft) \subseteq Tasks(draft')
      BY <2>3 DEF SetTaskGroupName
  <2>4. ASSUME NEW id, NEW parentId, MoveTaskGroup(id, parentId)
        PROVE  Tasks(draft) \subseteq Tasks(draft')
      BY <2>4 DEF MoveTaskGroup
  <2> QED BY <1>2, <2>1, <2>2, <2>3, <2>4 DEF EditTaskGroup
<1>3. CASE EditDependency
    BY <1>3 DEF EditDependency, CreateDependency, DeleteDependency
<1>4. CASE EditResource
    BY <1>4 DEF EditResource, CreateResource, DeleteResources, DeleteUnreferencedResources,
                CreateAssignment, DeleteAssignment, TableViewsKeptIn
<1>5. CASE EditAnnotation
    BY <1>5 DEF EditAnnotation, CreateCommentBox, SetCommentBoxAnchor, DeleteCommentBox,
                CreateHighlightBox, SetHighlightBoxRange, DeleteHighlightBox
<1>6. CASE EditDocumentSettings
    BY <1>6 DEF EditDocumentSettings, PinTaskGroup, UnpinTaskGroup, SetTableView
<1> QED BY <1>1, <1>2, <1>3, <1>4, <1>5, <1>6 DEF EditDocument

(* What a command takes away is closed under what hangs below it, and is the  *)
(* subtree of the tasks on the task groups that go.                           *)
GoesAlong ==
    LET gone == Tasks(draft) \ Tasks(draft')
        goneGroups == TaskGroups(draft) \ TaskGroups(draft')
    IN /\ Subtree(ParentTasks(draft), gone) = gone
       /\ goneGroups # {} =>
            gone = Subtree(ParentTasks(draft),
                      {uid \in Tasks(draft) :
                          \E id \in goneGroups : <<uid, id>> \in draft.members})

LEMMA DeletedTaskGoesAlong ==
    ASSUME IsSound(draft), NEW uid, DeleteTask(uid)
    PROVE  GoesAlong
<1> DEFINE parent == ParentTasks(draft)
           doomed == Subtree(parent, {uid})
<1>1. DOMAIN parent = Tasks(draft)
    BY DEF ParentTasks
<1> HIDE DEF parent
<1>2. doomed \in SUBSET Tasks(draft) /\ Closed(parent, doomed)
    BY <1>1, SubtreeIsClosed
<1>3. Tasks(draft') = Tasks(draft) \ doomed /\ TaskGroups(draft') = TaskGroups(draft)
    BY DEF DeleteTask, Takes, TakesWithRow, WithoutTasks, RowsWithoutTasks, TableViewsKeptIn,
           Tasks, TaskGroups, IsSound, IsDocument, parent
<1> HIDE DEF doomed
<1>4. Tasks(draft) \ Tasks(draft') = doomed
    BY <1>2, <1>3
<1>5. Subtree(parent, doomed) = doomed
    BY <1>1, <1>2, SubtreeOfClosed
<1> QED BY <1>3, <1>4, <1>5 DEF GoesAlong, parent

LEMMA DeletedTaskGroupGoesAlong ==
    ASSUME IsSound(draft), NEW id, NEW newId, DeleteTaskGroup(id, newId)
    PROVE  GoesAlong
<1> DEFINE parent == ParentTasks(draft)
           doomedGroups == Subtree(ParentGroups(draft), {id})
           seeds == {uid \in Tasks(draft) :
                       \E one \in draft.members : one[1] = uid /\ one[2] \in doomedGroups}
           doomed == Subtree(parent, seeds)
<1>1. DOMAIN parent = Tasks(draft) /\ DOMAIN ParentGroups(draft) = TaskGroups(draft)
    BY DEF ParentTasks, ParentGroups
<1>2. draft' = WithoutTaskGroups(draft, doomedGroups, doomed)
    BY DEF DeleteTaskGroup, TakesWithRow
<1>3. doomedGroups \in SUBSET TaskGroups(draft)
    BY <1>1, SubtreeIsClosed
<1>4. seeds = {uid \in Tasks(draft) : \E group \in doomedGroups : <<uid, group>> \in draft.members}
  <2>1. \A one \in draft.members : one = <<one[1], one[2]>>
      BY DEF IsSound, IsDocument
  <2> HIDE DEF doomedGroups
  <2>2. ASSUME NEW uid \in Tasks(draft)
        PROVE  (\E one \in draft.members : one[1] = uid /\ one[2] \in doomedGroups)
                 <=> \E group \in doomedGroups : <<uid, group>> \in draft.members
    <3>1. ASSUME NEW one \in draft.members, one[1] = uid, one[2] \in doomedGroups
          PROVE  \E group \in doomedGroups : <<uid, group>> \in draft.members
      <4>1. one = <<uid, one[2]>>
          BY <2>1, <3>1
      <4> QED BY <3>1, <4>1
    <3>2. ASSUME NEW group \in doomedGroups, <<uid, group>> \in draft.members
          PROVE  \E one \in draft.members : one[1] = uid /\ one[2] \in doomedGroups
        BY <3>2
    <3> QED BY <3>1, <3>2
  <2> QED BY <2>2
<1> HIDE DEF doomedGroups, seeds, parent
<1>5. doomed \in SUBSET Tasks(draft) /\ Closed(parent, doomed)
    BY <1>1, SubtreeIsClosed
<1> HIDE DEF doomed
<1>6. Tasks(draft') = Tasks(draft) \ doomed /\ TaskGroups(draft') = TaskGroups(draft) \ doomedGroups
    BY <1>2 DEF WithoutTaskGroups, WithoutTasks, RowsWithoutTasks, TableViewsKeptIn, Except,
                Tasks, TaskGroups, IsSound, IsDocument
<1>7. Tasks(draft) \ Tasks(draft') = doomed /\ TaskGroups(draft) \ TaskGroups(draft') = doomedGroups
    BY <1>3, <1>5, <1>6
<1>8. Subtree(parent, doomed) = doomed
    BY <1>1, <1>5, SubtreeOfClosed
<1> QED BY <1>4, <1>7, <1>8 DEF GoesAlong, doomed, parent

(* CD-1: a task that goes takes along all that hangs below it in the WBS, and *)
(* with a task group go its tasks and theirs, and no other task.              *)
THEOREM DescendantsAlwaysGoAlong == Spec => DescendantsGoAlong
<1>1. ASSUME IInv, [Next]_vars, inBundle', vars' # vars PROVE GoesAlong
  <2>1. IsSound(draft) /\ EditDocument
      BY <1>1 DEF IInv, Next, PlanDocumentChange, RefuseDocumentChange
  <2>2. CASE \E uid \in 1 .. draft.mark : DeleteTask(uid)
      BY <2>1, <2>2, DeletedTaskGoesAlong
  <2>3. CASE \E id \in TaskGroups(draft), newId \in GroupIds : DeleteTaskGroup(id, newId)
      BY <2>1, <2>3, DeletedTaskGroupGoesAlong
  <2>4. CASE /\ ~ \E uid \in 1 .. draft.mark : DeleteTask(uid)
             /\ ~ \E id \in TaskGroups(draft), newId \in GroupIds : DeleteTaskGroup(id, newId)
    <3>1. Tasks(draft) \subseteq Tasks(draft')
        BY <2>1, <2>4, OtherCommandsKeepTasks
    <3>2. TaskGroups(draft) \subseteq TaskGroups(draft')
      <4>1. SoundlyTakes
          BY <2>1, <2>4, EditTaskKeepsSound, EditTaskGroupKeepsSound, EditDependencyKeepsSound,
             EditResourceKeepsSound, EditAnnotationKeepsSound, EditDocumentSettingsKeepsSound
             DEF EditDocument
      <4> QED BY <4>1 DEF SoundlyTakes
    <3>3. Subtree(ParentTasks(draft), {}) = {}
        BY SubtreeOfClosed DEF Closed
    <3>4. Tasks(draft) \ Tasks(draft') = {} /\ TaskGroups(draft) \ TaskGroups(draft') = {}
        BY <3>1, <3>2
    <3> QED BY <3>3, <3>4 DEF GoesAlong
  <2> QED BY <2>2, <2>3, <2>4
<1>2. IInv /\ [Next]_vars
        => [LET gone == Tasks(draft) \ Tasks(draft')
                goneGroups == TaskGroups(draft) \ TaskGroups(draft')
            IN inBundle' =>
                 /\ Subtree(ParentTasks(draft), gone) = gone
                 /\ goneGroups # {} =>
                      gone = Subtree(ParentTasks(draft),
                                {uid \in Tasks(draft) :
                                    \E id \in goneGroups : <<uid, id>> \in draft.members})]_vars
    BY <1>1 DEF GoesAlong
<1> QED BY <1>2, SpecKeepsIInv, PTL DEF Spec, DescendantsGoAlong

-----------------------------------------------------------------------------
(* No command but two deletions takes a highlight box away.                   *)
LEMMA OtherCommandsKeepBoxes ==
    ASSUME IsSound(draft), EditDocument,
           ~ \E id \in DOMAIN draft.boxes : DeleteHighlightBox(id),
           ~ \E id \in TaskGroups(draft), newId \in GroupIds : DeleteTaskGroup(id, newId)
    PROVE  DOMAIN draft.boxes \subseteq DOMAIN draft'.boxes
<1> USE DEF IsSound, IsDocument, Takes, TakesWithRow
<1>1. CASE EditTask
  <2>1. ASSUME NEW id, CreateTask(id) PROVE draft'.boxes = draft.boxes
      BY <2>1 DEF CreateTask
  <2>2. ASSUME NEW uid, DeleteTask(uid) PROVE draft'.boxes = draft.boxes
      BY <2>2 DEF DeleteTask, WithoutTasks, RowsWithoutTasks, TableViewsKeptIn
  <2>3. ASSUME NEW sources, NEW landingOf, PasteTasks(sources, landingOf)
        PROVE  draft'.boxes = draft.boxes
      BY <2>3 DEF PasteTasks, WithCopies
  <2>4. ASSUME NEW uid, NEW other, SetTaskParentTask(uid, other) \/ MoveTaskToTaskGroup(uid, other)
        PROVE  draft'.boxes = draft.boxes
      BY <2>4 DEF SetTaskParentTask, MoveTaskToTaskGroup
  <2> QED BY <1>1, <2>1, <2>2, <2>3, <2>4 DEF EditTask
<1>2. CASE EditTaskGroup
  <2>1. ASSUME NEW id, NEW parentId, NEW named, NEW source,
               CreateTaskGroup(id, parentId, named, source)
        PROVE  DOMAIN draft.boxes \subseteq DOMAIN draft'.boxes
      BY <2>1 DEF CreateTaskGroup
  <2>2. ASSUME NEW id, NEW parentId, NEW idOf, PasteTaskGroupSubtree(id, parentId, idOf)
        PROVE  DOMAIN draft.boxes \subseteq DOMAIN draft'.boxes
      BY <2>2 DEF PasteTaskGroupSubtree, WithCopies
  <2>3. ASSUME NEW id, NEW named, SetTaskGroupName(id, named)
        PROVE  DOMAIN draft.boxes \subseteq DOMAIN draft'.boxes
      BY <2>3 DEF SetTaskGroupName
  <2>4. ASSUME NEW id, NEW parentId, MoveTaskGroup(id, parentId)
        PROVE  DOMAIN draft.boxes \subseteq DOMAIN draft'.boxes
      BY <2>4 DEF MoveTaskGroup
  <2> QED BY <1>2, <2>1, <2>2, <2>3, <2>4 DEF EditTaskGroup
<1>3. CASE EditDependency
    BY <1>3 DEF EditDependency, CreateDependency, DeleteDependency
<1>4. CASE EditResource
  <2>1. ASSUME CreateResource \/ DeleteUnreferencedResources \/ \E uids : DeleteResources(uids)
        PROVE  draft'.boxes = draft.boxes
      BY <2>1 DEF CreateResource, DeleteUnreferencedResources, DeleteResources, TableViewsKeptIn
  <2>2. ASSUME NEW uid, NEW resourceUid,
               CreateAssignment(uid, resourceUid) \/ DeleteAssignment(uid, resourceUid)
        PROVE  draft'.boxes = draft.boxes
      BY <2>2 DEF CreateAssignment, DeleteAssignment
  <2> QED BY <1>4, <2>1, <2>2 DEF EditResource
<1>5. CASE EditAnnotation
  <2>1. ASSUME NEW id, NEW anchor,
               CreateCommentBox(id, anchor) \/ SetCommentBoxAnchor(id, anchor) \/ DeleteCommentBox(id)
        PROVE  DOMAIN draft.boxes \subseteq DOMAIN draft'.boxes
      BY <2>1 DEF CreateCommentBox, SetCommentBoxAnchor, DeleteCommentBox
  <2>2. ASSUME NEW id, NEW top, NEW bottom, CreateHighlightBox(id, top, bottom)
        PROVE  DOMAIN draft.boxes \subseteq DOMAIN draft'.boxes
    <3>1. draft'.boxes = With(draft.boxes, id, [top |-> top, bottom |-> bottom])
        BY <2>2 DEF CreateHighlightBox
    <3> QED BY <3>1 DEF With
  <2>3. ASSUME NEW id, NEW top, NEW bottom, SetHighlightBoxRange(id, top, bottom)
        PROVE  DOMAIN draft.boxes \subseteq DOMAIN draft'.boxes
      BY <2>3 DEF SetHighlightBoxRange
  <2> QED BY <1>5, <2>1, <2>2, <2>3 DEF EditAnnotation
<1>6. CASE EditDocumentSettings
    BY <1>6 DEF EditDocumentSettings, PinTaskGroup, UnpinTaskGroup, SetTableView
<1> QED BY <1>1, <1>2, <1>3, <1>4, <1>5, <1>6 DEF EditDocument

(* What a note becomes when the task or the highlight box it is snapped to    *)
(* goes while its band stays.                                                 *)
IsReleased(id) ==
    /\ id \in DOMAIN draft'.notes
    /\ draft'.notes[id].task = Null /\ draft'.notes[id].box = Null

LosesItsTarget(id) ==
    \/ draft.notes[id].task # Null /\ draft.notes[id].task \notin Tasks(draft')
    \/ draft.notes[id].box # Null /\ draft.notes[id].box \notin DOMAIN draft'.boxes

LEMMA DeletedTaskReleasesTips ==
    ASSUME IsSound(draft), NEW uid, DeleteTask(uid), NEW id \in DOMAIN draft.notes,
           LosesItsTarget(id)
    PROVE  IsReleased(id)
<1> DEFINE doomed == Subtree(ParentTasks(draft), {uid})
<1> HIDE DEF doomed
<1>1. draft' = WithoutTasks(draft, doomed)
    BY DEF DeleteTask, Takes, TakesWithRow, doomed
<1>2. /\ draft'.notes = CommentBoxesReleasedFrom(draft, doomed, {}, TaskGroups(draft))
      /\ Tasks(draft') = Tasks(draft) \ doomed
      /\ draft'.boxes = draft.boxes
    BY <1>1 DEF WithoutTasks, RowsWithoutTasks, TableViewsKeptIn, Tasks, IsSound, IsDocument
<1>3. /\ draft.notes[id].task \in Tasks(draft) \cup {Null}
      /\ draft.notes[id].box \in DOMAIN draft.boxes \cup {Null}
    BY DEF IsSound, AllLand
<1>4. draft.notes[id].task \in doomed
    BY <1>2, <1>3 DEF LosesItsTarget
<1> QED BY <1>2, <1>4 DEF CommentBoxesReleasedFrom, ReleasedAnchorOf, IsReleased

LEMMA DeletedBoxReleasesTips ==
    ASSUME IsSound(draft), NEW box, DeleteHighlightBox(box), NEW id \in DOMAIN draft.notes,
           LosesItsTarget(id)
    PROVE  IsReleased(id)
<1>1. /\ draft'.notes = CommentBoxesReleasedFrom(draft, {}, {box}, TaskGroups(draft))
      /\ Tasks(draft') = Tasks(draft)
      /\ DOMAIN draft'.boxes = DOMAIN draft.boxes \ {box}
    BY DEF DeleteHighlightBox, Takes, TakesWithRow, Except, Tasks, IsSound, IsDocument
<1>2. /\ draft.notes[id].task \in Tasks(draft) \cup {Null}
      /\ draft.notes[id].box \in DOMAIN draft.boxes \cup {Null}
    BY DEF IsSound, AllLand
<1>3. draft.notes[id].box = box
    BY <1>1, <1>2 DEF LosesItsTarget
<1> QED BY <1>1, <1>3 DEF CommentBoxesReleasedFrom, ReleasedAnchorOf, IsReleased

(* A deleted task group is gone itself.                                       *)
LEMMA DeletedTaskGroupIsGone ==
    ASSUME IsSound(draft), NEW id \in TaskGroups(draft), NEW newId, DeleteTaskGroup(id, newId)
    PROVE  id \notin TaskGroups(draft')
<1> DEFINE doomedGroups == Subtree(ParentGroups(draft), {id})
<1>1. id \in doomedGroups
    BY SubtreeIsClosed DEF ParentGroups
<1> HIDE DEF doomedGroups
<1>2. PICK doomed : draft' = WithoutTaskGroups(draft, doomedGroups, doomed)
    BY DEF DeleteTaskGroup, TakesWithRow, doomedGroups
<1>3. TaskGroups(draft') = TaskGroups(draft) \ doomedGroups
    BY <1>2 DEF WithoutTaskGroups, WithoutTasks, RowsWithoutTasks, TableViewsKeptIn, Except,
                Tasks, TaskGroups, IsSound, IsDocument
<1> QED BY <1>1, <1>3

(* FR-019: no comment box is lost, or left snapped to what is gone, because   *)
(* its task or its highlight box was deleted.                                 *)
THEOREM TipsAreAlwaysReleased == Spec => TipsAreReleased
<1>1. ASSUME IInv, [Next]_vars, inBundle', NEW id \in DOMAIN draft.notes, LosesItsTarget(id),
             TaskGroups(draft) \subseteq TaskGroups(draft')
      PROVE  IsReleased(id)
  <2>1. IsSound(draft)
      BY <1>1 DEF IInv
  <2>2. /\ draft.notes[id].task \in Tasks(draft) \cup {Null}
        /\ draft.notes[id].box \in DOMAIN draft.boxes \cup {Null}
      BY <2>1 DEF IsSound, AllLand
  <2>3. draft' # draft
      BY <1>1, <2>2 DEF LosesItsTarget
  <2>4. EditDocument
      BY <1>1, <2>3 DEF Next, PlanDocumentChange, RefuseDocumentChange, vars
  <2>5. ~ \E one \in TaskGroups(draft), newId \in GroupIds : DeleteTaskGroup(one, newId)
      BY <1>1, <2>1, DeletedTaskGroupIsGone
  <2>6. CASE \E uid \in 1 .. draft.mark : DeleteTask(uid)
      BY <1>1, <2>1, <2>6, DeletedTaskReleasesTips
  <2>7. CASE \E box \in DOMAIN draft.boxes : DeleteHighlightBox(box)
      BY <1>1, <2>1, <2>7, DeletedBoxReleasesTips
  <2>8. CASE /\ ~ \E uid \in 1 .. draft.mark : DeleteTask(uid)
             /\ ~ \E box \in DOMAIN draft.boxes : DeleteHighlightBox(box)
    <3>1. Tasks(draft) \subseteq Tasks(draft') /\ DOMAIN draft.boxes \subseteq DOMAIN draft'.boxes
        BY <2>1, <2>4, <2>5, <2>8, OtherCommandsKeepTasks, OtherCommandsKeepBoxes
    <3> QED BY <1>1, <2>2, <3>1 DEF LosesItsTarget
  <2> QED BY <2>6, <2>7, <2>8
<1>2. IInv /\ [Next]_vars
        => [\A id \in DOMAIN draft.notes :
              LET note == draft.notes[id]
              IN (/\ inBundle'
                  /\ \/ note.task # Null /\ note.task \notin Tasks(draft')
                     \/ note.box # Null /\ note.box \notin DOMAIN draft'.boxes
                  /\ TaskGroups(draft) \subseteq TaskGroups(draft'))
                 => /\ id \in DOMAIN draft'.notes
                    /\ draft'.notes[id].task = Null /\ draft'.notes[id].box = Null]_vars
    BY <1>1 DEF IsReleased, LosesItsTarget
<1> QED BY <1>2, SpecKeepsIInv, PTL DEF Spec, TipsAreReleased
=============================================================================
