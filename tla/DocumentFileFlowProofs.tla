----------------------- MODULE DocumentFileFlowProofs -----------------------
(* What holds of DocumentFileFlow for every set of files, every bound and     *)
(* every choice of happenings, but for the ones a theorem names as excluded.  *)
EXTENDS DocumentFileFlow, TLAPS

(* The values that the actions assign are of their types. *)
LEMMA ValueTypes ==
    /\ NotAsked \in Confirmations
    /\ Asked("QN-4", "nothing") \in Confirmations
    /\ NoReading \in Readings /\ NoWriting \in Writings /\ StoreFree \in Stores
BY DEF NotAsked, Asked, NoReading, NoWriting, StoreFree, Confirmations, Readings, Writings,
       Stores, StoreOwners, OwedActions, OpenRoutes, OpenChoices, WriteForms, Documents, FilesOrNone,
       Original

(* What an edit makes, and what a move of the view copies. *)
LEMMA DocumentTypes ==
    /\ \A n \in Nat : /\ Original(n) \in Documents
                       /\ Original(n).edit = n /\ Original(n).copy = n
    /\ \A d \in Documents, n \in Nat :
           /\ [d EXCEPT !.copy = n] \in Documents
           /\ [d EXCEPT !.copy = n].edit = d.edit /\ [d EXCEPT !.copy = n].copy = n
    /\ \A d \in Documents : d.edit \in Nat /\ d.copy \in Nat
BY DEF Documents, Original

(* A group of variables left alone keeps its type. *)
LEMMA KeptTypes ==
    /\ SessionTypeOK /\ UNCHANGED sessionVars => SessionTypeOK'
    /\ HeldTypeOK /\ UNCHANGED heldVars => HeldTypeOK'
    /\ RoadTypeOK /\ UNCHANGED roadVars => RoadTypeOK'
    /\ StoreTypeOK /\ UNCHANGED storeVars => StoreTypeOK'
    /\ GhostTypeOK /\ UNCHANGED ghostVars => GhostTypeOK'
BY DEF SessionTypeOK, HeldTypeOK, RoadTypeOK, StoreTypeOK, GhostTypeOK,
       sessionVars, heldVars, roadVars, storeVars, ghostVars

(* What was read is held for the answer, in whichever state the machine goes to. *)
LEMMA ReadingAsked ==
    ASSUME RoadTypeOK, NEW read \in Readings, DocumentFileRead(read),
           UNCHANGED <<writing, settleOverwrite, openedFileBy>>
    PROVE  RoadTypeOK'
<1>1. reading' \in Readings
  BY ZenonT(60) DEF DocumentFileRead, DiscardAskedWhenUnsaved, Readings, OpenChoices
<1>2. settleIncoming' \in SUBSET {"openChoice", "mergeMapping"}
  BY DEF DocumentFileRead, DiscardAskedWhenUnsaved, RoadTypeOK
<1> QED
  BY <1>1, <1>2 DEF RoadTypeOK

(* An open road begins with a reading of its type. *)
LEMMA ReadingBegun ==
    ASSUME StoreTypeOK, NEW route \in OpenRoutes, BeginReading(route)
    PROVE  reading' \in Readings
<1>1. NoReading \in Readings /\ openedHandle \in FilesOrNone
  BY ValueTypes DEF StoreTypeOK
<1>2. \/ reading' = [NoReading EXCEPT !.at = "state", !.route = route, !.from = openedHandle]
      \/ reading' = [NoReading EXCEPT !.at = "store", !.route = route]
  BY DEF BeginReading
<1> QED
  BY <1>1, <1>2 DEF Readings

LEMMA TypeInitially == Init => TypeOK
<1> SUFFICES ASSUME Init PROVE TypeOK
  OBVIOUS
<1>1. SessionTypeOK
  BY ValueTypes DEF Init, SessionTypeOK, OperationKinds, FilesOrNone
<1>2. HeldTypeOK
  BY DocumentTypes DEF Init, HeldTypeOK
<1>3. RoadTypeOK
  BY ValueTypes DEF Init, RoadTypeOK
<1>4. StoreTypeOK
  BY ValueTypes, DocumentTypes DEF Init, StoreTypeOK, FilesOrNone, Contents
<1>5. GhostTypeOK
  BY DocumentTypes DEF Init, GhostTypeOK
<1> QED
  BY <1>1, <1>2, <1>3, <1>4, <1>5 DEF TypeOK

LEMMA TypeStep == TypeOK /\ [Next]_vars => TypeOK'
<1> SUFFICES ASSUME TypeOK, [Next]_vars PROVE TypeOK'
  OBVIOUS
<1> USE DEF TypeOK
<1>1. CASE HandBegins
  <2>1. HeldTypeOK'
    BY <1>1, ValueTypes, DocumentTypes, FilesAssumption DEF HandBegins, HeldTypeOK, heldVars
  <2>2. SessionTypeOK' /\ RoadTypeOK' /\ StoreTypeOK' /\ GhostTypeOK'
    BY <1>1, KeptTypes DEF HandBegins
  <2> QED
    BY <2>1, <2>2
<1>2. CASE HandEnds
  <2>1. HeldTypeOK'
    BY <1>2, ValueTypes, DocumentTypes, FilesAssumption DEF HandEnds, HeldTypeOK, heldVars
  <2>2. SessionTypeOK' /\ RoadTypeOK' /\ StoreTypeOK' /\ GhostTypeOK'
    BY <1>2, KeptTypes DEF HandEnds
  <2> QED
    BY <2>1, <2>2
<1>3. CASE WriteDocument
  <2>1. SessionTypeOK'
    BY <1>3, ValueTypes, FilesAssumption DEF WriteDocument, DocumentWritten,
       HeldDocumentFollowed, HistoryGrows, SessionTypeOK, EditLands
  <2>2. HeldTypeOK'
    BY <1>3, ValueTypes, DocumentTypes, FilesAssumption DEF WriteDocument, DocumentWritten,
       HeldDocumentFollowed, HistoryGrows, HeldTypeOK
  <2>3. RoadTypeOK' /\ StoreTypeOK' /\ GhostTypeOK'
    BY <1>3, KeptTypes DEF WriteDocument, DocumentWritten, HeldDocumentFollowed,
       HistoryGrows
  <2> QED
    BY <2>1, <2>2, <2>3
<1>4. CASE UndoEdit
  <2>1. SessionTypeOK'
    BY <1>4, ValueTypes, FilesAssumption DEF UndoEdit, SessionTypeOK, EditLands
  <2>2. HeldTypeOK'
    BY <1>4, ValueTypes, DocumentTypes, FilesAssumption DEF UndoEdit, Restored, ViewCopied, HeldTypeOK
  <2>3. RoadTypeOK' /\ StoreTypeOK' /\ GhostTypeOK'
    BY <1>4, KeptTypes DEF UndoEdit
  <2> QED
    BY <2>1, <2>2, <2>3
<1>5. CASE RedoEdit
  <2>1. SessionTypeOK'
    BY <1>5, ValueTypes, FilesAssumption DEF RedoEdit, SessionTypeOK, EditLands
  <2>2. HeldTypeOK'
    BY <1>5, ValueTypes, DocumentTypes, FilesAssumption DEF RedoEdit, Restored, ViewCopied, HeldTypeOK
  <2>3. RoadTypeOK' /\ StoreTypeOK' /\ GhostTypeOK'
    BY <1>5, KeptTypes DEF RedoEdit
  <2> QED
    BY <2>1, <2>2, <2>3
<1>28. CASE MoveView
  <2>1. SessionTypeOK'
    BY <1>28, ValueTypes DEF MoveView, SessionTypeOK, EditLands
  <2>2. HeldTypeOK'
    BY <1>28, DocumentTypes DEF MoveView, ViewCopied, HeldTypeOK
  <2>3. RoadTypeOK' /\ StoreTypeOK' /\ GhostTypeOK'
    BY <1>28, KeptTypes DEF MoveView
  <2> QED
    BY <2>1, <2>2, <2>3
<1>6. CASE PressNewDocument
  <2>1. SessionTypeOK'
    BY <1>6, ValueTypes, FilesAssumption DEF PressNewDocument, StartNewDocument,
       SessionTypeOK, Confirmations, OwedActions, Asked, FilesOrNone
  <2>2. HeldTypeOK'
    <3>1. CASE HasUnsavedEdits
      BY <1>6, <3>1, KeptTypes DEF PressNewDocument
    <3>2. CASE ~HasUnsavedEdits
      <4>1. StartNewDocument
        BY <1>6, <3>2 DEF PressNewDocument
      <4>2. hand' = hand
        BY <4>1 DEF StartNewDocument
      <4> QED
        BY <4>1, <4>2, DocumentTypes DEF StartNewDocument, HeldTypeOK
    <3> QED
      BY <3>1, <3>2
  <2>3. RoadTypeOK'
    BY <1>6, ValueTypes, FilesAssumption DEF PressNewDocument, StartNewDocument, RoadTypeOK,
       Writings, roadVars
  <2>4. StoreTypeOK'
    BY <1>6, ValueTypes, FilesAssumption DEF PressNewDocument, StartNewDocument,
       StoreTypeOK, OpenedFileForgotten, storeVars, FilesOrNone
  <2>5. GhostTypeOK'
    BY <1>6, ValueTypes, DocumentTypes, FilesAssumption DEF PressNewDocument, StartNewDocument,
       GhostTypeOK, HeldTypeOK, ghostVars
  <2> QED
    BY <2>1, <2>2, <2>3, <2>4, <2>5
<1>7. CASE RaiseChangeQuestion
  <2>1. SessionTypeOK'
    BY <1>7, ValueTypes, FilesAssumption DEF RaiseChangeQuestion, SessionTypeOK,
       Confirmations, OwedActions, Asked
  <2>2. HeldTypeOK' /\ RoadTypeOK' /\ StoreTypeOK' /\ GhostTypeOK'
    BY <1>7, KeptTypes DEF RaiseChangeQuestion
  <2> QED
    BY <2>1, <2>2
<1>8. CASE AskToOpen
  <2>1. SessionTypeOK'
    BY <1>8, ValueTypes, FilesAssumption DEF AskToOpen, BeginReading, SessionTypeOK,
       OperationKinds
  <2>2. RoadTypeOK'
    <3>1. reading' \in Readings
      BY <1>8, ReadingBegun DEF AskToOpen, OpenRoutes
    <3> QED
      BY <1>8, <3>1 DEF AskToOpen, RoadTypeOK
  <2>3. StoreTypeOK'
    BY <1>8, ValueTypes, FilesAssumption DEF AskToOpen, BeginReading, StoreTypeOK,
       StoreFree, Stores, StoreOwners, FilesOrNone
  <2>4. HeldTypeOK' /\ GhostTypeOK'
    BY <1>8, KeptTypes DEF AskToOpen, BeginReading
  <2> QED
    BY <2>1, <2>2, <2>3, <2>4
<1>9. CASE ReopenGoesOn
  <2>1. SessionTypeOK'
    BY <1>9, ValueTypes, FilesAssumption DEF ReopenGoesOn, ReadingFails, SessionTypeOK,
       OperationKinds
  <2>2. RoadTypeOK'
    BY <1>9, ValueTypes, FilesAssumption DEF ReopenGoesOn, ReadingFails, RoadTypeOK,
       Readings
  <2>3. StoreTypeOK'
    BY <1>9, ValueTypes, FilesAssumption DEF ReopenGoesOn, ReadingFails, StoreTypeOK,
       StoreFree, Stores, StoreOwners, FilesOrNone
  <2>4. HeldTypeOK' /\ GhostTypeOK'
    BY <1>9, KeptTypes DEF ReopenGoesOn, ReadingFails
  <2> QED
    BY <2>1, <2>2, <2>3, <2>4
<1>10. CASE FileReadToOpen
  <2>1. SessionTypeOK'
    BY <1>10, ValueTypes, FilesAssumption DEF FileReadToOpen, ReadingFails,
       DocumentFileRead, DiscardAskedWhenUnsaved, SessionTypeOK, OperationKinds,
       Confirmations, Asked, OwedActions
  <2>2. RoadTypeOK'
    <3>1. CASE ReadingFails
      BY <1>10, <3>1, ValueTypes DEF FileReadToOpen, ReadingFails, RoadTypeOK,
         DocumentFileRead, DiscardAskedWhenUnsaved
    <3>2. CASE ~ReadingFails
      <4> DEFINE read == [reading EXCEPT !.incoming = disk[store.file], !.from = store.file]
      <4>1. disk[store.file] \in Documents /\ DocumentFileRead(read)
        BY <1>10, <3>2 DEF FileReadToOpen
      <4>2. read \in Readings
        BY <4>1 DEF RoadTypeOK, StoreTypeOK, Readings, Stores, Documents
      <4> QED
        BY <1>10, <4>1, <4>2, ReadingAsked DEF FileReadToOpen
    <3> QED
      BY <3>1, <3>2
  <2>3. StoreTypeOK'
    BY <1>10, ValueTypes, FilesAssumption DEF FileReadToOpen, ReadingFails,
       DocumentFileRead, DiscardAskedWhenUnsaved, StoreTypeOK, Stores, StoreOwners,
       FilesOrNone
  <2>4. HeldTypeOK' /\ GhostTypeOK'
    BY <1>10, KeptTypes DEF FileReadToOpen, ReadingFails, DocumentFileRead,
       DiscardAskedWhenUnsaved
  <2> QED
    BY <2>1, <2>2, <2>3, <2>4
<1>11. CASE AgentHandsDocument
  <2>1. SessionTypeOK'
    BY <1>11, ValueTypes, FilesAssumption DEF AgentHandsDocument, DocumentFileRead,
       DiscardAskedWhenUnsaved, SessionTypeOK, OperationKinds, Confirmations, Asked,
       OwedActions
  <2>2. HeldTypeOK'
    BY <1>11, ValueTypes, DocumentTypes, FilesAssumption DEF AgentHandsDocument, DocumentFileRead,
       DiscardAskedWhenUnsaved, HeldTypeOK
  <2>3. RoadTypeOK'
    <3> DEFINE read == [NoReading EXCEPT !.route = "handed", !.incoming = Original(nextDocument)]
    <3>1. read \in Readings
      BY ValueTypes, DocumentTypes DEF HeldTypeOK, Readings, OpenRoutes
    <3> QED
      BY <1>11, <3>1, ReadingAsked DEF AgentHandsDocument
  <2>4. StoreTypeOK' /\ GhostTypeOK'
    BY <1>11, KeptTypes DEF AgentHandsDocument, DocumentFileRead, DiscardAskedWhenUnsaved
  <2> QED
    BY <2>1, <2>2, <2>3, <2>4
<1>12. CASE AnswerOpenChoice
  <2>1. SessionTypeOK'
    BY <1>12, ValueTypes, FilesAssumption DEF AnswerOpenChoice, DiscardAskedWhenUnsaved,
       SessionTypeOK, OperationKinds, Confirmations, Asked, OwedActions
  <2>2. RoadTypeOK'
    BY ZenonT(60), <1>12, ValueTypes, FilesAssumption DEF AnswerOpenChoice, DiscardAskedWhenUnsaved,
       RoadTypeOK, Readings, OpenChoices
  <2>3. HeldTypeOK' /\ StoreTypeOK' /\ GhostTypeOK'
    BY <1>12, KeptTypes DEF AnswerOpenChoice, DiscardAskedWhenUnsaved
  <2> QED
    BY <2>1, <2>2, <2>3
<1>13. CASE AnswerMergeMapping
  <2>1. SessionTypeOK'
    BY <1>13, ValueTypes, FilesAssumption DEF AnswerMergeMapping, ReadingFails,
       SessionTypeOK, OperationKinds
  <2>2. RoadTypeOK'
    BY <1>13, ValueTypes, FilesAssumption DEF AnswerMergeMapping, ReadingFails, RoadTypeOK,
       Readings
  <2>3. HeldTypeOK' /\ StoreTypeOK' /\ GhostTypeOK'
    BY <1>13, KeptTypes DEF AnswerMergeMapping, ReadingFails
  <2> QED
    BY <2>1, <2>2, <2>3
<1>14. CASE CloseFlowSurface
  <2>1. SessionTypeOK'
    BY <1>14, ValueTypes, FilesAssumption DEF CloseFlowSurface, FlowSurfaceClosed,
       ReadingFails, SessionTypeOK, OperationKinds
  <2>2. RoadTypeOK'
    BY <1>14, ValueTypes, FilesAssumption DEF CloseFlowSurface, FlowSurfaceClosed,
       ReadingFails, RoadTypeOK
  <2>3. HeldTypeOK' /\ StoreTypeOK' /\ GhostTypeOK'
    BY <1>14, KeptTypes DEF CloseFlowSurface, FlowSurfaceClosed, ReadingFails
  <2> QED
    BY <2>1, <2>2, <2>3
<1>15. CASE ReadingGoesOn
  <2>1. SessionTypeOK'
    BY <1>15, ValueTypes, FilesAssumption DEF ReadingGoesOn, ReplaceLands, MergeLands,
       MergeMappingAsked, ImportRefused, ReadingFails, SessionTypeOK, OperationKinds,
       RoadTypeOK, Readings, FilesOrNone
  <2>2. HeldTypeOK'
    <3>1. CASE ReplaceLands
      BY <1>15, <3>1, DocumentTypes DEF ReadingGoesOn, ReplaceLands, HeldTypeOK, RoadTypeOK, Readings
    <3>2. CASE MergeLands
      BY <1>15, <3>2, DocumentTypes DEF ReadingGoesOn, MergeLands, HeldDocumentFollowed, HistoryGrows, HeldTypeOK
    <3>3. CASE MergeMappingAsked
      BY <1>15, <3>3, DocumentTypes DEF ReadingGoesOn, MergeMappingAsked, HeldTypeOK
    <3>4. CASE ImportRefused
      BY <1>15, <3>4, DocumentTypes DEF ReadingGoesOn, ImportRefused, HeldTypeOK
    <3> QED
      BY <1>15, <3>1, <3>2, <3>3, <3>4 DEF ReadingGoesOn
  <2>3. RoadTypeOK'
    BY <1>15, ValueTypes, FilesAssumption DEF ReadingGoesOn, ReplaceLands, MergeLands,
       MergeMappingAsked, ImportRefused, ReadingFails, RoadTypeOK, Readings
  <2>4. StoreTypeOK'
    BY <1>15, ValueTypes, FilesAssumption DEF ReadingGoesOn, ReplaceLands, MergeLands,
       MergeMappingAsked, ImportRefused, ReadingFails, StoreTypeOK, AdoptedHandle
  <2>5. GhostTypeOK'
    BY <1>15, ValueTypes, FilesAssumption DEF ReadingGoesOn, ReplaceLands, MergeLands,
       MergeMappingAsked, ImportRefused, ReadingFails, GhostTypeOK, RoadTypeOK, Readings,
       FilesOrNone, ghostVars
  <2> QED
    BY <2>1, <2>2, <2>3, <2>4, <2>5
<1>16. CASE AskToWrite
  <2>1. SessionTypeOK'
    BY <1>16, ValueTypes, FilesAssumption DEF AskToWrite, FirstAwaitOf, AskStoreForPlace,
       SessionTypeOK, OperationKinds
  <2>2. RoadTypeOK'
    BY <1>16, ValueTypes, DocumentTypes, FilesAssumption DEF AskToWrite, FirstAwaitOf, AskStoreForPlace,
       RoadTypeOK, HeldTypeOK, StoreTypeOK, Writings
  <2>3. StoreTypeOK'
    BY ZenonT(60), <1>16, ValueTypes, FilesAssumption DEF AskToWrite, FirstAwaitOf, AskStoreForPlace,
       StoreTypeOK, StoreFree, Stores, StoreOwners, FilesOrNone
  <2>4. HeldTypeOK' /\ GhostTypeOK'
    BY <1>16, KeptTypes DEF AskToWrite, FirstAwaitOf, AskStoreForPlace
  <2> QED
    BY <2>1, <2>2, <2>3, <2>4
<1>17. CASE WriteGoesOn
  <2>1. SessionTypeOK'
    BY <1>17, ValueTypes, FilesAssumption DEF WriteGoesOn, WritingEnds, AskStoreForPlace,
       SessionTypeOK, OperationKinds
  <2>2. RoadTypeOK'
    BY <1>17, ValueTypes, FilesAssumption DEF WriteGoesOn, WritingEnds, AskStoreForPlace,
       RoadTypeOK, Writings
  <2>3. StoreTypeOK'
    BY ZenonT(60), <1>17, ValueTypes, FilesAssumption DEF WriteGoesOn, WritingEnds, AskStoreForPlace,
       StoreTypeOK, StoreFree, Stores, StoreOwners, FilesOrNone
  <2>4. HeldTypeOK' /\ GhostTypeOK'
    BY <1>17, KeptTypes DEF WriteGoesOn, WritingEnds, AskStoreForPlace
  <2> QED
    BY <2>1, <2>2, <2>3, <2>4
<1>18. CASE ExportReport
  <2>1. StoreTypeOK'
    BY <1>18, ValueTypes, FilesAssumption DEF ExportReport, AskStoreForPlace, StoreTypeOK,
       StoreFree, Stores, StoreOwners, FilesOrNone
  <2>2. SessionTypeOK' /\ HeldTypeOK' /\ RoadTypeOK' /\ GhostTypeOK'
    BY <1>18, KeptTypes DEF ExportReport, AskStoreForPlace
  <2> QED
    BY <2>1, <2>2
<1>19. CASE PickFile
  <2>1. SessionTypeOK'
    BY <1>19, ValueTypes, FilesAssumption DEF PickFile, StoreLetsGo, ReadingFails,
       WritingEnds, SessionTypeOK, OperationKinds
  <2>2. RoadTypeOK'
    BY <1>19, ValueTypes, FilesAssumption DEF PickFile, StoreLetsGo, ReadingFails,
       WritingEnds, RoadTypeOK
  <2>3. StoreTypeOK'
    BY <1>19, ValueTypes, FilesAssumption DEF PickFile, StoreLetsGo, ReadingFails,
       WritingEnds, StoreTypeOK, Stores, StoreOwners, FilesOrNone
  <2>4. HeldTypeOK' /\ GhostTypeOK'
    BY <1>19, KeptTypes DEF PickFile, StoreLetsGo, ReadingFails, WritingEnds
  <2> QED
    BY <2>1, <2>2, <2>3, <2>4
<1>20. CASE AnswerPermission
  <2>1. SessionTypeOK'
    BY <1>20, ValueTypes, FilesAssumption DEF AnswerPermission, StoreLetsGo, ReadingFails,
       WritingEnds, SessionTypeOK, OperationKinds
  <2>2. RoadTypeOK'
    BY <1>20, ValueTypes, FilesAssumption DEF AnswerPermission, StoreLetsGo, ReadingFails,
       WritingEnds, RoadTypeOK
  <2>3. StoreTypeOK'
    BY <1>20, ValueTypes, FilesAssumption DEF AnswerPermission, StoreLetsGo, ReadingFails,
       WritingEnds, StoreTypeOK, Stores, StoreOwners
  <2>4. HeldTypeOK' /\ GhostTypeOK'
    BY <1>20, KeptTypes DEF AnswerPermission, StoreLetsGo, ReadingFails, WritingEnds
  <2> QED
    BY <2>1, <2>2, <2>3, <2>4
<1>21. CASE ReadDestination
  <2>1. SessionTypeOK'
    BY <1>21, ValueTypes, FilesAssumption DEF ReadDestination, StoreLetsGo, ReadingFails,
       WritingEnds, OverwriteAsked, SessionTypeOK, OperationKinds, Confirmations, Asked,
       OwedActions
  <2>2. RoadTypeOK'
    BY <1>21, ValueTypes, FilesAssumption DEF ReadDestination, StoreLetsGo, ReadingFails,
       WritingEnds, OverwriteAsked, RoadTypeOK, StoreTypeOK, Stores, StoreOwners
  <2>3. StoreTypeOK'
    BY <1>21, ValueTypes, FilesAssumption DEF ReadDestination, StoreLetsGo, ReadingFails,
       WritingEnds, OverwriteAsked, StoreTypeOK, Stores, StoreOwners
  <2>4. HeldTypeOK' /\ GhostTypeOK'
    BY <1>21, KeptTypes DEF ReadDestination, StoreLetsGo, ReadingFails, WritingEnds,
       OverwriteAsked
  <2> QED
    BY <2>1, <2>2, <2>3, <2>4
<1>22. CASE BytesWritten
  <2>1. SessionTypeOK'
    BY <1>22, ValueTypes, FilesAssumption DEF BytesWritten, StoreLetsGo, ReadingFails,
       WritingEnds, WriteFails, SaveLands, BackupLands, FixBundleIssued, MarkDroppedFirst,
       SessionTypeOK, OperationKinds, StoreTypeOK, Stores
  <2>2. HeldTypeOK'
    <3>1. CASE FixBundleIssued(writing.form) /\ savedDocument' \in {held, savedDocument}
      <4>1. held' \in Documents /\ nextDocument' \in Nat /\ savedDocument' \in Documents
        BY <3>1, DocumentTypes DEF FixBundleIssued, HeldDocumentFollowed, HeldTypeOK
      <4>2. done' \in Seq(Documents) /\ undone' \in Seq(Documents)
        <5>1. CASE done' = Append(done, held) /\ undone' = <<>>
          BY <5>1, DocumentTypes DEF HeldTypeOK
        <5>2. CASE done' = done /\ undone' = undone
          BY <5>2, DocumentTypes DEF HeldTypeOK
        <5> QED
          BY <3>1, <5>1, <5>2 DEF FixBundleIssued, HeldDocumentFollowed, HistoryGrows
      <4> QED
        BY <1>22, <4>1, <4>2, DocumentTypes DEF BytesWritten, HeldTypeOK
    <3>2. CASE UNCHANGED <<held, done, undone, savedDocument, nextDocument>>
      BY <1>22, <3>2, DocumentTypes DEF BytesWritten, HeldTypeOK
    <3> QED
      BY <1>22, <3>1, <3>2 DEF BytesWritten, WriteFails, SaveLands, MarkDroppedFirst, BackupLands
  <2>3. RoadTypeOK'
    BY <1>22, ValueTypes, FilesAssumption DEF BytesWritten, StoreLetsGo, ReadingFails,
       WritingEnds, WriteFails, SaveLands, BackupLands, FixBundleIssued, MarkDroppedFirst,
       RoadTypeOK
  <2>4. StoreTypeOK'
    BY <1>22, ValueTypes, FilesAssumption DEF BytesWritten, StoreLetsGo, ReadingFails,
       WritingEnds, WriteFails, SaveLands, BackupLands, FixBundleIssued, MarkDroppedFirst,
       StoreTypeOK, RoadTypeOK, Writings, Stores, Contents
  <2>5. GhostTypeOK'
    <3>1. CASE SaveLands /\ store.owner = "writing" /\ store.at = "bytes"
      BY <3>1 DEF SaveLands, GhostTypeOK, RoadTypeOK, Writings, StoreTypeOK, Stores, FilesOrNone
    <3>2. CASE UNCHANGED ghostVars
      BY <3>2, KeptTypes
    <3> QED
      BY <1>22, <3>1, <3>2 DEF BytesWritten, WriteFails, BackupLands
  <2> QED
    BY <2>1, <2>2, <2>3, <2>4, <2>5
<1>23. CASE AnswerDiscardQuestion
  <2>1. SessionTypeOK'
    BY <1>23, ValueTypes, FilesAssumption DEF AnswerDiscardQuestion, ReadingFails,
       SessionTypeOK, OperationKinds
  <2>2. RoadTypeOK'
    BY <1>23, ValueTypes, FilesAssumption DEF AnswerDiscardQuestion, ReadingFails,
       RoadTypeOK, Readings, OpenChoices
  <2>3. HeldTypeOK' /\ StoreTypeOK' /\ GhostTypeOK'
    BY <1>23, KeptTypes DEF AnswerDiscardQuestion, ReadingFails
  <2> QED
    BY <2>1, <2>2, <2>3
<1>24. CASE AnswerOverwriteQuestion
  <2>1. SessionTypeOK'
    BY <1>24, ValueTypes, FilesAssumption DEF AnswerOverwriteQuestion, StoreLetsGo,
       ReadingFails, WritingEnds, SessionTypeOK, OperationKinds
  <2>2. RoadTypeOK'
    BY <1>24, ValueTypes, FilesAssumption DEF AnswerOverwriteQuestion, StoreLetsGo,
       ReadingFails, WritingEnds, RoadTypeOK
  <2>3. StoreTypeOK'
    BY <1>24, ValueTypes, FilesAssumption DEF AnswerOverwriteQuestion, StoreLetsGo,
       ReadingFails, WritingEnds, StoreTypeOK, Stores, StoreOwners
  <2>4. HeldTypeOK' /\ GhostTypeOK'
    BY <1>24, KeptTypes DEF AnswerOverwriteQuestion, StoreLetsGo, ReadingFails, WritingEnds
  <2> QED
    BY <2>1, <2>2, <2>3, <2>4
<1>25. CASE QuestionPutAway
  <2>1. SessionTypeOK'
    BY <1>25, ValueTypes, FilesAssumption DEF QuestionPutAway, SessionTypeOK
  <2>2. HeldTypeOK' /\ RoadTypeOK' /\ StoreTypeOK' /\ GhostTypeOK'
    BY <1>25, KeptTypes DEF QuestionPutAway
  <2> QED
    BY <2>1, <2>2
<1>26. CASE OwedActionCarriedOut
  <2>1. CASE NewDocumentCarriedOut
    <3>1. SessionTypeOK'
      BY <1>26, <2>1, ValueTypes, FilesAssumption DEF OwedActionCarriedOut,
         NewDocumentCarriedOut, StartNewDocument, SessionTypeOK, FilesOrNone
    <3>2. HeldTypeOK'
      BY <1>26, <2>1, ValueTypes, DocumentTypes, FilesAssumption DEF OwedActionCarriedOut,
         NewDocumentCarriedOut, StartNewDocument, HeldTypeOK
    <3>3. RoadTypeOK'
      BY <1>26, <2>1, ValueTypes, FilesAssumption DEF OwedActionCarriedOut,
         NewDocumentCarriedOut, StartNewDocument, RoadTypeOK, Writings
    <3>4. StoreTypeOK'
      BY <1>26, <2>1, ValueTypes, FilesAssumption DEF OwedActionCarriedOut,
         NewDocumentCarriedOut, StartNewDocument, StoreTypeOK, OpenedFileForgotten,
         FilesOrNone
    <3>5. GhostTypeOK'
      BY <1>26, <2>1, ValueTypes, DocumentTypes, FilesAssumption DEF OwedActionCarriedOut,
         NewDocumentCarriedOut, StartNewDocument, GhostTypeOK, HeldTypeOK
    <3> QED
      BY <3>1, <3>2, <3>3, <3>4, <3>5
  <2>2. CASE OpeningCarriedOut
    <3>1. SessionTypeOK'
      BY <1>26, <2>2, ValueTypes, FilesAssumption DEF OwedActionCarriedOut,
         OpeningCarriedOut, BeginReading, SessionTypeOK, OperationKinds
    <3>2. RoadTypeOK'
      <4>1. reading' \in Readings
        BY <2>2, ReadingBegun DEF OpeningCarriedOut, OpenRoutes
      <4> QED
        BY <2>2, <4>1 DEF OpeningCarriedOut, RoadTypeOK
    <3>3. StoreTypeOK'
      BY <1>26, <2>2, ValueTypes, FilesAssumption DEF OwedActionCarriedOut,
         OpeningCarriedOut, BeginReading, StoreTypeOK, StoreFree, Stores, StoreOwners,
         FilesOrNone
    <3>4. HeldTypeOK' /\ GhostTypeOK'
      BY <1>26, <2>2, KeptTypes DEF OwedActionCarriedOut, OpeningCarriedOut, BeginReading
    <3> QED
      BY <3>1, <3>2, <3>3, <3>4
  <2>3. CASE ChangeCarriedOut
    <3>1. SessionTypeOK'
      BY <1>26, <2>3, ValueTypes, FilesAssumption DEF OwedActionCarriedOut,
         ChangeCarriedOut, DocumentWritten, HeldDocumentFollowed, HistoryGrows,
         SessionTypeOK, EditLands
    <3>2. HeldTypeOK'
      BY <1>26, <2>3, ValueTypes, DocumentTypes, FilesAssumption DEF OwedActionCarriedOut,
         ChangeCarriedOut, DocumentWritten, HeldDocumentFollowed, HistoryGrows, HeldTypeOK
    <3>3. RoadTypeOK' /\ StoreTypeOK' /\ GhostTypeOK'
      BY <1>26, <2>3, KeptTypes DEF OwedActionCarriedOut, ChangeCarriedOut, DocumentWritten,
         HeldDocumentFollowed, HistoryGrows
    <3> QED
      BY <3>1, <3>2, <3>3
  <2> QED
    BY <1>26, <2>1, <2>2, <2>3 DEF OwedActionCarriedOut
<1>27. CASE UNCHANGED vars
  BY <1>27, KeptTypes DEF vars
<1> QED
  BY <1>1, <1>2, <1>3, <1>4, <1>5, <1>6, <1>7, <1>8, <1>9, <1>10, <1>11, <1>12, <1>13,
     <1>14, <1>15, <1>16, <1>17, <1>18, <1>19, <1>20, <1>21, <1>22, <1>23, <1>24, <1>25,
     <1>26, <1>27, <1>28 DEF Next

(* The variables keep their types, whatever the environment does. *)
THEOREM TypeCorrect == Spec => []TypeOK
BY TypeInitially, TypeStep, PTL DEF Spec

-----------------------------------------------------------------------------
(* The history *)

(* What a step may do to the held document and its history. *)
LEMMA HeldSteps ==
    [Next]_vars => \/ UNCHANGED <<held, done, undone>>
                   \/ HeldDocumentFollowed
                   \/ MoveView
                   \/ done' = <<>> /\ undone' = <<>>
                   \/ UndoEdit
                   \/ RedoEdit
<1> SUFFICES ASSUME [Next]_vars
             PROVE  \/ UNCHANGED <<held, done, undone>>
                    \/ HeldDocumentFollowed
                    \/ MoveView
                    \/ done' = <<>> /\ undone' = <<>>
                    \/ UndoEdit
                    \/ RedoEdit
  OBVIOUS
<1>1. CASE HandBegins \/ HandEnds \/ RaiseChangeQuestion \/ QuestionPutAway
  BY <1>1 DEF HandBegins, HandEnds, RaiseChangeQuestion, QuestionPutAway, heldVars
<1>2. CASE WriteDocument
  BY <1>2 DEF WriteDocument, DocumentWritten
<1>3. CASE MoveView \/ UndoEdit \/ RedoEdit
  BY <1>3
<1>4. CASE PressNewDocument
  BY <1>4 DEF PressNewDocument, StartNewDocument, heldVars
<1>5. CASE AskToOpen \/ ReopenGoesOn \/ FileReadToOpen \/ AgentHandsDocument
  BY <1>5 DEF AskToOpen, ReopenGoesOn, FileReadToOpen, AgentHandsDocument, heldVars
<1>6. CASE AnswerOpenChoice \/ AnswerMergeMapping \/ CloseFlowSurface
  BY <1>6 DEF AnswerOpenChoice, AnswerMergeMapping, CloseFlowSurface, heldVars
<1>7. CASE ReadingGoesOn
  BY <1>7 DEF ReadingGoesOn, ReplaceLands, MergeLands, MergeMappingAsked, ImportRefused
<1>8. CASE AskToWrite \/ WriteGoesOn \/ ExportReport
  BY <1>8 DEF AskToWrite, WriteGoesOn, ExportReport, heldVars
<1>9. CASE PickFile \/ AnswerPermission \/ ReadDestination
  BY <1>9 DEF PickFile, AnswerPermission, ReadDestination, heldVars
<1>10. CASE BytesWritten
  BY <1>10 DEF BytesWritten, WriteFails, SaveLands, BackupLands, FixBundleIssued
<1>11. CASE AnswerDiscardQuestion \/ AnswerOverwriteQuestion
  BY <1>11 DEF AnswerDiscardQuestion, AnswerOverwriteQuestion, heldVars
<1>12. CASE OwedActionCarriedOut
  BY <1>12 DEF OwedActionCarriedOut, NewDocumentCarriedOut, StartNewDocument,
               OpeningCarriedOut, ChangeCarriedOut, DocumentWritten, heldVars
<1>13. CASE UNCHANGED vars
  BY <1>13 DEF vars, heldVars
<1> QED
  BY <1>1, <1>2, <1>3, <1>4, <1>5, <1>6, <1>7, <1>8, <1>9, <1>10, <1>11, <1>12, <1>13 DEF Next

(* A step of the history leads to its edit, whether or not the view is kept. *)
LEMMA RestoredEdit ==
    ASSUME nextDocument \in Nat, NEW document \in Documents, Restored(document)
    PROVE  held'.edit = document.edit
<1>1. held' = document \/ held' = [document EXCEPT !.copy = nextDocument]
  BY DEF Restored, ViewCopied
<1> QED
  BY <1>1 DEF Documents

LEMMA HistoryFollowed ==
    ASSUME HeldTypeOK, NextDocumentIsFresh, HistoryIsALine, HeldDocumentFollowed
    PROVE  HistoryIsALine'
<1>a. /\ held'.edit = nextDocument /\ held.edit < nextDocument
      /\ held.edit \in Nat /\ nextDocument \in Nat
      /\ \A i \in 1..Len(done) : done[i].edit \in Nat /\ done[i].edit < held.edit
  BY DocumentTypes DEF HeldDocumentFollowed, HeldTypeOK, NextDocumentIsFresh, IsMade, HistoryIsALine
<1>b. /\ Len(done') = Len(done) + 1 /\ done'[Len(done) + 1] = held
      /\ \A i \in 1..Len(done) : done'[i] = done[i]
  BY DEF HeldDocumentFollowed, HistoryGrows, HeldTypeOK
<1>1. \A i \in 1..Len(done') : done'[i].edit < held'.edit
  <2> SUFFICES ASSUME NEW i \in 1..Len(done') PROVE done'[i].edit < held'.edit
    OBVIOUS
  <2>1. i = Len(done) + 1 \/ i \in 1..Len(done)
    BY <1>b DEF HeldTypeOK
  <2> QED
    BY <1>a, <1>b, <2>1
<1>2. \A j \in 1..Len(done') : \A i \in 1..(j - 1) : done'[i].edit < done'[j].edit
  <2> SUFFICES ASSUME NEW j \in 1..Len(done'), NEW i \in 1..(j - 1)
               PROVE  done'[i].edit < done'[j].edit
    OBVIOUS
  <2>1. i \in 1..Len(done) /\ (j = Len(done) + 1 \/ j \in 1..Len(done))
    BY <1>b DEF HeldTypeOK
  <2> QED
    BY <1>a, <1>b, <2>1 DEF HistoryIsALine
<1>3. Len(undone') = 0
  BY DEF HeldDocumentFollowed, HistoryGrows
<1> QED
  BY <1>1, <1>2, <1>3 DEF HistoryIsALine

LEMMA HistoryUndone ==
    ASSUME HeldTypeOK, HistoryIsALine, UndoEdit
    PROVE  HistoryIsALine'
<1> DEFINE n == Len(done)
<1>1. /\ n \in Nat \ {0} /\ held'.edit = done[n].edit /\ done' = SubSeq(done, 1, n - 1)
      /\ undone' = <<held>> \o undone
  <2>1. /\ n \in Nat \ {0} /\ done[n] \in Documents /\ nextDocument \in Nat
        /\ Restored(done[n])
    BY DEF UndoEdit, HeldTypeOK
  <2> QED
    BY <2>1, RestoredEdit DEF UndoEdit
<1>2. Len(done') = n - 1 /\ \A i \in 1..(n - 1) : done'[i] = done[i]
  BY <1>1 DEF HeldTypeOK
<1>3. /\ Len(undone') = Len(undone) + 1 /\ undone'[1] = held
      /\ \A i \in 2..Len(undone') : i - 1 \in 1..Len(undone) /\ undone'[i] = undone[i - 1]
  BY <1>1 DEF HeldTypeOK
<1>4. \A i \in 1..Len(done') : done'[i].edit < held'.edit
  BY <1>1, <1>2 DEF HistoryIsALine
<1>5. \A j \in 1..Len(done') : \A i \in 1..(j - 1) : done'[i].edit < done'[j].edit
  <2> SUFFICES ASSUME NEW j \in 1..Len(done'), NEW i \in 1..(j - 1)
               PROVE  done'[i].edit < done'[j].edit
    OBVIOUS
  <2>1. j \in 1..Len(done) /\ done'[j] = done[j] /\ done'[i] = done[i]
    BY <1>1, <1>2
  <2> QED
    BY <2>1 DEF HistoryIsALine
<1>6. \A i \in 1..Len(undone') : held'.edit < undone'[i].edit
  <2> SUFFICES ASSUME NEW i \in 1..Len(undone') PROVE held'.edit < undone'[i].edit
    OBVIOUS
  <2>1. CASE i = 1
    BY <1>1, <1>3, <2>1 DEF HistoryIsALine
  <2>2. CASE i # 1
    <3>1. i \in 2..Len(undone') /\ i - 1 \in 1..Len(undone) /\ undone'[i] = undone[i - 1]
      BY <1>3, <2>2
    <3>2. held.edit < undone[i - 1].edit /\ done[n].edit < held.edit
      BY <1>1, <3>1 DEF HistoryIsALine
    <3>3. done[n].edit \in Nat /\ held.edit \in Nat /\ undone[i - 1].edit \in Nat
      BY <1>1, <3>1, DocumentTypes DEF HeldTypeOK
    <3> QED
      BY <1>1, <3>1, <3>2, <3>3
  <2> QED
    BY <2>1, <2>2
<1>7. \A j \in 1..Len(undone') : \A i \in 1..(j - 1) : undone'[i].edit < undone'[j].edit
  <2> SUFFICES ASSUME NEW j \in 1..Len(undone'), NEW i \in 1..(j - 1)
               PROVE  undone'[i].edit < undone'[j].edit
    OBVIOUS
  <2>1. j \in 2..Len(undone') /\ j - 1 \in 1..Len(undone) /\ undone'[j] = undone[j - 1]
    BY <1>3
  <2>2. CASE i = 1
    BY <1>3, <2>1, <2>2 DEF HistoryIsALine
  <2>3. CASE i # 1
    <3>1. i \in 2..Len(undone') /\ i - 1 \in 1..(j - 2) /\ undone'[i] = undone[i - 1]
      BY <1>3, <2>3
    <3>2. undone[i - 1].edit < undone[j - 1].edit
      BY <2>1, <3>1 DEF HistoryIsALine
    <3> QED
      BY <2>1, <3>1, <3>2
  <2> QED
    BY <2>2, <2>3
<1> QED
  BY <1>4, <1>5, <1>6, <1>7 DEF HistoryIsALine

LEMMA HistoryRedone ==
    ASSUME HeldTypeOK, HistoryIsALine, RedoEdit
    PROVE  HistoryIsALine'
<1> DEFINE n == Len(undone)
<1>1. /\ n \in Nat \ {0} /\ held'.edit = undone[1].edit /\ done' = Append(done, held)
      /\ undone' = Tail(undone)
  <2>1. /\ n \in Nat \ {0} /\ undone[1] \in Documents /\ nextDocument \in Nat
        /\ Restored(undone[1])
    BY DEF RedoEdit, HeldTypeOK
  <2> QED
    BY <2>1, RestoredEdit DEF RedoEdit
<1>2. Len(undone') = n - 1 /\ \A i \in 1..(n - 1) : undone'[i] = undone[i + 1]
  BY <1>1 DEF HeldTypeOK
<1>3. /\ Len(done') = Len(done) + 1 /\ done'[Len(done) + 1] = held
      /\ \A i \in 1..Len(done) : done'[i] = done[i]
  BY <1>1 DEF HeldTypeOK
<1>4. \A i \in 1..Len(undone') : held'.edit < undone'[i].edit
  BY <1>1, <1>2 DEF HistoryIsALine
<1>5. \A j \in 1..Len(undone') : \A i \in 1..(j - 1) : undone'[i].edit < undone'[j].edit
  BY <1>1, <1>2 DEF HistoryIsALine
<1>6. \A i \in 1..Len(done') : done'[i].edit < held'.edit
  <2> SUFFICES ASSUME NEW i \in 1..Len(done') PROVE done'[i].edit < held'.edit
    OBVIOUS
  <2>1. CASE i = Len(done) + 1
    BY <1>1, <1>3, <2>1 DEF HistoryIsALine
  <2>2. CASE i # Len(done) + 1
    <3>1. i \in 1..Len(done) /\ done'[i] = done[i]
      BY <1>3, <2>2 DEF HeldTypeOK
    <3>2. done[i].edit < held.edit /\ held.edit < undone[1].edit
      BY <1>1, <3>1 DEF HistoryIsALine
    <3>3. done[i].edit \in Nat /\ held.edit \in Nat /\ undone[1].edit \in Nat
      BY <1>1, <3>1, DocumentTypes DEF HeldTypeOK
    <3> QED
      BY <1>1, <3>1, <3>2, <3>3
  <2> QED
    BY <2>1, <2>2
<1>7. \A j \in 1..Len(done') : \A i \in 1..(j - 1) : done'[i].edit < done'[j].edit
  <2> SUFFICES ASSUME NEW j \in 1..Len(done'), NEW i \in 1..(j - 1)
               PROVE  done'[i].edit < done'[j].edit
    OBVIOUS
  <2>1. CASE j = Len(done) + 1
    BY <1>3, <2>1 DEF HistoryIsALine, HeldTypeOK
  <2>2. CASE j # Len(done) + 1
    <3>1. j \in 1..Len(done) /\ done'[j] = done[j] /\ done'[i] = done[i]
      BY <1>3, <2>2 DEF HeldTypeOK
    <3> QED
      BY <3>1 DEF HistoryIsALine
  <2> QED
    BY <2>1, <2>2
<1> QED
  BY <1>4, <1>5, <1>6, <1>7 DEF HistoryIsALine

LEMMA HistoryStep == TypeOK /\ NextDocumentIsFresh /\ HistoryIsALine /\ [Next]_vars => HistoryIsALine'
<1> SUFFICES ASSUME TypeOK, NextDocumentIsFresh, HistoryIsALine, [Next]_vars
             PROVE  HistoryIsALine'
  OBVIOUS
<1>1. CASE UNCHANGED <<held, done, undone>>
  BY <1>1 DEF HistoryIsALine
<1>2. CASE HeldDocumentFollowed
  BY <1>2, HistoryFollowed DEF TypeOK
<1>3. CASE done' = <<>> /\ undone' = <<>>
  BY <1>3 DEF HistoryIsALine
<1>4. CASE UndoEdit
  BY <1>4, HistoryUndone DEF TypeOK
<1>5. CASE RedoEdit
  BY <1>5, HistoryRedone DEF TypeOK
<1>6. CASE MoveView
  <2>1. held'.edit = held.edit /\ UNCHANGED <<done, undone>>
    BY <1>6, DocumentTypes DEF MoveView, ViewCopied, TypeOK, HeldTypeOK
  <2> QED
    BY <2>1 DEF HistoryIsALine
<1> QED
  BY <1>1, <1>2, <1>3, <1>4, <1>5, <1>6, HeldSteps

-----------------------------------------------------------------------------
(* The machine and its roads *)

LEMMA FlowInitially == Init => FlowAgreement
BY DEF Init, FlowAgreement, ReadingAgreement, WritingAgreement, StoreAgreement, OverwriteHolder,
       SurfaceAgreement, DiscardAgreement, NoReading, NoWriting, StoreFree

(* Ending a road, and the fields of what an action changes. *)
LEMMA RoadEnds ==
    /\ ReadingFails => fileOperation' = "idle" /\ reading'.at = "none"
    /\ WritingEnds => fileOperation' = "idle" /\ writing'.at = "none"
    /\ StoreFree.at = "free" /\ StoreFree.owner = "reading"
BY DEF ReadingFails, WritingEnds, NoReading, NoWriting, StoreFree

LEMMA ReadOnward ==
    ASSUME NEW read \in Readings, DocumentFileRead(read)
    PROVE  \/ /\ fileOperation' = "awaitingDiscardAnswer" /\ confirmation' = Asked("QN-5", "nothing")
              /\ reading'.at = "askedHow" /\ settleIncoming' = settleIncoming \cup {"openChoice"}
              /\ openSurface' = openSurface
           \/ /\ fileOperation' = "awaitingOpenChoice" /\ openSurface' = "U-56"
              /\ reading'.at = "askedHow" /\ settleIncoming' = settleIncoming \cup {"openChoice"}
              /\ confirmation' = confirmation
           \/ /\ fileOperation' = "importingDocument" /\ openSurface' = openSurface
              /\ reading'.at = "answered" /\ settleIncoming' = {}
              /\ confirmation' = confirmation
BY DEF DocumentFileRead, DiscardAskedWhenUnsaved, Readings

LEMMA ChoiceAnswered ==
    ASSUME reading \in Readings, AnswerOpenChoice
    PROVE  \/ /\ fileOperation' = "awaitingDiscardAnswer" /\ confirmation' = Asked("QN-5", "nothing")
              /\ reading'.at = "askedHow" /\ settleIncoming' = settleIncoming \cup {"openChoice"}
           \/ /\ fileOperation' = "importingDocument" /\ confirmation' = confirmation
              /\ reading'.at = "answered" /\ settleIncoming' = {}
BY DEF AnswerOpenChoice, DiscardAskedWhenUnsaved, Readings

LEMMA ReadingAnswered ==
    ASSUME reading \in Readings, AnswerMergeMapping \/ AnswerDiscardQuestion
    PROVE  \/ fileOperation' = "idle" /\ reading'.at = "none"
           \/ fileOperation' = "importingDocument" /\ reading'.at = "answered"
<1>1. CASE ReadingFails
  BY <1>1, RoadEnds
<1>2. CASE ~ReadingFails /\ AnswerMergeMapping
  BY <1>2 DEF AnswerMergeMapping, Readings
<1>3. CASE ~ReadingFails /\ AnswerDiscardQuestion
  BY <1>3 DEF AnswerDiscardQuestion, Readings
<1> QED
  BY <1>1, <1>2, <1>3

(* What a step of the store leaves of its owner and its file. *)
LEMMA ReopenedFileRead ==
    ASSUME StoreTypeOK, RoadTypeOK, ReopenGoesOn, ~ReadingFails
    PROVE  /\ store.at = "free" /\ reading.at = "state" /\ reading'.at = "store"
           /\ store'.at = "bytes" /\ store'.owner = "reading" /\ store'.file \in Files
           /\ fileOperation' = fileOperation
BY DEF ReopenGoesOn, StoreFree, StoreTypeOK, RoadTypeOK, FilesOrNone, Readings

LEMMA PlacePicked ==
    ASSUME store \in Stores, NEW file \in Files, NEW at,
           store' = [store EXCEPT !.file = file, !.at = at]
    PROVE  store'.owner = store.owner /\ store'.file \in Files /\ store'.at = at
BY DEF Stores

LEMMA StoreMoved ==
    ASSUME store \in Stores, NEW at,
           \/ store' = [store EXCEPT !.at = at]
           \/ store' = [store EXCEPT !.at = at, !.isAgreed = TRUE]
    PROVE  store'.owner = store.owner /\ store'.file = store.file /\ store'.at = at
BY DEF Stores

(* The store is let go of, and the road that held it ends. *)
LEMMA StoreReleased ==
    ASSUME FlowAgreement, store.at # "free", StoreLetsGo(store.owner), store.owner \in StoreOwners,
           settleOverwrite' = "nobody", UNCHANGED <<openSurface, settleIncoming>>,
           confirmation' = confirmation \/ fileOperation # "awaitingDiscardAnswer"
    PROVE  FlowAgreement'
<1> USE DEF FlowAgreement
<1>1. store'.at = "free" /\ store'.owner = "reading"
  BY RoadEnds DEF StoreLetsGo
<1>2. CASE store.owner = "reading"
  <2>1. fileOperation' = "idle" /\ reading'.at = "none" /\ writing' = writing
    BY <1>2, RoadEnds DEF StoreLetsGo
  <2>2. reading.at = "store" /\ fileOperation = "readingDocumentFile" /\ writing.at = "none"
    BY <1>2 DEF StoreAgreement, ReadingAgreement, WritingAgreement
  <2> QED
    BY <1>1, <2>1, <2>2 DEF ReadingAgreement, WritingAgreement, StoreAgreement, OverwriteHolder,
       SurfaceAgreement, DiscardAgreement
<1>3. CASE store.owner = "writing"
  <2>1. fileOperation' = "idle" /\ writing'.at = "none" /\ reading' = reading
    BY <1>3, RoadEnds DEF StoreLetsGo
  <2>2. /\ writing.at = "store" /\ fileOperation = "writingDocumentFile" /\ reading.at # "store"
    BY <1>3 DEF StoreAgreement, ReadingAgreement, WritingAgreement
  <2>3. ReadingAgreement' /\ WritingAgreement' /\ SurfaceAgreement' /\ DiscardAgreement'
    BY <2>1, <2>2 DEF ReadingAgreement, WritingAgreement, SurfaceAgreement, DiscardAgreement
  <2>4. StoreAgreement' /\ OverwriteHolder'
    BY <1>1, <2>1, <2>2 DEF StoreAgreement, OverwriteHolder
  <2> QED
    BY <2>3, <2>4
<1>4. CASE store.owner = "report"
  <2>1. UNCHANGED <<fileOperation, reading, writing>>
    BY <1>4 DEF StoreLetsGo
  <2>2. reading.at # "store" /\ writing.at # "store"
    BY <1>4 DEF StoreAgreement
  <2> QED
    BY <1>1, <2>1, <2>2 DEF ReadingAgreement, WritingAgreement, StoreAgreement, OverwriteHolder,
       SurfaceAgreement, DiscardAgreement, IsQuestionAsked
<1> QED
  BY <1>2, <1>3, <1>4 DEF StoreOwners

(* What was read is taken by the machine, while no road waits on the store. *)
LEMMA ReadingTaken ==
    ASSUME FlowAgreement, NEW read \in Readings, DocumentFileRead(read),
           fileOperation \in {"idle", "readingDocumentFile"},
           UNCHANGED <<writing, settleOverwrite>>,
           store'.at = "free" \/ (store' = store /\ reading.at = "none"),
           store.at # "askedOver" \/ store' = store
    PROVE  FlowAgreement'
<1> USE DEF FlowAgreement
<1>1. writing.at = "none" /\ openSurface \notin {"U-56", "U-61"}
  BY DEF WritingAgreement, SurfaceAgreement
<1>2. \/ /\ fileOperation' \in {"awaitingOpenChoice", "awaitingDiscardAnswer"}
         /\ reading'.at = "askedHow" /\ settleIncoming' = settleIncoming \cup {"openChoice"}
      \/ /\ fileOperation' = "importingDocument"
         /\ reading'.at = "answered" /\ settleIncoming' = {}
  BY ReadOnward
<1>3. "mergeMapping" \notin settleIncoming
  BY DEF ReadingAgreement
<1>4. ReadingAgreement' /\ WritingAgreement'
  BY <1>1, <1>2, <1>3 DEF ReadingAgreement, WritingAgreement
<1>5. StoreAgreement' /\ OverwriteHolder'
  BY <1>1, <1>2 DEF StoreAgreement, OverwriteHolder
<1>6. SurfaceAgreement' /\ DiscardAgreement'
  BY <1>1, ReadOnward DEF SurfaceAgreement, DiscardAgreement, IsQuestionAsked, Asked
<1> QED
  BY <1>4, <1>5, <1>6

LEMMA FlowStep == TypeOK /\ FlowAgreement /\ [Next]_vars => FlowAgreement'
<1> SUFFICES ASSUME TypeOK, FlowAgreement, [Next]_vars PROVE FlowAgreement'
  OBVIOUS
<1>a. reading \in Readings /\ writing \in Writings /\ store \in Stores
  BY DEF TypeOK, RoadTypeOK, StoreTypeOK
<1> USE <1>a DEF FlowAgreement, ReadingAgreement, WritingAgreement, StoreAgreement, OverwriteHolder,
        SurfaceAgreement, DiscardAgreement, IsQuestionAsked
<1>1. CASE HandBegins
  BY <1>1 DEF HandBegins, sessionVars, heldVars, roadVars, storeVars, ghostVars
<1>2. CASE HandEnds
  BY <1>2 DEF HandEnds, sessionVars, heldVars, roadVars, storeVars, ghostVars
<1>3. CASE WriteDocument
  BY <1>3 DEF WriteDocument, sessionVars, heldVars, roadVars, storeVars, ghostVars
<1>28. CASE MoveView
  BY <1>28 DEF MoveView, sessionVars, heldVars, roadVars, storeVars, ghostVars
<1>4. CASE UndoEdit
  BY <1>4 DEF UndoEdit, sessionVars, heldVars, roadVars, storeVars, ghostVars
<1>5. CASE RedoEdit
  BY <1>5 DEF RedoEdit, sessionVars, heldVars, roadVars, storeVars, ghostVars
<1>6. CASE PressNewDocument
  BY <1>6 DEF PressNewDocument, StartNewDocument, Writings, Asked, sessionVars, heldVars,
     roadVars, storeVars, ghostVars
<1>7. CASE RaiseChangeQuestion
  BY <1>7 DEF RaiseChangeQuestion, Asked, sessionVars, heldVars, roadVars, storeVars,
     ghostVars
<1>8. CASE AskToOpen
  BY ZenonT(60), <1>8 DEF AskToOpen, BeginReading, NoReading, StoreFree, sessionVars, heldVars,
     roadVars, storeVars, ghostVars
<1>9. CASE ReopenGoesOn
  <2>1. CASE ReadingFails
    BY <1>9, <2>1, RoadEnds DEF ReopenGoesOn, StoreFree
  <2>2. CASE ~ReadingFails
    <3>1. /\ store.at = "free" /\ reading.at = "state" /\ reading'.at = "store"
          /\ store'.at = "bytes" /\ store'.owner = "reading" /\ store'.file \in Files
          /\ fileOperation' = fileOperation
      BY <1>9, <2>2, ReopenedFileRead DEF TypeOK
    <3> QED
      BY <1>9, <3>1 DEF ReopenGoesOn
  <2> QED
    BY <2>1, <2>2
<1>10. CASE FileReadToOpen
  <2>1. /\ store.at = "bytes" /\ store.owner = "reading" /\ store'.at = "free"
        /\ UNCHANGED <<writing, settleOverwrite>>
    BY <1>10, RoadEnds DEF FileReadToOpen
  <2>2. CASE ReadingFails /\ UNCHANGED <<confirmation, openSurface, settleIncoming>>
    BY <2>1, <2>2, RoadEnds
  <2>3. CASE ~(ReadingFails /\ UNCHANGED <<confirmation, openSurface, settleIncoming>>)
    <3> DEFINE read == [reading EXCEPT !.incoming = disk[store.file], !.from = store.file]
    <3>1. disk[store.file] \in Documents /\ DocumentFileRead(read)
      BY <1>10, <2>3 DEF FileReadToOpen
    <3>2. read \in Readings
      BY <3>1 DEF TypeOK, StoreTypeOK, Readings, Stores
    <3>3. fileOperation \in {"idle", "readingDocumentFile"}
      BY <2>1
    <3>4. /\ UNCHANGED <<writing, settleOverwrite>>
          /\ store'.at = "free" \/ (store' = store /\ reading.at = "none")
          /\ store.at # "askedOver" \/ store' = store
      BY <2>1
    <3> HIDE DEF read, FlowAgreement, ReadingAgreement, WritingAgreement, StoreAgreement,
           OverwriteHolder, SurfaceAgreement, DiscardAgreement
    <3> QED
      BY <3>1, <3>2, <3>3, <3>4, ReadingTaken
  <2> QED
    BY <2>2, <2>3
<1>11. CASE AgentHandsDocument
  <2> DEFINE read == [NoReading EXCEPT !.route = "handed", !.incoming = Original(nextDocument)]
  <2>1. read \in Readings
    BY ValueTypes, DocumentTypes DEF TypeOK, HeldTypeOK, Readings, OpenRoutes
  <2>2. DocumentFileRead(read) /\ UNCHANGED <<writing, settleOverwrite, store>>
    BY <1>11 DEF AgentHandsDocument, storeVars
  <2>3. fileOperation = "idle" /\ reading.at = "none"
    BY <1>11, <1>a DEF AgentHandsDocument, Readings
  <2> HIDE DEF read
  <2> QED
    BY <2>1, <2>2, <2>3, ReadingTaken
<1>12. CASE AnswerOpenChoice
  <2>1. /\ openSurface' = "closed" /\ UNCHANGED <<writing, settleOverwrite, store>>
        /\ fileOperation = "awaitingOpenChoice"
    BY <1>12 DEF AnswerOpenChoice, storeVars
  <2>2. \/ /\ fileOperation' = "awaitingDiscardAnswer" /\ confirmation' = Asked("QN-5", "nothing")
           /\ reading'.at = "askedHow" /\ settleIncoming' = settleIncoming \cup {"openChoice"}
        \/ /\ fileOperation' = "importingDocument" /\ confirmation' = confirmation
           /\ reading'.at = "answered" /\ settleIncoming' = {}
    BY <1>12, ChoiceAnswered
  <2> QED
    BY <2>1, <2>2 DEF Asked
<1>13. CASE AnswerMergeMapping
  <2>1. /\ openSurface' = "closed" /\ settleIncoming' = {} /\ UNCHANGED <<writing, settleOverwrite, store>>
        /\ fileOperation = "awaitingMergeMapping"
    BY <1>13 DEF AnswerMergeMapping, storeVars
  <2>2. \/ fileOperation' = "idle" /\ reading'.at = "none"
        \/ fileOperation' = "importingDocument" /\ reading'.at = "answered"
    BY <1>13, ReadingAnswered
  <2> QED
    BY <2>1, <2>2
<1>14. CASE CloseFlowSurface
  BY <1>14 DEF CloseFlowSurface, FlowSurfaceClosed, ReadingFails, NoReading, sessionVars,
     heldVars, roadVars, storeVars, ghostVars
<1>15. CASE ReadingGoesOn
  BY <1>15 DEF ReadingGoesOn, ReplaceLands, MergeLands, MergeMappingAsked, ImportRefused,
     ReadingFails, NoReading, Readings, sessionVars, heldVars, roadVars, storeVars,
     ghostVars
<1>16. CASE AskToWrite
  <2>1. /\ fileOperation = "idle" /\ fileOperation' = "writingDocumentFile"
        /\ UNCHANGED <<confirmation, openSurface, reading, settleIncoming, settleOverwrite>>
    BY <1>16 DEF AskToWrite
  <2>2. \/ writing'.at \in {"state", "rendering"} /\ store' = store
        \/ /\ writing'.at = "store" /\ store.at = "free"
           /\ store'.at = "picking" /\ store'.owner = "writing"
    <3> PICK form \in WriteForms :
               /\ writing' = [at |-> FirstAwaitOf(form), form |-> form, document |-> held,
                              opened |-> openedHandle, isOwn |-> TRUE]
               /\ IF FirstAwaitOf(form) = "store"
                  THEN AskStoreForPlace("writing") ELSE UNCHANGED store
      BY <1>16 DEF AskToWrite
    <3>1. writing'.at = FirstAwaitOf(form) /\ FirstAwaitOf(form) \in {"state", "rendering", "store"}
      BY DEF FirstAwaitOf
    <3>2. AskStoreForPlace("writing") =>
             store.at = "free" /\ store'.at = "picking" /\ store'.owner = "writing"
      BY DEF AskStoreForPlace, StoreFree
    <3> QED
      BY <3>1, <3>2
  <2> QED
    BY <2>1, <2>2
<1>17. CASE WriteGoesOn
  <2>1. /\ writing.at \in {"state", "rendering"}
        /\ UNCHANGED <<confirmation, openSurface, reading, settleIncoming, settleOverwrite>>
    BY <1>17 DEF WriteGoesOn
  <2>2. CASE WritingEnds /\ store' = store
    BY <2>1, <2>2, RoadEnds
  <2>3. CASE ~(WritingEnds /\ store' = store)
    <3>1. /\ store.at = "free" /\ writing'.at = "store" /\ fileOperation' = fileOperation
          /\ store'.owner = "writing"
          /\ \/ store'.at = "permission" /\ store'.file \in Files
             \/ store'.at = "picking"
      BY <1>17, <2>3 DEF WriteGoesOn, AskStoreForPlace, StoreFree, Writings, TypeOK, StoreTypeOK, FilesOrNone
    <3> QED
      BY <2>1, <3>1
  <2> QED
    BY <2>2, <2>3
<1>18. CASE ExportReport
  BY <1>18 DEF ExportReport, AskStoreForPlace, StoreFree, sessionVars, heldVars, roadVars,
     storeVars, ghostVars
<1>19. CASE PickFile
  <2>1. CASE StoreLetsGo(store.owner)
    BY <1>19, <2>1, StoreReleased DEF PickFile, Stores
  <2>2. CASE ~StoreLetsGo(store.owner)
    <3> DEFINE at == IF store.owner = "reading" THEN "bytes" ELSE "destination"
    <3>1. /\ UNCHANGED <<fileOperation, reading, writing, confirmation, openSurface>>
          /\ UNCHANGED <<settleIncoming, settleOverwrite>> /\ store.at = "picking"
      BY <1>19, <2>2 DEF PickFile
    <3>2. \E file \in Files : store' = [store EXCEPT !.file = file, !.at = at]
      BY <1>19, <2>2 DEF PickFile
    <3>3. store'.owner = store.owner /\ store'.file \in Files /\ store'.at = at
      <4> HIDE DEF at
      <4> QED
        BY <1>a, <3>2, PlacePicked
    <3> QED
      BY <3>1, <3>3
  <2> QED
    BY <2>1, <2>2
<1>20. CASE AnswerPermission
  <2>1. CASE StoreLetsGo(store.owner)
    BY <1>20, <2>1, StoreReleased DEF AnswerPermission, Stores
  <2>2. CASE ~StoreLetsGo(store.owner)
    <3>1. /\ store' = [store EXCEPT !.at = "bytes"] /\ store.at = "permission"
          /\ UNCHANGED <<fileOperation, reading, writing, confirmation, openSurface>>
          /\ UNCHANGED <<settleIncoming, settleOverwrite>>
      BY <1>20, <2>2 DEF AnswerPermission
    <3>2. store'.owner = store.owner /\ store'.file = store.file /\ store'.at = "bytes"
      BY <1>a, <3>1, StoreMoved
    <3> QED
      BY <3>1, <3>2
  <2> QED
    BY <2>1, <2>2
<1>21. CASE ReadDestination
  <2>1. CASE StoreLetsGo(store.owner) /\ UNCHANGED <<confirmation, settleOverwrite>>
    BY <1>21, <2>1, StoreReleased DEF ReadDestination, Stores
  <2>2. CASE ~(StoreLetsGo(store.owner) /\ UNCHANGED <<confirmation, settleOverwrite>>)
    <3>1. /\ store.at = "destination"
          /\ UNCHANGED <<fileOperation, reading, writing, openSurface, settleIncoming>>
      BY <1>21, <2>2 DEF ReadDestination
    <3>2. \/ /\ store' = [store EXCEPT !.at = "bytes"]
             /\ UNCHANGED <<confirmation, settleOverwrite>>
          \/ /\ store' = [store EXCEPT !.at = "askedOver"] /\ settleOverwrite' = store.owner
             /\ confirmation' = Asked("QN-4", "nothing")
      BY <1>21, <2>2 DEF ReadDestination, OverwriteAsked
    <3>3. store.owner \in {"writing", "report"}
      BY <1>a, <3>1 DEF Stores, StoreOwners
    <3>4. CASE /\ UNCHANGED <<confirmation, settleOverwrite>>
               /\ store' = [store EXCEPT !.at = "bytes"]
      <4>1. store'.owner = store.owner /\ store'.file = store.file /\ store'.at = "bytes"
        BY <1>a, <3>4, StoreMoved
      <4> QED
        BY <3>1, <3>4, <4>1
    <3>5. CASE settleOverwrite' = store.owner /\ store' = [store EXCEPT !.at = "askedOver"]
      <4>1. store'.owner = store.owner /\ store'.file = store.file /\ store'.at = "askedOver"
        BY <1>a, <3>5, StoreMoved
      <4> QED
        BY <3>1, <3>2, <3>3, <3>5, <4>1 DEF Asked
    <3> QED
      BY <3>2, <3>4, <3>5
  <2> QED
    BY <2>1, <2>2
<1>22. CASE BytesWritten
  <2>1. StoreLetsGo(store.owner)
    BY <1>22 DEF BytesWritten, WriteFails
  <2>2. openSurface' = openSurface
    BY <1>22 DEF BytesWritten
  <2> QED
    BY <1>22, <2>1, <2>2, StoreReleased DEF BytesWritten, Stores
<1>23. CASE AnswerDiscardQuestion
  <2>1. /\ fileOperation = "awaitingDiscardAnswer" /\ settleIncoming' = {}
        /\ UNCHANGED <<openSurface, writing, settleOverwrite, store>>
    BY <1>23 DEF AnswerDiscardQuestion, storeVars
  <2>2. \/ fileOperation' = "idle" /\ reading'.at = "none"
        \/ fileOperation' = "importingDocument" /\ reading'.at = "answered"
    BY <1>23, ReadingAnswered
  <2> QED
    BY <2>1, <2>2
<1>24. CASE AnswerOverwriteQuestion
  <2>1. /\ fileOperation = "writingDocumentFile" /\ settleOverwrite' = "nobody"
        /\ UNCHANGED <<openSurface, settleIncoming>>
    BY <1>24 DEF AnswerOverwriteQuestion, IsOverwriteAnswerTaken
  <2>2. CASE settleOverwrite = "nobody"
    BY <1>24, <2>1, <2>2 DEF AnswerOverwriteQuestion
  <2>3. CASE settleOverwrite # "nobody" /\ StoreLetsGo(settleOverwrite)
    BY <2>1, <2>3, StoreReleased DEF Stores
  <2>4. CASE settleOverwrite # "nobody" /\ ~StoreLetsGo(settleOverwrite)
    <3>1. /\ store' = [store EXCEPT !.at = "bytes", !.isAgreed = TRUE]
          /\ UNCHANGED <<fileOperation, reading, writing>>
      BY <1>24, <2>4 DEF AnswerOverwriteQuestion
    <3>2. store'.owner = store.owner /\ store'.file = store.file /\ store'.at = "bytes"
      BY <1>a, <3>1, StoreMoved
    <3> QED
      BY <2>1, <2>4, <3>1, <3>2
  <2> QED
    BY <2>2, <2>3, <2>4
<1>25. CASE QuestionPutAway
  BY <1>25 DEF QuestionPutAway, IsOtherAnswer, sessionVars, heldVars, roadVars, storeVars,
     ghostVars
<1>26. CASE OwedActionCarriedOut
  <2>1. CASE NewDocumentCarriedOut
    BY <1>26, <2>1 DEF OwedActionCarriedOut, IsOtherAnswer, NewDocumentCarriedOut,
       StartNewDocument, Writings, roadVars, storeVars
  <2>2. CASE OpeningCarriedOut
    BY <1>26, <2>2 DEF OwedActionCarriedOut, IsOtherAnswer, OpeningCarriedOut, BeginReading,
       NoReading, StoreFree, roadVars, storeVars
  <2>3. CASE ChangeCarriedOut
    BY <1>26, <2>3 DEF OwedActionCarriedOut, IsOtherAnswer, ChangeCarriedOut,
       DocumentWritten, roadVars, storeVars
  <2> QED
    BY <1>26, <2>1, <2>2, <2>3 DEF OwedActionCarriedOut
<1>27. CASE UNCHANGED vars
  BY <1>27 DEF vars, sessionVars, heldVars, roadVars, storeVars, ghostVars
<1> QED
  BY <1>1, <1>2, <1>3, <1>4, <1>5, <1>6, <1>7, <1>8, <1>9, <1>10, <1>11, <1>12, <1>13,
     <1>14, <1>15, <1>16, <1>17, <1>18, <1>19, <1>20, <1>21, <1>22, <1>23, <1>24, <1>25,
     <1>26, <1>27, <1>28 DEF Next

(* The file-flow machine of the session and the two asynchronous roads never  *)
(* part: every answer finds the continuation it settles, and no road outlives *)
(* its operation (document-file-flow.ts, file-flow-values.ts).                *)
THEOREM RoadsFollowTheMachine == Spec => []FlowAgreement
BY TypeInitially, TypeStep, FlowInitially, FlowStep, PTL DEF Spec

-----------------------------------------------------------------------------
(* The numbers of documents: what has not been made yet is nowhere *)

(* Where a step takes the number of a document from. *)
SavedTakenFrom == savedDocument' \in {savedDocument, held, held'}
NumberTaken    == nextDocument' = nextDocument \/ nextDocument' = nextDocument + 1
HeldTakenFrom  == \/ held' = held
                  \/ held' = Original(nextDocument) /\ nextDocument' = nextDocument + 1
                  \/ MoveView
                  \/ held' = reading.incoming
                  \/ UndoEdit
                  \/ RedoEdit
ReadingTakenFrom ==
    \/ reading'.incoming \in {reading.incoming, Original(0)}
    \/ reading'.incoming = Original(nextDocument) /\ nextDocument' = nextDocument + 1
    \/ store.at = "bytes" /\ disk[store.file] \in Documents /\ reading'.incoming = disk[store.file]
WritingTakenFrom == writing'.document \in {writing.document, Original(0), held}
DiskTakenFrom ==
    \/ disk' = disk
    \/ disk' = [disk EXCEPT ![store.file] = Foreign]
    \/ disk' = [disk EXCEPT ![store.file] = writing.document]

LEMMA HeldNumbers == [Next]_vars => NumberTaken /\ HeldTakenFrom /\ SavedTakenFrom
<1> SUFFICES ASSUME [Next]_vars PROVE NumberTaken /\ HeldTakenFrom /\ SavedTakenFrom
  OBVIOUS
<1> USE DEF NumberTaken, HeldTakenFrom, SavedTakenFrom
<1>1. CASE HandBegins \/ HandEnds \/ RaiseChangeQuestion \/ QuestionPutAway
  BY <1>1 DEF HandBegins, HandEnds, RaiseChangeQuestion, QuestionPutAway, heldVars
<1>2. CASE WriteDocument
  BY <1>2 DEF WriteDocument, DocumentWritten, HeldDocumentFollowed
<1>3. CASE MoveView \/ UndoEdit \/ RedoEdit
  BY <1>3 DEF MoveView, UndoEdit, RedoEdit, Restored, ViewCopied
<1>4. CASE PressNewDocument
  BY <1>4 DEF PressNewDocument, StartNewDocument, heldVars
<1>5. CASE AskToOpen \/ ReopenGoesOn \/ FileReadToOpen
  BY <1>5 DEF AskToOpen, ReopenGoesOn, FileReadToOpen, heldVars
<1>6. CASE AgentHandsDocument
  BY <1>6 DEF AgentHandsDocument
<1>7. CASE AnswerOpenChoice \/ AnswerMergeMapping \/ CloseFlowSurface
  BY <1>7 DEF AnswerOpenChoice, AnswerMergeMapping, CloseFlowSurface, heldVars
<1>8. CASE ReadingGoesOn
  BY <1>8 DEF ReadingGoesOn, ReplaceLands, MergeLands, MergeMappingAsked, ImportRefused,
              HeldDocumentFollowed
<1>9. CASE AskToWrite \/ WriteGoesOn \/ ExportReport
  BY <1>9 DEF AskToWrite, WriteGoesOn, ExportReport, heldVars
<1>10. CASE PickFile \/ AnswerPermission \/ ReadDestination
  BY <1>10 DEF PickFile, AnswerPermission, ReadDestination, heldVars
<1>11. CASE BytesWritten
  <2>1. CASE FixBundleIssued(writing.form) /\ savedDocument' \in {savedDocument, held}
    BY <2>1 DEF FixBundleIssued, HeldDocumentFollowed
  <2>2. CASE UNCHANGED <<held, savedDocument, nextDocument>>
    BY <2>2
  <2> QED
    BY <1>11, <2>1, <2>2 DEF BytesWritten, WriteFails, SaveLands, BackupLands, MarkDroppedFirst
<1>12. CASE AnswerDiscardQuestion \/ AnswerOverwriteQuestion
  BY <1>12 DEF AnswerDiscardQuestion, AnswerOverwriteQuestion, heldVars
<1>13. CASE OwedActionCarriedOut
  BY <1>13 DEF OwedActionCarriedOut, NewDocumentCarriedOut, StartNewDocument,
               OpeningCarriedOut, ChangeCarriedOut, DocumentWritten, HeldDocumentFollowed, heldVars
<1>14. CASE UNCHANGED vars
  BY <1>14 DEF vars, heldVars
<1> QED
  BY <1>1, <1>2, <1>3, <1>4, <1>5, <1>6, <1>7, <1>8, <1>9, <1>10, <1>11, <1>12, <1>13,
     <1>14 DEF Next

(* What a record keeps of its number when other fields change. *)
LEMMA NumberKept ==
    ASSUME NEW read \in Readings, DocumentFileRead(read)
    PROVE  reading'.incoming = read.incoming
BY DEF DocumentFileRead, DiscardAskedWhenUnsaved, Readings

LEMMA RoadEndNumbers ==
    /\ ReadingFails => reading'.incoming = Original(0)
    /\ WritingEnds => writing'.document = Original(0)
    /\ NoReading.incoming = Original(0)
BY DEF ReadingFails, WritingEnds, NoReading, NoWriting

LEMMA ReadingNumbers == TypeOK /\ [Next]_vars => ReadingTakenFrom
<1> SUFFICES ASSUME TypeOK, [Next]_vars PROVE ReadingTakenFrom
  OBVIOUS
<1>a. reading \in Readings
  BY DEF TypeOK, RoadTypeOK
<1>1. CASE reading' = reading \/ ReadingFails
  BY <1>1, RoadEndNumbers DEF ReadingTakenFrom
<1>2. CASE AskToOpen \/ OwedActionCarriedOut
  BY <1>1, <1>2 DEF AskToOpen, OwedActionCarriedOut, NewDocumentCarriedOut, OpeningCarriedOut,
     ChangeCarriedOut, BeginReading, NoReading, ReadingTakenFrom, roadVars
<1>3. CASE ReopenGoesOn
  BY <1>1, <1>3, <1>a DEF ReopenGoesOn, Readings, ReadingTakenFrom
<1>4. CASE FileReadToOpen /\ ~ReadingFails
  <2> DEFINE read == [reading EXCEPT !.incoming = disk[store.file], !.from = store.file]
  <2>1. store.at = "bytes" /\ disk[store.file] \in Documents /\ DocumentFileRead(read)
    BY <1>4 DEF FileReadToOpen
  <2>2. read \in Readings /\ read.incoming = disk[store.file]
    BY <2>1, <1>a DEF TypeOK, StoreTypeOK, Readings, Stores
  <2> HIDE DEF read
  <2> QED
    BY <2>1, <2>2, NumberKept DEF ReadingTakenFrom
<1>5. CASE AgentHandsDocument
  <2> DEFINE read == [NoReading EXCEPT !.route = "handed", !.incoming = Original(nextDocument)]
  <2>1. read \in Readings /\ read.incoming = Original(nextDocument)
    BY ValueTypes, DocumentTypes DEF TypeOK, HeldTypeOK, Readings, OpenRoutes
  <2>2. DocumentFileRead(read) /\ nextDocument' = nextDocument + 1
    BY <1>5 DEF AgentHandsDocument
  <2> HIDE DEF read
  <2> QED
    BY <2>1, <2>2, NumberKept DEF ReadingTakenFrom
<1>6. CASE AnswerOpenChoice
  BY <1>6, <1>a DEF AnswerOpenChoice, DiscardAskedWhenUnsaved, Readings, ReadingTakenFrom
<1>7. CASE (AnswerMergeMapping \/ AnswerDiscardQuestion) /\ ~ReadingFails
  <2>1. \/ reading' = [reading EXCEPT !.at = "answered", !.isMapped = TRUE]
        \/ reading' = [reading EXCEPT !.at = "answered", !.choice = "replace"]
    BY <1>7 DEF AnswerMergeMapping, AnswerDiscardQuestion
  <2> QED
    BY <1>a, <2>1 DEF Readings, ReadingTakenFrom
<1>8. CASE CloseFlowSurface
  BY <1>1, <1>8 DEF CloseFlowSurface, FlowSurfaceClosed
<1>9. CASE ReadingGoesOn
  BY <1>1, <1>9, <1>a, RoadEndNumbers DEF ReadingGoesOn, ReplaceLands, MergeLands,
     MergeMappingAsked, ImportRefused, Readings, ReadingTakenFrom
<1>10. CASE HandBegins \/ HandEnds \/ WriteDocument \/ MoveView \/ UndoEdit \/ RedoEdit
  BY <1>1, <1>10 DEF HandBegins, HandEnds, WriteDocument, MoveView, UndoEdit, RedoEdit, roadVars
<1>11. CASE PressNewDocument \/ RaiseChangeQuestion \/ QuestionPutAway
  BY <1>1, <1>11 DEF PressNewDocument, RaiseChangeQuestion, QuestionPutAway, roadVars
<1>12. CASE AskToWrite \/ WriteGoesOn \/ ExportReport
  BY <1>1, <1>12 DEF AskToWrite, WriteGoesOn, ExportReport, roadVars
<1>13. CASE PickFile \/ AnswerPermission \/ ReadDestination \/ AnswerOverwriteQuestion
  BY <1>1, <1>13 DEF PickFile, AnswerPermission, ReadDestination, AnswerOverwriteQuestion,
     StoreLetsGo
<1>14. CASE BytesWritten
  BY <1>1, <1>14 DEF BytesWritten, WriteFails, StoreLetsGo
<1>15. CASE UNCHANGED vars
  BY <1>1, <1>15 DEF vars, roadVars
<1> QED
  BY <1>1, <1>2, <1>3, <1>4, <1>5, <1>6, <1>7, <1>8, <1>9, <1>10, <1>11, <1>12, <1>13,
     <1>14, <1>15 DEF Next

LEMMA WritingNumbers == TypeOK /\ [Next]_vars => WritingTakenFrom /\ DiskTakenFrom
<1> SUFFICES ASSUME TypeOK, [Next]_vars PROVE WritingTakenFrom /\ DiskTakenFrom
  OBVIOUS
<1>a. writing \in Writings
  BY DEF TypeOK, RoadTypeOK
<1>1. CASE (writing' = writing \/ WritingEnds) /\ disk' = disk
  BY <1>1, RoadEndNumbers DEF WritingTakenFrom, DiskTakenFrom
<1>2. CASE disk' = disk /\ writing' = [writing EXCEPT !.isOwn = FALSE]
  BY <1>2, <1>a DEF Writings, WritingTakenFrom, DiskTakenFrom
<1>3. CASE HandBegins \/ HandEnds \/ WriteDocument \/ MoveView \/ UndoEdit \/ RedoEdit
  BY <1>1, <1>3 DEF HandBegins, HandEnds, WriteDocument, MoveView, UndoEdit, RedoEdit, roadVars, storeVars
<1>4. CASE PressNewDocument
  BY <1>1, <1>2, <1>4 DEF PressNewDocument, StartNewDocument, roadVars, storeVars
<1>5. CASE RaiseChangeQuestion \/ QuestionPutAway \/ ExportReport
  BY <1>1, <1>5 DEF RaiseChangeQuestion, QuestionPutAway, ExportReport, roadVars, storeVars
<1>6. CASE AskToOpen \/ ReopenGoesOn \/ FileReadToOpen \/ AgentHandsDocument
  BY <1>1, <1>6 DEF AskToOpen, ReopenGoesOn, FileReadToOpen, AgentHandsDocument, storeVars
<1>7. CASE AnswerOpenChoice \/ AnswerMergeMapping \/ CloseFlowSurface \/ ReadingGoesOn
  BY <1>1, <1>7 DEF AnswerOpenChoice, AnswerMergeMapping, CloseFlowSurface, ReadingGoesOn, storeVars
<1>8. CASE AskToWrite
  BY <1>8 DEF AskToWrite, WritingTakenFrom, DiskTakenFrom
<1>9. CASE WriteGoesOn
  <2>1. disk' = disk
    BY <1>9 DEF WriteGoesOn
  <2>2. CASE WritingEnds
    BY <1>1, <2>1, <2>2
  <2>3. CASE writing' = [writing EXCEPT !.at = "store"]
    BY <1>a, <2>1, <2>3 DEF Writings, WritingTakenFrom, DiskTakenFrom
  <2> QED
    BY <1>9, <2>2, <2>3 DEF WriteGoesOn
<1>10. CASE PickFile \/ AnswerPermission \/ ReadDestination \/ AnswerOverwriteQuestion
  BY <1>1, <1>10 DEF PickFile, AnswerPermission, ReadDestination, AnswerOverwriteQuestion,
     StoreLetsGo
<1>11. CASE BytesWritten
  <2>1. writing' = writing \/ WritingEnds
    BY <1>11 DEF BytesWritten, WriteFails, StoreLetsGo
  <2>2. DiskTakenFrom
    BY <1>11 DEF BytesWritten, WriteFails, DiskTakenFrom
  <2> QED
    BY <2>1, <2>2, RoadEndNumbers DEF WritingTakenFrom
<1>12. CASE AnswerDiscardQuestion
  BY <1>1, <1>12 DEF AnswerDiscardQuestion, storeVars
<1>13. CASE OwedActionCarriedOut
  BY <1>1, <1>2, <1>13 DEF OwedActionCarriedOut, NewDocumentCarriedOut, StartNewDocument,
     OpeningCarriedOut, ChangeCarriedOut, roadVars, storeVars
<1>14. CASE UNCHANGED vars
  BY <1>1, <1>14 DEF vars, roadVars, storeVars
<1> QED
  BY <1>3, <1>4, <1>5, <1>6, <1>7, <1>8, <1>9, <1>10, <1>11, <1>12, <1>13, <1>14 DEF Next

(* What is made stays made, and so is what a step makes. *)
IsMadeNext(document) == document.edit < nextDocument' /\ document.copy < nextDocument'

LEMMA MadeNext ==
    ASSUME nextDocument \in Nat, NumberTaken
    PROVE  /\ \A d \in Documents : IsMade(d) => IsMadeNext(d)
           /\ nextDocument' = nextDocument + 1 => IsMadeNext(Original(nextDocument))
           /\ \A d \in Documents : IsMade(d) /\ nextDocument' = nextDocument + 1 =>
                  IsMadeNext([d EXCEPT !.copy = nextDocument])
<1>1. \A d \in Documents : IsMade(d) => IsMadeNext(d)
  BY DEF NumberTaken, IsMade, IsMadeNext, Documents
<1>2. nextDocument' = nextDocument + 1 => IsMadeNext(Original(nextDocument))
  BY DEF IsMadeNext, Original
<1>3. ASSUME NEW d \in Documents, IsMade(d), nextDocument' = nextDocument + 1
      PROVE  IsMadeNext([d EXCEPT !.copy = nextDocument])
  BY <1>3 DEF IsMade, IsMadeNext, Documents
<1> QED
  BY <1>1, <1>2, <1>3

(* A step of the history leads to what was made. *)
LEMMA RestoredIsMade ==
    ASSUME nextDocument \in Nat, NumberTaken, NEW document \in Documents, IsMade(document),
           Restored(document)
    PROVE  IsMadeNext(held')
BY MadeNext DEF Restored, ViewCopied

(* The step, from where the documents are taken. *)
LEMMA FreshStep ==
    TypeOK /\ TypeOK' /\ FlowAgreement /\ NextDocumentIsFresh /\ [Next]_vars
        => NextDocumentIsFresh'
<1> SUFFICES ASSUME TypeOK, TypeOK', FlowAgreement, NextDocumentIsFresh, [Next]_vars
             PROVE  NextDocumentIsFresh'
  OBVIOUS
<1>a. /\ held \in Documents /\ savedDocument \in Documents /\ nextDocument \in Nat
      /\ reading.incoming \in Documents /\ writing.document \in Documents
      /\ done \in Seq(Documents) /\ undone \in Seq(Documents)
  BY DEF TypeOK, HeldTypeOK, RoadTypeOK, Readings, Writings
<1>b. /\ IsMade(held) /\ IsMade(savedDocument)
      /\ IsMade(reading.incoming) /\ IsMade(writing.document)
      /\ \A i \in 1..Len(done) : IsMade(done[i])
      /\ \A i \in 1..Len(undone) : IsMade(undone[i])
      /\ \A file \in Files : disk[file] \in Documents => IsMade(disk[file])
  BY DEF NextDocumentIsFresh
<1>c. NumberTaken /\ HeldTakenFrom /\ SavedTakenFrom
  BY HeldNumbers
<1>d. /\ IsMadeNext(held) /\ IsMadeNext(savedDocument)
      /\ IsMadeNext(reading.incoming) /\ IsMadeNext(writing.document)
      /\ \A i \in 1..Len(done) : IsMadeNext(done[i])
      /\ \A i \in 1..Len(undone) : IsMadeNext(undone[i])
      /\ \A file \in Files : disk[file] \in Documents => IsMadeNext(disk[file])
  <2>1. \A d \in Documents : IsMade(d) => IsMadeNext(d)
    BY <1>a, <1>c, MadeNext
  <2> QED
    BY <1>a, <1>b, <2>1
<1>e. IsMadeNext(Original(0))
  BY <1>a, <1>b, <1>c DEF IsMade, IsMadeNext, Original, Documents, NumberTaken
<1>1. IsMadeNext(held')
  <2>1. CASE UndoEdit
    <3>1. Restored(done[Len(done)]) /\ Len(done) \in 1..Len(done)
      BY <1>a, <2>1 DEF UndoEdit
    <3> QED
      BY <1>a, <1>b, <1>c, <3>1, RestoredIsMade
  <2>2. CASE RedoEdit
    <3>1. Restored(undone[1]) /\ 1 \in 1..Len(undone)
      BY <1>a, <2>2 DEF RedoEdit
    <3> QED
      BY <1>a, <1>b, <1>c, <3>1, RestoredIsMade
  <2>3. CASE MoveView
    <3>1. Restored(held)
      BY <2>3 DEF MoveView, Restored
    <3> QED
      BY <1>a, <1>b, <1>c, <3>1, RestoredIsMade
  <2>4. CASE held' \in {held, reading.incoming}
    BY <1>d, <2>4
  <2>5. CASE held' = Original(nextDocument) /\ nextDocument' = nextDocument + 1
    BY <1>a, <1>c, <2>5, MadeNext
  <2> QED
    BY <1>c, <2>1, <2>2, <2>3, <2>4, <2>5 DEF HeldTakenFrom
<1>2. IsMadeNext(savedDocument')
  BY <1>1, <1>c, <1>d DEF SavedTakenFrom
<1>3. /\ \A i \in 1..Len(done') : IsMadeNext(done'[i])
      /\ \A i \in 1..Len(undone') : IsMadeNext(undone'[i])
  <2>1. CASE UNCHANGED <<done, undone>>
    BY <1>d, <2>1
  <2>2. CASE done' = <<>> /\ undone' = <<>>
    BY <2>2
  <2>3. CASE UndoEdit
    <3>1. ASSUME NEW i \in 1..Len(done') PROVE IsMadeNext(done'[i])
      <4>1. i \in 1..Len(done) /\ done'[i] = done[i]
        BY <1>a, <2>3 DEF UndoEdit
      <4> QED
        BY <1>d, <4>1
    <3>2. ASSUME NEW i \in 1..Len(undone') PROVE IsMadeNext(undone'[i])
      <4>1. \/ undone'[i] = held
            \/ i - 1 \in 1..Len(undone) /\ undone'[i] = undone[i - 1]
        BY <1>a, <2>3 DEF UndoEdit
      <4> QED
        BY <1>d, <4>1
    <3> QED
      BY <3>1, <3>2
  <2>4. CASE /\ done' = Append(done, held)
             /\ undone' = <<>> \/ (undone # <<>> /\ undone' = Tail(undone))
    <3>1. ASSUME NEW i \in 1..Len(done') PROVE IsMadeNext(done'[i])
      <4>1. \/ done'[i] = held
            \/ i \in 1..Len(done) /\ done'[i] = done[i]
        BY <1>a, <2>4
      <4> QED
        BY <1>d, <4>1
    <3>2. ASSUME NEW i \in 1..Len(undone') PROVE IsMadeNext(undone'[i])
      <4>1. undone # <<>> /\ undone' = Tail(undone)
        BY <2>4
      <4>2. i + 1 \in 1..Len(undone) /\ undone'[i] = undone[i + 1]
        BY <1>a, <4>1
      <4> QED
        BY <1>d, <4>2
    <3> QED
      BY <3>1, <3>2
  <2>5. CASE HeldDocumentFollowed
    BY <2>4, <2>5 DEF HeldDocumentFollowed, HistoryGrows
  <2>6. CASE RedoEdit
    BY <2>4, <2>6 DEF RedoEdit
  <2>7. CASE MoveView
    BY <2>1, <2>7 DEF MoveView
  <2> QED
    BY <2>1, <2>2, <2>3, <2>5, <2>6, <2>7, HeldSteps
<1>4. IsMadeNext(reading'.incoming)
  <2>1. CASE store.at = "bytes" /\ disk[store.file] \in Documents /\ reading'.incoming = disk[store.file]
    <3>1. store.file \in Files
      BY <2>1 DEF FlowAgreement, StoreAgreement
    <3> QED
      BY <1>d, <2>1, <3>1
  <2>2. CASE reading'.incoming = Original(nextDocument) /\ nextDocument' = nextDocument + 1
    BY <1>a, <1>c, <2>2, MadeNext
  <2> QED
    BY <1>d, <1>e, <2>1, <2>2, ReadingNumbers DEF ReadingTakenFrom
<1>5. IsMadeNext(writing'.document)
  BY <1>d, <1>e, WritingNumbers DEF WritingTakenFrom
<1>6. ASSUME NEW file \in Files, disk'[file] \in Documents PROVE IsMadeNext(disk'[file])
  <2>1. disk \in [Files -> Contents]
    BY DEF TypeOK, StoreTypeOK
  <2>2. disk'[file] \in {disk[file], Foreign, writing.document}
    BY <2>1, WritingNumbers DEF DiskTakenFrom
  <2>3. Foreign \notin Documents
    BY ContentsAssumption DEF Documents
  <2> QED
    BY <1>6, <1>d, <2>2, <2>3
<1> QED
  BY <1>1, <1>2, <1>3, <1>4, <1>5, <1>6 DEF NextDocumentIsFresh, IsMade, IsMadeNext

LEMMA FreshInitially == Init => NextDocumentIsFresh /\ HistoryIsALine /\ MarkAgreement
<1> SUFFICES ASSUME Init PROVE NextDocumentIsFresh /\ HistoryIsALine /\ MarkAgreement
  OBVIOUS
<1>1. /\ Original(0).edit = 0 /\ Original(0).copy = 0
      /\ Original(1).edit = 1 /\ Original(1).copy = 1
      /\ NoReading.incoming = Original(0) /\ NoWriting.document = Original(0)
  BY DEF Original, NoReading, NoWriting
<1>2. \A file \in Files : disk[file] \in Documents => disk[file] = Original(1)
  BY ContentsAssumption DEF Init, Documents
<1> QED
  BY <1>1, <1>2 DEF Init, NextDocumentIsFresh, IsMade, HistoryIsALine, MarkAgreement, HasUnsavedEdits

(* Undo and redo move along one line of edits in the order they were          *)
(* made, so no undo leads back to a saved document the mark does not tell     *)
(* apart (document-change-plan.ts, edit history).                             *)
THEOREM HistoryStaysALine == Spec => [](HistoryIsALine /\ NextDocumentIsFresh)
<1>1. /\ TypeOK /\ TypeOK' /\ FlowAgreement /\ HistoryIsALine /\ NextDocumentIsFresh /\ [Next]_vars
      => HistoryIsALine' /\ NextDocumentIsFresh'
  BY HistoryStep, FreshStep
<1> QED
  BY <1>1, TypeCorrect, RoadsFollowTheMachine, FreshInitially, PTL DEF Spec

-----------------------------------------------------------------------------
(* The unsaved mark *)

(* An edit, an undo or a redo lands on another document than the held one. *)
LEMMA MarkLands ==
    ASSUME MarkAgreement, NEW document, EditLands(document), document # held,
           held' = document, savedDocument' = savedDocument
    PROVE  MarkAgreement'
BY DEF MarkAgreement, EditLands, HasUnsavedEdits

LEMMA MarkStep ==
    TypeOK /\ NextDocumentIsFresh /\ HistoryIsALine /\ MarkAgreement /\ [Next]_vars => MarkAgreement'
<1> SUFFICES ASSUME TypeOK, NextDocumentIsFresh, HistoryIsALine, MarkAgreement, [Next]_vars
             PROVE  MarkAgreement'
  OBVIOUS
<1>a. /\ held \in Documents /\ savedDocument \in Documents /\ nextDocument \in Nat
      /\ done \in Seq(Documents) /\ undone \in Seq(Documents)
  BY DEF TypeOK, HeldTypeOK
<1>b. held # Original(nextDocument) /\ savedDocument # Original(nextDocument)
  BY <1>a, DocumentTypes DEF NextDocumentIsFresh, IsMade
<1>1. CASE UNCHANGED <<held, savedDocument, unsavedEdits>>
  BY <1>1 DEF MarkAgreement, HasUnsavedEdits
<1>2. CASE DocumentWritten
  BY <1>2, <1>b, MarkLands DEF DocumentWritten, HeldDocumentFollowed
<1>3. CASE StartNewDocument
  BY <1>3 DEF StartNewDocument, MarkAgreement, HasUnsavedEdits
<1>4. CASE UndoEdit
  <2>1. /\ Restored(done[Len(done)]) /\ EditLands(held')
        /\ savedDocument' = savedDocument /\ Len(done) \in 1..Len(done)
    BY <1>4, <1>a DEF UndoEdit
  <2>2. done[Len(done)].edit < held.edit /\ done[Len(done)] \in Documents
    BY <1>a, <2>1 DEF HistoryIsALine
  <2>3. held' # held
    BY <1>a, <2>1, <2>2, RestoredEdit, DocumentTypes
  <2> QED
    BY <2>1, <2>3, MarkLands
<1>5. CASE RedoEdit
  <2>1. /\ Restored(undone[1]) /\ EditLands(held')
        /\ savedDocument' = savedDocument /\ 1 \in 1..Len(undone)
    BY <1>5, <1>a DEF RedoEdit
  <2>2. held.edit < undone[1].edit /\ undone[1] \in Documents
    BY <1>a, <2>1 DEF HistoryIsALine
  <2>3. held' # held
    BY <1>a, <2>1, <2>2, RestoredEdit, DocumentTypes
  <2> QED
    BY <2>1, <2>3, MarkLands
<1>18. CASE MoveView
  <2>1. /\ held' = [held EXCEPT !.copy = nextDocument] /\ EditLands(held')
        /\ savedDocument' = savedDocument
    BY <1>18 DEF MoveView, ViewCopied
  <2>2. held'.copy = nextDocument /\ held.copy < nextDocument
    BY <1>a, <2>1, DocumentTypes DEF NextDocumentIsFresh, IsMade
  <2>3. held' # held
    BY <1>a, <2>2, DocumentTypes
  <2> QED
    BY <2>1, <2>3, MarkLands
<1>6. CASE ReadingGoesOn
  BY <1>6, <1>b DEF ReadingGoesOn, ReplaceLands, MergeLands, MergeMappingAsked, ImportRefused,
     HeldDocumentFollowed, MarkAgreement, HasUnsavedEdits
<1>7. CASE BytesWritten
  <2>1. CASE MarkDroppedFirst
    BY <2>1 DEF MarkDroppedFirst, MarkAgreement, HasUnsavedEdits
  <2>2. CASE BackupLands
    <3>1. held' = held \/ held' = Original(nextDocument)
      BY <2>2 DEF BackupLands, FixBundleIssued, HeldDocumentFollowed
    <3> QED
      BY <1>b, <2>2, <3>1 DEF BackupLands, MarkAgreement, HasUnsavedEdits
  <2> QED
    BY <1>1, <1>7, <2>1, <2>2 DEF BytesWritten, WriteFails, SaveLands
<1>8. CASE HandBegins \/ HandEnds \/ RaiseChangeQuestion \/ QuestionPutAway
  BY <1>1, <1>8 DEF HandBegins, HandEnds, RaiseChangeQuestion, QuestionPutAway, sessionVars, heldVars
<1>9. CASE WriteDocument
  BY <1>2, <1>9 DEF WriteDocument
<1>10. CASE PressNewDocument
  BY <1>1, <1>3, <1>10 DEF PressNewDocument, heldVars
<1>11. CASE AskToOpen \/ ReopenGoesOn \/ FileReadToOpen \/ AgentHandsDocument
  BY <1>1, <1>11 DEF AskToOpen, ReopenGoesOn, FileReadToOpen, AgentHandsDocument, heldVars
<1>12. CASE AnswerOpenChoice \/ AnswerMergeMapping \/ CloseFlowSurface
  BY <1>1, <1>12 DEF AnswerOpenChoice, AnswerMergeMapping, CloseFlowSurface, heldVars
<1>13. CASE AskToWrite \/ WriteGoesOn \/ ExportReport
  BY <1>1, <1>13 DEF AskToWrite, WriteGoesOn, ExportReport, sessionVars, heldVars
<1>14. CASE PickFile \/ AnswerPermission \/ ReadDestination
  BY <1>1, <1>14 DEF PickFile, AnswerPermission, ReadDestination, heldVars
<1>15. CASE AnswerDiscardQuestion \/ AnswerOverwriteQuestion
  BY <1>1, <1>15 DEF AnswerDiscardQuestion, AnswerOverwriteQuestion, heldVars
<1>16. CASE OwedActionCarriedOut
  BY <1>1, <1>2, <1>3, <1>16 DEF OwedActionCarriedOut, NewDocumentCarriedOut, OpeningCarriedOut,
     ChangeCarriedOut, heldVars
<1>17. CASE UNCHANGED vars
  BY <1>1, <1>17 DEF vars, sessionVars, heldVars
<1> QED
  BY <1>4, <1>5, <1>6, <1>7, <1>8, <1>9, <1>10, <1>11, <1>12, <1>13, <1>14, <1>15, <1>16,
     <1>17, <1>18 DEF Next

(* The unsaved mark is raised exactly while the held document is another than *)
(* the one held when it last dropped, over every history of edits, undos,     *)
(* redos, opens, saves, fixes and fresh starts (frame-loop.ts, FR-100).       *)
THEOREM MarkCorrect == Spec => []MarkAgreement
BY MarkStep, TypeCorrect, HistoryStaysALine, FreshInitially, PTL DEF Spec

-----------------------------------------------------------------------------
(* A question keeps the document it was asked about *)

LEMMA QuestionStep ==
    TypeOK /\ [Next]_vars => (IsQuestionAsked /\ confirmation' # NotAsked => held'.edit = held.edit)
<1> SUFFICES ASSUME TypeOK, [Next]_vars, IsQuestionAsked, confirmation' # NotAsked
             PROVE  held'.edit = held.edit
  OBVIOUS
<1>a. ~MayWrite(confirmation)
  BY DEF MayWrite, IsQuestionAsked, NotAsked, Asked
<1>1. CASE HandBegins \/ HandEnds \/ RaiseChangeQuestion \/ QuestionPutAway
  BY <1>1 DEF HandBegins, HandEnds, RaiseChangeQuestion, QuestionPutAway, heldVars
<1>2. CASE WriteDocument \/ UndoEdit \/ RedoEdit \/ OwedActionCarriedOut
  BY <1>a, <1>2 DEF WriteDocument, UndoEdit, RedoEdit, OwedActionCarriedOut
<1>3. CASE PressNewDocument
  BY <1>3 DEF PressNewDocument
<1>4. CASE AskToOpen \/ ReopenGoesOn \/ FileReadToOpen \/ AgentHandsDocument
  BY <1>4 DEF AskToOpen, ReopenGoesOn, FileReadToOpen, AgentHandsDocument, heldVars
<1>5. CASE AnswerOpenChoice \/ AnswerMergeMapping \/ CloseFlowSurface
  BY <1>5 DEF AnswerOpenChoice, AnswerMergeMapping, CloseFlowSurface, heldVars
<1>6. CASE ReadingGoesOn
  BY <1>a, <1>6 DEF ReadingGoesOn, ReplaceLands, MergeLands, MergeMappingAsked, ImportRefused
<1>7. CASE AskToWrite \/ WriteGoesOn \/ ExportReport
  BY <1>7 DEF AskToWrite, WriteGoesOn, ExportReport, heldVars
<1>8. CASE PickFile \/ AnswerPermission \/ ReadDestination
  BY <1>8 DEF PickFile, AnswerPermission, ReadDestination, heldVars
<1>9. CASE BytesWritten
  BY <1>a, <1>9 DEF BytesWritten, WriteFails, SaveLands, BackupLands, FixBundleIssued
<1>10. CASE AnswerDiscardQuestion \/ AnswerOverwriteQuestion
  BY <1>10 DEF AnswerDiscardQuestion, AnswerOverwriteQuestion, heldVars
<1>11. CASE UNCHANGED vars
  BY <1>11 DEF vars, heldVars
<1>12. CASE MoveView
  BY <1>12, DocumentTypes DEF MoveView, ViewCopied, TypeOK, HeldTypeOK
<1> QED
  BY <1>1, <1>2, <1>3, <1>4, <1>5, <1>6, <1>7, <1>8, <1>9, <1>10, <1>11, <1>12 DEF Next

(* While a question stands, and until the step that answers it, nothing but   *)
(* its view changes in the held document: the commands a yes carries out were *)
(* made of it (isQuestionAskedIn in frame-loop.ts, refusalOfMoment, WS-2).    *)
THEOREM QuestionKeepsDocument == Spec => QuestionedDocumentStays
<1>1. TypeOK /\ [Next]_vars
          => [IsQuestionAsked /\ confirmation' # NotAsked => held'.edit = held.edit]_vars
  BY QuestionStep
<1> QED
  BY <1>1, TypeCorrect, PTL DEF Spec, QuestionedDocumentStays

-----------------------------------------------------------------------------
(* What a save may touch and what the unsaved mark promises: each of these    *)
(* theorems assumes only that the happenings that break it are not admitted,  *)
(* and holds whatever the others do.                                         *)

-----------------------------------------------------------------------------
(* The overwrite question *)

(* Without the export of the report, the store works for the file machine     *)
(* alone, and QN-4 stands exactly while a write waits on it.                  *)
NoReportIsWritten == store.owner # "report"
OverwriteIsAsked  == store.at = "askedOver" <=> confirmation.question = "QN-4"

(* The machine is writing whenever the store asks about an occupied place. *)
LEMMA AskerIsWriting ==
    ASSUME TypeOK, FlowAgreement, NoReportIsWritten, OverwriteIsAsked
    PROVE  OverwriteAgreement
<1>1. store.at = "askedOver" => store.owner = "writing"
  BY DEF FlowAgreement, StoreAgreement, NoReportIsWritten, TypeOK, StoreTypeOK, Stores, StoreOwners
<1>2. store.at = "askedOver" => fileOperation = "writingDocumentFile"
  BY <1>1 DEF FlowAgreement, StoreAgreement, WritingAgreement
<1> QED
  BY <1>2 DEF OverwriteAgreement, OverwriteIsAsked, IsOverwriteAnswerTaken

(* A question about what was read never replaces the one about an occupied place. *)
LEMMA DiscardIsAskedOfAReading ==
    ASSUME TypeOK, FlowAgreement, NoReportIsWritten, fileOperation # "writingDocumentFile",
           OverwriteIsAsked,
           store' = store \/ store' = StoreFree,
           UNCHANGED confirmation \/ confirmation' = Asked("QN-5", "nothing")
    PROVE  NoReportIsWritten' /\ OverwriteIsAsked'
<1>1. store.at # "askedOver"
  BY AskerIsWriting DEF OverwriteAgreement, IsOverwriteAnswerTaken
<1> QED
  BY <1>1 DEF NoReportIsWritten, OverwriteIsAsked, StoreFree, Asked, TypeOK, SessionTypeOK,
              Confirmations

LEMMA OverwriteStep ==
    ASSUME "exportReport" \notin Admitted, TypeOK, FlowAgreement,
           NoReportIsWritten, OverwriteIsAsked, [Next]_vars
    PROVE  NoReportIsWritten' /\ OverwriteIsAsked'
<1> USE DEF NoReportIsWritten, OverwriteIsAsked
<1>t. store \in Stores /\ confirmation \in Confirmations
  BY DEF TypeOK, StoreTypeOK, SessionTypeOK
<1>a. store.at = "askedOver" => store.owner = "writing" /\ fileOperation = "writingDocumentFile"
  BY AskerIsWriting DEF OverwriteAgreement, IsOverwriteAnswerTaken, FlowAgreement, StoreAgreement,
     Stores, StoreOwners, TypeOK, StoreTypeOK
<1>1. CASE HandBegins \/ HandEnds \/ WriteDocument \/ MoveView \/ UndoEdit \/ RedoEdit
  BY <1>1 DEF HandBegins, HandEnds, WriteDocument, MoveView, UndoEdit, RedoEdit,
              sessionVars, storeVars
<1>2. CASE PressNewDocument \/ RaiseChangeQuestion
  BY <1>2, <1>t DEF PressNewDocument, RaiseChangeQuestion, IsQuestionAsked, Asked, storeVars
<1>3. CASE AskToOpen
  BY <1>3, <1>a DEF AskToOpen, BeginReading, StoreFree
<1>4. CASE ReopenGoesOn
  BY <1>4, <1>a DEF ReopenGoesOn, StoreFree, FlowAgreement, ReadingAgreement
<1>5. CASE FileReadToOpen
  <2>1. fileOperation # "writingDocumentFile"
    BY <1>5 DEF FileReadToOpen, FlowAgreement, ReadingAgreement, StoreAgreement
  <2>2. UNCHANGED confirmation \/ confirmation' = Asked("QN-5", "nothing")
    BY <1>5 DEF FileReadToOpen, DocumentFileRead, DiscardAskedWhenUnsaved
  <2> QED
    BY <1>5, <2>1, <2>2, DiscardIsAskedOfAReading DEF FileReadToOpen
<1>6. CASE AgentHandsDocument
  <2>1. UNCHANGED confirmation \/ confirmation' = Asked("QN-5", "nothing")
    BY <1>6 DEF AgentHandsDocument, DocumentFileRead, DiscardAskedWhenUnsaved
  <2> QED
    BY <1>6, <2>1, DiscardIsAskedOfAReading DEF AgentHandsDocument, storeVars
<1>7. CASE AnswerOpenChoice
  <2>1. UNCHANGED confirmation \/ confirmation' = Asked("QN-5", "nothing")
    BY <1>7 DEF AnswerOpenChoice, DiscardAskedWhenUnsaved
  <2> QED
    BY <1>7, <2>1, DiscardIsAskedOfAReading DEF AnswerOpenChoice, storeVars
<1>8. CASE AnswerMergeMapping \/ CloseFlowSurface \/ ReadingGoesOn
  BY <1>8 DEF AnswerMergeMapping, CloseFlowSurface, ReadingGoesOn, storeVars
<1>9. CASE AskToWrite
  BY <1>9, <1>a DEF AskToWrite, AskStoreForPlace, StoreFree
<1>10. CASE WriteGoesOn
  BY <1>10, <1>t DEF WriteGoesOn, AskStoreForPlace, StoreFree, FlowAgreement, StoreAgreement
<1>11. CASE ExportReport
  BY <1>11 DEF ExportReport
<1>12. CASE PickFile
  <2>1. store.at = "picking" /\ UNCHANGED confirmation
    BY <1>12 DEF PickFile
  <2>2. CASE store' = StoreFree
    BY <2>1, <2>2 DEF StoreFree
  <2>3. CASE store' # StoreFree
    <3> DEFINE at == IF store.owner = "reading" THEN "bytes" ELSE "destination"
    <3>1. \E file \in Files : store' = [store EXCEPT !.file = file, !.at = at]
      BY <1>12, <2>3 DEF PickFile, StoreLetsGo
    <3>2. at # "askedOver"
      OBVIOUS
    <3> HIDE DEF at
    <3>3. store'.owner = store.owner /\ store'.at = at
      BY <1>t, <3>1, PlacePicked
    <3> QED
      BY <2>1, <3>2, <3>3
  <2> QED
    BY <2>2, <2>3
<1>13. CASE AnswerPermission
  BY <1>13, <1>t DEF AnswerPermission, StoreLetsGo, StoreFree, Stores
<1>14. CASE ReadDestination
  BY <1>14, <1>t DEF ReadDestination, StoreLetsGo, StoreFree, OverwriteAsked, Asked, Stores
<1>15. CASE BytesWritten
  BY <1>15, <1>t DEF BytesWritten, WriteFails, StoreLetsGo, StoreFree, Stores
<1>16. CASE AnswerDiscardQuestion
  BY <1>16, <1>a DEF AnswerDiscardQuestion, NotAsked, Asked, storeVars
<1>17. CASE AnswerOverwriteQuestion
  <2>1. confirmation'.question = "none" /\ store.at = "askedOver" /\ settleOverwrite # "nobody"
    BY <1>17 DEF AnswerOverwriteQuestion, IsOverwriteAnswerTaken, FlowAgreement, OverwriteHolder,
       NotAsked, Asked
  <2>2. store' = StoreFree \/ store' = [store EXCEPT !.at = "bytes", !.isAgreed = TRUE]
    BY <1>17, <2>1 DEF AnswerOverwriteQuestion, StoreLetsGo
  <2>3. store'.owner \in {"reading", store.owner} /\ store'.at # "askedOver"
    BY <1>t, <2>2, RoadEnds DEF Stores
  <2> QED
    BY <2>1, <2>3
<1>18. CASE QuestionPutAway
  BY <1>18, <1>a DEF QuestionPutAway, IsOtherAnswer, IsOverwriteAnswerTaken, NotAsked, Asked, storeVars
<1>19. CASE OwedActionCarriedOut
  BY <1>19, <1>a DEF OwedActionCarriedOut, IsOtherAnswer, IsOverwriteAnswerTaken, NotAsked, Asked,
     NewDocumentCarriedOut, OpeningCarriedOut, ChangeCarriedOut, BeginReading, StoreFree, storeVars
<1>20. CASE UNCHANGED vars
  BY <1>20 DEF vars, sessionVars, storeVars
<1> QED
  BY <1>1, <1>2, <1>3, <1>4, <1>5, <1>6, <1>7, <1>8, <1>9, <1>10, <1>11, <1>12, <1>13, <1>14,
     <1>15, <1>16, <1>17, <1>18, <1>19, <1>20 DEF Next

(* While the report is not exported, the answer to an overwrite question      *)
(* reaches the write that waits for it (DI-4, askToWriteOverDestination).     *)
THEOREM OverwriteAnswerReachesItsWrite ==
    ASSUME "exportReport" \notin Admitted
    PROVE  Spec => []OverwriteAgreement
<1> DEFINE I == TypeOK /\ FlowAgreement /\ NoReportIsWritten /\ OverwriteIsAsked
<1>1. Init => I
  BY TypeInitially, FlowInitially DEF Init, NoReportIsWritten, OverwriteIsAsked, StoreFree,
     NotAsked, Asked
<1>2. I /\ [Next]_vars => I'
  BY TypeStep, FlowStep, OverwriteStep
<1>3. I => OverwriteAgreement
  BY AskerIsWriting
<1> QED
  BY <1>1, <1>2, <1>3, PTL DEF Spec

-----------------------------------------------------------------------------
(* The file a save writes over *)

(* Without New during a write, the document that is written is never put away. *)
WritingIsOwn == writing.at # "none" => writing.isOwn

LEMMA WritingOwnStep ==
    ASSUME "newWhileWriting" \notin Admitted, TypeOK, WritingIsOwn, [Next]_vars
    PROVE  WritingIsOwn'
<1> USE DEF WritingIsOwn
<1>a. writing \in Writings
  BY DEF TypeOK, RoadTypeOK
<1>1. CASE writing' = writing \/ WritingEnds
  BY <1>1, RoadEnds
<1>2. CASE writing' = [writing EXCEPT !.isOwn = FALSE] /\ NewAdmitted
  BY <1>a, <1>2 DEF NewAdmitted, Writings
<1>3. CASE HandBegins \/ HandEnds \/ WriteDocument \/ MoveView \/ UndoEdit \/ RedoEdit
  BY <1>1, <1>3 DEF HandBegins, HandEnds, WriteDocument, MoveView, UndoEdit, RedoEdit, roadVars
<1>4. CASE PressNewDocument
  BY <1>1, <1>2, <1>4 DEF PressNewDocument, StartNewDocument, roadVars
<1>5. CASE RaiseChangeQuestion \/ QuestionPutAway \/ ExportReport
  BY <1>1, <1>5 DEF RaiseChangeQuestion, QuestionPutAway, ExportReport, roadVars
<1>6. CASE AskToOpen \/ ReopenGoesOn \/ FileReadToOpen \/ AgentHandsDocument
  BY <1>1, <1>6 DEF AskToOpen, ReopenGoesOn, FileReadToOpen, AgentHandsDocument
<1>7. CASE AnswerOpenChoice \/ AnswerMergeMapping \/ CloseFlowSurface \/ ReadingGoesOn
  BY <1>1, <1>7 DEF AnswerOpenChoice, AnswerMergeMapping, CloseFlowSurface, ReadingGoesOn
<1>8. CASE AskToWrite
  BY <1>8 DEF AskToWrite
<1>9. CASE WriteGoesOn
  BY <1>1, <1>9, <1>a DEF WriteGoesOn, Writings
<1>10. CASE PickFile \/ AnswerPermission \/ ReadDestination \/ BytesWritten
  BY <1>1, <1>10 DEF PickFile, AnswerPermission, ReadDestination, BytesWritten, WriteFails,
     StoreLetsGo
<1>11. CASE AnswerDiscardQuestion \/ AnswerOverwriteQuestion
  BY <1>1, <1>11 DEF AnswerDiscardQuestion, AnswerOverwriteQuestion, StoreLetsGo
<1>12. CASE OwedActionCarriedOut
  BY <1>1, <1>2, <1>12 DEF OwedActionCarriedOut, NewDocumentCarriedOut, StartNewDocument,
     OpeningCarriedOut, ChangeCarriedOut, roadVars
<1>13. CASE UNCHANGED vars
  BY <1>1, <1>13 DEF vars, roadVars
<1> QED
  BY <1>3, <1>4, <1>5, <1>6, <1>7, <1>8, <1>9, <1>10, <1>11, <1>12, <1>13 DEF Next

(* What a road that reads would adopt, stage by stage: while the store reads, *)
(* nothing is proposed yet and a reopen reads the very file that is open; once *)
(* it has read, the file it read or none; and a baseline replaces nothing.    *)
NothingProposedYet ==
    reading.at = "store" =>
        /\ handleReadToOpen = NoProposal
        /\ reading.route = "reopen" => store.at = "bytes" /\ openedHandle \in {store.file, NoFile}
ItsFileIsAdopted ==
    reading.at \in {"askedHow", "answered", "askedMapping"} =>
        /\ reading.from \in Files
        /\ reading.route # "baseline" => AdoptedHandle \in {reading.from, NoFile}
BaselineReplacesNothing ==
    reading.route = "baseline" =>
        /\ reading.at \notin {"askedHow", "askedMapping"}
        /\ reading.at = "answered" => reading.choice = "baseline"
ReadingAdopts ==
    /\ NothingProposedYet /\ ItsFileIsAdopted /\ BaselineReplacesNothing
    /\ reading.route # "handed"

(* The ways a step can leave, end, begin or further a road that reads. *)
LEMMA AdoptionKept ==
    ASSUME ReadingAdopts, UNCHANGED <<reading, handleReadToOpen, openedHandle>>,
           reading.at # "store" \/ reading.route # "reopen" \/ store' = store
    PROVE  ReadingAdopts'
BY DEF ReadingAdopts, NothingProposedYet, ItsFileIsAdopted, BaselineReplacesNothing, AdoptedHandle

LEMMA AdoptionOver ==
    ReadingFails => ReadingAdopts'
BY DEF ReadingFails, NoReading, ReadingAdopts, NothingProposedYet, ItsFileIsAdopted,
       BaselineReplacesNothing

LEMMA AdoptionForgotten ==
    ASSUME ReadingAdopts, OpenedFileForgotten, UNCHANGED <<reading, store>>
    PROVE  ReadingAdopts'
BY DEF OpenedFileForgotten, ReadingAdopts, NothingProposedYet, ItsFileIsAdopted,
       BaselineReplacesNothing, AdoptedHandle

LEMMA AdoptionBegun ==
    ASSUME NEW route \in {"chooser", "drop", "reopen", "baseline"}, BeginReading(route)
    PROVE  ReadingAdopts'
BY DEF BeginReading, NoReading, ReadingAdopts, NothingProposedYet, ItsFileIsAdopted,
       BaselineReplacesNothing

LEMMA AdoptionAnswered ==
    ASSUME ReadingAdopts, reading \in Readings,
           reading.at \in {"askedHow", "answered", "askedMapping"}, reading.route # "baseline",
           reading'.at \in {"askedHow", "answered", "askedMapping"},
           reading'.route = reading.route, reading'.from = reading.from,
           UNCHANGED <<handleReadToOpen, openedHandle>>
    PROVE  ReadingAdopts'
BY DEF ReadingAdopts, NothingProposedYet, ItsFileIsAdopted, BaselineReplacesNothing, AdoptedHandle

(* What was read proposes its own file, and asks or goes on. *)
LEMMA ReadingKept ==
    ASSUME NEW read \in Readings, DocumentFileRead(read)
    PROVE  /\ reading'.from = read.from /\ reading'.route = read.route
           /\ reading'.at \in {"askedHow", "answered"}
           /\ read.route = "baseline" => reading'.at = "answered" /\ reading'.choice = "baseline"
BY DEF DocumentFileRead, DiscardAskedWhenUnsaved, Readings

LEMMA AdoptionProposed ==
    ASSUME TypeOK, FlowAgreement, ReadingAdopts, FileReadToOpen
    PROVE  ReadingAdopts'
<1>a. store.at = "bytes" /\ reading.at = "store" /\ store.file \in Files /\ reading \in Readings
  BY DEF FileReadToOpen, FlowAgreement, StoreAgreement, TypeOK, RoadTypeOK
<1>1. CASE ReadingFails
  BY <1>1, AdoptionOver
<1>2. CASE ~ReadingFails
  <2> DEFINE read == [reading EXCEPT !.incoming = disk[store.file], !.from = store.file]
  <2>1. disk[store.file] \in Documents /\ DocumentFileRead(read) /\ openedHandle' = openedHandle
    BY <1>2 DEF FileReadToOpen
  <2>2. /\ read \in Readings /\ read.route = reading.route /\ read.from = store.file
    BY <1>a, <2>1 DEF Readings, FilesOrNone
  <2>3. /\ reading'.from = store.file /\ reading'.route = reading.route
        /\ reading'.at \in {"askedHow", "answered"}
        /\ reading.route = "baseline" => reading'.at = "answered" /\ reading'.choice = "baseline"
    <3> HIDE DEF read
    <3> QED
      BY <2>1, <2>2, ReadingKept
  <2>4. \/ reading.route = "chooser" /\ handleReadToOpen' = store.file
        \/ reading.route = "drop" /\ handleReadToOpen' \in {store.file, NoFile}
        \/ reading.route \in {"reopen", "baseline"} /\ UNCHANGED handleReadToOpen
    BY <1>2 DEF FileReadToOpen
  <2>5. reading'.route # "baseline" => AdoptedHandle' \in {reading'.from, NoFile}
    BY <1>a, <2>1, <2>3, <2>4, FilesAssumption DEF AdoptedHandle, ReadingAdopts, NothingProposedYet
  <2> QED
    BY <1>a, <2>3, <2>5 DEF ReadingAdopts, NothingProposedYet, ItsFileIsAdopted,
       BaselineReplacesNothing
<1> QED
  BY <1>1, <1>2

LEMMA AdoptionStep ==
    ASSUME "newWhileWriting" \notin Admitted, "handDocument" \notin Admitted,
           TypeOK, FlowAgreement, ReadingAdopts, [Next]_vars
    PROVE  ReadingAdopts'
<1>t. reading \in Readings /\ store \in Stores
  BY DEF TypeOK, RoadTypeOK, StoreTypeOK
<1>1. CASE HandBegins \/ HandEnds \/ WriteDocument \/ MoveView \/ UndoEdit \/ RedoEdit
  BY <1>1, AdoptionKept DEF HandBegins, HandEnds, WriteDocument, MoveView, UndoEdit, RedoEdit,
     roadVars, storeVars
<1>2. CASE PressNewDocument
  BY <1>2, AdoptionKept, AdoptionForgotten DEF PressNewDocument, StartNewDocument, roadVars, storeVars
<1>3. CASE RaiseChangeQuestion \/ QuestionPutAway
  BY <1>3, AdoptionKept DEF RaiseChangeQuestion, QuestionPutAway, roadVars, storeVars
<1>4. CASE AskToOpen
  BY <1>4, AdoptionBegun DEF AskToOpen
<1>5. CASE ReopenGoesOn
  <2>1. CASE ReadingFails
    BY <2>1, AdoptionOver
  <2>2. CASE ~ReadingFails
    <3>1. /\ reading' = [reading EXCEPT !.at = "store"] /\ handleReadToOpen' = NoProposal
          /\ store'.at = "bytes" /\ store'.file = openedHandle /\ openedHandle' = openedHandle
      BY <1>5, <2>2 DEF ReopenGoesOn, StoreFree
    <3>2. reading'.at = "store" /\ reading'.route = reading.route
      BY <1>t, <3>1 DEF Readings
    <3> QED
      BY <3>1, <3>2 DEF ReadingAdopts, NothingProposedYet, ItsFileIsAdopted, BaselineReplacesNothing
  <2> QED
    BY <2>1, <2>2
<1>6. CASE FileReadToOpen
  BY <1>6, AdoptionProposed
<1>7. CASE AgentHandsDocument
  BY <1>7 DEF AgentHandsDocument
<1>8. CASE AnswerOpenChoice
  <2>1. reading.at = "askedHow" /\ UNCHANGED <<handleReadToOpen, openedHandle>>
    BY <1>8 DEF AnswerOpenChoice, FlowAgreement, ReadingAgreement, storeVars
  <2>2. /\ reading'.at \in {"askedHow", "answered"}
        /\ reading'.route = reading.route /\ reading'.from = reading.from
    BY <1>8, <1>t DEF AnswerOpenChoice, DiscardAskedWhenUnsaved, Readings
  <2> QED
    BY <1>t, <2>1, <2>2, AdoptionAnswered DEF ReadingAdopts, BaselineReplacesNothing
<1>9. CASE AnswerMergeMapping \/ AnswerDiscardQuestion
  <2>1. reading.at \in {"askedHow", "askedMapping"} /\ UNCHANGED <<handleReadToOpen, openedHandle>>
    BY <1>9 DEF AnswerMergeMapping, AnswerDiscardQuestion, FlowAgreement, ReadingAgreement, storeVars
  <2>2. CASE ReadingFails
    BY <2>2, AdoptionOver
  <2>3. CASE ~ReadingFails
    <3>1. \/ reading' = [reading EXCEPT !.at = "answered", !.isMapped = TRUE]
          \/ reading' = [reading EXCEPT !.at = "answered", !.choice = "replace"]
      BY <1>9, <2>3 DEF AnswerMergeMapping, AnswerDiscardQuestion
    <3>2. /\ reading'.at = "answered"
          /\ reading'.route = reading.route /\ reading'.from = reading.from
      BY <1>t, <3>1 DEF Readings
    <3> QED
      BY <1>t, <2>1, <3>2, AdoptionAnswered DEF ReadingAdopts, BaselineReplacesNothing
  <2> QED
    BY <2>2, <2>3
<1>10. CASE CloseFlowSurface
  BY <1>10, AdoptionKept, AdoptionOver DEF CloseFlowSurface, FlowSurfaceClosed, storeVars
<1>11. CASE ReadingGoesOn
  <2>1. CASE reading' = NoReading
    BY <2>1 DEF NoReading, ReadingAdopts, NothingProposedYet, ItsFileIsAdopted,
       BaselineReplacesNothing
  <2>2. CASE MergeMappingAsked
    <3>1. /\ reading.at = "answered" /\ reading.choice = "merge"
          /\ UNCHANGED <<handleReadToOpen, openedHandle>>
      BY <1>11, <2>2 DEF ReadingGoesOn, MergeMappingAsked
    <3>2. /\ reading'.at = "askedMapping"
          /\ reading'.route = reading.route /\ reading'.from = reading.from
      BY <1>t, <2>2 DEF MergeMappingAsked, Readings
    <3> QED
      BY <1>t, <3>1, <3>2, AdoptionAnswered DEF ReadingAdopts, BaselineReplacesNothing
  <2> QED
    BY <1>11, <2>1, <2>2 DEF ReadingGoesOn, ReplaceLands, MergeLands, ImportRefused, ReadingFails
<1>12. CASE AskToWrite \/ ExportReport
  <2>1. store' = store \/ store.at = "free"
    BY <1>12 DEF AskToWrite, ExportReport, AskStoreForPlace
  <2>2. reading.at # "store" \/ store' = store
    BY <2>1 DEF FlowAgreement, StoreAgreement
  <2> QED
    BY <1>12, <2>2, AdoptionKept DEF AskToWrite, ExportReport, roadVars
<1>13. CASE WriteGoesOn
  <2>1. reading.at # "store"
    BY <1>13 DEF WriteGoesOn, FlowAgreement, WritingAgreement, ReadingAgreement
  <2> QED
    BY <1>13, <2>1, AdoptionKept DEF WriteGoesOn
<1>14. CASE PickFile \/ AnswerPermission \/ ReadDestination
  <2>1. reading.at # "store" \/ reading.route # "reopen"
    BY <1>14 DEF PickFile, AnswerPermission, ReadDestination, ReadingAdopts, NothingProposedYet
  <2>2. ReadingFails \/ reading' = reading
    BY <1>14 DEF PickFile, AnswerPermission, ReadDestination, StoreLetsGo
  <2>3. UNCHANGED <<handleReadToOpen, openedHandle>>
    BY <1>14 DEF PickFile, AnswerPermission, ReadDestination
  <2> QED
    BY <2>1, <2>2, <2>3, AdoptionKept, AdoptionOver
<1>15. CASE BytesWritten
  <2>1. store.owner # "reading" /\ reading' = reading /\ handleReadToOpen' = handleReadToOpen
    BY <1>15, <1>t DEF BytesWritten, WriteFails, StoreLetsGo, Stores, StoreOwners
  <2>2. reading.at # "store"
    BY <2>1 DEF FlowAgreement, StoreAgreement
  <2>3. CASE openedHandle' = openedHandle
    BY <2>1, <2>2, <2>3, AdoptionKept
  <2>4. CASE store.owner = "writing"
    <3>1. writing.at = "store"
      BY <1>15, <2>4 DEF BytesWritten, FlowAgreement, StoreAgreement
    <3>2. reading.at \notin {"store", "askedHow", "answered", "askedMapping"}
      BY <3>1 DEF FlowAgreement, WritingAgreement, ReadingAgreement
    <3> QED
      BY <2>1, <3>2 DEF ReadingAdopts, NothingProposedYet, ItsFileIsAdopted, BaselineReplacesNothing
  <2> QED
    BY <1>15, <2>3, <2>4 DEF BytesWritten, WriteFails
<1>16. CASE AnswerOverwriteQuestion
  <2>1. reading.at # "store" /\ UNCHANGED <<handleReadToOpen, openedHandle>>
    BY <1>16 DEF AnswerOverwriteQuestion, IsOverwriteAnswerTaken, FlowAgreement, ReadingAgreement
  <2>2. ReadingFails \/ reading' = reading
    BY <1>16 DEF AnswerOverwriteQuestion, StoreLetsGo
  <2> QED
    BY <2>1, <2>2, AdoptionKept, AdoptionOver
<1>17. CASE OwedActionCarriedOut
  BY <1>17, AdoptionKept, AdoptionForgotten, AdoptionBegun DEF OwedActionCarriedOut,
     NewDocumentCarriedOut, StartNewDocument, OpeningCarriedOut, ChangeCarriedOut, roadVars, storeVars
<1>18. CASE UNCHANGED vars
  BY <1>18, AdoptionKept DEF vars, roadVars, storeVars
<1> QED
  BY <1>1, <1>2, <1>3, <1>4, <1>5, <1>6, <1>7, <1>8, <1>9, <1>10, <1>11, <1>12, <1>13, <1>14,
     <1>15, <1>16, <1>17, <1>18 DEF Next

LEMMA TargetStep ==
    ASSUME TypeOK, FlowAgreement, WritingIsOwn, ReadingAdopts, SaveTargetIsOwn, [Next]_vars
    PROVE  SaveTargetIsOwn'
<1> USE DEF SaveTargetIsOwn
<1>1. CASE UNCHANGED <<openedHandle, ownFiles>>
  BY <1>1
<1>2. CASE StartNewDocument
  BY <1>2 DEF StartNewDocument, OpenedFileForgotten
<1>3. CASE ReadingGoesOn
  <2>1. CASE ReplaceLands
    <3>1. reading.at = "answered" /\ reading.choice = "replace"
      BY <1>3, <2>1 DEF ReadingGoesOn, ReplaceLands
    <3>2. reading.from # NoFile /\ AdoptedHandle \in {reading.from, NoFile}
      BY <3>1, FilesAssumption DEF ReadingAdopts, ItsFileIsAdopted, BaselineReplacesNothing
    <3> QED
      BY <2>1, <3>2 DEF ReplaceLands
  <2>2. CASE ~ReplaceLands
    BY <1>1, <1>3, <2>2 DEF ReadingGoesOn, MergeLands, MergeMappingAsked, ImportRefused, ghostVars
  <2> QED
    BY <2>1, <2>2
<1>4. CASE BytesWritten
  <2>1. CASE SaveLands /\ store.owner = "writing"
    <3>1. writing.isOwn
      BY <1>4, <2>1 DEF BytesWritten, FlowAgreement, StoreAgreement, WritingIsOwn
    <3> QED
      BY <2>1, <3>1 DEF SaveLands
  <2>2. CASE ~(SaveLands /\ store.owner = "writing")
    BY <1>1, <1>4, <2>2 DEF BytesWritten, WriteFails, BackupLands, ghostVars
  <2> QED
    BY <2>1, <2>2
<1>5. CASE HandBegins \/ HandEnds \/ WriteDocument \/ MoveView \/ UndoEdit \/ RedoEdit
  BY <1>1, <1>5 DEF HandBegins, HandEnds, WriteDocument, MoveView, UndoEdit, RedoEdit,
     storeVars, ghostVars
<1>6. CASE PressNewDocument \/ RaiseChangeQuestion \/ QuestionPutAway
  BY <1>1, <1>2, <1>6 DEF PressNewDocument, RaiseChangeQuestion, QuestionPutAway, storeVars, ghostVars
<1>7. CASE AskToOpen \/ ReopenGoesOn \/ FileReadToOpen \/ AgentHandsDocument
  BY <1>1, <1>7 DEF AskToOpen, ReopenGoesOn, FileReadToOpen, AgentHandsDocument, storeVars, ghostVars
<1>8. CASE AnswerOpenChoice \/ AnswerMergeMapping \/ CloseFlowSurface
  BY <1>1, <1>8 DEF AnswerOpenChoice, AnswerMergeMapping, CloseFlowSurface, storeVars, ghostVars
<1>9. CASE AskToWrite \/ WriteGoesOn \/ ExportReport
  BY <1>1, <1>9 DEF AskToWrite, WriteGoesOn, ExportReport, ghostVars
<1>10. CASE PickFile \/ AnswerPermission \/ ReadDestination
  BY <1>1, <1>10 DEF PickFile, AnswerPermission, ReadDestination, ghostVars
<1>11. CASE AnswerDiscardQuestion \/ AnswerOverwriteQuestion
  BY <1>1, <1>11 DEF AnswerDiscardQuestion, AnswerOverwriteQuestion, storeVars, ghostVars
<1>12. CASE OwedActionCarriedOut
  BY <1>1, <1>2, <1>12 DEF OwedActionCarriedOut, NewDocumentCarriedOut, OpeningCarriedOut,
     ChangeCarriedOut, storeVars, ghostVars
<1>13. CASE UNCHANGED vars
  BY <1>1, <1>13 DEF vars, storeVars, ghostVars
<1> QED
  BY <1>3, <1>4, <1>5, <1>6, <1>7, <1>8, <1>9, <1>10, <1>11, <1>12, <1>13 DEF Next

SavingInvariant ==
    TypeOK /\ FlowAgreement /\ WritingIsOwn /\ ReadingAdopts /\ SaveTargetIsOwn

LEMMA SavingInvariantHolds ==
    ASSUME "newWhileWriting" \notin Admitted, "handDocument" \notin Admitted
    PROVE  Spec => []SavingInvariant
<1>1. Init => SavingInvariant
  BY TypeInitially, FlowInitially DEF Init, SavingInvariant, WritingIsOwn, ReadingAdopts,
     NothingProposedYet, ItsFileIsAdopted, BaselineReplacesNothing, SaveTargetIsOwn,
     NoReading, NoWriting
<1>2. SavingInvariant /\ [Next]_vars => SavingInvariant'
  BY TypeStep, FlowStep, WritingOwnStep, AdoptionStep, TargetStep DEF SavingInvariant
<1> QED
  BY <1>1, <1>2, PTL DEF Spec

(* While no document is handed over and New waits for the write to end, the   *)
(* file a save writes over without asking is a file of this very document,    *)
(* whatever was read for a merge or a baseline (adoptFileReadToOpen, DI-5).   *)
THEOREM SaveTargetStaysOwn ==
    ASSUME "newWhileWriting" \notin Admitted, "handDocument" \notin Admitted
    PROVE  Spec => []SaveTargetIsOwn
BY SavingInvariantHolds, PTL DEF SavingInvariant

-----------------------------------------------------------------------------
(* What is written without asking *)

(* The store writes over the document's own file, into an empty place, or by  *)
(* a yes; the report has no file of its own.                                  *)
WriterIsAllowed ==
    /\ store.at = "permission" => store.file \in ownFiles
    /\ store.at = "bytes" /\ store.owner = "writing" =>
           disk[store.file] = Empty \/ store.isAgreed \/ store.file \in ownFiles
    /\ store.at = "bytes" /\ store.owner = "report" => disk[store.file] = Empty \/ store.isAgreed

LEMMA WriterFree == store' = StoreFree => WriterIsAllowed'
BY RoadEnds DEF WriterIsAllowed

(* Only the writer of the moment changes the disk, and while the file machine *)
(* writes, no other road changes whose files are whose.                       *)
LEMMA WriterKept ==
    ASSUME WriterIsAllowed, store' = store, disk' = disk,
           ownFiles' = ownFiles \/ store.at = "free" \/ store.owner # "writing",
           store.at = "permission" => store.owner = "writing"
    PROVE  WriterIsAllowed'
BY DEF WriterIsAllowed

LEMMA WriterStep ==
    ASSUME "newWhileWriting" \notin Admitted, SavingInvariant, WriterIsAllowed, [Next]_vars
    PROVE  WriterIsAllowed'
<1> USE DEF SavingInvariant
<1>t. store \in Stores /\ store.owner \in {"reading", "writing", "report"}
  BY DEF TypeOK, StoreTypeOK, Stores, StoreOwners
<1>p. store.at = "permission" => store.owner = "writing"
  BY DEF FlowAgreement, StoreAgreement
<1>w. store.at # "free" /\ store.owner = "writing" =>
          /\ writing.at = "store" /\ fileOperation = "writingDocumentFile"
          /\ reading.at \notin {"store", "askedHow", "answered", "askedMapping"}
  BY DEF FlowAgreement, StoreAgreement, WritingAgreement, ReadingAgreement
<1>1. CASE UNCHANGED <<store, disk, ownFiles>>
  BY <1>1, <1>p, WriterKept
<1>2. CASE StartNewDocument /\ NewAdmitted /\ UNCHANGED <<store, disk>>
  BY <1>2, <1>p, <1>w, WriterKept DEF NewAdmitted
<1>3. CASE HandBegins \/ HandEnds \/ WriteDocument \/ MoveView \/ UndoEdit \/ RedoEdit
  BY <1>1, <1>3 DEF HandBegins, HandEnds, WriteDocument, MoveView, UndoEdit, RedoEdit,
     storeVars, ghostVars
<1>4. CASE PressNewDocument \/ RaiseChangeQuestion \/ QuestionPutAway
  BY <1>1, <1>2, <1>4 DEF PressNewDocument, RaiseChangeQuestion, QuestionPutAway, storeVars, ghostVars
<1>5. CASE AskToOpen \/ ReopenGoesOn \/ FileReadToOpen
  <2>1. CASE store' = store
    BY <1>1, <1>5, <2>1 DEF AskToOpen, ReopenGoesOn, FileReadToOpen, ghostVars
  <2>2. CASE store' # store
    <3>1. store'.at \in {"free", "picking", "bytes"} /\ store'.owner = "reading"
      <4>1. CASE AskToOpen
        BY <2>2, <4>1 DEF AskToOpen, BeginReading, StoreFree
      <4>2. CASE ReopenGoesOn
        BY <2>2, <4>2 DEF ReopenGoesOn, StoreFree
      <4>3. CASE FileReadToOpen
        BY <4>3, RoadEnds DEF FileReadToOpen
      <4> QED
        BY <1>5, <4>1, <4>2, <4>3
    <3> QED
      BY <3>1 DEF WriterIsAllowed
  <2> QED
    BY <2>1, <2>2
<1>6. CASE AgentHandsDocument \/ AnswerOpenChoice \/ AnswerMergeMapping \/ CloseFlowSurface
  BY <1>1, <1>6 DEF AgentHandsDocument, AnswerOpenChoice, AnswerMergeMapping, CloseFlowSurface,
     storeVars, ghostVars
<1>7. CASE ReadingGoesOn
  BY <1>7, <1>p, <1>w, WriterKept DEF ReadingGoesOn
<1>8. CASE AskToWrite \/ ExportReport
  <2>1. store' = store \/ store'.at = "picking"
    BY <1>8 DEF AskToWrite, ExportReport, AskStoreForPlace, StoreFree
  <2> QED
    BY <1>1, <1>8, <2>1 DEF AskToWrite, ExportReport, ghostVars, WriterIsAllowed
<1>9. CASE WriteGoesOn
  <2>1. CASE store' = store \/ AskStoreForPlace("writing")
    BY <1>1, <1>9, <2>1 DEF WriteGoesOn, AskStoreForPlace, StoreFree, ghostVars, WriterIsAllowed
  <2>2. CASE ~(store' = store \/ AskStoreForPlace("writing"))
    <3>1. /\ store'.at = "permission" /\ store'.file = openedHandle /\ openedHandle # NoFile
          /\ ownFiles' = ownFiles
      BY <1>9, <2>2 DEF WriteGoesOn, StoreFree, ghostVars
    <3> QED
      BY <3>1 DEF SaveTargetIsOwn, WriterIsAllowed
  <2> QED
    BY <2>1, <2>2
<1>10. CASE PickFile
  <2>1. CASE store' = StoreFree
    BY <2>1, WriterFree
  <2>2. CASE store' # StoreFree
    <3> DEFINE at == IF store.owner = "reading" THEN "bytes" ELSE "destination"
    <3>1. \E file \in Files : store' = [store EXCEPT !.file = file, !.at = at]
      BY <1>10, <2>2 DEF PickFile, StoreLetsGo
    <3>2. store'.owner = store.owner /\ store'.at = at
      <4> HIDE DEF at
      <4> QED
        BY <1>t, <3>1, PlacePicked
    <3> QED
      BY <3>2 DEF WriterIsAllowed
  <2> QED
    BY <2>1, <2>2
<1>11. CASE AnswerPermission
  <2>1. CASE store' = StoreFree
    BY <2>1, WriterFree
  <2>2. CASE store' # StoreFree
    <3>1. /\ store.at = "permission" /\ store' = [store EXCEPT !.at = "bytes"]
          /\ ownFiles' = ownFiles
      BY <1>11, <2>2 DEF AnswerPermission, StoreLetsGo, ghostVars
    <3>2. store'.owner = "writing" /\ store'.file = store.file /\ store'.at = "bytes"
      BY <1>t, <1>p, <3>1, StoreMoved
    <3> QED
      BY <3>1, <3>2 DEF WriterIsAllowed
  <2> QED
    BY <2>1, <2>2
<1>12. CASE ReadDestination
  <2>1. CASE store' = StoreFree
    BY <2>1, WriterFree
  <2>2. CASE ~IsOccupied(store.file) /\ store' = [store EXCEPT !.at = "bytes"]
    <3>1. disk' = disk /\ disk[store.file] = Empty
      BY <1>12, <2>2 DEF ReadDestination, IsOccupied
    <3>2. store'.file = store.file /\ store'.at = "bytes"
      BY <1>t, <2>2, StoreMoved
    <3> QED
      BY <3>1, <3>2 DEF WriterIsAllowed
  <2>3. CASE store' = [store EXCEPT !.at = "askedOver"]
    <3>1. store'.at = "askedOver"
      BY <1>t, <2>3 DEF Stores
    <3> QED
      BY <3>1 DEF WriterIsAllowed
  <2> QED
    BY <1>12, <2>1, <2>2, <2>3 DEF ReadDestination, StoreLetsGo
<1>13. CASE BytesWritten
  <2>1. store' = StoreFree
    BY <1>13 DEF BytesWritten, WriteFails, StoreLetsGo
  <2> QED
    BY <2>1, WriterFree
<1>14. CASE AnswerDiscardQuestion
  BY <1>1, <1>14 DEF AnswerDiscardQuestion, storeVars, ghostVars
<1>15. CASE AnswerOverwriteQuestion
  <2>1. CASE store' = StoreFree
    BY <2>1, WriterFree
  <2>2. CASE store' = [store EXCEPT !.at = "bytes", !.isAgreed = TRUE]
    <3>1. store'.isAgreed /\ store'.at = "bytes"
      BY <1>t, <2>2 DEF Stores
    <3> QED
      BY <3>1 DEF WriterIsAllowed
  <2>3. CASE store' = store
    BY <1>1, <1>15, <2>3 DEF AnswerOverwriteQuestion, ghostVars
  <2> QED
    BY <1>15, <2>1, <2>2, <2>3 DEF AnswerOverwriteQuestion, StoreLetsGo
<1>16. CASE OwedActionCarriedOut
  <2>1. CASE NewDocumentCarriedOut
    BY <1>2, <2>1 DEF NewDocumentCarriedOut
  <2>2. CASE OpeningCarriedOut
    <3>1. store' = store \/ (store'.at \in {"picking", "bytes"} /\ store'.owner = "reading")
      BY <2>2 DEF OpeningCarriedOut, BeginReading, StoreFree
    <3> QED
      BY <1>1, <2>2, <3>1 DEF OpeningCarriedOut, ghostVars, WriterIsAllowed
  <2>3. CASE ChangeCarriedOut
    BY <1>1, <2>3 DEF ChangeCarriedOut, storeVars, ghostVars
  <2> QED
    BY <1>16, <2>1, <2>2, <2>3 DEF OwedActionCarriedOut
<1>17. CASE UNCHANGED vars
  BY <1>1, <1>17 DEF vars, storeVars, ghostVars
<1> QED
  BY <1>3, <1>4, <1>5, <1>6, <1>7, <1>8, <1>9, <1>10, <1>11, <1>12, <1>13, <1>14, <1>15, <1>16,
     <1>17 DEF Next

(* The disk changes only where the store writes, and the store is allowed to. *)
LEMMA DiskStep ==
    ASSUME TypeOK, WriterIsAllowed, [Next]_vars, NEW file \in Files, disk'[file] # disk[file]
    PROVE  disk[file] = Empty \/ store.isAgreed \/ file \in ownFiles
<1>1. BytesWritten
  <2>1. disk' # disk
    OBVIOUS
  <2>2. CASE HandBegins \/ HandEnds \/ WriteDocument \/ MoveView \/ UndoEdit \/ RedoEdit
    BY <2>1, <2>2 DEF HandBegins, HandEnds, WriteDocument, MoveView, UndoEdit, RedoEdit, storeVars
  <2>3. CASE PressNewDocument \/ RaiseChangeQuestion \/ QuestionPutAway
    BY <2>1, <2>3 DEF PressNewDocument, RaiseChangeQuestion, QuestionPutAway, storeVars
  <2>4. CASE AskToOpen \/ ReopenGoesOn \/ FileReadToOpen \/ AgentHandsDocument
    BY <2>1, <2>4 DEF AskToOpen, ReopenGoesOn, FileReadToOpen, AgentHandsDocument, storeVars
  <2>5. CASE AnswerOpenChoice \/ AnswerMergeMapping \/ CloseFlowSurface \/ ReadingGoesOn
    BY <2>1, <2>5 DEF AnswerOpenChoice, AnswerMergeMapping, CloseFlowSurface, ReadingGoesOn, storeVars
  <2>6. CASE AskToWrite \/ WriteGoesOn \/ ExportReport
    BY <2>1, <2>6 DEF AskToWrite, WriteGoesOn, ExportReport
  <2>7. CASE PickFile \/ AnswerPermission \/ ReadDestination
    BY <2>1, <2>7 DEF PickFile, AnswerPermission, ReadDestination
  <2>8. CASE AnswerDiscardQuestion \/ AnswerOverwriteQuestion
    BY <2>1, <2>8 DEF AnswerDiscardQuestion, AnswerOverwriteQuestion, storeVars
  <2>9. CASE OwedActionCarriedOut
    BY <2>1, <2>9 DEF OwedActionCarriedOut, NewDocumentCarriedOut, OpeningCarriedOut,
       ChangeCarriedOut, storeVars
  <2>10. CASE UNCHANGED vars
    BY <2>1, <2>10 DEF vars, storeVars
  <2> QED
    BY <2>2, <2>3, <2>4, <2>5, <2>6, <2>7, <2>8, <2>9, <2>10 DEF Next
<1>2. store.at = "bytes" /\ store.owner \in {"writing", "report"}
  BY <1>1 DEF BytesWritten, TypeOK, StoreTypeOK, Stores, StoreOwners
<1>3. file = store.file
  <2>1. \/ disk' = disk
        \/ \E content : disk' = [disk EXCEPT ![store.file] = content]
    BY <1>1 DEF BytesWritten, WriteFails
  <2> QED
    BY <2>1 DEF TypeOK, StoreTypeOK
<1> QED
  BY <1>2, <1>3 DEF WriterIsAllowed

(* Under the same two conditions an occupied file changes only as the         *)
(* document's own or by a yes to QN-4, the report's writes and edits made     *)
(* while the file is written included (readWriteDestination, DI-4, DI-5).     *)
THEOREM NothingIsOverwrittenUnasked ==
    ASSUME "newWhileWriting" \notin Admitted, "handDocument" \notin Admitted
    PROVE  Spec => NoSilentOverwrite
<1>1. Init => WriterIsAllowed
  BY RoadEnds DEF Init, WriterIsAllowed
<1>2. SavingInvariant /\ WriterIsAllowed /\ [Next]_vars => WriterIsAllowed'
  BY WriterStep
<1>3. SavingInvariant /\ WriterIsAllowed /\ [Next]_vars
          => [\A file \in Files : disk'[file] # disk[file] =>
                 disk[file] = Empty \/ store.isAgreed \/ file \in ownFiles]_vars
  BY DiskStep DEF SavingInvariant
<1> QED
  BY <1>1, <1>2, <1>3, SavingInvariantHolds, PTL DEF Spec, NoSilentOverwrite

-----------------------------------------------------------------------------
(* What the unsaved mark promises *)

(* The mark drops with what is kept, and a document that is being written is  *)
(* the held one still.                                                        *)
SavedIsKept       == savedDocument = keptDocument
WritingIsTheHeld == writing.at # "none" => writing.document = held

LEMMA WritingHeldStep ==
    ASSUME "editWhileWriting" \notin Admitted, "newWhileWriting" \notin Admitted,
           TypeOK, FlowAgreement, WritingIsTheHeld, [Next]_vars
    PROVE  WritingIsTheHeld'
<1> USE DEF WritingIsTheHeld
<1>a. writing \in Writings
  BY DEF TypeOK, RoadTypeOK
<1>1. CASE held' = held /\ (writing' = writing \/ WritingEnds)
  BY <1>1, RoadEnds
<1>2. CASE writing.at = "none" /\ (writing' = writing \/ writing' = [writing EXCEPT !.isOwn = FALSE])
  BY <1>a, <1>2 DEF Writings
<1>3. CASE HandBegins \/ HandEnds \/ RaiseChangeQuestion \/ QuestionPutAway \/ ExportReport
  BY <1>1, <1>3 DEF HandBegins, HandEnds, RaiseChangeQuestion, QuestionPutAway, ExportReport,
     roadVars, heldVars
<1>4. CASE WriteDocument \/ MoveView \/ UndoEdit \/ RedoEdit
  BY <1>2, <1>4 DEF WriteDocument, MoveView, UndoEdit, RedoEdit, EditAdmitted, roadVars
<1>5. CASE PressNewDocument
  BY <1>1, <1>2, <1>5 DEF PressNewDocument, StartNewDocument, NewAdmitted, roadVars, heldVars
<1>6. CASE AskToOpen \/ ReopenGoesOn \/ FileReadToOpen \/ AgentHandsDocument
  BY <1>1, <1>6 DEF AskToOpen, ReopenGoesOn, FileReadToOpen, AgentHandsDocument, heldVars
<1>7. CASE AnswerOpenChoice \/ AnswerMergeMapping \/ CloseFlowSurface
  BY <1>1, <1>7 DEF AnswerOpenChoice, AnswerMergeMapping, CloseFlowSurface, heldVars
<1>8. CASE ReadingGoesOn
  BY <1>2, <1>8 DEF ReadingGoesOn, FlowAgreement, ReadingAgreement, WritingAgreement
<1>9. CASE AskToWrite
  BY <1>9 DEF AskToWrite, heldVars
<1>10. CASE WriteGoesOn
  BY <1>1, <1>10, <1>a DEF WriteGoesOn, Writings, heldVars
<1>11. CASE PickFile \/ AnswerPermission \/ ReadDestination
  BY <1>1, <1>11 DEF PickFile, AnswerPermission, ReadDestination, StoreLetsGo, heldVars
<1>12. CASE BytesWritten
  <2>1. CASE store.owner = "writing"
    BY <1>12, <2>1, RoadEnds DEF BytesWritten, WriteFails, StoreLetsGo
  <2>2. CASE store.owner # "writing"
    <3>1. held' = held
      BY <1>12, <2>2 DEF BytesWritten, WriteFails
    <3>2. writing' = writing
      BY <1>12, <2>2 DEF BytesWritten, WriteFails, StoreLetsGo, TypeOK, StoreTypeOK, Stores, StoreOwners
    <3> QED
      BY <3>1, <3>2
  <2> QED
    BY <2>1, <2>2
<1>13. CASE AnswerDiscardQuestion \/ AnswerOverwriteQuestion
  BY <1>1, <1>13 DEF AnswerDiscardQuestion, AnswerOverwriteQuestion, StoreLetsGo, heldVars
<1>14. CASE OwedActionCarriedOut
  BY <1>1, <1>2, <1>14 DEF OwedActionCarriedOut, NewDocumentCarriedOut, StartNewDocument, NewAdmitted,
     OpeningCarriedOut, ChangeCarriedOut, EditAdmitted, roadVars, heldVars
<1>15. CASE UNCHANGED vars
  BY <1>1, <1>15 DEF vars, roadVars, heldVars
<1> QED
  BY <1>3, <1>4, <1>5, <1>6, <1>7, <1>8, <1>9, <1>10, <1>11, <1>12, <1>13, <1>14, <1>15 DEF Next

LEMMA SavedKeptStep ==
    ASSUME TypeOK, FlowAgreement, WritingIsOwn, WritingIsTheHeld, SavedIsKept, [Next]_vars
    PROVE  SavedIsKept'
<1> USE DEF SavedIsKept
<1>1. CASE UNCHANGED <<savedDocument, keptDocument>>
  BY <1>1
<1>2. CASE StartNewDocument
  BY <1>2 DEF StartNewDocument
<1>3. CASE ReadingGoesOn
  BY <1>1, <1>3 DEF ReadingGoesOn, ReplaceLands, MergeLands, MergeMappingAsked, ImportRefused, ghostVars
<1>4. CASE BytesWritten
  <2>1. CASE SaveLands /\ store.owner = "writing"
    <3>1. writing.isOwn /\ writing.document = held
      BY <1>4, <2>1 DEF BytesWritten, FlowAgreement, StoreAgreement, WritingIsOwn, WritingIsTheHeld
    <3> QED
      BY <2>1, <3>1 DEF SaveLands, MarkDroppedFirst
  <2>2. CASE ~(SaveLands /\ store.owner = "writing")
    BY <1>1, <1>4, <2>2 DEF BytesWritten, WriteFails, BackupLands, ghostVars
  <2> QED
    BY <2>1, <2>2
<1>5. CASE HandBegins \/ HandEnds \/ MoveView \/ UndoEdit \/ RedoEdit
  BY <1>1, <1>5 DEF HandBegins, HandEnds, MoveView, UndoEdit, RedoEdit, ghostVars
<1>6. CASE WriteDocument
  BY <1>1, <1>6 DEF WriteDocument, DocumentWritten, ghostVars
<1>7. CASE PressNewDocument \/ RaiseChangeQuestion \/ QuestionPutAway
  BY <1>1, <1>2, <1>7 DEF PressNewDocument, RaiseChangeQuestion, QuestionPutAway, heldVars, ghostVars
<1>8. CASE AskToOpen \/ ReopenGoesOn \/ FileReadToOpen \/ AgentHandsDocument
  BY <1>1, <1>8 DEF AskToOpen, ReopenGoesOn, FileReadToOpen, AgentHandsDocument, heldVars, ghostVars
<1>9. CASE AnswerOpenChoice \/ AnswerMergeMapping \/ CloseFlowSurface
  BY <1>1, <1>9 DEF AnswerOpenChoice, AnswerMergeMapping, CloseFlowSurface, heldVars, ghostVars
<1>10. CASE AskToWrite \/ WriteGoesOn \/ ExportReport
  BY <1>1, <1>10 DEF AskToWrite, WriteGoesOn, ExportReport, heldVars, ghostVars
<1>11. CASE PickFile \/ AnswerPermission \/ ReadDestination
  BY <1>1, <1>11 DEF PickFile, AnswerPermission, ReadDestination, heldVars, ghostVars
<1>12. CASE AnswerDiscardQuestion \/ AnswerOverwriteQuestion
  BY <1>1, <1>12 DEF AnswerDiscardQuestion, AnswerOverwriteQuestion, heldVars, ghostVars
<1>13. CASE OwedActionCarriedOut
  BY <1>1, <1>2, <1>13 DEF OwedActionCarriedOut, NewDocumentCarriedOut, OpeningCarriedOut,
     ChangeCarriedOut, DocumentWritten, heldVars, ghostVars
<1>14. CASE UNCHANGED vars
  BY <1>1, <1>14 DEF vars, heldVars, ghostVars
<1> QED
  BY <1>3, <1>4, <1>5, <1>6, <1>7, <1>8, <1>9, <1>10, <1>11, <1>12, <1>13, <1>14 DEF Next

(* While neither an edit nor New lands during a write, a document that the    *)
(* screen calls saved is the one last written, opened in the held one's place *)
(* or begun afresh: nothing unsaved is lost unwarned (FR-100).                *)
THEOREM NothingUnsavedIsLost ==
    ASSUME "editWhileWriting" \notin Admitted, "newWhileWriting" \notin Admitted
    PROVE  Spec => []NothingUnsavedIsKept
<1> DEFINE I == TypeOK /\ FlowAgreement /\ WritingIsOwn /\ WritingIsTheHeld /\ SavedIsKept
<1>1. Init => I
  BY TypeInitially, FlowInitially DEF Init, WritingIsOwn, WritingIsTheHeld, SavedIsKept, NoWriting
<1>2. I /\ [Next]_vars => I'
  BY TypeStep, FlowStep, WritingOwnStep, WritingHeldStep, SavedKeptStep
<1>3. I /\ MarkAgreement => NothingUnsavedIsKept
  BY DEF MarkAgreement, SavedIsKept, NothingUnsavedIsKept
<1> QED
  BY <1>1, <1>2, <1>3, MarkCorrect, PTL DEF Spec
=============================================================================
