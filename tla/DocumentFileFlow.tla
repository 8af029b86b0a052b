-------------------------- MODULE DocumentFileFlow --------------------------
(* Opening, saving and starting anew: the file-flow region of the screen    *)
(* session (file-flow-values.ts), the two asynchronous roads of the shell    *)
(* that it starts (document-file-flow.ts), the file store they go through    *)
(* (file-system-access-file-store.ts) and the held document they land in     *)
(* (frame-loop.ts).                                                          *)
(*                                                                           *)
(* One action is one macrotask of the page's event loop: an input, a call of *)
(* the Agent API, or the settling of one await on the disk, on a picker or   *)
(* on a permission prompt, with every effect the session runs in that turn.  *)
(* A promise that the session itself settles resumes in the microtasks of    *)
(* the same turn: reading.at = "answered" marks it, and only ReadingGoesOn   *)
(* may then run.                                                             *)
(*                                                                           *)
(* A document is the edit that made it and the copy of it that is held: every *)
(* edit makes the next number, and a write of the view alone makes a copy of  *)
(* the same edit, so equality of the pair is the code's === of documents.     *)
EXTENDS Naturals, Sequences

CONSTANTS
    Files,               \* the files of the disk that the person may point at
    GrsFiles,            \* those whose name ends in the GRS JSON extension
    NoFile,              \* null: no handle, no name
    NoProposal,          \* handleReadToOpen = null: no read proposes a handle
    Empty,               \* the content of a file that holds nothing
    Foreign,             \* a content that is no GRS document (a picture, a report)
    MaxDocument,         \* bound: the greatest number of a document made by a write
    Admitted             \* the happenings below that a run lets the environment produce

ASSUME FilesAssumption ==
    /\ GrsFiles \subseteq Files
    /\ NoFile \notin Files
    /\ NoProposal \notin Files \cup {NoFile}

ASSUME ContentsAssumption ==
    /\ Empty \notin [edit : Nat, copy : Nat]
    /\ Foreign \notin [edit : Nat, copy : Nat]
    /\ Empty # Foreign
    /\ MaxDocument \in Nat

(* What the person and the agent may do is a parameter, so that a run can say *)
(* which properties lean on whom:                                             *)
(*   editWhileWriting   a write lands while a file operation is writing       *)
(*   newWhileWriting    New is pressed while a file operation is writing      *)
(*   exportReport       the delay report is exported, outside the machine     *)
(*   handDocument       the Agent API hands a document over (AM-8)            *)
(*   moveView           zoom, scroll or visibility is written, or a merge     *)
(*                      turns it, so that an undo has a view to keep          *)
Happenings == {"editWhileWriting", "newWhileWriting", "exportReport", "handDocument", "moveView"}

ASSUME AdmittedAssumption == Admitted \subseteq Happenings

VARIABLES
    (* the file-flow region of the session, and the surface it raises *)
    fileOperation,     \* fileOperationState.kind
    confirmation,      \* confirmationState: the question asked and the action owed to a yes
    unsavedEdits,      \* unsavedEditsState.kind
    openedFileName,    \* the name FR-101 shows
    openSurface,       \* U-56 (how to open), U-61 (merge mapping), U-62 (report), or closed
    (* the held document *)
    held, done, undone,
    savedDocument,     \* the document held when the unsaved mark last dropped
    nextDocument,
    hand,              \* "busy": a gesture is in flight or a field is being edited
    (* the two roads and the continuations they wait on *)
    reading, writing,
    settleIncoming,    \* which of settleOpenChoice and settleMergeMapping are held
    settleOverwrite,   \* who holds settleOverwrite
    openedFileBy,      \* "saving" is hasSavedOpenedFile
    (* the file store: store.at # "free" is isBusy *)
    store, openedHandle, handleReadToOpen,
    disk,
    (* history variables: nothing in the code reads them *)
    ownFiles,          \* the files the held document was read from or saved to
    keptDocument       \* the document last saved, opened in the held one's place, or begun afresh

sessionVars == <<fileOperation, confirmation, unsavedEdits, openedFileName, openSurface>>
heldVars    == <<held, done, undone, savedDocument, nextDocument, hand>>
roadVars    == <<reading, writing, settleIncoming, settleOverwrite, openedFileBy>>
storeVars   == <<store, openedHandle, handleReadToOpen, disk>>
ghostVars   == <<ownFiles, keptDocument>>
vars == <<sessionVars, heldVars, roadVars, storeVars, ghostVars>>

-----------------------------------------------------------------------------
(* Values *)

Documents    == [edit : Nat, copy : Nat]
Original(number) == [edit |-> number, copy |-> number]
FilesOrNone  == Files \cup {NoFile}
OpenRoutes   == {"chooser", "drop", "reopen", "baseline", "handed"}
OpenChoices  == {"replace", "merge", "baseline"}
WriteForms   == {"save", "beforeFixOverwrite", "beforeFixBackup",
                 "exportGrs", "exportMspdi", "exportPicture"}
OperationKinds == {"idle", "readingDocumentFile", "awaitingOpenChoice",
                   "awaitingDiscardAnswer", "importingDocument",
                   "awaitingMergeMapping", "writingDocumentFile"}
OwedActions  == {"nothing", "startNewDocument", "openDocumentFile", "changeDocument"}

StoreOwners  == {"reading", "writing", "report"}
Contents     == Documents \cup {Empty, Foreign}

Confirmations == [question : {"none", "change", "QN-4", "QN-5", "QN-17"}, owed : OwedActions]
Readings == [at : {"none", "state", "store", "askedHow", "answered", "askedMapping"},
             route : OpenRoutes, incoming : Documents, from : FilesOrNone,
             choice : OpenChoices, isMapped : BOOLEAN]
Writings == [at : {"none", "state", "rendering", "store"}, form : WriteForms,
             document : Documents, opened : FilesOrNone, isOwn : BOOLEAN]
Stores == [at : {"free", "picking", "permission", "destination", "askedOver", "bytes"},
           owner : StoreOwners, file : FilesOrNone, isAgreed : BOOLEAN]

Asked(question, owedAction) == [question |-> question, owed |-> owedAction]
NotAsked == Asked("none", "nothing")

NoReading == [at |-> "none", route |-> "chooser", incoming |-> Original(0), from |-> NoFile,
              choice |-> "replace", isMapped |-> FALSE]
NoWriting == [at |-> "none", form |-> "save", document |-> Original(0), opened |-> NoFile,
              isOwn |-> TRUE]
StoreFree == [at |-> "free", owner |-> "reading", file |-> NoFile, isAgreed |-> FALSE]

IsQuestionAsked == confirmation.question # "none"
HasUnsavedEdits == unsavedEdits = "editsUnsaved"

(* The answers of a native picker come from a modal window: the page gets no *)
(* input while one stands, but timers and the Agent API go on.               *)
IsPickerOpen == store.at = "picking"

(* No promise waits to be resumed by the microtasks of the turn before. *)
EventLoopFree == reading.at # "answered"

PersonActs == EventLoopFree /\ ~IsPickerOpen

(* WS-2: a write is refused during a gesture, an edit in place or a question. *)
MayWriteWhileAsked(question) == hand = "free"       \* mutant: WS-2 without the question
MayWrite(question) == hand = "free" /\ question = NotAsked

EditAdmitted == writing.at = "none" \/ "editWhileWriting" \in Admitted
NewAdmitted  == writing.at = "none" \/ "newWhileWriting" \in Admitted

(* isWriteBeforeFix: the writes whose end issues the fix bundle (FR-155). *)
IsWriteBeforeFix(form) == form \in {"beforeFixOverwrite", "beforeFixBackup"}

(* Only a GRS JSON written by the save road becomes the opened file (SX-1). *)
BecomesOpenedFile(form) == form \in {"save", "beforeFixOverwrite", "exportGrs"}

-----------------------------------------------------------------------------
Init ==
    /\ fileOperation = "idle" /\ confirmation = NotAsked /\ unsavedEdits = "nothingUnsaved"
    /\ openedFileName = NoFile /\ openSurface = "closed"
    /\ held = Original(0) /\ done = <<>> /\ undone = <<>> /\ savedDocument = Original(0)
    /\ nextDocument = 2 /\ hand = "free"
    /\ reading = NoReading /\ writing = NoWriting
    /\ settleIncoming = {} /\ settleOverwrite = "nobody"
    /\ openedFileBy = "opening"
    /\ store = StoreFree /\ openedHandle = NoFile /\ handleReadToOpen = NoProposal
    /\ disk \in [Files -> {Original(1), Empty}]
    /\ ownFiles = {} /\ keptDocument = Original(0)

-----------------------------------------------------------------------------
(* The person's hand, and writes to the held document *)

HandBegins ==
    /\ PersonActs /\ ~IsQuestionAsked /\ hand = "free"
    /\ hand' = "busy"
    /\ UNCHANGED <<sessionVars, held, done, undone, savedDocument, nextDocument>>
    /\ UNCHANGED <<roadVars, storeVars, ghostVars>>

HandEnds ==
    /\ EventLoopFree /\ hand = "busy"
    /\ hand' = "free"
    /\ UNCHANGED <<sessionVars, held, done, undone, savedDocument, nextDocument>>
    /\ UNCHANGED <<roadVars, storeVars, ghostVars>>

(* documentEditLanded: from an unsaved document the mark drops only when the  *)
(* edit is back at the saved one; from a saved document every edit raises it. *)
EditLandsRaised(document) == unsavedEdits' = "editsUnsaved"   \* mutant: isBackToSavedDocument dropped
EditLands(document) ==
    unsavedEdits' = IF HasUnsavedEdits /\ document = savedDocument
                    THEN "nothingUnsaved" ELSE "editsUnsaved"

(* A write that lands: a new document, the one before it on the undo side,    *)
(* nothing left to redo.                                                      *)
HistoryGrowsKeepingUndone == done' = Append(done, held) /\ undone' = undone   \* mutant
HistoryGrows == done' = Append(done, held) /\ undone' = <<>>

HeldDocumentFollowed ==
    /\ nextDocument <= MaxDocument
    /\ held' = Original(nextDocument) /\ nextDocument' = nextDocument + 1
    /\ HistoryGrows

DocumentWritten ==
    /\ HeldDocumentFollowed
    /\ EditLands(Original(nextDocument))
    /\ UNCHANGED <<savedDocument, hand>>

(* A write of the screen or of the Agent API; the latter also comes while a picker stands. *)
WriteDocument ==
    /\ EventLoopFree /\ EditAdmitted /\ MayWrite(confirmation)
    /\ DocumentWritten
    /\ UNCHANGED <<fileOperation, confirmation, openedFileName, openSurface>>
    /\ UNCHANGED <<roadVars, storeVars, ghostVars>>

(* A write of zoom, scroll or visibility alone: a copy of the held document,  *)
(* no step of the history, and the mark is raised. Zoom and scroll move while *)
(* a question stands or a field is edited, too (isViewOnly, WS-2).            *)
ViewCopied(document) ==
    /\ "moveView" \in Admitted /\ nextDocument <= MaxDocument
    /\ held' = [document EXCEPT !.copy = nextDocument] /\ nextDocument' = nextDocument + 1

MoveView ==
    /\ EventLoopFree /\ EditAdmitted
    /\ ViewCopied(held)
    /\ EditLands(held')
    /\ UNCHANGED <<fileOperation, confirmation, openedFileName, openSurface>>
    /\ UNCHANGED <<done, undone, savedDocument, hand, roadVars, storeVars, ghostVars>>

(* keepingColumnsOutsideHistory: the very document of the step, or, when the  *)
(* view moved since it was left, a copy of it with the view of now.           *)
Restored(document) ==
    \/ held' = document /\ UNCHANGED nextDocument
    \/ ViewCopied(document)

(* RD-1 and RD-2; isBackToSavedDocument is held === savedDocument after the step. *)
UndoEdit ==
    /\ EventLoopFree /\ EditAdmitted /\ MayWrite(confirmation) /\ done # <<>>
    /\ Restored(done[Len(done)])
    /\ EditLands(held')
    /\ done' = SubSeq(done, 1, Len(done) - 1)
    /\ undone' = <<held>> \o undone
    /\ UNCHANGED <<fileOperation, confirmation, openedFileName, openSurface>>
    /\ UNCHANGED <<savedDocument, hand, roadVars, storeVars, ghostVars>>

RedoEdit ==
    /\ EventLoopFree /\ EditAdmitted /\ MayWrite(confirmation) /\ undone # <<>>
    /\ Restored(Head(undone))
    /\ EditLands(held')
    /\ done' = Append(done, held)
    /\ undone' = Tail(undone)
    /\ UNCHANGED <<fileOperation, confirmation, openedFileName, openSurface>>
    /\ UNCHANGED <<savedDocument, hand, roadVars, storeVars, ghostVars>>

(* forgetOpenedFile: neither a handle to write over nor one to adopt. *)
OpenedFileNameForgotten == UNCHANGED <<openedHandle, handleReadToOpen>>   \* mutant
OpenedFileForgotten == openedHandle' = NoFile /\ handleReadToOpen' = NoProposal

(* RD-7 and newDocumentLanded: the empty document, an empty history, and no   *)
(* file to write over -- whatever the roads are doing.                        *)
StartNewDocument ==
    /\ nextDocument <= MaxDocument
    /\ held' = Original(nextDocument) /\ nextDocument' = nextDocument + 1
    /\ done' = <<>> /\ undone' = <<>>
    /\ savedDocument' = Original(nextDocument) /\ unsavedEdits' = "nothingUnsaved"
    /\ openedFileName' = NoFile
    /\ OpenedFileForgotten
    /\ openedFileBy' = "opening"
    /\ ownFiles' = {} /\ keptDocument' = Original(nextDocument)
    /\ writing' = [writing EXCEPT !.isOwn = FALSE]
    /\ UNCHANGED hand

PressNewDocument ==
    /\ PersonActs /\ NewAdmitted /\ ~IsQuestionAsked
    /\ nextDocument <= MaxDocument
    /\ \/ /\ HasUnsavedEdits
          /\ confirmation' = Asked("QN-5", "startNewDocument")
          /\ UNCHANGED <<fileOperation, unsavedEdits, openedFileName, openSurface>>
          /\ UNCHANGED <<heldVars, roadVars, storeVars, ghostVars>>
       \/ /\ ~HasUnsavedEdits /\ hand = "free"
          /\ StartNewDocument
          /\ UNCHANGED <<fileOperation, confirmation, openSurface>>
          /\ UNCHANGED <<reading, settleIncoming, settleOverwrite, store, disk>>

(* A deletion the person must confirm, or the agent's request to open a file: *)
(* raised only when no question stands.                                       *)
RaiseChangeQuestion ==
    /\ ~IsQuestionAsked /\ nextDocument <= MaxDocument
    /\ \/ PersonActs /\ EditAdmitted /\ confirmation' = Asked("change", "changeDocument")
       \/ EventLoopFree /\ hand = "free" /\ confirmation' = Asked("QN-17", "openDocumentFile")
    /\ UNCHANGED <<fileOperation, unsavedEdits, openedFileName, openSurface>>
    /\ UNCHANGED <<heldVars, roadVars, storeVars, ghostVars>>

-----------------------------------------------------------------------------
(* The open road *)

(* readDocumentFile: the store is asked at once, except that a reopen first   *)
(* asks what the opened file still allows. A busy store faults and the road   *)
(* ends in the same turn, which leaves everything as it was.                  *)
BeginReading(route) ==
    /\ fileOperation' = "readingDocumentFile"
    /\ \/ /\ route = "reopen"
          /\ reading' = [NoReading EXCEPT !.at = "state", !.route = route, !.from = openedHandle]
          /\ UNCHANGED <<store, handleReadToOpen>>
       \/ /\ route \in {"chooser", "baseline"} /\ store.at = "free"
          /\ reading' = [NoReading EXCEPT !.at = "store", !.route = route]
          /\ store' = [StoreFree EXCEPT !.at = "picking"]
          /\ handleReadToOpen' = NoProposal
       \/ /\ route = "drop" /\ store.at = "free"
          /\ reading' = [NoReading EXCEPT !.at = "store", !.route = route]
          /\ \E file \in Files : store' = [StoreFree EXCEPT !.at = "bytes", !.file = file]
          /\ handleReadToOpen' = NoProposal

AskToOpen ==
    /\ PersonActs /\ fileOperation = "idle" /\ ~IsQuestionAsked
    /\ \E route \in {"chooser", "drop", "reopen", "baseline"} : BeginReading(route)
    /\ UNCHANGED <<confirmation, unsavedEdits, openedFileName, openSurface, heldVars>>
    /\ UNCHANGED <<writing, settleIncoming, settleOverwrite, openedFileBy>>
    /\ UNCHANGED <<openedHandle, disk, ghostVars>>

(* documentOpenFailed while reading or importing, sent by the road's finally. *)
ReadingFailsUntold ==                                \* mutant: the finally dropped
    /\ UNCHANGED fileOperation /\ reading' = NoReading
ReadingFails ==
    /\ fileOperation' = "idle" /\ reading' = NoReading

(* readOpenedFileState answered: with no opened file the road ends; else the  *)
(* store reads the handle it holds now.                                       *)
ReopenGoesOn ==
    /\ EventLoopFree /\ reading.at = "state"
    /\ \/ /\ \/ reading.from = NoFile
             \/ store.at # "free"
             \/ openedHandle = NoFile
          /\ ReadingFails
          /\ handleReadToOpen' = IF reading.from # NoFile /\ store.at = "free"
                                 THEN NoProposal ELSE handleReadToOpen
          /\ UNCHANGED store
       \/ /\ reading.from # NoFile /\ store.at = "free" /\ openedHandle # NoFile
          /\ reading' = [reading EXCEPT !.at = "store"]
          /\ store' = [StoreFree EXCEPT !.at = "bytes", !.file = openedHandle]
          /\ handleReadToOpen' = NoProposal
          /\ UNCHANGED fileOperation
    /\ UNCHANGED <<confirmation, unsavedEdits, openedFileName, openSurface, heldVars>>
    /\ UNCHANGED <<writing, settleIncoming, settleOverwrite, openedFileBy>>
    /\ UNCHANGED <<openedHandle, disk, ghostVars>>

(* discardAskedWhenUnsaved: QN-5 is asked over whatever question stands; with *)
(* nothing unsaved the waiting continuation is settled in this turn.          *)
DiscardAskedWhenUnsaved(read) ==
    IF HasUnsavedEdits
    THEN /\ fileOperation' = "awaitingDiscardAnswer"
         /\ confirmation' = Asked("QN-5", "nothing")
         /\ reading' = [read EXCEPT !.at = "askedHow"]
         /\ settleIncoming' = settleIncoming \cup {"openChoice"}
    ELSE /\ fileOperation' = "importingDocument"
         /\ reading' = [read EXCEPT !.at = "answered", !.choice = "replace"]
         /\ settleIncoming' = {}
         /\ UNCHANGED confirmation

(* askHowToOpen and documentFileRead: the continuation is held, then the      *)
(* machine answers it or asks the person.                                     *)
DocumentFileRead(read) ==
    IF read.route \in {"drop", "reopen"}
    THEN DiscardAskedWhenUnsaved(read) /\ UNCHANGED openSurface
    ELSE IF read.route = "baseline"
    THEN /\ fileOperation' = "importingDocument"
         /\ reading' = [read EXCEPT !.at = "answered", !.choice = "baseline"]
         /\ settleIncoming' = {}
         /\ UNCHANGED <<confirmation, openSurface>>
    ELSE /\ fileOperation' = "awaitingOpenChoice"
         /\ reading' = [read EXCEPT !.at = "askedHow"]
         /\ settleIncoming' = settleIncoming \cup {"openChoice"}
         /\ openSurface' = "U-56"
         /\ UNCHANGED confirmation

(* The bytes arrive, or cannot be read. The chooser proposes the file it read *)
(* for adoption and a drop proposes even that it brought no handle; a reopen  *)
(* and a baseline propose nothing. A text that does not decode or validate    *)
(* ends the road after the proposal.                                          *)
FileReadToOpen ==
    /\ EventLoopFree /\ store.at = "bytes" /\ store.owner = "reading"
    /\ store' = StoreFree
    /\ \/ /\ ReadingFails
          /\ UNCHANGED <<confirmation, openSurface, settleIncoming, handleReadToOpen>>
       \/ /\ \/ /\ reading.route = "chooser" /\ handleReadToOpen' = store.file
             \/ /\ reading.route = "drop" /\ handleReadToOpen' \in {store.file, NoFile}
             \/ /\ reading.route \in {"reopen", "baseline"} /\ UNCHANGED handleReadToOpen
          /\ \/ /\ ReadingFails
                /\ UNCHANGED <<confirmation, openSurface, settleIncoming>>
             \/ /\ disk[store.file] \in Documents
                /\ DocumentFileRead([reading EXCEPT !.incoming = disk[store.file],
                                                    !.from = store.file])
    /\ UNCHANGED <<unsavedEdits, openedFileName, heldVars, writing, settleOverwrite>>
    /\ UNCHANGED <<openedFileBy, openedHandle, disk, ghostVars>>

(* takeInHandedDocument: no file is read, so the person is asked in the same  *)
(* turn; while the machine is busy the session does not change and the call   *)
(* answers that nothing landed.                                               *)
AgentHandsDocument ==
    /\ "handDocument" \in Admitted
    /\ EventLoopFree /\ fileOperation = "idle" /\ ~IsQuestionAsked
    /\ nextDocument <= MaxDocument /\ nextDocument' = nextDocument + 1
    /\ DocumentFileRead([NoReading EXCEPT !.route = "handed", !.incoming = Original(nextDocument)])
    /\ UNCHANGED <<unsavedEdits, openedFileName, held, done, undone, savedDocument, hand>>
    /\ UNCHANGED <<writing, settleOverwrite, openedFileBy, storeVars, ghostVars>>

(* An answer pressed on U-56: the surface is put away, then the choice told. *)
AnswerOpenChoice ==
    /\ PersonActs /\ fileOperation = "awaitingOpenChoice" /\ openSurface = "U-56"
    /\ openSurface' = "closed"
    /\ \E choice \in OpenChoices :
          IF choice = "replace"
          THEN DiscardAskedWhenUnsaved(reading)
          ELSE /\ fileOperation' = "importingDocument"
               /\ reading' = [reading EXCEPT !.at = "answered", !.choice = choice]
               /\ settleIncoming' = {}
               /\ UNCHANGED confirmation
    /\ UNCHANGED <<unsavedEdits, openedFileName, heldVars, storeVars, ghostVars>>
    /\ UNCHANGED <<writing, settleOverwrite, openedFileBy>>

AnswerMergeMapping ==
    /\ PersonActs /\ fileOperation = "awaitingMergeMapping" /\ openSurface = "U-61"
    /\ openSurface' = "closed" /\ settleIncoming' = {}
    /\ \/ ReadingFails        \* cancelImport
       \/ /\ fileOperation' = "importingDocument"
          /\ reading' = [reading EXCEPT !.at = "answered", !.isMapped = TRUE]
    /\ UNCHANGED <<confirmation, unsavedEdits, openedFileName, heldVars, storeVars, ghostVars>>
    /\ UNCHANGED <<writing, settleOverwrite, openedFileBy>>

(* flowSurfaceClosed settles the waiting continuation with null when the      *)
(* surface is the one the machine waits on.                                   *)
FlowSurfaceIgnored ==                                \* mutant: the machine is not told
    UNCHANGED <<fileOperation, reading, settleIncoming>>
FlowSurfaceClosed ==
    IF \/ openSurface = "U-56" /\ fileOperation = "awaitingOpenChoice"
       \/ openSurface = "U-61" /\ fileOperation = "awaitingMergeMapping"
    THEN ReadingFails /\ settleIncoming' = {}
    ELSE UNCHANGED <<fileOperation, reading, settleIncoming>>

(* A surface closed without an answer. *)
CloseFlowSurface ==
    /\ PersonActs /\ openSurface # "closed"
    /\ openSurface' = "closed"
    /\ FlowSurfaceClosed
    /\ UNCHANGED <<confirmation, unsavedEdits, openedFileName, heldVars, storeVars, ghostVars>>
    /\ UNCHANGED <<writing, settleOverwrite, openedFileBy>>

(* adoptFileReadToOpen: null proposes no handle, so the one held stays; a     *)
(* handed document has no store to ask.                                       *)
AdoptedHandleUnchecked == handleReadToOpen           \* mutant: adopted even when null
AdoptedHandle == IF reading.route = "handed" \/ handleReadToOpen = NoProposal
                 THEN openedHandle ELSE handleReadToOpen

(* RD-4 lands: the incoming document with an empty history, the handle that   *)
(* its reading proposed becomes the save target, the mark drops.              *)
ReplaceLands ==
    /\ reading.choice = "replace" /\ MayWrite(confirmation)
    /\ held' = reading.incoming /\ done' = <<>> /\ undone' = <<>>
    /\ savedDocument' = reading.incoming /\ unsavedEdits' = "nothingUnsaved"
    /\ openedHandle' = AdoptedHandle
    /\ openedFileName' = IF reading.from # NoFile THEN reading.from ELSE openedFileName
    /\ openedFileBy' = "opening"
    /\ ownFiles' = IF reading.from # NoFile THEN {reading.from} ELSE {}
    /\ keptDocument' = reading.incoming
    /\ openSurface' \in {openSurface, "U-62"}
    /\ fileOperation' = "idle" /\ reading' = NoReading
    /\ UNCHANGED <<nextDocument, settleIncoming>>

(* RD-3 lands: one undo step, a document no file holds, the target untouched. *)
MergeLands ==
    /\ reading.choice # "replace" /\ MayWrite(confirmation)
    /\ HeldDocumentFollowed
    /\ unsavedEdits' = "editsUnsaved"
    /\ openSurface' \in {openSurface, "U-62"}
    /\ fileOperation' = "idle" /\ reading' = NoReading
    /\ UNCHANGED <<savedDocument, openedHandle, openedFileName, openedFileBy>>
    /\ UNCHANGED <<settleIncoming, ghostVars>>

(* Two tasks matched by their key only: the person says which file to take from. *)
MergeMappingAsked ==
    /\ reading.choice = "merge" /\ ~reading.isMapped
    /\ fileOperation' = "awaitingMergeMapping" /\ openSurface' = "U-61"
    /\ reading' = [reading EXCEPT !.at = "askedMapping"]
    /\ settleIncoming' = settleIncoming \cup {"mergeMapping"}
    /\ UNCHANGED <<held, done, undone, savedDocument, nextDocument, unsavedEdits>>
    /\ UNCHANGED <<openedHandle, openedFileName, openedFileBy, ghostVars>>

(* The landing is refused (a gesture, a question, the import's own refusal):  *)
(* what was read is dropped.                                                  *)
ImportRefused ==
    /\ reading.choice = "replace" => ~MayWrite(confirmation)
    /\ ReadingFails
    /\ UNCHANGED <<held, done, undone, savedDocument, nextDocument, unsavedEdits>>
    /\ UNCHANGED <<openedHandle, openedFileName, openSurface, openedFileBy>>
    /\ UNCHANGED <<settleIncoming, ghostVars>>

(* The continuation of askHowToOpen or askWhichFileToTakeFrom, in the microtasks. *)
ReadingGoesOn ==
    /\ reading.at = "answered"
    /\ \/ ReplaceLands
       \/ MergeLands
       \/ MergeMappingAsked
       \/ ImportRefused
    /\ UNCHANGED <<confirmation, hand, writing, settleOverwrite>>
    /\ UNCHANGED <<store, handleReadToOpen, disk>>

-----------------------------------------------------------------------------
(* The write road *)

(* writeChosenFile: a busy store faults at once. *)
AskStoreForPlace(owner) ==
    /\ store.at = "free"
    /\ store' = [StoreFree EXCEPT !.at = "picking", !.owner = owner]

(* A save asks first what the opened file allows, a picture is painted first, *)
(* the other forms go straight to the store.                                  *)
FirstAwaitOf(form) ==
    IF form \in {"save", "beforeFixOverwrite"} THEN "state"
    ELSE IF form = "exportPicture" THEN "rendering" ELSE "store"

(* documentFileWriteAsked and writeDocumentFile: the held document is taken   *)
(* here, once (CS-4).                                                         *)
AskToWrite ==
    /\ PersonActs /\ fileOperation = "idle" /\ ~IsQuestionAsked
    /\ fileOperation' = "writingDocumentFile"
    /\ \E form \in WriteForms :
          /\ writing' = [at |-> FirstAwaitOf(form), form |-> form, document |-> held,
                         opened |-> openedHandle, isOwn |-> TRUE]
          /\ IF FirstAwaitOf(form) = "store"
             THEN AskStoreForPlace("writing")
             ELSE UNCHANGED store
    /\ UNCHANGED <<confirmation, unsavedEdits, openedFileName, openSurface, heldVars>>
    /\ UNCHANGED <<reading, settleIncoming, settleOverwrite, openedFileBy>>
    /\ UNCHANGED <<openedHandle, handleReadToOpen, disk, ghostVars>>

(* documentFileWriteEnded: the bundle it carried is dropped with it. *)
WritingEnds ==
    /\ fileOperation' = "idle" /\ writing' = NoWriting

(* isOverwritableOpenedFile: the state read before the await, the save mark after it. *)
IsOverwritable(file) == file # NoFile /\ (openedFileBy = "saving" \/ file \in GrsFiles)

(* The await before the store: over the opened file without asking (DI-5), or *)
(* into a file the person points at. The opened file may be gone by now.      *)
WriteGoesOn ==
    /\ EventLoopFree /\ writing.at \in {"state", "rendering"}
    /\ \/ /\ \/ writing.at = "rendering"       \* the picture could not be made
             \/ store.at # "free"
             \/ IsOverwritable(writing.opened) /\ openedHandle = NoFile
          /\ WritingEnds /\ UNCHANGED store
       \/ /\ writing.at = "state" /\ IsOverwritable(writing.opened)
          /\ store.at = "free" /\ openedHandle # NoFile
          /\ store' = [StoreFree EXCEPT !.at = "permission", !.owner = "writing",
                                        !.file = openedHandle]
          /\ writing' = [writing EXCEPT !.at = "store"] /\ UNCHANGED fileOperation
       \/ /\ writing.at = "rendering" \/ ~IsOverwritable(writing.opened)
          /\ AskStoreForPlace("writing")
          /\ writing' = [writing EXCEPT !.at = "store"] /\ UNCHANGED fileOperation
    /\ UNCHANGED <<confirmation, unsavedEdits, openedFileName, openSurface, heldVars>>
    /\ UNCHANGED <<reading, settleIncoming, settleOverwrite, openedFileBy>>
    /\ UNCHANGED <<openedHandle, handleReadToOpen, disk, ghostVars>>

(* handOutMarkdown and handOutFixLogTsv: the report window writes through the *)
(* same store, with the same question, but the file machine is not told.      *)
ExportReport ==
    /\ "exportReport" \in Admitted
    /\ PersonActs /\ AskStoreForPlace("report")
    /\ UNCHANGED <<sessionVars, heldVars, roadVars, ghostVars>>
    /\ UNCHANGED <<openedHandle, handleReadToOpen, disk>>

(* The store is free again and its asker is told: landed, canceled or refused. *)
StoreLetsGoUnlessDenied(owner) ==                    \* mutant: no finally around the permission
    /\ store' = IF store.at = "permission" THEN store ELSE StoreFree
    /\ CASE owner = "writing" -> WritingEnds /\ UNCHANGED reading
         [] OTHER -> ReadingFails /\ UNCHANGED writing
StoreLetsGo(owner) ==
    /\ store' = StoreFree
    /\ CASE owner = "writing" -> WritingEnds /\ UNCHANGED reading
         [] owner = "reading" -> ReadingFails /\ UNCHANGED writing
         [] OTHER -> UNCHANGED <<fileOperation, reading, writing>>

(* The native picker closes: dismissed, or with a file. *)
PickFile ==
    /\ EventLoopFree /\ store.at = "picking"
    /\ \/ StoreLetsGo(store.owner)
       \/ /\ \E file \in Files :
                store' = [store EXCEPT
                            !.file = file,
                            !.at = IF store.owner = "reading" THEN "bytes" ELSE "destination"]
          /\ UNCHANGED <<fileOperation, reading, writing>>
    /\ UNCHANGED <<confirmation, unsavedEdits, openedFileName, openSurface, heldVars>>
    /\ UNCHANGED <<settleIncoming, settleOverwrite, openedFileBy>>
    /\ UNCHANGED <<openedHandle, handleReadToOpen, disk, ghostVars>>

(* requestWritePermission answered *)
AnswerPermission ==
    /\ EventLoopFree /\ store.at = "permission"
    /\ \/ StoreLetsGo(store.owner)
       \/ store' = [store EXCEPT !.at = "bytes"] /\ UNCHANGED <<fileOperation, reading, writing>>
    /\ UNCHANGED <<confirmation, unsavedEdits, openedFileName, openSurface, heldVars>>
    /\ UNCHANGED <<settleIncoming, settleOverwrite, openedFileBy>>
    /\ UNCHANGED <<openedHandle, handleReadToOpen, disk, ghostVars>>

(* DI-6: a place of no bytes is not occupied; the name of a save is null, so  *)
(* no content counts as this very document (DI-1).                            *)
IsOccupiedByForeign(file) == disk[file] = Foreign    \* mutant: a GRS document is not asked about
IsOccupied(file) == disk[file] # Empty

(* askToWriteOverDestination; overwriteQuestionRaised replaces any question. *)
OverwriteAskedUnlessAsked ==                         \* mutant: dropped while a question stands
    /\ settleOverwrite' = store.owner
    /\ confirmation' = IF IsQuestionAsked THEN confirmation ELSE Asked("QN-4", "nothing")
OverwriteAsked ==
    /\ settleOverwrite' = store.owner
    /\ confirmation' = Asked("QN-4", "nothing")

(* readWriteDestination answered: an empty place is written, an occupied one  *)
(* is asked about, one that cannot be read is left alone.                     *)
ReadDestination ==
    /\ EventLoopFree /\ store.at = "destination"
    /\ \/ /\ StoreLetsGo(store.owner)
          /\ UNCHANGED <<confirmation, settleOverwrite>>
       \/ /\ ~IsOccupied(store.file)
          /\ store' = [store EXCEPT !.at = "bytes"]
          /\ UNCHANGED <<fileOperation, reading, writing, confirmation, settleOverwrite>>
       \/ /\ IsOccupied(store.file)
          /\ store' = [store EXCEPT !.at = "askedOver"]
          /\ OverwriteAsked
          /\ UNCHANGED <<fileOperation, reading, writing>>
    /\ UNCHANGED <<unsavedEdits, openedFileName, openSurface, heldVars>>
    /\ UNCHANGED <<settleIncoming, openedFileBy>>
    /\ UNCHANGED <<openedHandle, handleReadToOpen, disk, ghostVars>>

(* issueDelayFixBundle, in the turn of the landing: one write of the whole    *)
(* bundle on the document held now, or nothing (refused, or the wrong moment).*)
FixBundleIssued(form) ==
    \/ IsWriteBeforeFix(form) /\ MayWrite(confirmation) /\ HeldDocumentFollowed
    \/ UNCHANGED <<held, nextDocument, done, undone>>

(* documentFileSaved: the mark drops against the document held now, and what  *)
(* the bundle writes afterwards raises it again.                              *)
MarkDroppedLast == savedDocument' = held /\ unsavedEdits' = "nothingUnsaved"   \* mutant: the order swapped
MarkDroppedFirst ==
    /\ savedDocument' = held
    /\ unsavedEdits' = IF held' = held THEN "nothingUnsaved" ELSE "editsUnsaved"

SaveLands ==
    /\ FixBundleIssued(writing.form)
    /\ MarkDroppedFirst
    /\ openedFileName' = store.file
    /\ openedFileBy' = "saving"
    /\ openedHandle' = store.file
    /\ ownFiles' = IF writing.isOwn THEN ownFiles \cup {store.file} ELSE ownFiles
    /\ keptDocument' = IF writing.isOwn THEN writing.document ELSE keptDocument

(* diagnosticFixBackupSaved: no save, so the mark and the opened file stay. *)
BackupLands ==
    /\ FixBundleIssued(writing.form)
    /\ unsavedEdits' = IF held' = held THEN unsavedEdits ELSE "editsUnsaved"
    /\ UNCHANGED <<savedDocument, openedFileName, openedFileBy, openedHandle, ghostVars>>

(* The write is refused or fails: a fault is raised, and a bundle it carried  *)
(* is dropped.                                                                *)
WriteFails ==
    /\ StoreLetsGo(store.owner)
    /\ UNCHANGED <<held, done, undone, savedDocument, nextDocument, unsavedEdits>>
    /\ UNCHANGED <<openedFileName, openedFileBy, openedHandle, disk, ghostVars>>

(* The bytes are in the file, or the write fails and the file stays as it was. *)
BytesWritten ==
    /\ EventLoopFree /\ store.at = "bytes" /\ store.owner # "reading"
    /\ \/ WriteFails
       \/ /\ store.owner = "writing"
          /\ StoreLetsGo("writing")
          /\ disk' = [disk EXCEPT ![store.file] =
                        IF writing.form \in {"exportMspdi", "exportPicture"}
                        THEN Foreign ELSE writing.document]
          /\ \/ BecomesOpenedFile(writing.form) /\ SaveLands
             \/ writing.form = "beforeFixBackup" /\ BackupLands
             \/ /\ writing.form \in {"exportMspdi", "exportPicture"}
                /\ UNCHANGED <<held, done, undone, savedDocument, nextDocument, unsavedEdits>>
                /\ UNCHANGED <<openedFileName, openedFileBy, openedHandle, ghostVars>>
       \/ /\ store.owner = "report"
          /\ StoreLetsGo("report")
          /\ disk' = [disk EXCEPT ![store.file] = Foreign]
          /\ UNCHANGED <<held, done, undone, savedDocument, nextDocument, unsavedEdits>>
          /\ UNCHANGED <<openedFileName, openedFileBy, openedHandle, ghostVars>>
    /\ UNCHANGED <<confirmation, openSurface, hand>>
    /\ UNCHANGED <<settleIncoming, settleOverwrite, handleReadToOpen>>

-----------------------------------------------------------------------------
(* The answer to a question (confirmationAnswered): the file machine and the  *)
(* question machine both read the state before the answer.                    *)

AnswerDiscardQuestion ==
    /\ PersonActs /\ IsQuestionAsked /\ fileOperation = "awaitingDiscardAnswer"
    /\ confirmation' = NotAsked /\ settleIncoming' = {}
    /\ \/ ReadingFails
       \/ /\ fileOperation' = "importingDocument"
          /\ reading' = [reading EXCEPT !.at = "answered", !.choice = "replace"]
    /\ UNCHANGED <<unsavedEdits, openedFileName, openSurface, heldVars, storeVars, ghostVars>>
    /\ UNCHANGED <<writing, settleOverwrite, openedFileBy>>

IsOverwriteAnswerTaken ==
    fileOperation = "writingDocumentFile" /\ confirmation.question = "QN-4"

(* answerOverwriteQuestion: whoever holds the continuation goes on. *)
AnswerOverwriteQuestion ==
    /\ PersonActs /\ IsOverwriteAnswerTaken
    /\ confirmation' = NotAsked
    /\ settleOverwrite' = "nobody"
    /\ \/ /\ settleOverwrite # "nobody"
          /\ StoreLetsGo(settleOverwrite)
       \/ /\ settleOverwrite # "nobody"
          /\ store' = [store EXCEPT !.at = "bytes", !.isAgreed = TRUE]
          /\ UNCHANGED <<fileOperation, reading, writing>>
       \/ /\ settleOverwrite = "nobody"
          /\ UNCHANGED <<store, fileOperation, reading, writing>>
    /\ UNCHANGED <<unsavedEdits, openedFileName, openSurface, heldVars>>
    /\ UNCHANGED <<settleIncoming, openedFileBy>>
    /\ UNCHANGED <<openedHandle, handleReadToOpen, disk, ghostVars>>

IsOtherAnswer ==
    /\ PersonActs /\ IsQuestionAsked
    /\ fileOperation # "awaitingDiscardAnswer" /\ ~IsOverwriteAnswerTaken

(* A no, a yes to a question that owes nothing, or a yes whose owed action is *)
(* refused in the same turn.                                                  *)
QuestionPutAway ==
    /\ IsOtherAnswer
    /\ confirmation' = NotAsked
    /\ UNCHANGED <<fileOperation, unsavedEdits, openedFileName, openSurface>>
    /\ UNCHANGED <<heldVars, roadVars, storeVars, ghostVars>>

(* carryOutOwedAction, by what the question owed to a yes *)
NewDocumentCarriedOut ==
    /\ confirmation.owed = "startNewDocument" /\ MayWrite(confirmation')
    /\ NewAdmitted
    /\ StartNewDocument
    /\ UNCHANGED <<fileOperation, openSurface>>
    /\ UNCHANGED <<reading, settleIncoming, settleOverwrite, store, disk>>

OpeningCarriedOut ==
    /\ confirmation.owed = "openDocumentFile" /\ fileOperation = "idle"
    /\ BeginReading("chooser")
    /\ UNCHANGED <<unsavedEdits, openedFileName, openSurface, heldVars>>
    /\ UNCHANGED <<writing, settleIncoming, settleOverwrite, openedFileBy>>
    /\ UNCHANGED <<openedHandle, disk, ghostVars>>

ChangeCarriedOut ==
    /\ confirmation.owed = "changeDocument" /\ MayWrite(confirmation')
    /\ EditAdmitted
    /\ DocumentWritten
    /\ UNCHANGED <<fileOperation, openedFileName, openSurface>>
    /\ UNCHANGED <<roadVars, storeVars, ghostVars>>

OwedActionCarriedOut ==
    /\ IsOtherAnswer
    /\ confirmation' = NotAsked
    /\ NewDocumentCarriedOut \/ OpeningCarriedOut \/ ChangeCarriedOut

-----------------------------------------------------------------------------
Next ==
    \/ HandBegins \/ HandEnds
    \/ WriteDocument \/ MoveView \/ UndoEdit \/ RedoEdit
    \/ PressNewDocument \/ RaiseChangeQuestion
    \/ AskToOpen \/ ReopenGoesOn \/ FileReadToOpen \/ AgentHandsDocument
    \/ AnswerOpenChoice \/ AnswerMergeMapping \/ CloseFlowSurface \/ ReadingGoesOn
    \/ AskToWrite \/ WriteGoesOn \/ ExportReport
    \/ PickFile \/ AnswerPermission \/ ReadDestination \/ BytesWritten
    \/ AnswerDiscardQuestion \/ AnswerOverwriteQuestion
    \/ QuestionPutAway \/ OwedActionCarriedOut

Spec == Init /\ [][Next]_vars

-----------------------------------------------------------------------------
(* Safety *)

SessionTypeOK ==
    /\ fileOperation \in OperationKinds
    /\ confirmation \in Confirmations
    /\ unsavedEdits \in {"nothingUnsaved", "editsUnsaved"}
    /\ openedFileName \in FilesOrNone
    /\ openSurface \in {"closed", "U-56", "U-61", "U-62"}

HeldTypeOK ==
    /\ held \in Documents /\ savedDocument \in Documents /\ nextDocument \in Nat
    /\ done \in Seq(Documents) /\ undone \in Seq(Documents)
    /\ hand \in {"free", "busy"}

RoadTypeOK ==
    /\ reading \in Readings /\ writing \in Writings
    /\ settleIncoming \in SUBSET {"openChoice", "mergeMapping"}
    /\ settleOverwrite \in {"nobody"} \cup StoreOwners
    /\ openedFileBy \in {"opening", "saving"}

StoreTypeOK ==
    /\ store \in Stores
    /\ openedHandle \in FilesOrNone
    /\ handleReadToOpen \in FilesOrNone \cup {NoProposal}
    /\ disk \in [Files -> Contents]

GhostTypeOK == ownFiles \in SUBSET FilesOrNone /\ keptDocument \in Documents

TypeOK == SessionTypeOK /\ HeldTypeOK /\ RoadTypeOK /\ StoreTypeOK /\ GhostTypeOK

(* The machine and the two asynchronous roads agree: a file operation stands  *)
(* in the session exactly while its road runs, and each state that waits for  *)
(* an answer has exactly the continuation that the answer settles. Were they  *)
(* to part, an answer would settle nothing, or the file entries would refuse  *)
(* (RS-27) for ever (document-file-flow.ts, continuations and effects).       *)
ReadingAgreement ==
    /\ fileOperation = "readingDocumentFile" <=> reading.at \in {"state", "store"}
    /\ fileOperation \in {"awaitingOpenChoice", "awaitingDiscardAnswer"} <=> reading.at = "askedHow"
    /\ fileOperation = "importingDocument" <=> reading.at = "answered"
    /\ fileOperation = "awaitingMergeMapping" <=> reading.at = "askedMapping"
    /\ "openChoice" \in settleIncoming <=> reading.at = "askedHow"
    /\ "mergeMapping" \in settleIncoming <=> reading.at = "askedMapping"

WritingAgreement ==
    fileOperation = "writingDocumentFile" <=> writing.at # "none"

StoreAgreement ==
    /\ reading.at = "store" <=> store.at # "free" /\ store.owner = "reading"
    /\ writing.at = "store" <=> store.at # "free" /\ store.owner = "writing"
    /\ store.at \in {"destination", "askedOver", "bytes", "permission"} => store.file \in Files
    /\ store.at \in {"destination", "askedOver"} => store.owner # "reading"
    /\ store.at = "permission" => store.owner = "writing"

OverwriteHolder ==
    /\ settleOverwrite # "nobody" <=> store.at = "askedOver"
    /\ store.at = "askedOver" => settleOverwrite = store.owner

SurfaceAgreement ==
    /\ fileOperation = "awaitingOpenChoice" <=> openSurface = "U-56"
    /\ fileOperation = "awaitingMergeMapping" <=> openSurface = "U-61"

DiscardAgreement ==
    fileOperation = "awaitingDiscardAnswer" =>
        IsQuestionAsked /\ confirmation.owed = "nothing"

FlowAgreement ==
    /\ ReadingAgreement /\ WritingAgreement /\ StoreAgreement
    /\ OverwriteHolder /\ SurfaceAgreement /\ DiscardAgreement

(* The answer to an overwrite question reaches the write that waits for it:   *)
(* QN-4 stands exactly while a write waits on it, and the file machine is in  *)
(* the state that passes the answer on (T-227 DI-4, askToWriteOverDestination).*)
OverwriteAgreement ==
    /\ store.at = "askedOver" <=> confirmation.question = "QN-4"
    /\ store.at = "askedOver" => IsOverwriteAnswerTaken

(* Undo and redo move along one line of edits, in the order they were made:   *)
(* behind the held one all are older, ahead of it all are newer, and no two   *)
(* are the same, or undoing could lead back to a saved document that the mark *)
(* does not tell apart (RD-1, RD-2).                                          *)
HistoryIsALine ==
    /\ \A i \in 1..Len(done) : done[i].edit < held.edit
    /\ \A i \in 1..Len(undone) : held.edit < undone[i].edit
    /\ \A j \in 1..Len(done) : \A i \in 1..(j - 1) : done[i].edit < done[j].edit
    /\ \A j \in 1..Len(undone) : \A i \in 1..(j - 1) : undone[i].edit < undone[j].edit

(* A document or a copy not made yet is nowhere: neither held nor saved, nor  *)
(* in the history, nor on a road, nor on the disk.                            *)
IsMade(document) == document.edit < nextDocument /\ document.copy < nextDocument

NextDocumentIsFresh ==
    /\ IsMade(held) /\ IsMade(savedDocument)
    /\ \A i \in 1..Len(done) : IsMade(done[i])
    /\ \A i \in 1..Len(undone) : IsMade(undone[i])
    /\ IsMade(reading.incoming) /\ IsMade(writing.document)
    /\ \A file \in Files : disk[file] \in Documents => IsMade(disk[file])

(* The unsaved mark is raised exactly while the held document is another than *)
(* the one held when the mark last dropped, whichever way it was reached:     *)
(* edits, undo, redo, an open, New, a save, the fix bundle (FR-100, T-290).   *)
MarkAgreement == HasUnsavedEdits <=> held # savedDocument

(* No mark, no loss: while the screen says nothing is unsaved, the held       *)
(* document is the one the last save wrote, the last replacing open brought,  *)
(* or the fresh start (FR-100: leaving with unsaved edits must be warned of). *)
NothingUnsavedIsKept == ~HasUnsavedEdits => held = keptDocument

(* The file a save writes over without asking is a file of this very document *)
(* (DI-5): one it was opened from or saved to, never one that was merely read *)
(* for a merge or a baseline (FR-060), nor one of a document put away (FR-095).*)
SaveTargetIsOwn == openedHandle \in ownFiles \cup {NoFile}

(* A yes to a deletion writes the commands made when it was asked, so until   *)
(* the answer no write, landing or undo may change the document: only its     *)
(* view may move (NT-7, WS-2).                                                *)
QuestionedDocumentStays ==
    [][IsQuestionAsked /\ confirmation' # NotAsked => held'.edit = held.edit]_vars

(* An occupied file changes only as the document's own file or by a yes to    *)
(* QN-4 (DI-4, DI-5).                                                         *)
NoSilentOverwrite ==
    [][\A file \in Files : disk'[file] # disk[file] =>
          disk[file] = Empty \/ store.isAgreed \/ file \in ownFiles]_vars

-----------------------------------------------------------------------------
(* Liveness: the event loop resumes every road, the browser settles every     *)
(* read, write and prompt, and the person closes every picker and answers     *)
(* every question and surface; none of the person's other acts is assumed.    *)

StoreSettles == FileReadToOpen \/ AnswerPermission \/ ReadDestination \/ BytesWritten

Fairness ==
    /\ WF_vars(ReopenGoesOn) /\ WF_vars(ReadingGoesOn) /\ WF_vars(WriteGoesOn)
    /\ WF_vars(StoreSettles)
    /\ WF_vars(PickFile)
    /\ WF_vars(AnswerDiscardQuestion \/ AnswerOverwriteQuestion
                   \/ QuestionPutAway \/ OwedActionCarriedOut)
    /\ WF_vars(AnswerOpenChoice \/ AnswerMergeMapping \/ CloseFlowSurface)

FairSpec == Spec /\ Fairness

(* Every file operation comes to its end, whatever the disk, the picker and   *)
(* the answers were; until then every other open and save is refused (RS-27). *)
OperationEnds == fileOperation # "idle" ~> fileOperation = "idle"

(* The store's one lock is let go of (isBusy, the finally of every method).   *)
StoreIsFreed == store.at # "free" ~> store.at = "free"

=============================================================================
