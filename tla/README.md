# GoodRelax Scheduler: models, checks and proofs

GoodRelax Scheduler (GRS) is a Gantt chart scheduler that runs in one page of a
browser. It keeps one document in memory, reads and writes it as files through
the File System Access API, and lets an AI agent read and change the same
document through an in-page API and a relay process. This directory holds TLA+
modules of the parts of it where steps of several actors meet or long sequences of
edits must keep a structure whole, the TLC configurations that check them, and
machine-checked proofs about them. Paths below are paths of the repository;
`FR-`, `DI-`, `WS-`, `QN-`, `AG-`, `IV-`, `MG-`... are the row identifiers that its
sources and `docs/spec` use.

| module | what it is | instance | configurations | proofs |
| --- | --- | --- | --- | --- |
| `DocumentFileFlow` | opening, saving and starting anew | `MCDocumentFileFlow` | `FileFlow*.cfg` | `DocumentFileFlowProofs` |
| `DocumentChange` | the one path of a write: stamps, history, owners, notices | `MCDocumentChange` | `DocumentChange.cfg`, `ChangeUntoldUndo.cfg` | `DocumentChangeProofs` |
| `AgentRelay` | relay, links and pages, calls, watches, saves | `MCAgentRelay` | `AgentRelay.cfg` | `AgentRelayProofs` |
| `RelayedCalls` | what the relay promises its caller; `AgentRelay` implements it | | | |
| `ScheduleEditing` | every command that adds, removes or links rows, in bundles | `MCScheduleEditing` | `ScheduleEditing.cfg` | `ScheduleEditingProofs`, `ScheduleTreesProofs` |
| `ImportDocument` | opening and merging files, on top of `ScheduleEditing` | `MCImportDocument` | `ImportDocument.cfg` | `ImportDocumentProofs` |
| `DelayFixes` | the delay diagnosis of parent tasks, its fixes and their bundles | `MCDelayFixes` | `DelayFixes.cfg` | `DelayFixesProofs` |
| `ScreenSession` | keys, pointer, notices, edits in place and the frame | `MCScreenSession` | `ScreenSession.cfg` | `ScreenSessionProofs` |

`PROJECT.json` lists components, runs, mutants, the map from definitions to source
lines, findings, hazards and theorems.

## 1. Inventory

The source is layered: `entity` (document, history, stamps, calendars, layout),
`use-case` (the session's state machines, changing and importing documents),
`adapter` (codecs, gateways, translators) and `framework` (the page's shell, the
file store, the relay). One page is one thread: everything interleaves at
`await`s, events, timers and callbacks, and nowhere else.

**File flow of the screen session** (`use-case/advance-screen-session/file-flow-values.ts`,
surfaces in `screen-values.ts`).
State: three machines - the file operation (idle, reading, awaiting a choice, a
discard answer or a merge mapping, importing, writing), the question asked and
the action owed to a yes, the unsaved mark - and the surface that stands.
Operations: one pure handler per event, which returns the next state and effects.
Interacts: the shell feeds it every event and runs its effects, in the same turn.
Hard: a question may be replaced by another; an answer goes to whichever machine
waits for it; nothing but an effect ever settles a waiting road.
Correct when: an operation stands exactly while its road runs, every operation
ends, and the mark says truly whether something would be lost.

**Open and save roads of the shell** (`framework/single-html-shell/document-file-flow.ts`,
`frame-loop.ts`).
State: the held document, its history, the document saved, two running `async`
functions, the continuations `settleOpenChoice`, `settleMergeMapping` and
`settleOverwrite`, and the flag `hasSavedOpenedFile`.
Operations: read, ask, import, land; take the document, ask, write, land; the fix
bundle; New; the hand-over of a document by the agent.
Hard: each road is cut by three to five awaits, during which the person edits,
undoes, answers, and the agent writes.
Correct when: what lands is what was asked for, on the document it was asked of,
and the mark, the history and the file written over all belong to it.

**File store** (`framework/file-system-access-file-store`, `adapter/file-gateway`).
State: one lock (`isBusy`), the handle a save writes over (`openedHandle`), the
handle a read proposes (`handleReadToOpen`), the folder last used.
Operations: read to open, adopt, forget, overwrite, write to a chosen place.
Hard: the lock is held over pickers, prompts and a question asked of the person.
Correct when: the lock is always let go of, no occupied file is written over
without a yes, and the handle written over is a file of the held document.

**Delay report window** (`delay-diagnostics-report-window.ts`).
State: the picks of the person and the rows made of them, the log of what was fixed.
Operations: pick, choose, adopt all, clear all, hand a bundle to the write of a file.
It exports its report and its fix log through the file store, beside the file
machine. Hard: it shares the lock and the overwrite question with the save road, and
shows a document that has long been edited.
Correct when: a bundle writes what its rows show, and the log tells of fixes in effect.

**Delay diagnosis and fix proposals** (`entity/document-model/schedule/delay-diagnostics.ts`,
`delay-fixes.ts`; issued through `document-file-flow.ts` and `agent-api-members.ts`).
State: none of its own. Operations: diagnose a schedule; propose fixes with the picks; the commands of a bundle.
Hard: one fix brings forth the next finding, up the tree of parents; fixes of one task
share a command, so the later must carry what the earlier set; the preview and the commands round days differently.
Correct when: no fix of a bundle undoes another, only what the rows name is written, and the
chain is followed to its end.

**Document change, history and stamps** (`use-case/apply-document-change`,
`entity/document-model/edit-history`, `document-stamp`).
State: document, `done` and `undone`, the stamp (counters, last writer, instant).
Operations: change, replace (rows RD-1 to RD-8), undo, redo, with the refusals
WS-1 (stale stamp), WS-2 (wrong moment), WS-3 (command refused), and the owner of a step.
Hard: stamps count seconds, so two states may carry one stamp; the history is cut
at its older end by count and by size; an agent may take back only its own step.
Correct when: no write of a stale reading lands, undo restores exactly what was,
and no writer takes back another's step.

**Change delivery** (`use-case/notify-change-watchers`).
State: watchers with the stamp each last saw. Operations: watch, unwatch, notify.
Hard: a callback may watch, unwatch or throw inside the round.
Correct when: every change of another writer reaches each watcher, once, and the
window that refuses writes closes whatever the callbacks do.

**Schedule editing commands** (`use-case/edit-document`).
State: the rows of the document - tasks and their WBS, the tree of task groups they
stand on, dependencies, resources, assignments, notes, highlight boxes - and the
settings that name rows. Operations: some forty commands, taken in bundles, each
judged where its forerunners left the document.
Hard: rows name each other across six tables and two trees; a deletion must find
everything that named what went; a copy infers its parent from where it lands; the
invariants IV-1 to IV-23 of the document are checked when a file is read, not after a command.
Correct when: no sequence of commands leads to a document that would be refused when read again.

**Relay server and page link** (`framework/mcp-relay-server`,
`single-html-shell/agent-api-relay-link.ts`).
State: the page attached, the calls waiting for its answer, a deadline for each,
notices not yet fetched, whether the watch is subscribed; the link's retries.
Operations: attach, drop, call, answer, time out, cancel, watch, save a file.
Hard: two processes over a socket that comes and goes; late answers; a save that
writes aside and renames twice.
Correct when: an answer reaches only the call it answers, every call ends, and a
file being replaced survives a failure under one of its names.

**Import and merge** (`use-case/import-document`).
State: the origin of each task (which master, which uid there, when last seen), the
number of the last import, the uid mark. Operations: put a file in place of the held
document; merge one in, with the person's answer on whether tasks of equal uid are
the same.
Hard: uids of three kinds of rows are renumbered against two documents at once; the
same master comes back in later issues, in between edits and imports of other masters.
Correct when: the merged rows are as sound as edited ones, a task of a master stands
once, and what a master dropped is told.

**Calendar and working-time arithmetic** (`entity/document-model/schedule`): pure
functions over days, minutes and exceptions; hard at boundaries and inverses.

**Gestures, notices, selection and panels** (the other regions of
`advance-screen-session`, `frame-loop.ts`, `frame-clock-wakes.ts`, `dom-screen-surface/field-editing.ts`).
State: the notices that stand and a wait for each timed one, the field being edited and its
settled text not yet written, the levels Esc takes away, the chooser of QN-12, what the last frame drew.
Operations: one handler per input, in which several parts look at one key one after the other;
timers; the frame.
Hard: the frame comes later than what asked for it, and listeners judge by what was drawn; a key is
seen by the field, the notice rung, the write of the text, the choice and the panel in turn.
Correct when: one press takes away one thing, a timed notice goes by itself and none goes early for
another's wait, and no settled text stays unwritten.

**Rendering, layout and export pictures** (`layout-engine`, the renderers, `canvas-rasterizer`) and
**document codecs** (`adapter/document-codec`): pure, broadly tested; see section 13.

`PROJECT.json` lists the hazards of these components one by one, each at its
line, with the properties that watch it.

## 2. Plan

Done, in this order: `DocumentFileFlow`, where a user's work can be lost;
`DocumentChange`, the write path with the delivery of notices in one module, since a
callback acts inside the write's own round; `AgentRelay` with its promise
`RelayedCalls`; `ScheduleEditing`; `ImportDocument`, which extends it; `ScreenSession`. Each was
checked before anything was proved about it. `DelayFixes` came last.

What is left, in this order:

1. `OneLevelPerKey` of `ScreenSession` as a theorem: the invariant it needs is the agreement of the
   levels in `open`, the edit in place and the choice with what the last frame drew.
2. Of `DelayFixes`, the lemmas on one draft and one command that `FixesDoAsShown` rests on; the
   settling itself is a fold and stays with TLC (section 12).
3. Calendar and working-time arithmetic as functions checked against reference
   definitions over bounded days.
4. `HistoryFits` of `DocumentChange`: that each step bears the size of its document is inductive and worth a theorem;
   the sum of the sizes is a fold and stays with TLC.
5. The rows of T-373 that section 9 leaves out, links and bottlenecks first.

## 3. `DocumentFileFlow` and the code

**Steps.** An action is one macrotask of the page's event loop: an input of the
person, a call of the Agent API, or the settling of one await on the disk, a
picker or a permission prompt, together with every effect the session runs in that
turn. When an effect settles one of the session's own promises, the road resumes
in the microtasks of the same turn: `reading.at = "answered"` marks this, and while
it stands only `ReadingGoesOn` runs (`EventLoopFree`). While a native picker stands
the page gets no input (`PersonActs`), but the agent and the awaits go on.

**State.** `fileOperation`, `confirmation`, `unsavedEdits` and `openSurface` are the
session's machines. `held`, `done`, `undone` and `savedDocument` are the shell's held
document, its history and the document that `isBackToSavedDocument` compares with;
`hand` is busy during a gesture or an edit in place. `reading` and `writing` are the
two `async` functions: `at` is the await they stand in, the other fields their local
variables. `settleIncoming` and `settleOverwrite` are the continuations held,
`store` the lock and where its owner stands, `openedHandle` and `handleReadToOpen` the
store's handles, `disk` what the files hold. Two history variables that no code
reads, `ownFiles` and `keptDocument` (with `writing.isOwn`), say which files belong
to the held document and which document was last kept.

**Data.** A document is the number of the edit that made it and of the copy that is
held. A write makes the next edit; a write of the view alone (zoom, scroll, visibility,
panel width) makes a copy of the same edit, without a step of the history; so equality
of the pair is the code's `===`. A file holds a document, nothing (`Empty`) or something that is
no document (`Foreign`). Decoding, validation and every refusal of an import are one
nondeterministic failure at the place where the code may return early. The text
written is the document itself. Which view columns moved is not modelled: an undo or
a redo gives back the very document of its step, or a copy of it with the view of now
(`Restored`).

**Actions.** Most carry the name of the handler or function they translate; the
map in `PROJECT.json` gives the lines. `AskToOpen`, `ReopenGoesOn`, `FileReadToOpen`,
`AnswerOpenChoice`, `AnswerMergeMapping`, `CloseFlowSurface`, `AnswerDiscardQuestion`
and `ReadingGoesOn` are the open road; `AskToWrite`, `WriteGoesOn`, `PickFile`,
`AnswerPermission`, `ReadDestination`, `AnswerOverwriteQuestion` and `BytesWritten` the
write road; `WriteDocument`, `MoveView`, `UndoEdit`, `RedoEdit`, `PressNewDocument`,
`RaiseChangeQuestion`, `QuestionPutAway` and `OwedActionCarriedOut` what happens beside
them; `ExportReport` and `AgentHandsDocument` the two roads that share parts of it.

**Happenings.** `Admitted` names what the environment may do in an instance: edit
during a write, press New during a write, export the report, hand a document over,
move the view. The code does not forbid any of them. A run leaves out one of the first
four only to show what the rest of the system promises without it, and each of these has
a run or a description of what goes wrong with it (section 11); moving the view is left out of
`quiet` only to keep its two files within reach of TLC.

## 4. `DocumentChange` and the code

**Steps.** A write is one synchronous call, so WS-1 to WS-6 (judge, plan, swap) are one
action: `PersonWrites`, `AgentWrites`, `PersonMerges`, `PersonSteps`, `AgentSteps` (undo RD-1 and redo RD-2),
`PersonStartsNew` and the replacements by a file. WS-7 opens a round (`RoundOf`) in
which only the watcher being called may act: `CallWatcher`, then whatever its callback
does - read, watch, unwatch, a write that is refused - then `WatcherReturns` or
`WatcherThrows`, until `RoundEnds`. `rounds` is a stack because nothing but the window
of WS-2 stops a callback's write from opening a second round.

**Data.** A document is named by the edit that made it, with its stamp: the two
instants and the last writer. Any write takes any instant of the clock, so a stamp may
stand still or go back, as FR-063 allows. A step of the history carries the size of its
document, and the history is cut at its older end by both limits as `historyWithStep`
does. `madeBy`, `madeAt`, `madeFrom`, `handed`, `knows` and `asked` are history variables.

**What it leaves to others.** What a command does to the schedule is
`ScheduleEditing`; the columns outside the history (T-027) are followed in
`DocumentFileFlow`. Of the four moments of WS-2 only the window of the delivery is
followed here, the gesture, the field edit and the question being in `DocumentFileFlow`.

## 5. `AgentRelay`, `RelayedCalls` and the code

**Steps.** The relay is one thread: an action is one callback of its event loop (a
request of the MCP client, a frame, a timer, an answer of the file system), and the
promises it settles go on, one by one (`Resume`), before the next callback. The page's
steps are its own callbacks and retries. Between them each link carries two queues that
keep their order; either end may be lost at any time, and the other learns of it late
or, where the relay's end stays half open, only from its own silence.

**State.** `calls` is each tool call as its chain of promises stands - waiting for the
page with its number, waiting for notices, judging, writing, renaming - and what it
ended with; `page`, `nextPageCallId`, `watchSubscribed` and `notices` are the fields of
the server's state; `tabs` the retries of each page's link; `work` the calls a page
has taken and not yet answered; `files` the name saved under and its `.bak`. History:
`sent`, `taken`, `dropped`, `carried`, `saved`, `crossed`.

**Faults.** Links close at either end at any moment, connections fail, the page answers
late or never, the client cancels at any await, the relay closes, the disk refuses, and
another program creates the file between the two judgements of a save. Two saves at
once, or another program's file between the second judgement and the rename, would
replace a file with no `.bak`; `crossed` records that two writers of the name
overlapped, and `SavedFileStays` speaks of the rest.

**Refinement.** `RelayedCalls` knows nothing of links, numbers, timers and files: a call
is asked, then answered by the page (only after the page carried it out), told
something by the relay, or canceled, once; and every call ends. `AgentRelay`
implements it under the mapping `StatusOf`, the liveness of every call included
(`KeepsPromise == Promise!Spec`). The promise has two halves: `Safety`, what no step may
break, which is proved of `AgentRelay` for any calls and links (section 12), and the
fairness `Spec` adds, which is model-checked.

## 6. `ScheduleEditing` and the code

**Steps.** An action is one command of a bundle (`editedInTurn`), judged on the
`draft` that its forerunners left; its guard is the command's refusals. `PlanDocumentChange`
makes the draft the held document, `RefuseDocumentChange` throws the bundle away. Both documents
are state because the properties must hold in the middle of a bundle too: the next
command is judged there. A deletion carries the id that the document's last task group
would take, as the screen does (`freshRowId`).

**Data.** A table is a function from its key. A task keeps its WBS parent and its
predecessors; a task group its parent, whether it is named, and the task it derives
from; notes keep the tip they are snapped to. Dates, plan and actual columns, looks,
the wording of names, the order of siblings, calendars and the scroll position are left
out: no property here tells them apart. Several dependency lines between one pair count as
one. Uids come from the mark of the project, in the order of the rows. `StrayTasks` are uids that the
source of a task group (`derivedFromTaskUid`) may name without a task of that uid: a merge
can leave such a column behind (section 7), commands never do, so it is empty in `ScheduleEditing.cfg`.

**Callers.** `pinTaskGroup`, `setTableView` and the landing rows of `pasteTasks` are not
checked against the rows of the document by the commands; only the screen's callers
send rows that exist, and the model admits what they send.

## 7. `ImportDocument` and the code

It extends `ScheduleEditing` with the files: `ReplaceDocument` puts a file in place of
the held document, `MergeDocument` merges one in with either answer, and between
imports any command of the parent module runs. `LandsOn` pairs tasks by origin, then
by uid; `ResourceUidOf` and `JoiningAssignments` unite resources by name and
assignments by pair, renumbering what clashes; `MergedDocument` is `builtMerge`;
`OriginsAfter` and `MissingSinceLastImport` keep what the next merge needs. A file is a
document that passed the intake, in GRS JSON or MSPDI; the latter brings no places,
looks, notes or origins of its own. `delivered` is a history variable.

`builtMerge` brings the source of a new task group in unmapped, so it may name a task of the file that
landed under another uid: `StrayTasks` are here the tasks of the files (`TasksOfFiles`).
`RowsAssumption` says what the files the program deals with keep and the intake of GRS JSON does not ask for:
the mark is the greatest uid issued (AT-20, `docs/spec/_assets/fig-erd-detail.md:357`; the MSPDI reader raises
it, `mspdi-codec.ts:384`), and a pair of task and resource is assigned once. A file made by hand may break either;
of such a file the theorems on merged rows say nothing (section 11).

Left out: calendars (united as resources are), the project profile, looks, the
overlay of a baseline, a merge into a settings conflict and the answer for each
candidate - the screen asks neither and answers all alike (`frame-loop.ts:1003`, PND-423).

## 8. `ScreenSession` and the code

**Steps.** An action is one input the page hands the shell, with every listener and effect it runs
before the next: the listeners of the field first (`dom-screen-surface/field-editing.ts`), then
`receiveInput`, which spends the notice rung, the settled text and then the rest, in that order.
`WaitElapses` and `HintRests` are timers, `FrameRuns` a frame that was asked for. A frame is not part of
the step that asks for it (`owed`), so what the next input finds drawn may be older than the session.

**State.** `standing` and `waits` are the notices and the map of `noticeTimersOf`; a notice carries the
number of the telling that made it, since the waits compare the very object. `drawn` is what the last
frame showed, from which the field listeners know of a notice and the pointer of a box. `field` is the
edit in place with its text untouched, typed in or taken back; `commit` the settled text that
waits in the surface. `open` holds the levels of IN-4 between the edit and the tooltip, `chooser` the
choice of QN-12, `keysHeld` the keys down, since Esc lets a field go when it comes up. `made`
numbers the tellings; the list of the code is in their order, so the newest notice is the one of the
greatest number.

**Data.** Words, counts, contents of panels and what is chosen are left out. A typed text
is one that settles to something else. How windows, surfaces, questions and modes come to stand is
one nondeterministic step (`LevelRises`). Left out: full screen, the filter inside a window, the answer
given in the chooser, a press in the field being edited, and resizing before the first frame.

## 9. `DelayFixes` and the code

**Steps.** The diagnosis is one call (`Diagnose`, at the moment `delayDiagnosticsNow` computes it) and each pick of the person
another, which makes the rows again (`Picked`). `AskFixWrite` hands the checked rows to the write of a
file, during which everything else goes on, and `WriteEnds` issues them on whatever document is held then
(`BundleLands`). `IssueDelayFixes` is the Agent API's AM-32, which proposes and issues in one call. Beside
them run edits, moves of the view, undo, redo and New.

**State.** `held`, `done` and `undone` are the document and its history; documents are told apart by
`reference`, as the code does, while `edit` and `view` say what a document really is. `diagnosis` is
`delayDiagnosticsHeld` with the document it was made of and the log it saw, `picks` and `proposals` what
`delayFixTablesKeeper` keeps, `pending` the bundle the file machine carries, `landed` the log's bundles.
`landed` also keeps the schedule each bundle was made for, which no code reads.

**The algorithm.** `findingsOf` is the diagnosis, `draftsOf` the ways of T-373, `proposeDelayFixes` the settling:
finding by finding in `inApplyOrder`, column by column, on a simulated schedule; then passes
over what the applied rows brought forth, up to `passLimit`; then, when a row is unchecked, the
whole once more as if it were checked, for the rows it holds back. The preview takes each last day as
given (`scheduleAfter`); the commands lift or refuse it (`commandTaken`, `isRefused`), so the two may differ and
the properties are about what really landed.

**Data.** A day stands for a date with its time; a task is the seven columns VC-8 to VC-12 and
FA-8 to FA-12 read or write. Left out are the other findings and fixes (links, rings, milestones,
omissions, suspicions), fades, derived parents, push-outs and bottlenecks.

## 10. Runs

| run | instance | checks |
| --- | --- | --- |
| `all_happenings` | one file, documents up to 3, every happening | `TypeOK`, `HistoryIsALine`, `FlowAgreement`, `MarkAgreement`, `QuestionedDocumentStays` |
| `quiet` | two files, one named as GRS JSON, documents up to 3, no happening | `OverwriteAgreement`, `NothingUnsavedIsKept`, `SaveTargetIsOwn`, `NoSilentOverwrite` |
| `file_flow_liveness` | one file, documents up to 2, every happening but report exports | `OperationEnds`, `StoreIsFreed` |
| `edit_while_writing`, `new_while_writing` | one file and one happening | one property each, violated |
| `document_change` | the person and one agent, two instants, three edits, two steps and a size of 3 | `TypeOK`, `StepsAreOwned`, `HistoryFits`, `NoWatcherLeftBehind`, `WatchedAsAsked`, `OwnStepsOnly`, `NoLostUpdate` |
| `undo_untold` | the same, with files of other sessions only | `EveryChangeIsTold`, violated |
| `relay` | two calls, two links, one page, one retry, one notice | `TypeOK`, `NoticesReachCaller`, `SavedFileStays`, `KeepsPromise`, `LinkSettles` |
| `schedule_editing` | four openings, two commands | `TypeOK`, `ReferencesLand`, `TreesHaveNoRing`, `TaskGroupsAreNamed`, `DescendantsGoAlong`, `TipsAreReleased` |
| `import_merge` | three files, two imports numbered, one command | `MergedRowsAreSound`, `MasterTasksStandOnce`, `MissingIsTold` |
| `delay_fixes` | four tasks in three levels, a day of rest, one task closed to edits, two openings; histories of one and of two steps, two further documents, one row picked | `LogTellsWhatIsInEffect`, `FixesDoAsShown`, `NoFindingIsNew` |
| `screen_session` | a notice that ends by itself and one that stays, two tellings, three levels | `TypeOK`, `WaitsFollowNotices`, `OneLevelPerKey`, `TimedNoticeGoes`, `SettledTextIsWritten` |

`all_happenings` (2.3 million states) shows that whatever comes between the awaits
the machine, the roads, the continuations and the store's lock stay in step, the
mark compares with the right document, and a question that carries commands finds
the document it was asked about but for its view. `quiet` (4.2 million states) shows that without
these happenings nothing is lost without a mark, a save goes unasked only over
a file of the held document, and an occupied place is never written without a yes. `file_flow_liveness` shows
that every open and save ends and the lock is freed.

`document_change` shows that whatever a callback does inside its own notice - unwatch,
watch again with another receiver, throw - its registration ends as it asked, no watcher stays behind the
schedule; that what an undo reaches fits the limits by the very documents it reaches, though undo and redo swap them under
the sizes measured; that an agent takes back only its own edits; and that an
agent's write lands on the document it read, but for two writes of one writer within one second.
`relay` shows that every call ends once and with its own answer, no notice that reached the relay
is swallowed by a canceled or late watch, a saved file is whole under one of its
names at every moment, and a lost link settles. `schedule_editing`
shows that no pair of commands, in one bundle or two, leaves a row naming one that
went, closes a ring in either tree, leaves a task without its one place and look, or
takes away more or less than hangs below what was deleted.
`import_merge` shows the same of merged documents, which no check of the code looks at
before they are read again, and that a merge finds the tasks it brought before.
`delay_fixes` shows that, over chains two parents long, fixes issued together on the schedule they were made
for leave every value as shown, touch nothing else and call forth no finding nobody named; and that the
log, which compares references, follows edits, undos, redos and cuts.
`screen_session` shows that in whatever order keys, presses, waits and frames come, each
timed notice that is on screen has a wait begun for it and goes unless the pointer comes to its box; that one Esc or Enter
takes away the topmost thing alone, though five parts see the key; and that a text left with Tab is
written with no further input.

**Bounds of `DocumentFileFlow`.** `MaxDocument` is the greatest number of a document that a write makes;
`0` is held at the start and `1` may be on the disk, so 3 leaves two new documents:
enough for a document edited while another is being written, one edited after an
open, an undo and redo over both, and an edit undone after the view moved. Undo and redo
to the very document, opens, saves and questions are not bounded. A second file is needed where a property speaks of the right file, and
it is not a GRS JSON by name, so both branches of the overwrite are taken. One
road of each kind runs at a time in the code (the machine refuses a second), so more
files add no interleaving. The system may not stop: deadlock is checked in every
passing run of this module.

**Bounds of the other instances.** `document_change`: `MaxEdit` bounds the documents
made; three edits with a history of two steps, of which some are too large together,
cut the history by count and by size, and leave an undone side to write over. Two
instants suffice for equal, later and earlier stamps. The page installs one agent
(AG-3). Undo, redo, rounds and registrations are unbounded. `relay`: two calls meet in every
stage - two watches over two links, a plain call beside a look, two saves of which
one may replace; the first pair needs a second link for what the former page leaves
behind, the others a link that is lost and cannot be had again. More retries than one repeat the
same step, and a second notice joins the queue of the first. `schedule_editing`: the
four openings nest, cross, swap and chain tasks and task groups (`MCScheduleEditing`
says how); two commands are a copy or a move and then a deletion, or two deletions that
meet; `MaxMark`, `GroupIds`, `NoteIds` and `BoxIds` leave room for what two commands make
(97,306 states). `import_merge`: two issues of one master and a document of the program that already took
a task of that master; a renumbered task, a resource that changed its number, a task that
comes back and two tasks that land on one all occur (68,444 states). `delay_fixes`: one opening whose children are finished while no parent follows,
one whose parents start after their children over a day of rest, where CM-13 lifts or refuses; an edit that
sets a finished child back, so that the person must choose. Two more documents leave room for a bundle and an edit,
a bundle and a move of the view, or two bundles, between undos and redos without bound; the shorter history is cut,
the longer keeps what a later edit buries. While a write is under way the window is left alone: no pick changes the bundle it
carries. One picked row is enough to hold a chain back or to choose (157,479 states). `screen_session`: two tellings
are two notices that stand together, or one gathered anew under a wait already begun; the levels are
one of each kind the code treats apart - the gesture of the pointer, the panel, which Enter takes as well, and the
choice, which both keys and the pointer take - since the other levels rise and go by Esc alone, and the
order of the whole ladder is one definition (399,192 states). In the instances
with bounded tellings, commands, calls or links the behaviour may end where the bound does, so their
configurations do not check deadlock.

**Fairness.** `DocumentFileFlow!FairSpec`: the event loop resumes each road that is ready; the
browser settles each read, write and permission prompt; the person closes a picker,
answers a question and answers or closes a surface that stands. All are weak: each
of these steps stays possible until it is taken, as a picker, a question and a
surface stay until they are answered. Nothing else the person or the agent does
is assumed, and in particular no retry and no edit.
`AgentRelay!FairSpec`: the relay's event loop goes on with promises, timers,
what the file system answers and what reached its sockets; each page reads its link and
runs its retry timer. Nothing makes the page answer, the caller call, a link stay up,
or the relay see that a link is gone. `ScreenSession!FairSpec`: the browser draws a frame asked for, a
timer begun elapses, a key that is down comes up. `RelayedCalls` states as fairness that each open call
ends, which the relay's deadlines give. The other modules claim no liveness: a bundle is
one synchronous call.

Every property of a passing run has a mutant in `PROJECT.json`: a definition of the
model changed as a plausible bug in the code would change it (a handle adopted
unchecked, a redo side kept, a `finally` left out, a mark dropped in the wrong order,
...), under which TLC finds that property violated.

## 11. What the violated runs show

Each of these runs checks a sentence of the specification that the code does
not keep; `PROJECT.json` quotes it.

- `edit_while_writing`: a save takes its document at its start, but
  `documentFileSaved` drops the mark against the document held at its end. An edit
  that lands in between is in no file and carries no mark (FR-100).
- `new_while_writing`: New forgets the opened file; the end of a write that was under
  way sets it again. The first save of the fresh document then goes over the former
  document's file without a question (FR-095).
- `undo_untold`: `changeNoticeFor` takes `lastEditedBy` of the stamp for the writer of the
  change, but an undo brings the older stamp back. When the person undoes their own
  edit and the agent had made the one before, the agent is told nothing and goes on
  believing in the schedule that was undone (AG-6).

**Observed while modelling**, in no run of its own:

- The exports of the report and of the fix log ask the overwrite question while the file machine is idle
  (`frame-loop.ts:3278`), where the state machine's table has it raised by a write of the document alone
  (`tbl-state-machines.md:740`); the answer is passed on only in `writingDocumentFile` (`file-flow-values.ts:442`), so
  the continuation is never settled, the lock is never let go of and every later open and save faults.
  `FileFlowQuiet.cfg` and `FileFlowLive.cfg` with `Admitted <- ReportAdmittedOnly` show it against `OverwriteAgreement` and `StoreIsFreed`.
- A bundle stands in the log while the documents it was made of and landed as are neighbours in the history by
  reference (`document-file-flow.ts:500`). Any move of the view after it landed, or between its undo and its redo, makes one of
  them anew: the bundle is missing from the log though its step is done, and its rows are offered once more, where RW-16
  names an undo, a new document and a new diagnosis alone.
- A bundle is issued on whatever document is held when its file is written, with rows made when the
  diagnosis ran or was last picked from (`document-file-flow.ts:529`). Made for an older schedule, it carries that schedule's
  columns over an edit made since, of a task without children too (FA-8 sends all its actual columns), which T-373 excludes.
- A bundle whose file is still being written lands even on a document that New started meanwhile.
  `FixesDoAsShown` holds a bundle made for another schedule only to the tasks GP-1 closes and to what columns can hold.
- The commands of FA-10, FA-11 and FA-12 can be refused by CM-11 or CM-13 (a finish before the start), and one refusal
  drops the whole bundle. A finding that was tried once is not tried again in a later pass, even when the
  first pass had no draft for it and a later one would: a VC-12 at the root can be left so, unnamed by any row, though
  T-373 closes with repeating until no value changes (`01-04-requirements.md:4017`).
- A bundle whose step the limit of the history cut is missing from the log as well, and `LogTellsWhatIsInEffect` takes it as
  gone; that property speaks of the bundles the view left alone.
- The keys of AM-32 add checks to rows that are checked already, so no key leaves a row out.
- A handed document that replaces the held one comes from no file, so no handle is adopted
  (`document-file-flow.ts:804`) and the former document's file stays the save target, which
  DI-5 takes for this document's file by definition.
- One press, two levels (IN-4: each Esc spends one): Esc dismisses the newest notice and closes the chooser of QN-12
  as well (`frame-loop.ts:4134` and `:4142`); Enter in the document title settles the title and, with the panel
  away, clears the choice, since `didSettleFieldEntry` guards the panel alone
  (`field-editing.ts:537`, `selection-input.ts:196`). `OneLevelPerKey` leaves both aside.
- Before the frame that draws a new notice, Esc in a field takes the text back and dismisses that undrawn
  notice, and two Esc in one frame both spend the tooltip. A notice gathered anew keeps its old wait until
  the next frame, and goes early if that elapses first (NT-2). `WaitsFollowNotices` and `OneLevelPerKey` speak of
  moments at which no frame is owed.
- A settled text is spent on whatever document is held when its frame or the next input comes.
- The other half of AG-6: a write of the person that moves only settings wakes a watcher whose
  own previous write did not advance its mark (`change-notice.ts:34`,
  `notify-change-watchers.ts:82`). An agent's own undo to a document the person edited
  wakes the agent itself.
- "Uids are never reused" (`docs/spec/_assets/tbl-agent-api-members.md:124`): an undo restores
  the older mark, so the next task made bears the uid of the undone one. An opened file may carry a
  mark below its own uids; a merge scans the rows for it, opening does not. `TypeOK` speaks of
  documents whose mark covers their rows.
- MG-3: a task taken in as different is found again by its origin, unless a merge of
  another master overwrote that origin in between (answered "same"). Two
  tasks of a file may land on one held task (PND-487, undecided), which can close a ring
  in the WBS; a document so merged is refused when read again (IV-4).
  `builtMerge` brings `derivedFromTaskUid` of a new task group in unmapped, so
  `MergedRowsAreSound` lets that column name a task of a file, and a merged tree may pass the depth of S-125.
  A file that names no master never matches an origin.
- The relay: switching the Agent API off and on may get the new link refused as a second
  page (1008), and the loss told with no retry; behind a half-open link the retries are refused
  the same way until the deadline notices it; a watch that relies on another call's
  subscription under way waits unsubscribed when that one times out; a
  canceled save still asks the page, or writes, when it was judging, or writing.
- `rangeRefusals` checks neither the rank nor the dates of IV-19, which a move of a task group can
  invert.

## 12. Proofs

### `DocumentFileFlowProofs`

Proved for all `Files`, `GrsFiles`, `MaxDocument` and
`Admitted` that satisfy the assumptions of the module (`FilesAssumption`: no file is
`NoFile` or `NoProposal`; `ContentsAssumption`: the contents that are no document are
told from documents, the bound is a number; `AdmittedAssumption`):

| theorem | statement |
| --- | --- |
| `TypeCorrect` | `Spec => []TypeOK` |
| `RoadsFollowTheMachine` | `Spec => []FlowAgreement` |
| `HistoryStaysALine` | `Spec => [](HistoryIsALine /\ NextDocumentIsFresh)` |
| `MarkCorrect` | `Spec => []MarkAgreement` |
| `QuestionKeepsDocument` | `Spec => QuestionedDocumentStays` |
| `OverwriteAnswerReachesItsWrite` | `"exportReport"` not in `Admitted`: `Spec => []OverwriteAgreement` |
| `SaveTargetStaysOwn` | `"newWhileWriting"`, `"handDocument"` not in `Admitted`: `Spec => []SaveTargetIsOwn` |
| `NothingIsOverwrittenUnasked` | the same two not in `Admitted`: `Spec => NoSilentOverwrite` |
| `NothingUnsavedIsLost` | `"editWhileWriting"`, `"newWhileWriting"` not in `Admitted`: `Spec => []NothingUnsavedIsKept` |

All hold for any number of files and documents, the first five with every happening
admitted. Each of the last four leaves out only the happenings named in its row, and admits the rest: `quiet` is one
instance of each, not the only one. That the happenings named are the ones in the way is what the
violated runs of section 11 and its observations on the exports and the handed document show.

**Argument.** `TypeOK` is inductive. `FlowAgreement` is inductive together with
it: every step that moves a machine moves its road and its continuation in the same
turn, and the conjunct on the store's owner tells which road a settled await
belongs to. `HistoryIsALine` is not inductive by itself: an edit appends the held
document and makes the next one, which is the newest only if no document at all
has its number yet; a move of the view keeps the edit, so it keeps the line. `NextDocumentIsFresh` says that, and to be kept it must speak of every
place a document may come back from - the history, the roads, the disk - and
needs `FlowAgreement` for the file a settled read stands on. `MarkAgreement` needs both: an edit
or a move of the view leads away from the saved document because what it makes is fresh,
an undo or a redo leads to another edit because the history is a line. The strengthening is thus
`TypeOK /\ FlowAgreement /\ NextDocumentIsFresh /\ HistoryIsALine`. `QuestionedDocumentStays` needs
only the types: each step that could change the held document passes the refusal of the
moment (WS-2), puts the question away, or moves the view alone.

`OverwriteAgreement` needs that without reports nobody but the write road asks about a place
(`NoReportIsWritten`, `OverwriteIsAsked`): the store's owner stands at the question exactly while the road does, and the
continuation held is that road's. `SaveTargetIsOwn` is inductive with `WritingIsOwn` - the document being written is never
put away - and `ReadingAdopts`, which says of each place a reading stands in whether the handle it proposes will be adopted
and for which document: a baseline and a merge adopt none. `NoSilentOverwrite` is then a fact about a step, from
`WriterIsAllowed`: whoever is about to write bytes has a free place, a file of the held document, or a
yes. `NothingUnsavedIsKept` needs that the document written is the held one while it is written
(`WritingIsTheHeld`) and that the document compared with is the one last kept (`SavedIsKept`); the mark does the rest.

The proof of each invariant has one step per action. Lemmas state the effect of the
helpers on the roads and the store once (`ReadingFails`, `StoreLetsGo`,
`DiscardAskedWhenUnsaved`, `DocumentFileRead`, ...) so that the step proofs do not
open the records again. The invariants were checked by TLC (`all_happenings`) before
they were proved.

### `DocumentChangeProofs`

Proved for any agents, instants, sizes and limits that satisfy `WritersAssumption`
(the words of the writers differ), `IncomingAssumption`, `BoundsAssumption` and
`AbsenceAssumption`:

| theorem | statement |
| --- | --- |
| `TypeCorrect` | `Spec => []TypeOK` |
| `NobodyIsLeftBehind` | `Spec => []NoWatcherLeftBehind` |
| `RegistrationsAreAsked` | `Spec => []WatchedAsAsked` |
| `NoticesNameHeld` | `Spec => []NoticeNamesHeld` |
| `OwnersInvariant` | `Spec => [](TypeOK /\ StepsAreOwned)` |
| `AgentsStepOwnEdits` | `Spec => OwnStepsOnly` |
| `UpdatesAreNotLost` | `Spec => NoLostUpdate` |

**Argument.** That there is one round at most is part of the types, and follows from the window of WS-2.
`NoWatcherLeftBehind` speaks of the time between rounds; `DeliveryInv` says what is owed inside one:
each registration still waited for was copied at the round's start and, as long as it is the
same, carries the mark it had, and everyone else is up to date or has thrown.
`StepsAreOwned` is inductive with the types: `historyWithStep` keeps a suffix (`HistoryIsCut`),
and an undo and a redo move one link of the line across. `OwnStepsOnly` then follows at each step.
`NoLostUpdate` needs `StampsTell`: every document that can come back - held, in the history, last
read - bears the stamp of the edit that made it, so equal stamps mean
one document or one writer at one instant. So it holds for any number of agents and
with a clock that goes back.

### `ScheduleEditingProofs`

Proved for any ids, depth, pins and bounds, and for any openings that are sound
(`NullAssumption`, `BoundsAssumption`, `OpeningsAssumption`):

| theorem | statement |
| --- | --- |
| `TypeCorrect` | `Spec => []TypeOK`, which says also that every task stands once |
| `ReferencesAlwaysLand` | `Spec => []ReferencesLand` |
| `TaskGroupsAreAlwaysNamed` | `Spec => []TaskGroupsAreNamed` |
| `DescendantsAlwaysGoAlong` | `Spec => DescendantsGoAlong` |
| `TipsAreAlwaysReleased` | `Spec => TipsAreReleased` |

**Argument.** The invariant `IInv` says that both documents are sound, that
is typed, with every reference landing, every task standing once, every task group
named or derived and finitely many assignments, and that a draft left without a task group
carries the id of the one it will be given. The parts need each other: a
copy stands once because its source did, a released note lands because the band it falls
back to is one where its target stood, a task group whose task goes settles its name in the same
command. Each command is one lemma (`...KeepsSound`), on lemmas about the helpers: `Subtree` is
closed under children, and a closed set is its own subtree; copies get uids above the mark, one each
(`RankIsInjective`); the parent a copy infers is a task of the document that results. The
assumption on the openings is what the intake of a file checks.
`TipsAreReleased` follows command by command: of the three commands that take a task or a box away, one takes its
task group along, and the other two set free the notes of what they take.

### `ScheduleTreesProofs`

| theorem | statement |
| --- | --- |
| `TreesNeverCloseARing` | `Spec => []TreesHaveNoRing` |

**Argument.** The usual one goes along the paths of a tree, which is induction over data. Here a tree without a
ring is one in which every set of rows has a row whose parent is outside it; so a command is judged by the
set it would close, and a deepest or topmost row is had from a finite set by a least
counterexample (`LeastExists`), not by a path. Trees that lose rows (`Pruned`), that gain rows (`Grown`) and in which one row moves outside
its own subtree have lemmas of their own, and each command is one of the three or several in a row. The hard one is the
copy, whose rows get the parents their sources have or the task the copy landed under. The depth of a task group
is the number of rows above it, a finite chain (`AboveIsAChain`), which each command's lemma bounds. `TreesInv` is `IInv` with the trees of both documents and that they have
finitely many task groups; `OpeningsAssumption` asks the trees of a document opened, which is what the
intake checks (IV-4, IV-5, IV-18).

### `ImportDocumentProofs`

| theorem | statement |
| --- | --- |
| `MergedRowsAreAlwaysSound` | `ImportSpec => []MergedRowsAreSound` |
| `MasterTasksAlwaysStandOnce` | `ImportSpec => []MasterTasksStandOnce` |
| `MissingIsAlwaysTold` | `ImportSpec => MissingIsTold` |

**Argument.** Proved for any files and openings with `FilesAssumption`, `RowsAssumption` and
`OpeningsAssumption`, for any number of imports with any edits in between. `ImportInv` has four parts. `RowsInv` adds to `IInv` that
both documents are numbered: no uid lies over the mark and no two assignments share a uid or a pair. Without it a merge
that mints a uid could mint one that stands. `IsEditOf` relates the document and the draft: what is new lies over the mark,
and the origins are those of the tasks left, so that no command adds an origin and one that takes a task away takes its
origin along. `MasterTasksStandOnce` is there itself, and `DeliveredIsSeen` says that what the last import delivered is, of the tasks
held, what bears its number.

A command either mints no uid or mints from the mark on (`MintsNothing`, `MintsFresh`), and edits
add up (`EditsAddUp`), so a bundle needs no more than its commands. A merge is four steps: the mark rises over every row of
both documents (`MarksRise`), the resources and the tasks of the file land on a held row or on a new uid (`ResourcesLand`,
`TasksLand`), the assignments that join take no pair and no uid that is given (`JoiningIsNumbered`), and so the result is sound (`MergedIsSound`).
It gives each task it lands on one origin, by the last row that lands there (`OneLandedLast`); were a
held task outside it of the same master and uid, `LandsOn` would have landed on that one.

### `AgentRelayProofs`

| theorem | statement |
| --- | --- |
| `TypeCorrect` | `Spec => []TypeOK` |
| `SavedFileAlwaysStays` | `Spec => []SavedFileStays` |
| `NoticesAlwaysReachCaller` | `Spec => []NoticesReachCaller` |
| `ImplementsPromise` | `Spec => Promise!Safety` |

**Argument.** Proved for any calls, scenarios, links, retries and notices with `ScenariosAssumption`,
`BoundsAssumption` and `NamesAssumption`. Most steps move one call, so the proofs go through what a step can make of
one call's record (`Moved`: it ends, goes to the page, gets its reply, is canceled or goes on), and each action is put
under it once.

`SavingInv` is `crossed` or three facts: one call writes the name at a time, what it found of the name is still so, and what was
saved last is under the name, or under `.bak` while the name is empty. The second is what makes the two renames safe: `exists` was
read before an await.

`CallsInv` is the invariant of the calls. `CallsSound` says of one record that it ends once; `WaitsInv` that a
watch waits only while there is nothing to tell, on the page that is linked; `NumbersInv` that each number under way, in either queue or in
the page's hands, belongs to one call, which the counter gives since it never goes back; `CarriedInv` that the
page carried out whatever its answer stands for. With it `NoticesInv` is inductive: what the relay took is in the queue, was dropped with
its page, or is in an answer that went out. `ImplementsPromise` maps each step: the answer of the page goes to the
one call its number belongs to, and when that call goes on and ends, or a save ends with its rename, the step is `AnswerByPage` by `CarriedInv`;
a frame lost, a retry or a dropped page is a stutter. No step of the relay ends two calls at once: those a lost page leaves behind go on one by one.

### `DelayFixesProofs`

| theorem | statement |
| --- | --- |
| `LogIsTrue` | `Spec => []LogTellsWhatIsInEffect` |

**Argument.** Proved for any tree of tasks, openings, limits of the history and edits, with `TreeAssumption`, `BoundsAssumption` and
`OpeningsAssumption`. The code compares references, the property speaks of edits. `LogInv` says why these agree: a
reference stands for one document (`OneByReference`); the history lies in the order of its edits, on both sides
of the held document, through its cut (`EditsInOrder`); the held document has seen every move of the view; and what the
history has of an edit that landed is the very document it landed as, or one made anew after the view moved
(`LandedIsNotLater`). So two neighbours of the history are the bundle's documents by reference exactly when they are
by edit and view. Nothing of the diagnosis or the settling is used, so it holds whatever a bundle writes.

### `ScreenSessionProofs`

| theorem | statement |
| --- | --- |
| `TypeCorrect` | `Spec => []TypeOK` |
| `WaitsAlwaysFollow` | `Spec => []WaitsFollowNotices` |

**Argument.** Proved for any reasons, levels and bound of tellings with `ReasonsAssumption` (the words
of a timed reason are its own), `LevelsAssumption` and `BoundAssumption`. `TypeOK` says more than types:
no two notices that stand share a telling or a row of words (NT-3). A telling keeps that, as its number
is new and its row is gathered (`RaisedKeepsList`), through the refusal of a settled text as well
(`TellingsKeepList`). So a timed reason has one notice at most, and the wait a frame leaves it is
the wait of that very notice (`FollowedAgrees`). `TypeOK` and `WaitsFollowNotices` are together
inductive: a frame establishes the agreement from nothing (`FrameAgrees`), and a step that leaves no
frame owed has changed none of the four variables it is about (`QuietKeepsAgreement`); that is where
each input's condition for asking a frame is needed.

### Model-checked only

`FixesDoAsShown` and `NoFindingIsNew`: the settling is a fold over findings, columns and passes, and what a fold
yields for every input is an argument by induction over data, which the prover cannot do. So is the sum of sizes in `HistoryFits`. `OneLevelPerKey` is planned
(section 2). Liveness and the fairness half of the refinement (`OperationEnds`, `StoreIsFreed`, `LinkSettles`, `KeepsPromise`
beyond `Promise!Safety`, `TimedNoticeGoes`, `SettledTextIsWritten`) are outside what the prover does: it has
no fairness rules and no `ENABLED`. The violated properties of section 11 are refuted by their runs.

## 13. Not modelled

- The reset of the whole application (QN-11) ends in a page reload; nothing of this
  state survives it. The download road and the folder memory of the store change
  nothing that is read back.
- Of the schedule: dates, plan and actual columns, looks, sibling order, milestones (IV-22),
  calendars, the shift of the whole schedule. Calendars and working time are pure arithmetic over days,
  minutes and exceptions, planned last.
- Of the relay: the handshake, the framing and the key itself, and what it answers on the spot
  (`readSchema`, resources), which changes no state of the calls.
- Rendering, layout and pictures: geometry over numbers and strings, without state
  that a model would check. Codecs: parsing and formatting, tested by round trips.
- Of the screen: what a gesture previews and writes, what is chosen and how, contents and places of panels
  and windows, the scale message and the scroll - sequential reducers with broad unit tests.
- Of the diagnosis and its fixes: what section 9 names; the other rows of T-310 to T-312 and T-373 are
  rules of the same form, over links and single tasks, whose fixes mostly wait for the person.
- The wording of notices, refusals and reports.
