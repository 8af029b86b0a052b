----------------------------- MODULE DelayFixes -----------------------------
(* The delay diagnosis of what a parent task gathers from its children        *)
(* (delay-diagnostics.ts: VC-8 to VC-12), the fixes proposed for it            *)
(* (delay-fixes.ts: FA-8 to FA-12 of T-373), and what becomes of a bundle of  *)
(* them: checked in the window, carried over the write of a file, issued      *)
(* through CM-11 and CM-13 (task-plan-actual.ts), logged, undone and redone   *)
(* (document-file-flow.ts, frame-loop.ts), or issued by a caller of the Agent *)
(* API (agent-api-members.ts).                                                *)
(*                                                                           *)
(* A document is the columns these findings read; a day stands for a date.    *)
(* Left out: times of day, fades, milestones, links, derived parents, and the *)
(* findings of them, none of which a fix below calls forth. resumeValid is    *)
(* never null. The other choices of a file write are DocumentFileFlow's.      *)
EXTENDS Integers, SequencesExt

CONSTANTS
    Tasks,          \* the uids, which order the document
    Parent,         \* parentTaskUid
    NoTask,
    MaxDay,
    WorkingDays,    \* the days the calendar works on
    ReadOnly,       \* the tasks GP-1 takes no edit of
    Openings,       \* the schedules a behaviour may start with or replace by
    Edits,          \* the commands the person and the agent give besides fixes
    StepLimits,     \* the values HistoryLimits.maxSteps (S-94) may be set to
    MaxMade,        \* bound: the documents an edit or a move of the view may make
    MaxPicks        \* bound: the rows picked at a time

NoDay == 0
Days  == 1 .. MaxDay
Dated == NoDay .. MaxDay

Columns == [start : Days, finish : Days, actualStart : Dated, stop : Dated,
            actualFinish : Dated, resume : Dated, resumeValid : BOOLEAN]

(* Nothing actual stands without an actual start. *)
isWellFormed(task) ==
    task.actualStart = NoDay => {task.stop, task.actualFinish, task.resume} = {NoDay}

isSchedule(schedule) ==
    /\ DOMAIN schedule = Tasks
    /\ \A uid \in Tasks : schedule[uid] \in Columns /\ isWellFormed(schedule[uid])

ASSUME TreeAssumption ==
    /\ Tasks \subseteq Nat /\ IsFiniteSet(Tasks) /\ NoTask \notin Tasks
    /\ Parent \in [Tasks -> Tasks \cup {NoTask}]

ASSUME BoundsAssumption ==
    /\ MaxDay \in Nat /\ WorkingDays \subseteq Days /\ ReadOnly \subseteq Tasks
    /\ StepLimits \subseteq Nat \ {0} /\ MaxMade \in Nat /\ MaxPicks \in Nat

ASSUME OpeningsAssumption == \A schedule \in Openings : isSchedule(schedule)

VARIABLES
    held,       \* the held document
    done,       \* the history: the documents its steps go back to
    undone,
    maxSteps,   \* the limit of this history, which never changes
    made,       \* the documents made so far
    diagnosis,  \* delayDiagnosticsHeld, or NoDiagnosis
    picks,      \* what the person did to rows, by their keys
    proposals,  \* what delayFixTablesKeeper made of the two
    pending,    \* the bundle the write of a file carries, or NoBundle
    landed      \* the bundles that landed, since the log was last forgotten

vars == <<held, done, undone, maxSteps, made, diagnosis, picks, proposals, pending, landed>>

(* The code tells documents apart by reference; edit names the edit whose     *)
(* columns a document has, and view counts the writes of columns outside the  *)
(* history (PI-11) it has seen.                                               *)
Document(reference, edit, view, schedule) ==
    [reference |-> reference, edit |-> edit, view |-> view, schedule |-> schedule]

NoDiagnosis == [isShown |-> FALSE]
NoBundle    == [rows |-> <<>>]
NoPicks     == <<>>

-----------------------------------------------------------------------------
(* The tree, and the ends of the children *)

TasksInOrder == SetToSortSeq(Tasks, <)

childrenOf(uid) == {child \in Tasks : Parent[child] = uid}

depthOf[uid \in Tasks] == IF Parent[uid] \in Tasks THEN 1 + depthOf[Parent[uid]] ELSE 0

isFinishedTask(task) == task.actualStart # NoDay /\ task.actualFinish # NoDay

openOf(schedule, uids) == {uid \in uids : ~isFinishedTask(schedule[uid])}

daysOf(schedule, uids, column) == {schedule[uid][column] : uid \in uids} \ {NoDay}

earliestOf(schedule, uids, column) ==
    LET days == daysOf(schedule, uids, column) IN IF days = {} THEN NoDay ELSE Min(days)

latestOf(schedule, uids, column) ==
    LET days == daysOf(schedule, uids, column) IN IF days = {} THEN NoDay ELSE Max(days)

(* The actual finish a parent takes: none while a child is open. *)
gatheredFinishOf(schedule, uids) ==
    IF openOf(schedule, uids) = {} THEN latestOf(schedule, uids, "actualFinish") ELSE NoDay

Either(day, other) == IF day = NoDay THEN other ELSE day

-----------------------------------------------------------------------------
(* diagnoseDelay: the findings, layer 3 and layer 4 *)

FindingRows == <<"VC-8", "VC-9", "VC-10", "VC-11", "VC-12">>

columnContradictions(task) ==
    IF task.actualFinish # NoDay /\ task.resumeValid THEN {"VC-8"} ELSE {}

parentContradictions(schedule, parent, uids) ==
    LET open == openOf(schedule, uids) IN
    {row \in {"VC-9", "VC-10", "VC-11", "VC-12"} :
        CASE row = "VC-9"  -> isFinishedTask(parent) /\ open # {}
          [] row = "VC-10" -> ~isFinishedTask(parent) /\ open = {}
          [] row = "VC-11" -> \/ parent.start  # earliestOf(schedule, uids, "start")
                              \/ parent.finish # latestOf(schedule, uids, "finish")
          [] row = "VC-12" -> \/ parent.actualStart  # earliestOf(schedule, uids, "actualStart")
                              \/ parent.actualFinish # gatheredFinishOf(schedule, uids)}

contradictionsOf(schedule, uid) ==
    columnContradictions(schedule[uid]) \cup
        (IF childrenOf(uid) = {} THEN {} ELSE parentContradictions(schedule, schedule[uid], childrenOf(uid)))

findingsOf(schedule) ==
    UNION {{[row |-> row, uid |-> uid] : row \in contradictionsOf(schedule, uid)} : uid \in Tasks}

(* inApplyOrder: the layer, the deeper first, then as diagnoseDelay lists them. *)
placeInOrder(finding) ==
    << IF finding.row = "VC-8" THEN 3 ELSE 4, 0 - depthOf[finding.uid], finding.uid,
       CHOOSE i \in DOMAIN FindingRows : FindingRows[i] = finding.row >>

isBefore(a, b) ==
    LET x == placeInOrder(a)  y == placeInOrder(b) IN
    \E i \in DOMAIN x : x[i] < y[i] /\ \A j \in 1 .. (i - 1) : x[j] = y[j]

AllFindings == [row : ToSet(FindingRows), uid : Tasks]

AllInApplyOrder ==
    [i \in 1 .. Cardinality(AllFindings) |->
        CHOOSE finding \in AllFindings :
            Cardinality({other \in AllFindings : isBefore(other, finding)}) = i - 1]

inApplyOrder(findings) == SelectSeq(AllInApplyOrder, LAMBDA finding : finding \in findings)

-----------------------------------------------------------------------------
(* The commands of a fix, as the preview applies them and as they are taken *)

PlanDates(uid, start, finish) ==
    [kind |-> "setTaskPlanDates", uid |-> uid, start |-> start, finish |-> finish]

(* placementOf: the T-019 state of the columns; last is stop or actualFinish. *)
PlanActualState(uid, task) ==
    [kind |-> "setTaskPlanActualState", uid |-> uid, actualStart |-> task.actualStart] @@
    IF task.actualStart = NoDay
      THEN [state |-> "notStarted", last |-> NoDay, resume |-> NoDay]
    ELSE IF task.actualFinish # NoDay
      THEN [state |-> "finished", last |-> task.actualFinish, resume |-> NoDay]
    ELSE [last |-> Either(task.stop, task.actualStart), resume |-> task.resume,
          state |-> IF task.resume # NoDay THEN "suspendedWithResumeDate"
                    ELSE IF task.resumeValid THEN "inProgress"
                    ELSE "suspendedWithoutResumeDate"]

taskAfterPlacement(task, command, last) ==
    LET isFinish == command.state = "finished" IN
    [task EXCEPT !.actualStart  = command.actualStart,
                 !.stop         = IF isFinish THEN NoDay ELSE last,
                 !.actualFinish = IF isFinish THEN last ELSE NoDay,
                 !.resume       = command.resume,
                 !.resumeValid  = IF command.state = "notStarted" THEN @
                                  ELSE command.state \in {"inProgress", "suspendedWithResumeDate"}]

scheduleWith(schedule, command, last) ==
    IF command.kind = "setTaskPlanDates"
    THEN [schedule EXCEPT ![command.uid].start = command.start, ![command.uid].finish = command.finish]
    ELSE [schedule EXCEPT ![command.uid] = taskAfterPlacement(@, command, last)]

(* scheduleAfter, of the simulated schedule: the last day stays as given. *)
scheduleAfter(schedule, command) ==
    scheduleWith(schedule, command, IF command.kind = "setTaskPlanDates" THEN NoDay ELSE command.last)

(* CM-11 takes no finish before the start, CM-13 no last day a working day or *)
(* more before it. A last day before the start is lifted to the start.        *)
isRefused(command) ==
    IF command.kind = "setTaskPlanDates" THEN command.finish < command.start
    ELSE \E day \in WorkingDays : command.last <= day /\ day < command.actualStart

settledLastDay(command) ==
    IF command.last < command.actualStart THEN command.actualStart ELSE command.last

commandTaken(schedule, command) ==
    scheduleWith(schedule, command, IF command.kind = "setTaskPlanDates" THEN NoDay ELSE settledLastDay(command))

-----------------------------------------------------------------------------
(* The drafts of a finding: FA-8 to FA-12 *)

ChoiceKeys == {"clearParentActualFinish", "finishChildrenOnParentFinish"}
NoChoice   == "none"

automatic(column, after, command) ==
    [fixKind |-> "automatic", column |-> column, after |-> after,
     ways |-> (NoChoice :> <<command>>)]

onlyIf(condition, drafts) == IF condition THEN drafts ELSE <<>>

resumeValidDrafts(uid, task) ==
    onlyIf(task.actualFinish # NoDay /\ task.resumeValid,
           <<automatic("resumeValid", NoDay, PlanActualState(uid, [task EXCEPT !.resumeValid = FALSE]))>>)

(* actualStartBy: the child's own start, else its planned one or the finish. *)
finishOnCommands(schedule, uids, finish) ==
    LET finishOn(uid) ==
            PlanActualState(uid, [schedule[uid] EXCEPT
                !.actualStart  = Either(@, Min({schedule[uid].start, finish})),
                !.actualFinish = finish])
        ordered == SelectSeq(TasksInOrder, LAMBDA uid : uid \in uids)
    IN  [i \in DOMAIN ordered |-> finishOn(ordered[i])]

parentFinishedDrafts(schedule, uid, parent, uids) ==
    LET open    == openOf(schedule, uids)
        finish  == parent.actualFinish
        cleared == [parent EXCEPT !.actualFinish = NoDay, !.stop = finish,
                                  !.resume = NoDay, !.resumeValid = TRUE]
    IN  onlyIf(isFinishedTask(parent) /\ open # {},
               <<[fixKind |-> "choose", column |-> "actualFinish", after |-> NoDay,
                  ways |-> "clearParentActualFinish" :> <<PlanActualState(uid, cleared)>> @@
                           "finishChildrenOnParentFinish" :> finishOnCommands(schedule, open, finish)]>>)

parentUnfinishedDrafts(schedule, uid, parent, uids) ==
    LET latest == latestOf(schedule, uids, "actualFinish")
        gathered == [parent EXCEPT !.actualStart = Either(@, earliestOf(schedule, uids, "actualStart")),
                                   !.actualFinish = latest]
    IN  onlyIf(~isFinishedTask(parent) /\ openOf(schedule, uids) = {},
               <<automatic("actualFinish", latest, PlanActualState(uid, gathered))>>)

parentPlanDrafts(schedule, uid, parent, uids) ==
    LET start  == earliestOf(schedule, uids, "start")
        finish == latestOf(schedule, uids, "finish")
    IN  onlyIf(parent.start # start, <<automatic("start", start, PlanDates(uid, start, parent.finish))>>)
        \o onlyIf(parent.finish # finish, <<automatic("finish", finish, PlanDates(uid, parent.start, finish))>>)

parentActualDrafts(schedule, uid, parent, uids) ==
    LET earliest == earliestOf(schedule, uids, "actualStart")
        latest   == gatheredFinishOf(schedule, uids)
        started  == [parent EXCEPT !.actualStart = earliest]
        finished == [parent EXCEPT !.actualStart = Either(@, earliest), !.actualFinish = latest]
    IN  onlyIf(/\ parent.actualStart # earliest
               /\ earliest # NoDay \/ parent.actualFinish = NoDay,
               <<automatic("actualStart", earliest, PlanActualState(uid, started))>>)
        \o onlyIf(latest # NoDay /\ parent.actualFinish # latest,
                  <<automatic("actualFinish", latest, PlanActualState(uid, finished))>>)

draftsOf(schedule, finding) ==
    LET uid == finding.uid  task == schedule[uid]  uids == childrenOf(uid) IN
    CASE finding.row = "VC-8"  -> resumeValidDrafts(uid, task)
      [] finding.row = "VC-9"  -> parentFinishedDrafts(schedule, uid, task, uids)
      [] finding.row = "VC-10" -> parentUnfinishedDrafts(schedule, uid, task, uids)
      [] finding.row = "VC-11" -> parentPlanDrafts(schedule, uid, task, uids)
      [] finding.row = "VC-12" -> parentActualDrafts(schedule, uid, task, uids)

-----------------------------------------------------------------------------
(* rowOf, and the settling of the rows on a simulated schedule. A row of a    *)
(* chain is one whose finding an applied row brought forth or mended.         *)

keyOf(finding, column) == <<finding.row, finding.uid, column>>

NoPick == [checked |-> "default", choice |-> NoChoice]
pickOf(checks, key) == IF key \in DOMAIN checks THEN checks[key] ELSE NoPick

writesReadOnly(draft) ==
    \E way \in DOMAIN draft.ways : \E i \in DOMAIN draft.ways[way] : draft.ways[way][i].uid \in ReadOnly

(* The row of a draft under a pick, which chose one of its ways or none. *)
rowUnder(finding, isChain, draft, pick, isReadOnly, hasOutcome) ==
    [key |-> keyOf(finding, draft.column), row |-> finding.row, uid |-> finding.uid,
     column |-> draft.column, fixKind |-> draft.fixKind, after |-> draft.after,
     isChain |-> isChain, isReadOnly |-> isReadOnly,
     isCheckable |-> ~isReadOnly /\ hasOutcome,
     checked |-> ~isReadOnly /\ hasOutcome /\ pick.checked # "off",
     commands |-> IF hasOutcome THEN draft.ways[pick.choice] ELSE <<>>]

rowPicked(finding, isChain, draft, pick) ==
    rowUnder(finding, isChain, draft, pick, writesReadOnly(draft), pick.choice \in DOMAIN draft.ways)

rowOf(finding, isChain, draft, checks) ==
    rowPicked(finding, isChain, draft, pickOf(checks, keyOf(finding, draft.column)))

isIssued(row)   == row.checked /\ row.isCheckable
isWithheld(row) == row.fixKind = "automatic" /\ row.isCheckable /\ ~row.checked

withRowShown(settled, row) == [settled EXCEPT !.rows = Append(@, row)]

settleRow(rules, settled, row) ==
    IF ~(isIssued(row) \/ (rules.isDiscovery /\ isWithheld(row))) THEN withRowShown(settled, row)
    ELSE [withRowShown(settled, row) EXCEPT
             !.schedule  = FoldLeft(scheduleAfter, settled.schedule, row.commands),
             !.isApplied = TRUE]

(* The drafts are made again for each column: the second carries the value    *)
(* the first one set.                                                         *)
settleDraft(rules, settled, seed, drafts) ==
    IF drafts = <<>> \/ (seed.isChain /\ drafts[1].fixKind # "automatic") THEN settled
    ELSE settleRow(rules, settled, rowOf(seed.finding, seed.isChain, drafts[1], rules.checks))

settleColumnAtOnce(rules, settled, seed, column) ==   \* mutant: drafts of the diagnosed schedule
    settleDraft(rules, settled, seed,
        SelectSeq(draftsOf(rules.original, seed.finding), LAMBDA draft : draft.column = column))

settleColumn(rules, settled, seed, column) ==
    settleDraft(rules, settled, seed,
        SelectSeq(draftsOf(settled.schedule, seed.finding), LAMBDA draft : draft.column = column))

(* A finding an earlier row of the pass mended keeps a row, with no command. *)
settleCovered(settled, seed, drafts) ==
    IF seed.isChain \/ ~settled.isApplied \/ drafts = <<>> \/ drafts[1].fixKind # "automatic" THEN settled
    ELSE withRowShown(settled, [rowOf(seed.finding, TRUE, drafts[1], NoPicks) EXCEPT
                                   !.checked = TRUE, !.isCheckable = FALSE, !.commands = <<>>])

settleColumns(rules, settled, seed, columns) ==
    IF columns = <<>> THEN settleCovered(settled, seed, draftsOf(rules.original, seed.finding))
    ELSE FoldLeft(LAMBDA sofar, column : settleColumn(rules, sofar, seed, column), settled, columns)

settleSeed(rules, settled, seed) ==
    settleColumns(rules, settled, seed,
        FoldLeft(LAMBDA columns, draft : Append(columns, draft.column), <<>>,
                 draftsOf(settled.schedule, seed.finding)))

ChainingFindingRows == {"VC-8", "VC-10", "VC-11", "VC-12"}

chainSeedsOf(settled, seen) ==
    IF ~settled.isApplied THEN {}
    ELSE {finding \in findingsOf(settled.schedule) : finding.row \in ChainingFindingRows} \ seen

nextPass(settled, next, seen) ==
    [settled |-> settled, pass |-> next, seen |-> seen \cup next, isChain |-> TRUE]

afterPass(settled, seen) == nextPass(settled, chainSeedsOf(settled, seen), seen)

(* One pass: the seeds in order, then the findings no pass has had. *)
settlePass(rules, at) ==
    IF at.pass = {} THEN at
    ELSE afterPass(FoldLeft(LAMBDA sofar, finding :
                                settleSeed(rules, sofar, [finding |-> finding, isChain |-> at.isChain]),
                            [at.settled EXCEPT !.isApplied = FALSE], inApplyOrder(at.pass)),
                   at.seen)

onePass   == 0                                         \* mutant: no chain is followed
passLimit == Cardinality(Tasks)

settledFrom(rules, findings) ==
    FoldLeft(LAMBDA at, count : settlePass(rules, at),
             [settled |-> [schedule |-> rules.original, rows |-> <<>>, isApplied |-> FALSE],
              pass |-> findings, seen |-> findings, isChain |-> FALSE],
             [count \in 1 .. passLimit + 1 |-> count]).settled.rows

settledRows(schedule, checks, isDiscovery) ==
    settledFrom([original |-> schedule, checks |-> checks, isDiscovery |-> isDiscovery],
                findingsOf(schedule))

withheldChainsOf(settled, discovered) ==
    LET beyond == SelectSeq(discovered,
                      LAMBDA row : row.isChain /\ \A i \in DOMAIN settled : settled[i].key # row.key)
    IN  [i \in DOMAIN beyond |->
            [beyond[i] EXCEPT !.checked = FALSE, !.isCheckable = FALSE, !.commands = <<>>]]

withWithheldChains(schedule, checks, settled) ==
    IF \A i \in DOMAIN settled : ~isWithheld(settled[i]) THEN settled
    ELSE settled \o withheldChainsOf(settled, settledRows(schedule, checks, TRUE))

(* The rows, in the order they apply. *)
proposeDelayFixes(schedule, checks) ==
    withWithheldChains(schedule, checks, settledRows(schedule, checks, FALSE))

delayFixCommands(rows) ==
    LET issued == SelectSeq(rows, isIssued) IN FlattenSeq([i \in DOMAIN issued |-> issued[i].commands])

-----------------------------------------------------------------------------
(* The held document and its history *)

hasRoom == made < MaxMade

(* historyWithStep: cut at its older end, and nothing to redo. *)
historyWithStep(steps) ==
    LET longer == Append(steps, held) IN
    SubSeq(longer, Len(longer) - Min({Len(longer), maxSteps}) + 1, Len(longer))

EditLands(schedule) ==
    /\ held' = Document(made + 1, made + 1, held.view, schedule)
    /\ made' = made + 1
    /\ done' = historyWithStep(done)
    /\ undone' = <<>>
    /\ UNCHANGED maxSteps

RestoresAnew(document) ==                              \* mutant: always made anew
    /\ held' = Document(made + 1, document.edit, held.view, document.schedule)
    /\ made' = made + 1

(* keepingColumnsOutsideHistory: the very document, unless the view moved. *)
Restores(document) ==
    \/ /\ document.view = held.view
       /\ held' = document
       /\ UNCHANGED made
    \/ /\ document.view # held.view
       /\ held' = Document(made + 1, document.edit, held.view, document.schedule)
       /\ made' = made + 1

-----------------------------------------------------------------------------
(* The log: a bundle is in it while its own step is done *)

line == Append(done, held)

isFixBundleStanding(bundle) ==
    \E i \in DOMAIN done : /\ line[i].reference = bundle.before.reference
                           /\ line[i + 1].reference = bundle.after.reference

standing == {i \in DOMAIN landed : isFixBundleStanding(landed[i])}

subjectOf(row) == row.key

(* What readDelayFixLog tells beyond the log the diagnosis was made over. *)
issuedSinceRun ==
    {subjectOf(row) : row \in UNION {ToSet(landed[i].rows) : i \in standing \ diagnosis.logAtRun}}

proposalsNotIssuedSinceRun == SelectSeq(proposals, LAMBDA row : subjectOf(row) \notin issuedSinceRun)

delayFixBundleOf(rows) == SelectSeq(rows, isIssued)

(* The rows land as one write, one step of the history, or not at all. of is   *)
(* the schedule they were made for, which the code does not keep.              *)
BundleLands(rows, of) ==
    LET commands == delayFixCommands(rows) IN
    IF \E i \in DOMAIN commands : isRefused(commands[i])
    THEN UNCHANGED <<held, done, undone, maxSteps, made, landed>>
    ELSE /\ hasRoom
         /\ EditLands(FoldLeft(commandTaken, held.schedule, commands))
         /\ landed' = Append(landed, [rows |-> rows, before |-> held, after |-> held', of |-> of])

-----------------------------------------------------------------------------
(* Actions *)

Init ==
    /\ \E schedule \in Openings : held = Document(1, 1, 0, schedule)
    /\ done = <<>> /\ undone = <<>>
    /\ maxSteps \in StepLimits
    /\ made = 1
    /\ diagnosis = NoDiagnosis
    /\ picks = NoPicks
    /\ proposals = <<>>
    /\ pending = NoBundle
    /\ landed = <<>>

unchangedDocument == <<held, done, undone, maxSteps, made>>
unchangedWindow   == <<diagnosis, picks, proposals>>

(* An edit of the person or of the agent, by CM-11 or CM-13. *)
EditDocument ==
    /\ hasRoom
    /\ \E command \in Edits :
          /\ command.uid \notin ReadOnly
          /\ ~isRefused(command)
          /\ EditLands(commandTaken(held.schedule, command))
    /\ UNCHANGED <<unchangedWindow, pending, landed>>

(* A write of a column outside the history: the place of the view. *)
MoveView ==
    /\ hasRoom
    /\ held' = Document(made + 1, held.edit, held.view + 1, held.schedule)
    /\ made' = made + 1
    /\ UNCHANGED <<done, undone, maxSteps, unchangedWindow, pending, landed>>

Undo ==
    /\ done # <<>>
    /\ Restores(Last(done))
    /\ done' = Front(done)
    /\ undone' = <<held>> \o undone
    /\ UNCHANGED <<maxSteps, unchangedWindow, pending, landed>>

Redo ==
    /\ undone # <<>>
    /\ Restores(Head(undone))
    /\ undone' = Tail(undone)
    /\ done' = Append(done, held)
    /\ UNCHANGED <<maxSteps, unchangedWindow, pending, landed>>

(* RD-4, RD-6 and RD-7: another document, which ends the diagnosis. A write    *)
(* under way does not hold New back.                                          *)
ReplaceHeldDocument ==
    /\ hasRoom
    /\ \E schedule \in Openings : held' = Document(made + 1, made + 1, 0, schedule)
    /\ made' = made + 1
    /\ done' = <<>> /\ undone' = <<>>
    /\ diagnosis' = NoDiagnosis /\ picks' = NoPicks /\ proposals' = <<>>
    /\ landed' = <<>>
    /\ UNCHANGED <<maxSteps, pending>>

(* A bound: while a write is under way, whose bundle no pick and no run of the  *)
(* diagnosis would change, the person makes none.                             *)
isWindowIdle == pending = NoBundle

(* showDelayDiagnostics(true): a first run, or a run again that keeps the picks.*)
Diagnose ==
    /\ isWindowIdle
    /\ diagnosis' = [isShown |-> TRUE, of |-> held, logAtRun |-> standing]
    /\ proposals' = proposeDelayFixes(held.schedule, picks)
    /\ UNCHANGED <<unchangedDocument, picks, pending, landed>>

EndDiagnosis ==
    /\ diagnosis.isShown
    /\ diagnosis' = NoDiagnosis /\ picks' = NoPicks /\ proposals' = <<>>
    /\ landed' = <<>>
    /\ UNCHANGED <<unchangedDocument, pending>>

(* Every pick makes the rows again. *)
Picked(newPicks) ==
    /\ isWindowIdle
    /\ Cardinality(DOMAIN newPicks) <= MaxPicks
    /\ picks' = newPicks
    /\ proposals' = proposeDelayFixes(diagnosis.of.schedule, newPicks)
    /\ UNCHANGED <<unchangedDocument, diagnosis, pending, landed>>

shownRows == ToSet(proposalsNotIssuedSinceRun)

mark(row, isChecked) ==
    row.key :> [pickOf(picks, row.key) EXCEPT !.checked = IF isChecked THEN "on" ELSE "off"]

PickCheck ==
    /\ diagnosis.isShown
    /\ \E row \in shownRows :
          /\ row.isCheckable
          /\ Picked(mark(row, ~row.checked) @@ picks)

PickChoice ==
    /\ diagnosis.isShown
    /\ \E row \in shownRows, choice \in ChoiceKeys \cup {NoChoice} :
          /\ row.fixKind = "choose"
          /\ ~row.isReadOnly
          /\ Picked(row.key :> [checked |-> IF choice = NoChoice THEN "off" ELSE "on",
                                choice  |-> choice] @@ picks)

(* RW-18 checks what is unchecked among rows with one way to fix; the heading  *)
(* of FM-1, checked, unchecks all.                                            *)
PickMany(rows, isChecked) ==
    /\ rows # {}
    /\ Picked([key \in {row.key : row \in rows} |->
                  [pickOf(picks, key) EXCEPT !.checked = IF isChecked THEN "on" ELSE "off"]] @@ picks)

AdoptAll ==
    /\ diagnosis.isShown
    /\ PickMany({row \in shownRows : isWithheld(row)}, TRUE)

UncheckAll ==
    /\ diagnosis.isShown
    /\ PickMany({row \in shownRows : isIssued(row)}, FALSE)

(* IC-157 and IC-158: a write of the file, which carries the bundle. *)
AskFixWrite ==
    /\ diagnosis.isShown
    /\ pending = NoBundle
    /\ LET bundle == delayFixBundleOf(proposalsNotIssuedSinceRun) IN
       /\ bundle # <<>>
       /\ pending' = [rows |-> bundle, of |-> diagnosis.of.schedule]
    /\ UNCHANGED <<unchangedDocument, unchangedWindow, landed>>

WriteEnds ==
    /\ pending # NoBundle
    /\ BundleLands(pending.rows, pending.of)
    /\ pending' = NoBundle
    /\ UNCHANGED unchangedWindow

WriteFails ==
    /\ pending # NoBundle
    /\ pending' = NoBundle
    /\ UNCHANGED <<unchangedDocument, unchangedWindow, landed>>

(* AM-32. Its keys add checks only, to rows that are checked already. *)
IssueDelayFixes ==
    /\ LET bundle == delayFixBundleOf(proposeDelayFixes(held.schedule, NoPicks)) IN
       /\ bundle # <<>>
       /\ BundleLands(bundle, held.schedule)
    /\ UNCHANGED <<unchangedWindow, pending>>

Next ==
    \/ EditDocument \/ MoveView \/ Undo \/ Redo \/ ReplaceHeldDocument
    \/ Diagnose \/ EndDiagnosis \/ PickCheck \/ PickChoice \/ AdoptAll \/ UncheckAll
    \/ AskFixWrite \/ WriteEnds \/ WriteFails \/ IssueDelayFixes

Spec == Init /\ [][Next]_vars

-----------------------------------------------------------------------------
(* Properties *)

(* The log tells of a bundle while, and only while, its edit is in effect:     *)
(* undone, redone, cut off, buried by later edits or replaced, the comparison  *)
(* of references (isFixBundleStanding) comes to the same as following the      *)
(* edits themselves, as long as the view stays (T-374, RW-16).                 *)
isInEffect(bundle) ==
    \E i \in DOMAIN done :
        /\ line[i].edit = bundle.before.edit /\ line[i].view = bundle.before.view
        /\ line[i + 1].edit = bundle.after.edit /\ line[i + 1].view = bundle.after.view

LogTellsWhatIsInEffect == \A i \in DOMAIN landed : i \in standing <=> isInEffect(landed[i])

hasLanded  == Len(landed') > Len(landed)
isFresh    == Last(landed').of = held.schedule
landedRows == ToSet(Last(landed').rows)

isAsShown(row, task) ==
    CASE row.column = "resumeValid"  -> ~task.resumeValid
      [] row.column = "actualFinish" -> task.actualFinish = Max({row.after, task.actualStart})
      [] OTHER                       -> task[row.column] = row.after

(* A bundle of automatic rows issued on the schedule they were made for writes *)
(* what its rows show and nothing else: each column has the value shown once   *)
(* all have landed (no fix undoes another), or its start where CM-13 lifts a    *)
(* finish before it; a task no row names stays; a task without children keeps  *)
(* its plan and its actual days (T-373). Any bundle, a stale one too, leaves    *)
(* the tasks GP-1 closes alone, and columns the program can hold.              *)
FixesDoAsShown ==
    [][hasLanded =>
         /\ isSchedule(held'.schedule)
         /\ \A uid \in ReadOnly : held'.schedule[uid] = held.schedule[uid]
         /\ isFresh /\ (\A row \in landedRows : row.fixKind = "automatic") =>
               /\ \A row \in landedRows : isAsShown(row, held'.schedule[row.uid])
               /\ \A uid \in Tasks \ {row.uid : row \in landedRows} :
                      held'.schedule[uid] = held.schedule[uid]
               /\ \A uid \in Tasks : childrenOf(uid) = {} =>
                      held'.schedule[uid] =
                          [held.schedule[uid] EXCEPT !.resumeValid = held'.schedule[uid].resumeValid]
      ]_vars

isFixedByItself(schedule, finding) ==
    \E draft \in ToSet(draftsOf(schedule, finding)) : draft.fixKind = "automatic"

(* With every fix taken that is offered by itself, no finding it could fix      *)
(* stands afterwards that neither the diagnosis nor a row named: the chain was *)
(* followed to its end within its limit, though its preview leaves out what    *)
(* CM-11 and CM-13 do to the days (FR-155).                                    *)
NoFindingIsNew ==
    [][hasLanded /\ isFresh =>
         LET rows  == proposeDelayFixes(held.schedule, NoPicks)
             named == {[row |-> row.row, uid |-> row.uid] : row \in ToSet(rows)}
         IN  Last(landed').rows = delayFixBundleOf(rows) =>
                 {finding \in findingsOf(held'.schedule) : isFixedByItself(held'.schedule, finding)}
                     \subseteq named \cup findingsOf(held.schedule)
      ]_vars
=============================================================================
