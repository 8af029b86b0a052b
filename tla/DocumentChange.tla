--------------------------- MODULE DocumentChange ---------------------------
(* The one path a write takes to the held document, and what it leaves       *)
(* behind: the stamp and the undo history (document-change-plan.ts,          *)
(* document-stamp.ts, edit-history.ts, undo-edit.ts, redo-edit.ts), the swap  *)
(* of the held document and the round of notices after it                    *)
(* (apply-document-change.ts, notify-change-watchers.ts, change-notice.ts).   *)
(* The writers are the person at the screen (frame-loop.ts) and the callers  *)
(* of the Agent API (agent-api-members.ts).                                  *)
(*                                                                           *)
(* A write is one synchronous call: steps WS-1 to WS-6 are one action, and   *)
(* WS-7 opens a round in which only the watchers' own callbacks can act, one *)
(* action per call of a watcher and per thing its callback does.             *)
(*                                                                           *)
(* A document is named by the edit that made it. Its columns outside the      *)
(* history (T-027) are left out here: DocumentFileFlow follows their copies. *)
(* A stamp holds readings of the wall clock in whole seconds, which may stand *)
(* still or go back between two writes (FR-063): a write takes any instant.  *)
EXTENDS Naturals, SequencesExt

CONSTANTS
    Agents,              \* the names callers of the Agent API declare (ED-2)
    Person,              \* EDITED_BY_SCREEN, the word of the screen (ED-1)
    Other,               \* a word of another session: a file's or a template's writer
    Instants,            \* the readings of the clock a stamp can hold
    Incoming,            \* the stamps a file, or a startup document, may bring
    SizeOf,              \* stepSizeBytes of the document each edit makes
    MaxSteps,            \* HistoryLimits.maxSteps (S-94)
    MaxTotalSize,        \* HistoryLimits.maxTotalSizeBytes (S-95)
    MaxEdit,             \* bound: the greatest number of a document made
    NotWatching,         \* no registration
    NoDocument,          \* nothing read yet
    Nobody               \* no watcher is being called

Writers == Agents \cup {Person}
Authors == Writers \cup {Other}

ASSUME WritersAssumption ==
    /\ Person \notin Agents
    /\ Other \notin Writers
    /\ Nobody \notin Agents

ASSUME IncomingAssumption ==
    Incoming \subseteq [scheduleUpdatedAt : Instants, lastEditedBy : Authors,
                        settingsUpdatedAt : Instants]

ASSUME BoundsAssumption ==
    /\ MaxSteps \in Nat
    /\ MaxTotalSize \in Nat
    /\ MaxEdit \in Nat
    /\ SizeOf \in [0 .. MaxEdit -> Nat]

VARIABLES
    held,        \* the held document
    history,     \* its EditHistory: what an undo and a redo reach
    nextEdit,
    watchers,    \* byWatcher: the registration of each agent, or NotWatching
    rounds,      \* the rounds of notices under way, the innermost first
    silent,      \* failures: the watchers that threw in the last round
    read,        \* the document each agent last read, whose stamp it will declare
    (* history variables: nothing in the code reads them *)
    handed,      \* the instant of the schedule each agent was handed last
    knows,       \* the schedule each agent was handed, or wrote itself, last
    asked        \* the receiver each agent last asked to be called back on; 0 is none

vars == <<held, history, nextEdit, watchers, rounds, silent, read, handed, knows, asked>>

-----------------------------------------------------------------------------
(* Values *)

Stamps == [scheduleUpdatedAt : Instants, lastEditedBy : Authors, settingsUpdatedAt : Instants]

(* madeBy, madeAt and madeFrom are history: who made the edit, at which       *)
(* reading of the clock, and out of which document.                          *)
Documents == [edit : 0 .. MaxEdit, schedule : Nat, stamp : Stamps,
              madeBy : Authors, madeAt : Instants, madeFrom : Nat]

Steps     == [document : Documents, editedBy : Writers, size : Nat]
Histories == [done : Seq(Steps), undone : Seq(Steps)]
Receivers == 1 .. 2
Registrations == [mark : Instants, receiver : Receivers]
Schedules == [schedule : Nat, at : Instants]

ASSUME AbsenceAssumption ==
    /\ NotWatching \notin Registrations
    /\ NoDocument \notin Documents

IsWatched(a) == watchers[a] # NotWatching
ScheduleOf(document) == [schedule |-> document.schedule, at |-> document.stamp.scheduleUpdatedAt]

(* advancedStamp *)
advancedStamp(stamp, editedBy, updatedAt, hasUpdatedSchedule) ==
    [scheduleUpdatedAt |-> IF hasUpdatedSchedule THEN updatedAt ELSE stamp.scheduleUpdatedAt,
     lastEditedBy      |-> editedBy,
     settingsUpdatedAt |-> updatedAt]

(* isStampMatched: the three columns by equality, never by order. *)
isStampMatchedBySchedule(declared, current) ==      \* mutant: the schedule group alone
    /\ declared.scheduleUpdatedAt = current.scheduleUpdatedAt
    /\ declared.lastEditedBy = current.lastEditedBy

isStampMatched(declared, current) ==
    /\ declared.scheduleUpdatedAt = current.scheduleUpdatedAt
    /\ declared.lastEditedBy = current.lastEditedBy
    /\ declared.settingsUpdatedAt = current.settingsUpdatedAt

-----------------------------------------------------------------------------
(* The history *)

emptyHistory == [done |-> <<>>, undone |-> <<>>]

TotalSize(steps) == FoldSeq(LAMBDA step, sum : step.size + sum, 0, steps)

(* What historyWithStep keeps fits the limits; one step stays whatever its size. *)
Fits(steps) == /\ Len(steps) <= MaxSteps
               /\ Len(steps) <= 1 \/ TotalSize(steps) <= MaxTotalSize

From(steps, first) == SubSeq(steps, first, Len(steps))

(* historyWithStep: older steps go, one by one, until the rest fits. *)
historyWithStepKeepingUndone(step) ==               \* mutant: a write leaves what was undone
    LET all   == Append(history.done, step)
        first == CHOOSE i \in 1 .. Len(all) + 1 :
                     /\ Fits(From(all, i))
                     /\ \A j \in 1 .. i - 1 : ~Fits(From(all, j))
    IN  [done |-> From(all, first), undone |-> history.undone]

historyWithStep(step) ==
    LET all   == Append(history.done, step)
        first == CHOOSE i \in 1 .. Len(all) + 1 :
                     /\ Fits(From(all, i))
                     /\ \A j \in 1 .. i - 1 : ~Fits(From(all, j))
    IN  [done |-> From(all, first), undone |-> <<>>]

(* The step a write leaves: the document it was made of, its size, its writer. *)
StepByOfNext(writer) ==                             \* mutant: the size of what the write makes
    [document |-> held, editedBy |-> writer, size |-> SizeOf[nextEdit]]

StepBy(writer) == [document |-> held, editedBy |-> writer, size |-> SizeOf[held.edit]]

(* undoEdit and redoEdit: the moved step crosses with the document left behind. *)
LeftBehind(step) == [step EXCEPT !.document = held]

StepsLeft(row) == IF row = "RD-1" THEN history.done ELSE history.undone
MovedStepLastUndone(row) ==                         \* mutant: redo judges the wrong end
    IF row = "RD-1" THEN Last(history.done) ELSE Last(history.undone)

MovedStep(row) == IF row = "RD-1" THEN Last(history.done) ELSE Head(history.undone)

HistoryMoved(row) ==
    IF row = "RD-1"
    THEN [done   |-> Front(history.done),
          undone |-> <<LeftBehind(Last(history.done))>> \o history.undone]
    ELSE [done   |-> Append(history.done, LeftBehind(Head(history.undone))),
          undone |-> Tail(history.undone)]

RestoredBy(row) ==
    IF row = "RD-1" THEN Last(history.done).document ELSE Head(history.undone).document

-----------------------------------------------------------------------------
(* Steps WS-6 and WS-7: the swap, then the round of notices *)

(* A round walks a copy of the registrations. `waiting` holds those not yet   *)
(* come to, `same` the agents whose registration is still the copied one.    *)
RoundOf(document, hasUpdatedSchedule) ==
    LET registered == {a \in Agents : IsWatched(a)}
    IN  [document |-> document, hasUpdatedSchedule |-> hasUpdatedSchedule,
         waiting |-> Restrict(watchers, registered), same |-> registered, calling |-> Nobody]

hasUpdatedScheduleBetween(outgoing, incoming) ==
    outgoing.stamp.scheduleUpdatedAt # incoming.stamp.scheduleUpdatedAt

(* The moment of WS-2. Gestures, fields and questions only refuse, and hold   *)
(* the writer back: of the four, the window of the delivery is followed.     *)
MayWriteAlways == TRUE                              \* mutant: WS-2 without deliveringNotices
MayWrite == rounds = <<>>

Lands(document, newHistory, hasUpdatedSchedule) ==
    /\ held' = document
    /\ history' = newHistory
    /\ rounds' = <<RoundOf(document, hasUpdatedSchedule)>> \o rounds
    /\ silent' = {}
    /\ UNCHANGED <<watchers, read, handed, asked>>

(* A writer is handed what it wrote by the answer of its call. *)
LearnsOwn(writer, document) ==
    knows' = IF writer \in Agents THEN [knows EXCEPT ![writer] = ScheduleOf(document)] ELSE knows

-----------------------------------------------------------------------------
(* Writes *)

(* The page runs one turn at a time: outside a round anyone's call may come,   *)
(* inside one only what the callback being called does.                      *)
PersonActs  == rounds = <<>>
AgentActs   == rounds # <<>> => Head(rounds).calling # Nobody

(* WS-1 for the Agent API: the stamp of what the agent read. *)
Declares(a) == /\ read[a] # NoDocument
               /\ isStampMatched(read[a].stamp, held.stamp)

Groups == {"schedule", "settings"}

Edited(group, writer, at) ==
    [edit     |-> nextEdit,
     schedule |-> IF group = "schedule" THEN nextEdit ELSE held.schedule,
     stamp    |-> advancedStamp(held.stamp, writer, at, group = "schedule"),
     madeBy   |-> writer, madeAt |-> at, madeFrom |-> held.edit]

(* planDocumentChange of commands an undo takes back: one step, one advance. *)
WriteOf(group, writer) ==
    /\ MayWrite
    /\ nextEdit <= MaxEdit
    /\ \E at \in Instants :
           LET document == Edited(group, writer, at)
           IN  /\ Lands(document, historyWithStep(StepBy(writer)), group = "schedule")
               /\ LearnsOwn(writer, document)
    /\ nextEdit' = nextEdit + 1

PersonWrites(group)   == PersonActs /\ WriteOf(group, Person)
AgentWrites(a, group) == AgentActs /\ Declares(a) /\ WriteOf(group, a)

(* A write that leaves document and stamp as they were (commands outside the  *)
(* history, or a command that moves nothing, or an undo with nothing to undo) *)
(* still goes through the swap and tells the round that the schedule stood.   *)
NothingMoves == /\ MayWrite
                /\ Lands(held, history, FALSE)
                /\ UNCHANGED <<nextEdit, knows>>

PersonMovesNothing   == PersonActs /\ NothingMoves
AgentMovesNothing(a) == AgentActs /\ Declares(a) /\ NothingMoves

(* RD-1 and RD-2: the document comes back with its own stamp. *)
Rows == {"RD-1", "RD-2"}

StepThrough(row, writer) ==
    /\ MayWrite
    /\ StepsLeft(row) # <<>>
    /\ Lands(RestoredBy(row), HistoryMoved(row), hasUpdatedScheduleBetween(held, RestoredBy(row)))
    /\ LearnsOwn(writer, RestoredBy(row))
    /\ UNCHANGED nextEdit

PersonSteps(row) == PersonActs /\ StepThrough(row, Person)

(* refusalOfStepOwner: an agent moves no step but its own (AM-9, AM-10). *)
IsOwnStep(a, row) == StepsLeft(row) # <<>> /\ MovedStep(row).editedBy = a

AgentSteps(a, row) ==
    /\ AgentActs
    /\ Declares(a)
    /\ IsOwnStep(a, row)
    /\ StepThrough(row, a)

(* RD-3: what a merge or a baseline made of the held document is one step and *)
(* advances its stamp, like a write; whether the schedule moved is read off   *)
(* the stamps, as for every replacement.                                     *)
PersonMerges ==
    /\ PersonActs /\ MayWrite
    /\ nextEdit <= MaxEdit
    /\ \E at \in Instants :
           LET document == Edited("schedule", Person, at)
           IN  Lands(document, historyWithStep(StepBy(Person)),
                     hasUpdatedScheduleBetween(held, document))
    /\ nextEdit' = nextEdit + 1
    /\ UNCHANGED knows

Arrived(stamp) ==
    [edit |-> nextEdit, schedule |-> nextEdit, stamp |-> stamp,
     madeBy |-> stamp.lastEditedBy, madeAt |-> stamp.settingsUpdatedAt, madeFrom |-> nextEdit]

Replaces(document) ==
    /\ PersonActs /\ MayWrite
    /\ nextEdit <= MaxEdit
    /\ Lands(document, emptyHistory, hasUpdatedScheduleBetween(held, document))
    /\ nextEdit' = nextEdit + 1
    /\ UNCHANGED knows

(* RD-4 (and RD-6 at startup): the document comes with the stamp it was written with. *)
PersonOpens == \E stamp \in Incoming : Replaces(Arrived(stamp))

(* RD-7: startedAfresh stamps the blank document as written now. *)
PersonStartsNew ==
    \E at \in Instants :
        Replaces(Arrived([scheduleUpdatedAt |-> at, lastEditedBy |-> Person,
                          settingsUpdatedAt |-> at]))

-----------------------------------------------------------------------------
(* What an agent does besides writing *)

AgentReads(a) ==
    /\ AgentActs
    /\ read' = [read EXCEPT ![a] = held]
    /\ UNCHANGED <<held, history, nextEdit, watchers, rounds, silent, handed, knows, asked>>

(* A registration put in, or taken out, is another than the one a round copied. *)
NoLongerSame(a) == [i \in DOMAIN rounds |-> [rounds[i] EXCEPT !.same = @ \ {a}]]

(* watchChanges of the Agent API: it watches on from the document now held. *)
Watch(a) ==
    /\ AgentActs
    /\ \E receiver \in Receivers \ {asked[a]} :
           /\ watchers' = [watchers EXCEPT ![a] = [mark |-> held.stamp.scheduleUpdatedAt,
                                                   receiver |-> receiver]]
           /\ asked' = [asked EXCEPT ![a] = receiver]
    /\ rounds' = NoLongerSame(a)
    /\ handed' = [handed EXCEPT ![a] = held.stamp.scheduleUpdatedAt]
    /\ knows' = [knows EXCEPT ![a] = ScheduleOf(held)]
    /\ UNCHANGED <<held, history, nextEdit, silent, read>>

Unwatch(a) ==
    /\ AgentActs
    /\ IsWatched(a)
    /\ watchers' = [watchers EXCEPT ![a] = NotWatching]
    /\ asked' = [asked EXCEPT ![a] = 0]
    /\ rounds' = NoLongerSame(a)
    /\ UNCHANGED <<held, history, nextEdit, silent, read, handed, knows>>

-----------------------------------------------------------------------------
(* The round of notices (notifyChangeWatchers). The order in which a round     *)
(* comes to its registrations is left open.                                  *)

Round == Head(rounds)
RoundIs(round) == rounds' = <<round>> \o Tail(rounds)

(* changeNoticeFor: is there something for this watcher? *)
HasNoticeOfWrite(a, mark) ==                        \* mutant: the mark is not looked at
    /\ Round.hasUpdatedSchedule
    /\ Round.document.stamp.lastEditedBy # a

HasNotice(a, mark) ==
    /\ \/ Round.hasUpdatedSchedule
       \/ Round.document.stamp.scheduleUpdatedAt # mark
    /\ Round.document.stamp.lastEditedBy # a

ComesTo(a) == /\ rounds # <<>>
              /\ Round.calling = Nobody
              /\ a \in DOMAIN Round.waiting

Without(a) == Restrict(Round.waiting, DOMAIN Round.waiting \ {a})

SkipWatcher(a) ==
    /\ ComesTo(a)
    /\ ~HasNotice(a, Round.waiting[a].mark)
    /\ RoundIs([Round EXCEPT !.waiting = Without(a)])
    /\ UNCHANGED <<held, history, nextEdit, watchers, silent, read, handed, knows, asked>>

CallWatcher(a) ==
    /\ ComesTo(a)
    /\ HasNotice(a, Round.waiting[a].mark)
    /\ RoundIs([Round EXCEPT !.calling = a])
    /\ UNCHANGED <<held, history, nextEdit, watchers, silent, read, handed, knows, asked>>

IsCalling(a) == rounds # <<>> /\ Round.calling = a

(* After the call the mark is advanced, on the registration of the round and   *)
(* only while it is the one still held.                                      *)
MarkAdvancesAlways(a) ==                            \* mutant: whichever registration is held
    [watchers EXCEPT ![a] = [Round.waiting[a] EXCEPT
                                !.mark = Round.document.stamp.scheduleUpdatedAt]]

MarkAdvances(a) ==
    IF a \in Round.same
    THEN [watchers EXCEPT ![a] = [Round.waiting[a] EXCEPT
                                     !.mark = Round.document.stamp.scheduleUpdatedAt]]
    ELSE watchers

WatcherReturns(a) ==
    /\ IsCalling(a)
    /\ watchers' = MarkAdvances(a)
    /\ handed' = [handed EXCEPT ![a] = Round.document.stamp.scheduleUpdatedAt]
    /\ knows' = [knows EXCEPT ![a] = ScheduleOf(Round.document)]
    /\ RoundIs([Round EXCEPT !.waiting = Without(a), !.same = @ \ {a}, !.calling = Nobody])
    /\ UNCHANGED <<held, history, nextEdit, silent, read, asked>>

(* A throw is counted as a failure, the mark stays, and the round goes on. *)
WatcherThrows(a) ==
    /\ IsCalling(a)
    /\ RoundIs([Round EXCEPT !.waiting = Without(a), !.calling = Nobody])
    /\ silent' = silent \cup {a}
    /\ UNCHANGED <<held, history, nextEdit, watchers, read, handed, knows, asked>>

(* changeDelivered: the window closes. *)
RoundEnds ==
    /\ rounds # <<>>
    /\ Round.calling = Nobody
    /\ DOMAIN Round.waiting = {}
    /\ rounds' = Tail(rounds)
    /\ UNCHANGED <<held, history, nextEdit, watchers, silent, read, handed, knows, asked>>

-----------------------------------------------------------------------------
Init ==
    /\ \E at \in Instants :
           held = [edit |-> 0, schedule |-> 0,
                   stamp |-> [scheduleUpdatedAt |-> at, lastEditedBy |-> Other,
                              settingsUpdatedAt |-> at],
                   madeBy |-> Other, madeAt |-> at, madeFrom |-> 0]
    /\ history = emptyHistory
    /\ nextEdit = 1
    /\ watchers = [a \in Agents |-> NotWatching]
    /\ rounds = <<>>
    /\ silent = {}
    /\ read = [a \in Agents |-> NoDocument]
    /\ handed = [a \in Agents |-> held.stamp.scheduleUpdatedAt]
    /\ knows = [a \in Agents |-> ScheduleOf(held)]
    /\ asked = [a \in Agents |-> 0]

PersonNext ==
    \/ \E group \in Groups : PersonWrites(group)
    \/ PersonMovesNothing
    \/ \E row \in Rows : PersonSteps(row)
    \/ PersonMerges
    \/ PersonOpens
    \/ PersonStartsNew

AgentNext(a) ==
    \/ \E group \in Groups : AgentWrites(a, group)
    \/ AgentMovesNothing(a)
    \/ \E row \in Rows : AgentSteps(a, row)
    \/ AgentReads(a)
    \/ Watch(a)
    \/ Unwatch(a)

DeliveryNext ==
    \/ \E a \in Agents :
           \/ SkipWatcher(a)
           \/ CallWatcher(a)
           \/ WatcherReturns(a)
           \/ WatcherThrows(a)
    \/ RoundEnds

Next == PersonNext \/ (\E a \in Agents : AgentNext(a)) \/ DeliveryNext

Spec == Init /\ [][Next]_vars

-----------------------------------------------------------------------------
(* Properties *)

RoundType(round) ==
    /\ round.document \in Documents
    /\ round.hasUpdatedSchedule \in BOOLEAN
    /\ DOMAIN round.waiting \subseteq Agents
    /\ \A a \in DOMAIN round.waiting : round.waiting[a] \in Registrations
    /\ round.same \subseteq Agents
    /\ round.calling \in DOMAIN round.waiting \cup {Nobody}

(* The held document, its history, the registrations and the rounds hold what  *)
(* their types say, and no round is opened inside another: the window that      *)
(* frame-loop.ts keeps in the session refuses the writes of a callback.        *)
TypeOK ==
    /\ held \in Documents
    /\ history \in Histories
    /\ nextEdit \in 1 .. MaxEdit + 1
    /\ watchers \in [Agents -> Registrations \cup {NotWatching}]
    /\ rounds # <<>> => rounds = <<Round>> /\ RoundType(Round)
    /\ silent \subseteq Agents
    /\ read \in [Agents -> Documents \cup {NoDocument}]
    /\ handed \in [Agents -> Instants]
    /\ knows \in [Agents -> Schedules]
    /\ asked \in [Agents -> {0} \cup Receivers]

(* The document an undo of step i, or a redo of step j, leads away from and to. *)
After(i)  == IF i < Len(history.done) THEN history.done[i + 1].document ELSE held
Before(j) == IF j = 1 THEN held ELSE history.undone[j - 1].document

IsEditOf(writer, before, after) == after.madeFrom = before.edit /\ after.madeBy = writer

(* The documents an undo and a redo reach are one line of edits, each made of  *)
(* the one before it, and each step names the writer of the edit it moves,      *)
(* however the history was cut, undone, redone and written over.              *)
StepsAreOwned ==
    /\ \A i \in DOMAIN history.done :
           IsEditOf(history.done[i].editedBy, history.done[i].document, After(i))
    /\ \A j \in DOMAIN history.undone :
           IsEditOf(history.undone[j].editedBy, Before(j), history.undone[j].document)

(* What an undo reaches fits the limits by the documents it reaches: an undo     *)
(* and a redo swap the document of a step and leave it the size measured of     *)
(* another (leftBehind of previousStep and nextStep), and the next cut goes by  *)
(* those sizes (S-94, S-95).                                                  *)
Measured(steps) ==
    [i \in DOMAIN steps |-> [steps[i] EXCEPT !.size = SizeOf[steps[i].document.edit]]]

HistoryFits == Fits(Measured(history.done))

(* An undo or a redo of an agent takes back, or brings again, an edit that      *)
(* agent made itself (AG-10): never the person's, never another agent's.       *)
OwnStepsOnly ==
    [][\A a \in Agents :
          /\ AgentSteps(a, "RD-1") => held.madeBy = a /\ held'.edit = held.madeFrom
          /\ AgentSteps(a, "RD-2") => held'.madeBy = a /\ held'.madeFrom = held.edit]_vars

(* A write an agent makes of what it read lands on the document it read (AG-2), *)
(* unless both came of one writer at one reading of the clock: the stamps       *)
(* count seconds and cannot tell those apart.                                *)
NoLostUpdate ==
    [][\A a \in Agents :
          (\E group \in Groups : AgentWrites(a, group)) \/ (\E row \in Rows : AgentSteps(a, row))
          => \/ read[a].edit = held.edit
             \/ read[a].madeBy = held.madeBy /\ read[a].madeAt = held.madeAt]_vars

(* Between rounds every watcher was handed the schedule of the instant the      *)
(* held document bears, or threw when it was, or is the last writer itself:     *)
(* no undo, replacement, late registration or failure leaves one behind.      *)
NoWatcherLeftBehind ==
    rounds = <<>> =>
        \A a \in Agents :
            IsWatched(a) =>
                \/ handed[a] = held.stamp.scheduleUpdatedAt
                \/ held.stamp.lastEditedBy = a
                \/ a \in silent

(* The registration held is the one the agent asked for last, or none when it   *)
(* asked for none, whatever it did from inside its own callback.             *)
WatchedAsAsked ==
    \A a \in Agents :
        IF asked[a] = 0 THEN ~IsWatched(a)
        ELSE IsWatched(a) /\ watchers[a].receiver = asked[a]

(* A notice names the document held while it is handed out: a watcher that      *)
(* reads back gets the document the notice is about (AG-6, WS-7).             *)
NoticeNamesHeld == \A i \in 1 .. Len(rounds) : rounds[i].document = held

(* Between rounds every watcher knows the schedule now held, by a notice or by   *)
(* having written it: what another writer did was told (AG-6). An undo of the  *)
(* person brings back a stamp that may name the watcher itself.              *)
EveryChangeIsTold ==
    rounds = <<>> =>
        \A a \in Agents :
            IsWatched(a) /\ a \notin silent => knows[a].at = held.stamp.scheduleUpdatedAt
=============================================================================
