----------------------- MODULE DocumentChangeProofs -----------------------
(* Proofs about DocumentChange, for every set of agents, every limit of the   *)
(* history and every size of the documents.                                   *)
EXTENDS DocumentChange, TLAPS, FiniteSetTheorems, SequenceTheorems

-----------------------------------------------------------------------------
(* The cut of the history *)

(* A set of numbers that is not empty has a least element. *)
LEMMA LeastNumber ==
    ASSUME NEW T \in SUBSET Nat, T # {}
    PROVE  \E i \in T : \A j \in T : i <= j
<1> DEFINE Below == {1 .. i : i \in T}
<1>1. IsWellFoundedOn(StrictSubsetOrdering(Nat), FiniteSubsetsOf(Nat))
  BY FS_StrictSubsetOrderingWellFounded
<1>2. Below \subseteq FiniteSubsetsOf(Nat)
  <2> SUFFICES ASSUME NEW i \in T PROVE 1 .. i \in FiniteSubsetsOf(Nat)
    OBVIOUS
  <2>1. IsFiniteSet(1 .. i)
    BY FS_Interval
  <2> QED
    BY <2>1 DEF FiniteSubsetsOf
<1>3. PICK B \in Below : \A C \in Below : ~(<<C, B>> \in StrictSubsetOrdering(Nat))
  <2>1. Below # {}
    OBVIOUS
  <2> HIDE DEF Below
  <2> QED
    BY <1>1, <1>2, <2>1, WFMin
<1>4. PICK i \in T : B = 1 .. i
  OBVIOUS
<1>5. ASSUME NEW j \in T, j < i PROVE FALSE
  <2>1. 1 .. j \in Below
    OBVIOUS
  <2>2. 1 .. j \subseteq 1 .. i /\ i \in 1 .. i /\ i \notin 1 .. j
    BY <1>5
  <2>3. <<1 .. j, 1 .. i>> \in StrictSubsetOrdering(Nat)
    BY <2>2 DEF StrictSubsetOrdering
  <2> QED
    BY <1>3, <1>4, <2>1, <2>3
<1> QED
  BY <1>5

(* historyWithStep always finds where to cut: what it keeps is the newer end  *)
(* of the steps and the new one, possibly nothing.                            *)
LEMMA HistoryIsCut ==
    ASSUME history.done \in Seq(Steps), NEW step \in Steps
    PROVE  \E i \in 1 .. Len(history.done) + 2 :
               historyWithStep(step) =
                   [done   |-> SubSeq(Append(history.done, step), i, Len(history.done) + 1),
                    undone |-> <<>>]
<1> DEFINE all == Append(history.done, step)
           Fitting == {i \in 1 .. Len(all) + 1 : Fits(From(all, i))}
           IsFirst(i) == /\ Fits(From(all, i))
                         /\ \A j \in 1 .. i - 1 : ~Fits(From(all, j))
<1>1. all \in Seq(Steps) /\ Len(all) = Len(history.done) + 1
  OBVIOUS
<1>2. Len(all) + 1 \in Fitting
  <2>1. From(all, Len(all) + 1) = <<>>
    BY <1>1 DEF From
  <2>2. Fits(<<>>)
    BY BoundsAssumption DEF Fits
  <2> QED
    BY <1>1, <2>1, <2>2
<1>3. PICK i \in Fitting : \A j \in Fitting : i <= j
  <2>1. Fitting \in SUBSET Nat
    BY <1>1
  <2> HIDE DEF Fitting
  <2> QED
    BY <1>2, <2>1, LeastNumber
<1>4. i \in 1 .. Len(all) + 1 /\ IsFirst(i)
  <2>1. ASSUME NEW j \in 1 .. i - 1, Fits(From(all, j)) PROVE FALSE
    BY <1>1, <1>3, <2>1
  <2> QED
    BY <1>3, <2>1
<1> DEFINE first == CHOOSE k \in 1 .. Len(all) + 1 : IsFirst(k)
<1>5. first \in 1 .. Len(all) + 1
  BY <1>4
<1>6. historyWithStep(step) = [done |-> From(all, first), undone |-> <<>>]
  BY DEF historyWithStep
<1>7. From(all, first) = SubSeq(all, first, Len(history.done) + 1)
  BY <1>1 DEF From
<1>8. first \in 1 .. Len(history.done) + 2
  BY <1>1, <1>5
<1> HIDE DEF first, all
<1> WITNESS first \in 1 .. Len(history.done) + 2
<1> QED
  BY <1>6, <1>7 DEF all

(* A step written now is a step of the writer. *)
LEMMA StepByType ==
    ASSUME held \in Documents, NEW writer \in Writers
    PROVE  StepBy(writer) \in Steps
BY BoundsAssumption DEF StepBy, Steps, Documents

LEMMA HistoryGrowsType ==
    ASSUME history \in Histories, NEW step \in Steps
    PROVE  historyWithStep(step) \in Histories
<1>1. PICK i \in 1 .. Len(history.done) + 2 :
          historyWithStep(step) =
              [done   |-> SubSeq(Append(history.done, step), i, Len(history.done) + 1),
               undone |-> <<>>]
  BY HistoryIsCut DEF Histories
<1>2. Append(history.done, step) \in Seq(Steps) /\ Len(Append(history.done, step)) = Len(history.done) + 1
  BY DEF Histories
<1>3. SubSeq(Append(history.done, step), i, Len(history.done) + 1) \in Seq(Steps)
  BY <1>2
<1> QED
  BY <1>1, <1>3 DEF Histories

(* What undo and redo move crosses as a step. *)
LEMMA HistoryMovedType ==
    ASSUME held \in Documents, history \in Histories, NEW row \in Rows, StepsLeft(row) # <<>>
    PROVE  HistoryMoved(row) \in Histories /\ RestoredBy(row) \in Documents
<1>0. history.done \in Seq(Steps) /\ history.undone \in Seq(Steps)
  BY DEF Histories
<1>1. CASE row = "RD-1"
  <2>1. history.done # <<>>
    BY <1>0, <1>1 DEF StepsLeft
  <2>2. Len(history.done) \in 1 .. Len(history.done)
    BY <1>0, <2>1
  <2>3. Last(history.done) \in Steps
    BY <1>0, <2>2 DEF Last
  <2>4. LeftBehind(Last(history.done)) \in Steps /\ Last(history.done).document \in Documents
    BY <2>3 DEF LeftBehind, Steps
  <2>5. Front(history.done) \in Seq(Steps)
    BY <1>0, <2>2 DEF Front
  <2>6. <<LeftBehind(Last(history.done))>> \o history.undone \in Seq(Steps)
    BY <1>0, <2>4
  <2> QED
    BY <1>1, <2>4, <2>5, <2>6 DEF HistoryMoved, RestoredBy, Histories
<1>2. CASE row = "RD-2"
  <2>1. history.undone # <<>>
    BY <1>0, <1>2 DEF StepsLeft
  <2>2. Head(history.undone) \in Steps /\ Tail(history.undone) \in Seq(Steps)
    BY <1>0, <2>1
  <2>3. LeftBehind(Head(history.undone)) \in Steps /\ Head(history.undone).document \in Documents
    BY <2>2 DEF LeftBehind, Steps
  <2>4. Append(history.done, LeftBehind(Head(history.undone))) \in Seq(Steps)
    BY <1>0, <2>3
  <2> QED
    BY <1>2, <2>2, <2>3, <2>4 DEF HistoryMoved, RestoredBy, Histories
<1> QED
  BY <1>1, <1>2 DEF Rows

-----------------------------------------------------------------------------
(* The writes, taken together *)

(* What a write leaves the document, the history and the flag of its round. *)
Writes(document, newHistory, hasUpdatedSchedule) ==
    \/ \E writer \in Writers, group \in Groups, at \in Instants :
           /\ nextEdit <= MaxEdit
           /\ document = Edited(group, writer, at)
           /\ newHistory = historyWithStep(StepBy(writer))
           /\ \/ hasUpdatedSchedule = (group = "schedule")
              \/ hasUpdatedSchedule = hasUpdatedScheduleBetween(held, document)
    \/ document = held /\ newHistory = history /\ hasUpdatedSchedule = FALSE
    \/ \E row \in Rows :
           /\ StepsLeft(row) # <<>>
           /\ document = RestoredBy(row)
           /\ newHistory = HistoryMoved(row)
           /\ hasUpdatedSchedule = hasUpdatedScheduleBetween(held, document)
    \/ \E stamp \in Stamps :
           /\ nextEdit <= MaxEdit
           /\ document = Arrived(stamp)
           /\ newHistory = emptyHistory
           /\ hasUpdatedSchedule = hasUpdatedScheduleBetween(held, document)

Writing ==
    /\ rounds = <<>>
    /\ nextEdit' \in 1 .. MaxEdit + 1
    /\ knows' \in [Agents -> Schedules]
    /\ \E document \in Documents, newHistory \in Histories, hasUpdatedSchedule \in BOOLEAN :
           /\ Writes(document, newHistory, hasUpdatedSchedule)
           /\ Lands(document, newHistory, hasUpdatedSchedule)

LEMMA EditedType ==
    ASSUME held \in Documents, nextEdit \in 1 .. MaxEdit + 1, nextEdit <= MaxEdit,
           NEW writer \in Writers, NEW group, NEW at \in Instants
    PROVE  Edited(group, writer, at) \in Documents
<1>1. nextEdit \in 0 .. MaxEdit /\ nextEdit \in Nat /\ held.schedule \in Nat /\ held.edit \in Nat
  BY BoundsAssumption DEF Documents
<1>2. writer \in Authors
  BY DEF Authors
<1>3. advancedStamp(held.stamp, writer, at, group = "schedule") \in Stamps
  BY <1>2 DEF advancedStamp, Stamps, Documents
<1> QED
  BY <1>1, <1>2, <1>3 DEF Edited, Documents

LEMMA ArrivedType ==
    ASSUME nextEdit \in 1 .. MaxEdit + 1, nextEdit <= MaxEdit, NEW stamp \in Stamps
    PROVE  Arrived(stamp) \in Documents
BY BoundsAssumption DEF Arrived, Documents, Stamps

LEMMA LearnsType ==
    ASSUME knows \in [Agents -> Schedules], NEW document \in Documents, NEW writer,
           LearnsOwn(writer, document)
    PROVE  knows' \in [Agents -> Schedules]
<1>1. ScheduleOf(document) \in Schedules
  BY DEF ScheduleOf, Schedules, Documents, Stamps
<1> QED
  BY <1>1 DEF LearnsOwn

(* Each write of the person and of an agent is one of the writes above. *)
LEMMA WriteOfIsWriting ==
    ASSUME TypeOK, NEW writer \in Writers, NEW group \in Groups, WriteOf(group, writer)
    PROVE  Writing
<1>1. PICK at \in Instants :
          /\ Lands(Edited(group, writer, at), historyWithStep(StepBy(writer)), group = "schedule")
          /\ LearnsOwn(writer, Edited(group, writer, at))
  BY DEF WriteOf
<1>2. rounds = <<>> /\ nextEdit <= MaxEdit /\ nextEdit' = nextEdit + 1
  BY DEF WriteOf, MayWrite
<1> DEFINE document == Edited(group, writer, at)
           newHistory == historyWithStep(StepBy(writer))
<1>3. document \in Documents
  BY <1>2, EditedType DEF TypeOK
<1>4. newHistory \in Histories
  BY StepByType, HistoryGrowsType DEF TypeOK
<1>5. (group = "schedule") \in BOOLEAN
  OBVIOUS
<1>6. Writes(document, newHistory, group = "schedule")
  BY <1>2 DEF Writes
<1>7. nextEdit' \in 1 .. MaxEdit + 1
  BY <1>2, BoundsAssumption DEF TypeOK
<1> HIDE DEF document, newHistory
<1>8. knows' \in [Agents -> Schedules]
  BY <1>1, <1>3, LearnsType DEF TypeOK, document
<1> QED
  BY <1>1, <1>2, <1>3, <1>4, <1>5, <1>6, <1>7, <1>8 DEF Writing, document, newHistory

LEMMA NothingMovesIsWriting ==
    ASSUME TypeOK, NothingMoves
    PROVE  Writing
<1>1. Writes(held, history, FALSE)
  BY DEF Writes
<1> QED
  BY <1>1 DEF NothingMoves, MayWrite, Writing, TypeOK

LEMMA InstantsDiffer ==
    ASSUME NEW outgoing, NEW incoming
    PROVE  hasUpdatedScheduleBetween(outgoing, incoming) \in BOOLEAN
BY DEF hasUpdatedScheduleBetween

LEMMA StepThroughIsWriting ==
    ASSUME TypeOK, NEW writer \in Writers, NEW row \in Rows, StepThrough(row, writer)
    PROVE  Writing
<1> DEFINE document == RestoredBy(row)
           newHistory == HistoryMoved(row)
           hasUpdatedSchedule == hasUpdatedScheduleBetween(held, document)
<1>1. document \in Documents /\ newHistory \in Histories
  BY HistoryMovedType DEF TypeOK, StepThrough
<1>2. hasUpdatedSchedule \in BOOLEAN
  BY InstantsDiffer
<1>3. Writes(document, newHistory, hasUpdatedSchedule)
  BY DEF Writes, StepThrough
<1>4. /\ Lands(document, newHistory, hasUpdatedSchedule)
      /\ LearnsOwn(writer, document)
      /\ rounds = <<>>
      /\ nextEdit' = nextEdit
  BY DEF StepThrough, MayWrite
<1> HIDE DEF document, newHistory, hasUpdatedSchedule
<1>5. knows' \in [Agents -> Schedules]
  BY <1>1, <1>4, LearnsType DEF TypeOK
<1> QED
  BY <1>1, <1>2, <1>3, <1>4, <1>5 DEF Writing, TypeOK

LEMMA MergeIsWriting ==
    ASSUME TypeOK, PersonMerges
    PROVE  Writing
<1>1. PICK at \in Instants :
          Lands(Edited("schedule", Person, at), historyWithStep(StepBy(Person)),
                hasUpdatedScheduleBetween(held, Edited("schedule", Person, at)))
  BY DEF PersonMerges
<1>2. rounds = <<>> /\ nextEdit <= MaxEdit /\ nextEdit' = nextEdit + 1 /\ knows' = knows
  BY DEF PersonMerges, MayWrite
<1> DEFINE document == Edited("schedule", Person, at)
           newHistory == historyWithStep(StepBy(Person))
           hasUpdatedSchedule == hasUpdatedScheduleBetween(held, document)
<1>3. Person \in Writers /\ "schedule" \in Groups
  BY DEF Writers, Groups
<1>4. document \in Documents
  BY <1>2, <1>3, EditedType DEF TypeOK
<1>5. newHistory \in Histories
  BY <1>3, StepByType, HistoryGrowsType DEF TypeOK
<1>6. hasUpdatedSchedule \in BOOLEAN
  BY InstantsDiffer
<1>7. Writes(document, newHistory, hasUpdatedSchedule)
  BY <1>2, <1>3 DEF Writes
<1>8. nextEdit' \in 1 .. MaxEdit + 1
  BY <1>2, BoundsAssumption DEF TypeOK
<1>9. Lands(document, newHistory, hasUpdatedSchedule)
  BY <1>1
<1> HIDE DEF document, newHistory, hasUpdatedSchedule
<1> QED
  BY <1>2, <1>4, <1>5, <1>6, <1>7, <1>8, <1>9 DEF Writing, TypeOK

LEMMA ReplacesIsWriting ==
    ASSUME TypeOK, NEW stamp \in Stamps, Replaces(Arrived(stamp))
    PROVE  Writing
<1> DEFINE document == Arrived(stamp)
           hasUpdatedSchedule == hasUpdatedScheduleBetween(held, document)
<1>1. /\ rounds = <<>> /\ nextEdit <= MaxEdit /\ nextEdit' = nextEdit + 1 /\ knows' = knows
      /\ Lands(document, emptyHistory, hasUpdatedSchedule)
  BY DEF Replaces, MayWrite
<1>2. document \in Documents
  BY <1>1, ArrivedType DEF TypeOK
<1>3. emptyHistory \in Histories
  BY DEF emptyHistory, Histories
<1>4. hasUpdatedSchedule \in BOOLEAN
  BY InstantsDiffer
<1>5. Writes(document, emptyHistory, hasUpdatedSchedule)
  BY <1>1 DEF Writes
<1>6. nextEdit' \in 1 .. MaxEdit + 1
  BY <1>1, BoundsAssumption DEF TypeOK
<1> HIDE DEF document, hasUpdatedSchedule
<1> QED
  BY <1>1, <1>2, <1>3, <1>4, <1>5, <1>6 DEF Writing, TypeOK

(* Every step is a write, a call of an agent between writes, or a step of the  *)
(* round.                                                                    *)
LEMMA StepsOfNext ==
    ASSUME TypeOK, Next
    PROVE  \/ Writing
           \/ \E a \in Agents : \/ AgentReads(a) \/ Watch(a) \/ Unwatch(a)
                               \/ SkipWatcher(a) \/ CallWatcher(a)
                               \/ WatcherReturns(a) \/ WatcherThrows(a)
           \/ RoundEnds
<1>1. CASE PersonNext
  <2>0. Person \in Writers /\ \A at \in Instants :
            [scheduleUpdatedAt |-> at, lastEditedBy |-> Person, settingsUpdatedAt |-> at] \in Stamps
    BY DEF Writers, Authors, Stamps
  <2>1. ASSUME NEW group \in Groups, PersonWrites(group) PROVE Writing
    BY <2>0, <2>1, WriteOfIsWriting DEF PersonWrites
  <2>2. ASSUME PersonMovesNothing PROVE Writing
    BY <2>2, NothingMovesIsWriting DEF PersonMovesNothing
  <2>3. ASSUME NEW row \in Rows, PersonSteps(row) PROVE Writing
    BY <2>0, <2>3, StepThroughIsWriting DEF PersonSteps
  <2>4. ASSUME PersonMerges PROVE Writing
    BY <2>4, MergeIsWriting
  <2>5. ASSUME PersonOpens PROVE Writing
    <3>1. PICK stamp \in Incoming : Replaces(Arrived(stamp))
      BY <2>5 DEF PersonOpens
    <3>2. stamp \in Stamps
      BY IncomingAssumption DEF Stamps
    <3> QED
      BY <3>1, <3>2, ReplacesIsWriting
  <2>6. ASSUME PersonStartsNew PROVE Writing
    BY <2>0, <2>6, ReplacesIsWriting DEF PersonStartsNew
  <2> QED
    BY <1>1, <2>1, <2>2, <2>3, <2>4, <2>5, <2>6 DEF PersonNext
<1>2. ASSUME NEW a \in Agents, AgentNext(a)
      PROVE  Writing \/ AgentReads(a) \/ Watch(a) \/ Unwatch(a)
  <2>0. a \in Writers
    BY DEF Writers
  <2>1. ASSUME NEW group \in Groups, AgentWrites(a, group) PROVE Writing
    BY <2>0, <2>1, WriteOfIsWriting DEF AgentWrites
  <2>2. ASSUME AgentMovesNothing(a) PROVE Writing
    BY <2>2, NothingMovesIsWriting DEF AgentMovesNothing
  <2>3. ASSUME NEW row \in Rows, AgentSteps(a, row) PROVE Writing
    BY <2>0, <2>3, StepThroughIsWriting DEF AgentSteps
  <2> QED
    BY <1>2, <2>1, <2>2, <2>3 DEF AgentNext
<1> QED
  BY <1>1, <1>2 DEF Next, DeliveryNext

-----------------------------------------------------------------------------
(* Types *)

(* What a write, or nothing, leaves of a round's registrations. *)
LEMMA RoundOfType ==
    ASSUME watchers \in [Agents -> Registrations \cup {NotWatching}],
           NEW document \in Documents, NEW hasUpdatedSchedule \in BOOLEAN
    PROVE  RoundType(RoundOf(document, hasUpdatedSchedule))
<1>1. \A a \in {b \in Agents : IsWatched(b)} : watchers[a] \in Registrations
  BY DEF IsWatched
<1> QED
  BY <1>1 DEF RoundType, RoundOf, Restrict

LEMMA WritingKeepsType ==
    ASSUME TypeOK, Writing
    PROVE  TypeOK'
<1>1. PICK document \in Documents, newHistory \in Histories, hasUpdatedSchedule \in BOOLEAN :
          Lands(document, newHistory, hasUpdatedSchedule)
  BY DEF Writing
<1>2. RoundType(RoundOf(document, hasUpdatedSchedule))
  BY RoundOfType DEF TypeOK
<1>3. rounds' = <<RoundOf(document, hasUpdatedSchedule)>>
  BY <1>1 DEF Writing, Lands
<1>4. rounds' = <<Round'>> /\ Round' = RoundOf(document, hasUpdatedSchedule)
  BY <1>3 DEF Round
<1>5. RoundType(Round')
  BY <1>2, <1>4
<1>6. RoundType(Round)'
  BY <1>5 DEF RoundType
<1> QED
  BY <1>1, <1>4, <1>6 DEF TypeOK, Writing, Lands

(* A step of the round leaves one round, or a part of it. *)
LEMMA RoundIsType ==
    ASSUME TypeOK, rounds # <<>>, NEW round, RoundType(round), RoundIs(round)
    PROVE  rounds' = <<round>> /\ rounds' # <<>> /\ Round' = round /\ RoundType(Round)'
<1>1. rounds = <<Round>>
  BY DEF TypeOK
<1>2. rounds' = <<round>>
  BY <1>1 DEF RoundIs
<1>3. Round' = round
  BY <1>2 DEF Round
<1> QED
  BY <1>2, <1>3 DEF RoundType

LEMMA RestShrinks ==
    ASSUME TypeOK, rounds # <<>>, NEW a
    PROVE  /\ DOMAIN Without(a) = DOMAIN Round.waiting \ {a}
           /\ \A b \in DOMAIN Without(a) : Without(a)[b] = Round.waiting[b]
BY DEF Without, Restrict

LEMMA CallsKeepType ==
    ASSUME TypeOK, NEW a \in Agents, AgentReads(a) \/ Watch(a) \/ Unwatch(a)
    PROVE  TypeOK'
<1>1. ASSUME rounds' = NoLongerSame(a)
      PROVE  (rounds # <<>> => rounds = <<Round>> /\ RoundType(Round))'
  <2> SUFFICES ASSUME rounds' # <<>> PROVE rounds' = <<Round'>> /\ RoundType(Round)'
    OBVIOUS
  <2>1. rounds # <<>>
    BY <1>1 DEF NoLongerSame
  <2>2. rounds = <<Round>> /\ RoundType(Round)
    BY <2>1 DEF TypeOK
  <2>3. rounds' = <<[Round EXCEPT !.same = @ \ {a}]>>
    <3> DEFINE round == Round
    <3>1. NoLongerSame(a) = [i \in {1} |-> [round EXCEPT !.same = @ \ {a}]]
      <4>1. DOMAIN rounds = {1} /\ rounds[1] = round
        BY <2>2
      <4> QED
        BY <4>1 DEF NoLongerSame
    <3> HIDE DEF round
    <3>2. \A x : [i \in {1} |-> x] = <<x>>
      OBVIOUS
    <3> QED
      BY <1>1, <3>1, <3>2 DEF round
  <2>4. Round' = [Round EXCEPT !.same = @ \ {a}]
    BY <2>3 DEF Round
  <2> QED
    BY <2>2, <2>3, <2>4 DEF RoundType
<1>2. CASE AgentReads(a)
  BY <1>2 DEF AgentReads, TypeOK, Round, RoundType
<1>3. held.stamp.scheduleUpdatedAt \in Instants /\ ScheduleOf(held) \in Schedules
  BY DEF TypeOK, Documents, Stamps, ScheduleOf, Schedules
<1>4. CASE Watch(a)
  <2>1. PICK receiver \in Receivers :
            /\ watchers' = [watchers EXCEPT ![a] = [mark |-> held.stamp.scheduleUpdatedAt,
                                                    receiver |-> receiver]]
            /\ asked' = [asked EXCEPT ![a] = receiver]
    BY <1>4 DEF Watch
  <2>2. watchers' \in [Agents -> Registrations \cup {NotWatching}]
    BY <1>3, <2>1 DEF TypeOK, Registrations
  <2> QED
    BY <1>1, <1>3, <1>4, <2>1, <2>2 DEF Watch, TypeOK
<1>5. CASE Unwatch(a)
  BY <1>1, <1>5 DEF Unwatch, TypeOK
<1> QED
  BY <1>2, <1>4, <1>5

LEMMA RoundKeepsType ==
    ASSUME TypeOK, NEW a \in Agents,
           SkipWatcher(a) \/ CallWatcher(a) \/ WatcherReturns(a) \/ WatcherThrows(a)
    PROVE  TypeOK'
<1>1. rounds # <<>> /\ a \in DOMAIN Round.waiting
  BY AbsenceAssumption, WritersAssumption
  DEF SkipWatcher, CallWatcher, ComesTo, WatcherReturns, WatcherThrows, IsCalling, TypeOK, RoundType
<1>2. RoundType(Round) /\ Round.waiting[a] \in Registrations /\ Round.document \in Documents
  BY <1>1 DEF TypeOK, RoundType
<1> DEFINE waiting == Without(a)
<1>w. /\ DOMAIN waiting = DOMAIN Round.waiting \ {a}
      /\ DOMAIN waiting \subseteq Agents
      /\ \A b \in DOMAIN waiting : waiting[b] \in Registrations
  BY <1>1, <1>2, RestShrinks DEF RoundType
<1> HIDE DEF waiting
<1>3. RoundType([Round EXCEPT !.waiting = waiting, !.calling = Nobody])
  BY <1>2, <1>w DEF RoundType
<1>4. CASE SkipWatcher(a)
  <2>1. Round.calling = Nobody
    BY <1>4 DEF SkipWatcher, ComesTo
  <2>2. RoundType([Round EXCEPT !.waiting = waiting])
    BY <1>2, <1>w, <2>1 DEF RoundType
  <2> QED
    BY <1>1, <1>4, <2>2, RoundIsType DEF SkipWatcher, TypeOK, waiting
<1>5. CASE CallWatcher(a)
  <2>1. RoundType([Round EXCEPT !.calling = a])
    BY <1>1, <1>2 DEF RoundType
  <2> QED
    BY <1>1, <1>5, <2>1, RoundIsType DEF CallWatcher, TypeOK
<1>6. CASE WatcherReturns(a)
  <2>1. RoundType([Round EXCEPT !.waiting = waiting, !.same = @ \ {a}, !.calling = Nobody])
    BY <1>2, <1>w DEF RoundType
  <2>2. Round.document.stamp.scheduleUpdatedAt \in Instants
        /\ ScheduleOf(Round.document) \in Schedules
    BY <1>2 DEF Documents, Stamps, ScheduleOf, Schedules
  <2>3. MarkAdvances(a) \in [Agents -> Registrations \cup {NotWatching}]
    BY <1>2, <2>2 DEF MarkAdvances, TypeOK, Registrations
  <2> QED
    BY <1>1, <1>6, <2>1, <2>2, <2>3, RoundIsType DEF WatcherReturns, TypeOK, waiting
<1>7. CASE WatcherThrows(a)
  BY <1>1, <1>3, <1>7, RoundIsType DEF WatcherThrows, TypeOK, waiting
<1> QED
  BY <1>4, <1>5, <1>6, <1>7

LEMMA RoundEndsType ==
    ASSUME TypeOK, RoundEnds
    PROVE  TypeOK' /\ rounds' = <<>>
<1>0. rounds = <<Round>>
  BY DEF RoundEnds, TypeOK
<1>1. rounds' = <<>>
  <2>1. rounds' = Tail(<<Round>>)
    BY <1>0 DEF RoundEnds
  <2> HIDE DEF Round
  <2> QED
    BY <2>1
<1> QED
  BY <1>1 DEF RoundEnds, TypeOK

LEMMA InitType ==
    ASSUME Init
    PROVE  TypeOK
<1>1. Other \in Authors /\ 0 \in 0 .. MaxEdit
  BY BoundsAssumption DEF Authors
<1>2. held \in Documents
  BY <1>1 DEF Init, Documents, Stamps
<1>3. ScheduleOf(held) \in Schedules /\ held.stamp.scheduleUpdatedAt \in Instants
  BY <1>2 DEF ScheduleOf, Schedules, Documents, Stamps
<1>4. history \in Histories
  BY DEF Init, emptyHistory, Histories
<1> QED
  BY <1>2, <1>3, <1>4, BoundsAssumption DEF Init, TypeOK

LEMMA StutterType ==
    ASSUME TypeOK, UNCHANGED vars
    PROVE  TypeOK'
BY DEF TypeOK, vars, Round, RoundType

LEMMA NextKeepsType ==
    ASSUME TypeOK, [Next]_vars
    PROVE  TypeOK'
BY StepsOfNext, WritingKeepsType, CallsKeepType, RoundKeepsType, RoundEndsType, StutterType

(* The held document, its history, the registrations and the rounds keep their *)
(* types, and no round is ever opened inside another one: a callback that      *)
(* writes is refused (document-change-plan.ts, WS-2).                         *)
THEOREM TypeCorrect == Spec => []TypeOK
<1>1. Init => TypeOK
  BY InitType
<1>2. TypeOK /\ [Next]_vars => TypeOK'
  BY NextKeepsType
<1> QED
  BY <1>1, <1>2, PTL DEF Spec

-----------------------------------------------------------------------------
(* The round of notices *)

Instant == held.stamp.scheduleUpdatedAt

(* What the mark, the receiver and the history of a watcher agree on. *)
MarkAgrees(a) ==
    IF asked[a] = 0 THEN watchers[a] = NotWatching
    ELSE /\ watchers[a] \in Registrations
         /\ watchers[a].receiver = asked[a]
         /\ watchers[a].mark = handed[a]

Told(a) == \/ handed[a] = Instant
           \/ held.stamp.lastEditedBy = a
           \/ a \in silent

(* Within a round: a registration the round still holds is the one in force,    *)
(* another one was put in from the document held, and a watcher the round has   *)
(* passed was told.                                                           *)
RoundAgrees(a) ==
    /\ Round.document = held
    /\ a \in Round.same /\ a \in DOMAIN Round.waiting => watchers[a] = Round.waiting[a]
    /\ IsWatched(a) /\ a \notin Round.same => watchers[a].mark = Instant
    /\ IsWatched(a) /\ a \notin DOMAIN Round.waiting => Told(a)

DeliveryInv ==
    /\ \A a \in Agents : MarkAgrees(a)
    /\ rounds # <<>> => \A a \in Agents : RoundAgrees(a)
    /\ rounds = <<>> => \A a \in Agents : IsWatched(a) => Told(a)
    /\ rounds # <<>> => Round.document = held

LEMMA WritingDelivers ==
    ASSUME TypeOK, DeliveryInv, Writing
    PROVE  DeliveryInv'
<1>1. PICK document \in Documents, newHistory \in Histories, hasUpdatedSchedule \in BOOLEAN :
          Lands(document, newHistory, hasUpdatedSchedule)
  BY DEF Writing
<1>2. rounds' = <<RoundOf(document, hasUpdatedSchedule)>>
  BY <1>1 DEF Writing, Lands
<1>3. rounds' # <<>> /\ Round' = RoundOf(document, hasUpdatedSchedule)
  BY <1>2 DEF Round
<1>4. held' = document /\ watchers' = watchers /\ handed' = handed /\ asked' = asked
  BY <1>1 DEF Lands
<1>5. ASSUME NEW a \in Agents PROVE RoundAgrees(a)'
  <2>1. /\ Round'.document = document
        /\ DOMAIN Round'.waiting = {b \in Agents : IsWatched(b)}
        /\ \A b \in DOMAIN Round'.waiting : Round'.waiting[b] = watchers[b]
        /\ Round'.same = {b \in Agents : IsWatched(b)}
    BY <1>3 DEF RoundOf, Restrict
  <2> QED
    BY <1>4, <2>1 DEF RoundAgrees, IsWatched
<1>6. ASSUME NEW a \in Agents PROVE MarkAgrees(a)'
  BY <1>4 DEF DeliveryInv, MarkAgrees
<1>7. Round'.document = held'
  BY <1>3, <1>4 DEF RoundOf
<1> QED
  BY <1>3, <1>5, <1>6, <1>7 DEF DeliveryInv

(* A registration put in, or taken out, leaves the rest of the round. *)
LEMMA NoLongerSameRound ==
    ASSUME TypeOK, NEW a \in Agents, rounds' = NoLongerSame(a)
    PROVE  /\ rounds' = <<>> <=> rounds = <<>>
           /\ rounds # <<>> => /\ Round'.document = Round.document
                              /\ Round'.waiting = Round.waiting
                              /\ Round'.same = Round.same \ {a}
<1>1. CASE rounds = <<>>
  BY <1>1 DEF NoLongerSame
<1>2. CASE rounds # <<>>
  <2>1. rounds = <<Round>> /\ RoundType(Round)
    BY <1>2 DEF TypeOK
  <2> DEFINE round == Round
  <2>2. DOMAIN rounds = {1} /\ rounds[1] = round
    BY <2>1
  <2>3. NoLongerSame(a) = [i \in {1} |-> [round EXCEPT !.same = @ \ {a}]]
    BY <2>2 DEF NoLongerSame
  <2>4. \A x : [i \in {1} |-> x] = <<x>>
    OBVIOUS
  <2>5. RoundType(round)
    BY <2>1
  <2> HIDE DEF round
  <2>6. rounds' = <<[round EXCEPT !.same = @ \ {a}]>>
    BY <2>3, <2>4
  <2>7. Round' = [round EXCEPT !.same = @ \ {a}]
    BY <2>6 DEF Round
  <2>8. /\ Round'.document = round.document
        /\ Round'.waiting = round.waiting
        /\ Round'.same = round.same \ {a}
    BY <2>5, <2>7 DEF RoundType
  <2> QED
    BY <1>2, <2>6, <2>8 DEF round
<1> QED
  BY <1>1, <1>2

LEMMA CallsDeliver ==
    ASSUME TypeOK, DeliveryInv, NEW a \in Agents, AgentReads(a) \/ Watch(a) \/ Unwatch(a)
    PROVE  DeliveryInv'
<1>1. CASE AgentReads(a)
  BY <1>1 DEF AgentReads, DeliveryInv, MarkAgrees, RoundAgrees, Told, Instant, IsWatched, Round
<1>2. CASE Watch(a)
  <2>1. PICK receiver \in Receivers :
            /\ watchers' = [watchers EXCEPT ![a] = [mark |-> Instant, receiver |-> receiver]]
            /\ asked' = [asked EXCEPT ![a] = receiver]
    BY <1>2 DEF Watch, Instant
  <2>2. /\ handed' = [handed EXCEPT ![a] = Instant]
        /\ held' = held /\ silent' = silent /\ rounds' = NoLongerSame(a)
    BY <1>2 DEF Watch, Instant
  <2>3. /\ watchers'[a] = [mark |-> Instant, receiver |-> receiver]
        /\ asked'[a] = receiver /\ handed'[a] = Instant
        /\ \A b \in Agents \ {a} : /\ watchers'[b] = watchers[b]
                                   /\ asked'[b] = asked[b] /\ handed'[b] = handed[b]
    BY <2>1, <2>2 DEF TypeOK
  <2>4. [mark |-> Instant, receiver |-> receiver] \in Registrations /\ receiver # 0
    BY DEF Registrations, Instant, TypeOK, Documents, Stamps, Receivers
  <2>5. ASSUME NEW b \in Agents PROVE MarkAgrees(b)'
    BY <2>3, <2>4 DEF DeliveryInv, MarkAgrees
  <2>6. ASSUME rounds # <<>>, NEW b \in Agents PROVE RoundAgrees(b)'
    BY <2>2, <2>3, <2>6, NoLongerSameRound DEF DeliveryInv, RoundAgrees, Told, Instant, IsWatched
  <2>7. ASSUME rounds = <<>>, NEW b \in Agents, IsWatched(b)' PROVE Told(b)'
    BY <2>2, <2>3, <2>7 DEF DeliveryInv, Told, Instant, IsWatched
  <2> QED
    BY <2>2, <2>5, <2>6, <2>7, NoLongerSameRound DEF DeliveryInv
<1>3. CASE Unwatch(a)
  <2>1. /\ watchers' = [watchers EXCEPT ![a] = NotWatching]
        /\ asked' = [asked EXCEPT ![a] = 0]
        /\ handed' = handed /\ held' = held /\ silent' = silent /\ rounds' = NoLongerSame(a)
    BY <1>3 DEF Unwatch
  <2>2. /\ watchers'[a] = NotWatching /\ asked'[a] = 0
        /\ \A b \in Agents \ {a} : watchers'[b] = watchers[b] /\ asked'[b] = asked[b]
    BY <2>1 DEF TypeOK
  <2>3. ASSUME NEW b \in Agents PROVE MarkAgrees(b)'
    BY <2>1, <2>2 DEF DeliveryInv, MarkAgrees
  <2>4. ASSUME rounds # <<>>, NEW b \in Agents PROVE RoundAgrees(b)'
    BY <2>1, <2>2, <2>4, NoLongerSameRound DEF DeliveryInv, RoundAgrees, Told, Instant, IsWatched
  <2>5. ASSUME rounds = <<>>, NEW b \in Agents, IsWatched(b)' PROVE Told(b)'
    BY <2>1, <2>2, <2>5 DEF DeliveryInv, Told, Instant, IsWatched
  <2> QED
    BY <2>1, <2>3, <2>4, <2>5, NoLongerSameRound DEF DeliveryInv
<1> QED
  BY <1>1, <1>2, <1>3

(* What each step of the round does to it. *)
LEMMA RoundEffect ==
    ASSUME TypeOK, NEW a \in Agents,
           SkipWatcher(a) \/ CallWatcher(a) \/ WatcherReturns(a) \/ WatcherThrows(a)
    PROVE  /\ rounds # <<>> /\ rounds' # <<>>
           /\ a \in DOMAIN Round.waiting
           /\ Round'.document = Round.document
           /\ CallWatcher(a) => Round'.waiting = Round.waiting
           /\ SkipWatcher(a) \/ WatcherReturns(a) \/ WatcherThrows(a) =>
                  /\ DOMAIN Round'.waiting = DOMAIN Round.waiting \ {a}
                  /\ \A b \in DOMAIN Round'.waiting : Round'.waiting[b] = Round.waiting[b]
           /\ WatcherReturns(a) => Round'.same = Round.same \ {a}
           /\ SkipWatcher(a) \/ CallWatcher(a) \/ WatcherThrows(a) => Round'.same = Round.same
<1>1. rounds # <<>> /\ a \in DOMAIN Round.waiting
  BY AbsenceAssumption, WritersAssumption
  DEF SkipWatcher, CallWatcher, ComesTo, WatcherReturns, WatcherThrows, IsCalling, TypeOK, RoundType
<1>2. RoundType(Round)
  BY <1>1 DEF TypeOK
<1> DEFINE waiting == Without(a)
<1>3. /\ DOMAIN waiting = DOMAIN Round.waiting \ {a}
      /\ \A b \in DOMAIN waiting : waiting[b] = Round.waiting[b]
  BY <1>1, RestShrinks
<1> DEFINE Effect(round) ==
        /\ rounds' # <<>> /\ Round' = round /\ round.document = Round.document
<1>4. ASSUME NEW round, RoundIs(round) PROVE rounds' # <<>> /\ Round' = round
  <2>1. rounds' = <<round>> \o Tail(rounds) /\ rounds = <<Round>>
    BY <1>1, <1>4 DEF RoundIs, TypeOK
  <2>2. rounds' = <<round>>
    BY <2>1
  <2> QED
    BY <2>2 DEF Round
<1> HIDE DEF waiting
<1>5. ASSUME SkipWatcher(a)
      PROVE  /\ Effect(Round') /\ Round'.waiting = waiting /\ Round'.same = Round.same
  <2>1. Effect([Round EXCEPT !.waiting = waiting])
    BY <1>2, <1>4, <1>5 DEF SkipWatcher, RoundType, waiting
  <2> QED
    BY <1>2, <2>1 DEF RoundType
<1>6. ASSUME CallWatcher(a)
      PROVE  /\ Effect(Round') /\ Round'.waiting = Round.waiting /\ Round'.same = Round.same
  <2>1. Effect([Round EXCEPT !.calling = a])
    BY <1>2, <1>4, <1>6 DEF CallWatcher, RoundType
  <2> QED
    BY <1>2, <2>1 DEF RoundType
<1>7. ASSUME WatcherReturns(a)
      PROVE  /\ Effect(Round') /\ Round'.waiting = waiting /\ Round'.same = Round.same \ {a}
  <2>1. Effect([Round EXCEPT !.waiting = waiting, !.same = @ \ {a}, !.calling = Nobody])
    BY <1>2, <1>4, <1>7 DEF WatcherReturns, RoundType, waiting
  <2> QED
    BY <1>2, <2>1 DEF RoundType
<1>8. ASSUME WatcherThrows(a)
      PROVE  /\ Effect(Round') /\ Round'.waiting = waiting /\ Round'.same = Round.same
  <2>1. Effect([Round EXCEPT !.waiting = waiting, !.calling = Nobody])
    BY <1>2, <1>4, <1>8 DEF WatcherThrows, RoundType, waiting
  <2> QED
    BY <1>2, <2>1 DEF RoundType
<1> QED
  BY <1>1, <1>3, <1>5, <1>6, <1>7, <1>8

LEMMA RoundDelivers ==
    ASSUME TypeOK, DeliveryInv, NEW a \in Agents,
           SkipWatcher(a) \/ CallWatcher(a) \/ WatcherReturns(a) \/ WatcherThrows(a)
    PROVE  DeliveryInv'
<1>1. rounds # <<>> /\ rounds' # <<>> /\ Round'.document = Round.document
  BY RoundEffect
<1>2. a \in DOMAIN Round.waiting /\ Round.waiting[a] \in Registrations
  BY <1>1, RoundEffect DEF TypeOK, RoundType
<1>3. /\ \A b \in Agents : RoundAgrees(b) /\ MarkAgrees(b)
      /\ Round.document = held
  BY <1>1 DEF DeliveryInv
<1>4. held' = held /\ asked' = asked
  BY DEF SkipWatcher, CallWatcher, WatcherReturns, WatcherThrows
<1>5. CASE SkipWatcher(a)
  <2>1. /\ watchers' = watchers /\ handed' = handed /\ silent' = silent
        /\ Round.waiting[a].mark = Instant \/ held.stamp.lastEditedBy = a
    BY <1>3, <1>5 DEF SkipWatcher, HasNotice, Instant
  <2>2. IsWatched(a) => Told(a)
    BY <1>2, <1>3, <2>1 DEF RoundAgrees, MarkAgrees, Told, IsWatched
  <2>3. ASSUME NEW b \in Agents PROVE MarkAgrees(b)'
    BY <1>3, <1>4, <2>1 DEF MarkAgrees
  <2>4. ASSUME NEW b \in Agents PROVE RoundAgrees(b)'
    BY <1>1, <1>3, <1>4, <1>5, <2>1, <2>2, RoundEffect DEF RoundAgrees, Told, Instant, IsWatched
  <2> QED
    BY <1>1, <1>3, <1>4, <2>3, <2>4 DEF DeliveryInv
<1>6. CASE CallWatcher(a)
  <2>1. watchers' = watchers /\ handed' = handed /\ silent' = silent
    BY <1>6 DEF CallWatcher
  <2>2. ASSUME NEW b \in Agents PROVE MarkAgrees(b)'
    BY <1>3, <1>4, <2>1 DEF MarkAgrees
  <2>3. ASSUME NEW b \in Agents PROVE RoundAgrees(b)'
    BY <1>1, <1>3, <1>4, <1>6, <2>1, RoundEffect DEF RoundAgrees, Told, Instant, IsWatched
  <2> QED
    BY <1>1, <1>3, <1>4, <2>2, <2>3 DEF DeliveryInv
<1>7. CASE WatcherReturns(a)
  <2>1. /\ watchers' = MarkAdvances(a) /\ silent' = silent
        /\ handed' = [handed EXCEPT ![a] = Instant]
    BY <1>3, <1>7 DEF WatcherReturns, Instant
  <2>2. /\ handed'[a] = Instant
        /\ \A b \in Agents \ {a} : handed'[b] = handed[b] /\ watchers'[b] = watchers[b]
    BY <2>1 DEF MarkAdvances, TypeOK
  <2>3. MarkAgrees(a)'
    <3>1. CASE a \in Round.same
      <4>1. watchers'[a] = [Round.waiting[a] EXCEPT !.mark = Instant]
        BY <1>3, <2>1, <3>1 DEF MarkAdvances, TypeOK, Instant
      <4>2. watchers[a] = Round.waiting[a]
        BY <1>2, <1>3, <3>1 DEF RoundAgrees
      <4>3. watchers[a] # NotWatching
        BY <1>2, <4>2, AbsenceAssumption
      <4>4. asked[a] # 0 /\ watchers[a].receiver = asked[a]
        BY <1>3, <4>3 DEF MarkAgrees
      <4>5. watchers'[a] \in Registrations /\ watchers'[a].receiver = asked[a]
            /\ watchers'[a].mark = Instant
        BY <1>2, <4>1, <4>2, <4>4 DEF Registrations, TypeOK, Instant, Documents, Stamps
      <4> QED
        BY <1>4, <2>2, <4>4, <4>5 DEF MarkAgrees
    <3>2. CASE a \notin Round.same
      <4>1. watchers' = watchers
        BY <2>1, <3>2 DEF MarkAdvances
      <4>2. IsWatched(a) => watchers[a].mark = Instant
        BY <1>3, <3>2 DEF RoundAgrees
      <4> QED
        BY <1>3, <1>4, <2>2, <4>1, <4>2, AbsenceAssumption DEF MarkAgrees, IsWatched
    <3> QED
      BY <3>1, <3>2
  <2>4. ASSUME NEW b \in Agents PROVE MarkAgrees(b)'
    BY <1>3, <1>4, <2>2, <2>3 DEF MarkAgrees
  <2>5. RoundAgrees(a)'
    <3>1. Told(a)'
      BY <1>4, <2>2 DEF Told, Instant
    <3>2. IsWatched(a)' => watchers'[a].mark = Instant
      BY <1>4, <2>2, <2>3 DEF MarkAgrees, IsWatched
    <3> QED
      BY <1>1, <1>3, <1>4, <1>7, <3>1, <3>2, RoundEffect DEF RoundAgrees, Instant
  <2>6. ASSUME NEW b \in Agents \ {a} PROVE RoundAgrees(b)'
    BY <1>1, <1>3, <1>4, <1>7, <2>1, <2>2, RoundEffect DEF RoundAgrees, Told, Instant, IsWatched
  <2> QED
    BY <1>1, <1>3, <1>4, <2>4, <2>5, <2>6 DEF DeliveryInv
<1>8. CASE WatcherThrows(a)
  <2>1. watchers' = watchers /\ handed' = handed /\ silent' = silent \cup {a}
    BY <1>8 DEF WatcherThrows
  <2>2. ASSUME NEW b \in Agents PROVE MarkAgrees(b)'
    BY <1>3, <1>4, <2>1 DEF MarkAgrees
  <2>3. ASSUME NEW b \in Agents PROVE RoundAgrees(b)'
    BY <1>1, <1>3, <1>4, <1>8, <2>1, RoundEffect DEF RoundAgrees, Told, Instant, IsWatched
  <2> QED
    BY <1>1, <1>3, <1>4, <2>2, <2>3 DEF DeliveryInv
<1> QED
  BY <1>5, <1>6, <1>7, <1>8

LEMMA RoundEndsDelivers ==
    ASSUME TypeOK, DeliveryInv, RoundEnds
    PROVE  DeliveryInv'
<1>1. rounds # <<>> /\ rounds' = <<>> /\ DOMAIN Round.waiting = {}
  BY RoundEndsType DEF RoundEnds
<1>2. \A a \in Agents : RoundAgrees(a) /\ MarkAgrees(a)
  BY <1>1 DEF DeliveryInv
<1>3. /\ held' = held /\ watchers' = watchers /\ handed' = handed
      /\ silent' = silent /\ asked' = asked
  BY DEF RoundEnds
<1>4. ASSUME NEW a \in Agents PROVE MarkAgrees(a)' /\ (IsWatched(a) => Told(a))'
  BY <1>1, <1>2, <1>3 DEF MarkAgrees, RoundAgrees, Told, Instant, IsWatched
<1> QED
  BY <1>1, <1>4 DEF DeliveryInv

LEMMA InitDelivers ==
    ASSUME Init
    PROVE  DeliveryInv
<1>1. \A a \in Agents : asked[a] = 0 /\ watchers[a] = NotWatching
  BY DEF Init
<1> QED
  BY <1>1 DEF Init, DeliveryInv, MarkAgrees, IsWatched

LEMMA NextDelivers ==
    ASSUME TypeOK, DeliveryInv, [Next]_vars
    PROVE  DeliveryInv'
<1>1. CASE UNCHANGED vars
  BY <1>1 DEF vars, DeliveryInv, MarkAgrees, RoundAgrees, Told, Instant, IsWatched, Round
<1> QED
  BY <1>1, StepsOfNext, WritingDelivers, CallsDeliver, RoundDelivers, RoundEndsDelivers

(* The strengthening from which the next three follow: outside a round every       *)
(* watcher's mark agrees with the held document, and inside one the watchers       *)
(* still to be called are the ones it lags behind for (notifyWatchers).          *)
THEOREM DeliveryInvariant == Spec => [](TypeOK /\ DeliveryInv)
<1>1. Init => TypeOK /\ DeliveryInv
  BY InitType, InitDelivers
<1>2. TypeOK /\ DeliveryInv /\ [Next]_vars => (TypeOK /\ DeliveryInv)'
  BY NextKeepsType, NextDelivers
<1> QED
  BY <1>1, <1>2, PTL DEF Spec

(* No undo, replacement, late registration, throw or write from inside a        *)
(* callback leaves a watcher without the schedule of the document held.        *)
THEOREM NobodyIsLeftBehind == Spec => []NoWatcherLeftBehind
<1>1. DeliveryInv => NoWatcherLeftBehind
  BY DEF DeliveryInv, NoWatcherLeftBehind, Told, Instant
<1> QED
  BY <1>1, DeliveryInvariant, PTL

(* The registration in force is the one asked for last: a round writes no       *)
(* registration back that its watcher has replaced or taken out.              *)
THEOREM RegistrationsAreAsked == Spec => []WatchedAsAsked
<1>1. DeliveryInv => WatchedAsAsked
  BY AbsenceAssumption DEF DeliveryInv, WatchedAsAsked, MarkAgrees, IsWatched
<1> QED
  BY <1>1, DeliveryInvariant, PTL

(* A notice names the document its watcher would read back.                  *)
THEOREM NoticesNameHeld == Spec => []NoticeNamesHeld
<1>1. TypeOK /\ DeliveryInv => NoticeNamesHeld
  <2> SUFFICES ASSUME TypeOK, DeliveryInv, NEW i \in 1 .. Len(rounds)
               PROVE  rounds[i].document = held
    BY DEF NoticeNamesHeld
  <2>1. rounds = <<Round>> /\ Round.document = held
    BY DEF TypeOK, DeliveryInv
  <2> HIDE DEF Round
  <2>2. Len(rounds) = 1 /\ i = 1 /\ rounds[i] = Round
    BY <2>1
  <2> QED
    BY <2>1, <2>2
<1> QED
  BY <1>1, DeliveryInvariant, PTL

-----------------------------------------------------------------------------
(* The owners of the steps *)

(* A write joins the line: the new step leads from the document it was made of   *)
(* to the new one, and the older steps that are left stay as they were.        *)
LEMMA EditKeepsOwners ==
    ASSUME TypeOK, StepsAreOwned,
           NEW writer \in Writers, NEW group, NEW at,
           held' = Edited(group, writer, at),
           history' = historyWithStep(StepBy(writer))
    PROVE  StepsAreOwned'
<1> DEFINE n == Len(history.done)
           all == Append(history.done, StepBy(writer))
<1>1. history.done \in Seq(Steps) /\ n \in Nat
  BY DEF TypeOK, Histories
<1>2. StepBy(writer) \in Steps
  BY StepByType DEF TypeOK
<1>3. PICK i \in 1 .. n + 2 :
          history' = [done |-> SubSeq(all, i, n + 1), undone |-> <<>>]
  BY <1>1, <1>2, HistoryIsCut
<1>4. /\ all \in Seq(Steps) /\ Len(all) = n + 1
      /\ \A k \in 1 .. n : all[k] = history.done[k]
      /\ all[n + 1] = StepBy(writer)
  BY <1>1, <1>2
<1> HIDE DEF all
<1>5. /\ history'.done = SubSeq(all, i, n + 1) /\ history'.undone = <<>>
      /\ Len(history'.done) = n + 2 - i
      /\ \A k \in 1 .. n + 2 - i : history'.done[k] = all[k + i - 1]
  BY <1>1, <1>3, <1>4
<1>6. ASSUME NEW k \in DOMAIN history'.done
      PROVE  IsEditOf(history'.done[k].editedBy, history'.done[k].document, After(k)')
  <2> DEFINE m == k + i - 1
  <2>1. k \in 1 .. n + 2 - i /\ m \in 1 .. n + 1 /\ history'.done[k] = all[m]
    BY <1>1, <1>3, <1>5
  <2>2. CASE m = n + 1
    <3>1. After(k)' = Edited(group, writer, at)
      <4>1. ~ (k < Len(history'.done))
        <5>1. i \in Nat /\ k \in Nat /\ k + i - 1 = n + 1
          BY <1>1, <2>1, <2>2
        <5>2. Len(history'.done) = n + 2 - i
          BY <1>5
        <5> HIDE DEF n, m
        <5> QED
          BY <1>1, <5>1, <5>2
      <4> QED
        BY <4>1 DEF After
    <3>2. all[m].editedBy = writer /\ all[m].document = held
      BY <1>4, <2>2 DEF StepBy
    <3> QED
      BY <2>1, <3>1, <3>2 DEF IsEditOf, Edited
  <2>3. CASE m < n + 1
    <3>0. /\ k < n + 2 - i /\ k + 1 \in 1 .. n + 2 - i /\ (k + 1) + i - 1 = m + 1
          /\ m \in 1 .. n
      <4>1. i \in Nat /\ k \in Nat /\ i >= 1 /\ k >= 1 /\ k + i - 1 < n + 1 /\ n \in Nat
        <5>1. i \in Nat /\ i >= 1
          BY <1>1
        <5>2. k \in Nat /\ k >= 1
          BY <1>1, <2>1, <5>1
        <5> QED
          BY <1>1, <2>3, <5>1, <5>2
      <4> HIDE DEF n
      <4> QED
        BY <4>1
    <3>1. After(k)' = all[m + 1].document
      <4>1. After(k)' = history'.done[k + 1].document
        BY <1>5, <3>0 DEF After
      <4>2. history'.done[k + 1] = all[m + 1]
        BY <1>5, <3>0
      <4> QED
        BY <4>1, <4>2
    <3> HIDE DEF m
    <3>2. all[m + 1].document = After(m)
      <4>1. CASE m < n
        <5>1. m + 1 \in 1 .. n
          BY <1>1, <3>0, <4>1
        <5>2. all[m + 1] = history.done[m + 1]
          BY <1>4, <5>1
        <5> QED
          BY <4>1, <5>2 DEF After
      <4>2. CASE m = n
        BY <1>1, <1>4, <4>2 DEF After, StepBy
      <4> QED
        BY <1>1, <3>0, <4>1, <4>2
    <3>3. m \in DOMAIN history.done /\ all[m] = history.done[m]
      <4>1. DOMAIN history.done = 1 .. n
        BY <1>1
      <4> QED
        BY <1>4, <3>0, <4>1
    <3> QED
      BY <2>1, <3>1, <3>2, <3>3 DEF StepsAreOwned
  <2> QED
    BY <1>1, <2>1, <2>2, <2>3
<1> QED
  BY <1>5, <1>6 DEF StepsAreOwned

(* An undo and a redo move the held document along the line. *)
LEMMA UndoKeepsOwners ==
    ASSUME TypeOK, StepsAreOwned, StepsLeft("RD-1") # <<>>,
           held' = RestoredBy("RD-1"), history' = HistoryMoved("RD-1")
    PROVE  StepsAreOwned'
<1> DEFINE done == history.done
           undone == history.undone
           n == Len(done)
           crossed == LeftBehind(Last(done))
<1>1. done \in Seq(Steps) /\ undone \in Seq(Steps) /\ n \in Nat \ {0}
  BY DEF TypeOK, Histories, StepsLeft
<1>2. Last(done) = done[n] /\ done[n] \in Steps
  BY <1>1 DEF Last
<1>3. crossed \in Steps /\ crossed.document = held /\ crossed.editedBy = done[n].editedBy
  BY <1>2 DEF LeftBehind, Steps, TypeOK
<1>4. held' = done[n].document /\ history' = [done |-> Front(done), undone |-> <<crossed>> \o undone]
  BY <1>2 DEF RestoredBy, HistoryMoved
<1> HIDE DEF crossed
<1>5. /\ Len(history'.done) = n - 1
      /\ \A k \in 1 .. n - 1 : history'.done[k] = done[k]
      /\ DOMAIN history'.done = 1 .. n - 1
  BY <1>1, <1>4 DEF Front
<1>6. /\ DOMAIN history'.undone = 1 .. Len(undone) + 1
      /\ history'.undone[1] = crossed
      /\ \A j \in 2 .. Len(undone) + 1 : history'.undone[j] = undone[j - 1]
  BY <1>1, <1>3, <1>4
<1>7. ASSUME NEW k \in 1 .. n - 1
      PROVE  IsEditOf(history'.done[k].editedBy, history'.done[k].document, After(k)')
  <2>0. After(k) = done[k + 1].document
    BY <1>1 DEF After
  <2>1. After(k)' = After(k)
    <3>1. CASE k < n - 1
      <4>1. k + 1 \in 1 .. n - 1 /\ k < Len(history'.done)
        BY <1>1, <1>5, <3>1
      <4> QED
        BY <1>5, <2>0, <4>1 DEF After
    <3>2. CASE k = n - 1
      <4>1. After(k)' = held'
        BY <1>1, <1>5, <3>2 DEF After
      <4>2. k + 1 = n
        BY <1>1, <3>2
      <4> QED
        BY <1>4, <2>0, <4>1, <4>2
    <3> QED
      BY <1>1, <3>1, <3>2
  <2>2. k \in DOMAIN done
    BY <1>1
  <2> QED
    BY <1>5, <2>1, <2>2 DEF StepsAreOwned
<1>8. ASSUME NEW j \in 1 .. Len(undone) + 1
      PROVE  IsEditOf(history'.undone[j].editedBy, Before(j)', history'.undone[j].document)
  <2>1. CASE j = 1
    <3>1. Before(j)' = done[n].document /\ After(n) = held /\ n \in DOMAIN done
      BY <1>1, <1>4, <2>1 DEF Before, After
    <3> QED
      BY <1>3, <1>6, <2>1, <3>1 DEF StepsAreOwned
  <2>2. CASE j \in 2 .. Len(undone) + 1
    <3>1. Before(j)' = history'.undone[j - 1].document /\ j - 1 \in DOMAIN undone
      BY <1>1, <2>2 DEF Before
    <3>2. history'.undone[j - 1].document = Before(j - 1)
      BY <1>1, <1>3, <1>6, <2>2 DEF Before
    <3> QED
      BY <1>6, <2>2, <3>1, <3>2 DEF StepsAreOwned
  <2> QED
    BY <1>1, <2>1, <2>2
<1> QED
  BY <1>5, <1>6, <1>7, <1>8 DEF StepsAreOwned

LEMMA RedoKeepsOwners ==
    ASSUME TypeOK, StepsAreOwned, StepsLeft("RD-2") # <<>>,
           held' = RestoredBy("RD-2"), history' = HistoryMoved("RD-2")
    PROVE  StepsAreOwned'
<1> DEFINE done == history.done
           undone == history.undone
           n == Len(done)
           crossed == LeftBehind(Head(undone))
<1>1. done \in Seq(Steps) /\ undone \in Seq(Steps) /\ n \in Nat /\ Len(undone) \in Nat \ {0}
  BY DEF TypeOK, Histories, StepsLeft
<1>2. Head(undone) = undone[1] /\ undone[1] \in Steps
  BY <1>1
<1>3. crossed \in Steps /\ crossed.document = held /\ crossed.editedBy = undone[1].editedBy
  BY <1>2 DEF LeftBehind, Steps, TypeOK
<1>4. held' = undone[1].document /\ history' = [done |-> Append(done, crossed), undone |-> Tail(undone)]
  BY <1>2 DEF RestoredBy, HistoryMoved
<1> HIDE DEF crossed
<1>5. /\ Len(history'.done) = n + 1
      /\ DOMAIN history'.done = 1 .. n + 1
      /\ \A k \in 1 .. n : history'.done[k] = done[k]
      /\ history'.done[n + 1] = crossed
  <2>1. history'.done = Append(done, crossed)
    BY <1>4
  <2>2. /\ Append(done, crossed) \in Seq(Steps)
        /\ Len(Append(done, crossed)) = n + 1
        /\ \A k \in 1 .. n : Append(done, crossed)[k] = done[k]
        /\ Append(done, crossed)[n + 1] = crossed
    BY <1>1, <1>3, AppendProperties
  <2>3. DOMAIN Append(done, crossed) = 1 .. n + 1
    BY <2>2
  <2> HIDE DEF n, done
  <2> QED
    BY <2>1, <2>2, <2>3
<1>6. /\ DOMAIN history'.undone = 1 .. Len(undone) - 1
      /\ \A j \in 1 .. Len(undone) - 1 : history'.undone[j] = undone[j + 1]
  <2> DEFINE rest == Tail(undone)
  <2>1. /\ DOMAIN rest = 1 .. Len(undone) - 1
        /\ \A j \in 1 .. Len(undone) - 1 : rest[j] = undone[j + 1]
    <3>1. undone # << >>
      BY <1>1
    <3>2. /\ rest \in Seq(Steps) /\ Len(rest) = Len(undone) - 1
          /\ \A j \in 1 .. Len(rest) : rest[j] = undone[j + 1]
      BY <1>1, <3>1, HeadTailProperties
    <3> QED
      BY <1>1, <3>2
  <2>2. history' = [done |-> Append(done, crossed), undone |-> rest]
    BY <1>4
  <2> HIDE DEF rest
  <2>3. history'.undone = rest
    BY <2>2
  <2> QED
    BY <2>1, <2>3
<1>7. ASSUME NEW k \in 1 .. n + 1
      PROVE  IsEditOf(history'.done[k].editedBy, history'.done[k].document, After(k)')
  <2>1. CASE k = n + 1
    <3>1. After(k)' = undone[1].document /\ Before(1) = held /\ 1 \in DOMAIN undone
      BY <1>1, <1>4, <1>5, <2>1 DEF Before, After
    <3> QED
      BY <1>3, <1>5, <2>1, <3>1 DEF StepsAreOwned
  <2>2. CASE k \in 1 .. n
    <3>0. k < Len(history'.done) /\ k \in DOMAIN done
      BY <1>1, <1>5, <2>2
    <3>1. After(k)' = history'.done[k + 1].document
      BY <3>0 DEF After
    <3>2. history'.done[k + 1].document = After(k)
      <4>1. CASE k < n
        <5>1. k + 1 \in 1 .. n
          BY <1>1, <2>2, <4>1
        <5> QED
          BY <1>5, <4>1, <5>1 DEF After
      <4>2. CASE k = n
        BY <1>1, <1>3, <1>5, <4>2 DEF After
      <4> QED
        BY <1>1, <2>2, <4>1, <4>2
    <3> QED
      BY <1>5, <2>2, <3>0, <3>1, <3>2 DEF StepsAreOwned
  <2> QED
    BY <1>1, <2>1, <2>2
<1>8. ASSUME NEW j \in 1 .. Len(undone) - 1
      PROVE  IsEditOf(history'.undone[j].editedBy, Before(j)', history'.undone[j].document)
  <2>0. Before(j + 1) = undone[j].document
    BY <1>1 DEF Before
  <2>1. Before(j)' = Before(j + 1)
    <3>1. CASE j = 1
      BY <1>4, <2>0, <3>1 DEF Before
    <3>2. CASE j # 1
      <4>1. j - 1 \in 1 .. Len(undone) - 1 /\ (j - 1) + 1 = j
        BY <1>1, <3>2
      <4>2. history'.undone[j - 1] = undone[j]
        BY <1>6, <4>1
      <4> QED
        BY <2>0, <3>2, <4>2 DEF Before
    <3> QED
      BY <3>1, <3>2
  <2>2. j + 1 \in DOMAIN undone
    BY <1>1
  <2> QED
    BY <1>6, <2>1, <2>2 DEF StepsAreOwned
<1> QED
  BY <1>5, <1>6, <1>7, <1>8 DEF StepsAreOwned

LEMMA NextKeepsOwners ==
    ASSUME TypeOK, StepsAreOwned, [Next]_vars
    PROVE  StepsAreOwned'
<1>1. CASE Writing
  <2>1. PICK document, newHistory, hasUpdatedSchedule :
            Writes(document, newHistory, hasUpdatedSchedule)
            /\ Lands(document, newHistory, hasUpdatedSchedule)
    BY <1>1 DEF Writing
  <2>2. held' = document /\ history' = newHistory
    BY <2>1 DEF Lands
  <2>3. ASSUME NEW writer \in Writers, NEW group, NEW at,
               document = Edited(group, writer, at), newHistory = historyWithStep(StepBy(writer))
        PROVE  StepsAreOwned'
    BY <2>2, <2>3, EditKeepsOwners
  <2>4. CASE document = held /\ newHistory = history
    BY <2>2, <2>4 DEF StepsAreOwned, After, Before
  <2>5. ASSUME NEW row \in Rows, StepsLeft(row) # <<>>,
               document = RestoredBy(row), newHistory = HistoryMoved(row)
        PROVE  StepsAreOwned'
    BY <2>2, <2>5, UndoKeepsOwners, RedoKeepsOwners DEF Rows
  <2>6. CASE newHistory = emptyHistory
    BY <2>2, <2>6 DEF StepsAreOwned, emptyHistory
  <2> QED
    BY <2>1, <2>3, <2>4, <2>5, <2>6 DEF Writes
<1>2. CASE held' = held /\ history' = history
  BY <1>2 DEF StepsAreOwned, After, Before
<1>3. CASE UNCHANGED vars
  BY <1>2, <1>3 DEF vars
<1> QED
  BY <1>1, <1>2, <1>3, StepsOfNext
  DEF AgentReads, Watch, Unwatch, SkipWatcher, CallWatcher, WatcherReturns, WatcherThrows, RoundEnds

(* The documents an undo and a redo reach are one line of edits, and each step  *)
(* names the writer of its edit, for every history limit (edit-history.ts,     *)
(* undo-edit.ts, redo-edit.ts).                                              *)
THEOREM OwnersInvariant == Spec => [](TypeOK /\ StepsAreOwned)
<1>1. Init => StepsAreOwned
  BY DEF Init, emptyHistory, StepsAreOwned
<1>2. TypeOK /\ StepsAreOwned /\ [Next]_vars => StepsAreOwned'
  BY NextKeepsOwners
<1> QED
  BY <1>1, <1>2, TypeCorrect, PTL DEF Spec

LEMMA OwnStep ==
    ASSUME TypeOK, StepsAreOwned, NEW a \in Agents
    PROVE  /\ AgentSteps(a, "RD-1") => held.madeBy = a /\ held'.edit = held.madeFrom
           /\ AgentSteps(a, "RD-2") => held'.madeBy = a /\ held'.madeFrom = held.edit
<1>0. history.done \in Seq(Steps) /\ history.undone \in Seq(Steps)
  BY DEF TypeOK, Histories
<1>1. ASSUME AgentSteps(a, "RD-1")
      PROVE  held.madeBy = a /\ held'.edit = held.madeFrom
  <2> DEFINE n == Len(history.done)
  <2>1. /\ history.done # <<>> /\ Last(history.done).editedBy = a
        /\ held' = Last(history.done).document
    BY <1>1 DEF AgentSteps, IsOwnStep, StepsLeft, MovedStep, StepThrough, Lands, RestoredBy
  <2>2. n \in DOMAIN history.done /\ Last(history.done) = history.done[n] /\ After(n) = held
    BY <1>0, <2>1 DEF Last, After
  <2>3. IsEditOf(a, history.done[n].document, held)
    BY <2>1, <2>2 DEF StepsAreOwned
  <2> QED
    BY <2>1, <2>2, <2>3 DEF IsEditOf
<1>2. ASSUME AgentSteps(a, "RD-2")
      PROVE  held'.madeBy = a /\ held'.madeFrom = held.edit
  <2>1. /\ history.undone # <<>> /\ Head(history.undone).editedBy = a
        /\ held' = Head(history.undone).document
    BY <1>2 DEF AgentSteps, IsOwnStep, StepsLeft, MovedStep, StepThrough, Lands, RestoredBy
  <2>2. 1 \in DOMAIN history.undone /\ Head(history.undone) = history.undone[1] /\ Before(1) = held
    BY <1>0, <2>1 DEF Before
  <2>3. IsEditOf(a, held, history.undone[1].document)
    BY <2>1, <2>2 DEF StepsAreOwned
  <2> QED
    BY <2>1, <2>2, <2>3 DEF IsEditOf
<1> QED
  BY <1>1, <1>2

(* An agent takes back, and brings again, its own edits only (AM-9, AM-10).     *)
THEOREM AgentsStepOwnEdits == Spec => OwnStepsOnly
<1>1. TypeOK /\ StepsAreOwned =>
          [\A a \in Agents :
              /\ AgentSteps(a, "RD-1") => held.madeBy = a /\ held'.edit = held.madeFrom
              /\ AgentSteps(a, "RD-2") => held'.madeBy = a /\ held'.madeFrom = held.edit]_vars
  BY OwnStep
<1> QED
  BY <1>1, OwnersInvariant, PTL DEF OwnStepsOnly

-----------------------------------------------------------------------------
(* What a stamp tells *)

(* The stamp a document bears names who made it and the reading of the clock. *)
Tells(document) == /\ document.stamp.lastEditedBy = document.madeBy
                   /\ document.stamp.settingsUpdatedAt = document.madeAt

StampsTell ==
    /\ Tells(held)
    /\ \A i \in DOMAIN history.done : Tells(history.done[i].document)
    /\ \A j \in DOMAIN history.undone : Tells(history.undone[j].document)
    /\ \A a \in Agents : read[a] # NoDocument => Tells(read[a])

LEMMA EditTells ==
    ASSUME TypeOK, StampsTell, NEW writer \in Writers, NEW group, NEW at
    PROVE  /\ Tells(Edited(group, writer, at))
           /\ \A i \in DOMAIN historyWithStep(StepBy(writer)).done :
                  Tells(historyWithStep(StepBy(writer)).done[i].document)
           /\ historyWithStep(StepBy(writer)).undone = <<>>
<1> DEFINE n == Len(history.done)
           all == Append(history.done, StepBy(writer))
<1>1. Tells(Edited(group, writer, at))
  BY DEF Tells, Edited, advancedStamp
<1>2. history.done \in Seq(Steps) /\ n \in Nat /\ StepBy(writer) \in Steps
  BY StepByType DEF TypeOK, Histories
<1>3. PICK i \in 1 .. n + 2 :
          historyWithStep(StepBy(writer)) = [done |-> SubSeq(all, i, n + 1), undone |-> <<>>]
  BY <1>2, HistoryIsCut
<1>4. /\ all \in Seq(Steps) /\ Len(all) = n + 1
      /\ \A k \in 1 .. n : all[k] = history.done[k]
      /\ all[n + 1].document = held
  BY <1>2 DEF StepBy
<1>5. ASSUME NEW k \in 1 .. n + 1 PROVE Tells(all[k].document)
  <2>1. CASE k \in 1 .. n
    BY <1>2, <1>4, <2>1 DEF StampsTell
  <2>2. CASE k = n + 1
    BY <1>4, <2>2 DEF StampsTell
  <2> QED
    BY <1>2, <2>1, <2>2
<1> HIDE DEF all
<1>6. /\ DOMAIN SubSeq(all, i, n + 1) = 1 .. n + 2 - i
      /\ \A k \in 1 .. n + 2 - i : /\ SubSeq(all, i, n + 1)[k] = all[k + i - 1]
                                  /\ k + i - 1 \in 1 .. n + 1
  BY <1>2, <1>4
<1> DEFINE kept == SubSeq(all, i, n + 1)
<1>7. \A k \in DOMAIN kept : Tells(kept[k].document)
  BY <1>5, <1>6
<1> HIDE DEF kept
<1>8. /\ historyWithStep(StepBy(writer)).done = kept
      /\ historyWithStep(StepBy(writer)).undone = <<>>
  BY <1>3 DEF kept
<1> QED
  BY <1>1, <1>7, <1>8

LEMMA MoveTells ==
    ASSUME TypeOK, StampsTell, NEW row \in Rows, StepsLeft(row) # <<>>
    PROVE  /\ Tells(RestoredBy(row))
           /\ \A i \in DOMAIN HistoryMoved(row).done : Tells(HistoryMoved(row).done[i].document)
           /\ \A j \in DOMAIN HistoryMoved(row).undone : Tells(HistoryMoved(row).undone[j].document)
<1> DEFINE done == history.done
           undone == history.undone
<1>0. done \in Seq(Steps) /\ undone \in Seq(Steps)
  BY DEF TypeOK, Histories
<1>1. CASE row = "RD-1"
  <2> DEFINE n == Len(done)
             crossed == LeftBehind(Last(done))
  <2>1. n \in Nat \ {0} /\ Last(done) = done[n] /\ done[n] \in Steps
    BY <1>0, <1>1 DEF StepsLeft, Last
  <2>2. crossed \in Steps /\ crossed.document = held
    BY <2>1 DEF LeftBehind, Steps, TypeOK
  <2>3. HistoryMoved(row) = [done |-> Front(done), undone |-> <<crossed>> \o undone]
        /\ RestoredBy(row) = done[n].document
    BY <1>1, <2>1 DEF HistoryMoved, RestoredBy
  <2> HIDE DEF crossed
  <2>4. /\ DOMAIN Front(done) = 1 .. n - 1
        /\ \A k \in 1 .. n - 1 : Front(done)[k] = done[k]
    BY <1>0, <2>1 DEF Front
  <2>5. /\ DOMAIN (<<crossed>> \o undone) = 1 .. Len(undone) + 1
        /\ (<<crossed>> \o undone)[1] = crossed
        /\ \A j \in 2 .. Len(undone) + 1 : (<<crossed>> \o undone)[j] = undone[j - 1]
                                          /\ j - 1 \in DOMAIN undone
    BY <1>0, <2>2
  <2>6. \A j \in 1 .. Len(undone) + 1 : Tells((<<crossed>> \o undone)[j].document)
    BY <1>0, <2>2, <2>5 DEF StampsTell
  <2>7. \A k \in 1 .. n - 1 : Tells(Front(done)[k].document)
    BY <1>0, <2>1, <2>4 DEF StampsTell
  <2>8. Tells(done[n].document)
    BY <1>0, <2>1 DEF StampsTell
  <2> DEFINE older == Front(done)
             moved == <<crossed>> \o undone
  <2> HIDE DEF older, moved
  <2>9. HistoryMoved(row).done = older /\ HistoryMoved(row).undone = moved
    BY <2>3 DEF older, moved
  <2>10. /\ \A k \in DOMAIN older : Tells(older[k].document)
         /\ \A j \in DOMAIN moved : Tells(moved[j].document)
    BY <2>4, <2>5, <2>6, <2>7 DEF older, moved
  <2> QED
    BY <2>3, <2>8, <2>9, <2>10
<1>2. CASE row = "RD-2"
  <2> DEFINE crossed == LeftBehind(Head(undone))
             rest == Tail(undone)
             m == Len(undone)
             all == Append(done, crossed)
  <2>1. m \in Nat \ {0} /\ Head(undone) = undone[1] /\ undone[1] \in Steps
    BY <1>0, <1>2 DEF StepsLeft
  <2>2. crossed \in Steps /\ crossed.document = held
    BY <2>1 DEF LeftBehind, Steps, TypeOK
  <2>3. HistoryMoved(row) = [done |-> all, undone |-> rest]
        /\ RestoredBy(row) = undone[1].document
    BY <1>2, <2>1 DEF HistoryMoved, RestoredBy
  <2>4. /\ DOMAIN rest = 1 .. m - 1
        /\ \A j \in 1 .. m - 1 : rest[j] = undone[j + 1] /\ j + 1 \in DOMAIN undone
    <3>1. rest = SubSeq(undone, 2, m)
      BY <1>0, <2>1
    <3> HIDE DEF rest
    <3> QED
      BY <1>0, <2>1, <3>1
  <2> HIDE DEF crossed, rest
  <2>5. /\ DOMAIN all = 1 .. Len(done) + 1
        /\ all[Len(done) + 1] = crossed
        /\ \A k \in 1 .. Len(done) : all[k] = done[k] /\ k \in DOMAIN done
    BY <1>0, <2>2
  <2>6. \A k \in 1 .. Len(done) + 1 : Tells(all[k].document)
    BY <1>0, <2>2, <2>5 DEF StampsTell
  <2>7. \A j \in 1 .. m - 1 : Tells(rest[j].document)
    BY <2>4 DEF StampsTell
  <2>8. Tells(undone[1].document)
    BY <1>0, <2>1 DEF StampsTell
  <2> HIDE DEF all
  <2> QED
    BY <2>3, <2>4, <2>5, <2>6, <2>7, <2>8
<1> QED
  BY <1>1, <1>2 DEF Rows

LEMMA NextTells ==
    ASSUME TypeOK, StampsTell, [Next]_vars
    PROVE  StampsTell'
<1>1. CASE Writing
  <2>1. PICK document, newHistory, hasUpdatedSchedule :
            Writes(document, newHistory, hasUpdatedSchedule)
            /\ Lands(document, newHistory, hasUpdatedSchedule)
    BY <1>1 DEF Writing
  <2>2. held' = document /\ history' = newHistory /\ read' = read
    BY <2>1 DEF Lands
  <2>3. ASSUME NEW writer \in Writers, NEW group, NEW at,
               document = Edited(group, writer, at), newHistory = historyWithStep(StepBy(writer))
        PROVE  StampsTell'
    <3>1. /\ Tells(document)
          /\ \A i \in DOMAIN newHistory.done : Tells(newHistory.done[i].document)
          /\ newHistory.undone = <<>>
      BY <2>3, EditTells
    <3> QED
      BY <2>2, <3>1 DEF StampsTell, Tells
  <2>4. CASE document = held /\ newHistory = history
    BY <2>2, <2>4 DEF StampsTell, Tells
  <2>5. ASSUME NEW row \in Rows, StepsLeft(row) # <<>>,
               document = RestoredBy(row), newHistory = HistoryMoved(row)
        PROVE  StampsTell'
    <3>1. /\ Tells(document)
          /\ \A i \in DOMAIN newHistory.done : Tells(newHistory.done[i].document)
          /\ \A j \in DOMAIN newHistory.undone : Tells(newHistory.undone[j].document)
      BY <2>5, MoveTells
    <3> QED
      BY <2>2, <3>1 DEF StampsTell, Tells
  <2>6. ASSUME NEW stamp, document = Arrived(stamp), newHistory = emptyHistory
        PROVE  StampsTell'
    <3>1. Tells(document) /\ newHistory.done = <<>> /\ newHistory.undone = <<>>
      BY <2>6 DEF Arrived, Tells, emptyHistory
    <3> QED
      BY <2>2, <3>1 DEF StampsTell, Tells
  <2> QED
    BY <2>1, <2>3, <2>4, <2>5, <2>6 DEF Writes
<1>2. ASSUME NEW a \in Agents, AgentReads(a) PROVE StampsTell'
  <2>1. held' = held /\ history' = history /\ read' = [read EXCEPT ![a] = held]
    BY <1>2 DEF AgentReads
  <2>2. \A b \in Agents : read'[b] = (IF b = a THEN held ELSE read[b])
    BY <2>1 DEF TypeOK
  <2> QED
    BY <2>1, <2>2 DEF StampsTell, Tells
<1>3. CASE held' = held /\ history' = history /\ read' = read
  BY <1>3 DEF StampsTell, Tells
<1>4. CASE UNCHANGED vars
  BY <1>3, <1>4 DEF vars
<1> QED
  BY <1>1, <1>2, <1>3, <1>4, StepsOfNext
  DEF Watch, Unwatch, SkipWatcher, CallWatcher, WatcherReturns, WatcherThrows, RoundEnds

(* Every document an undo, a redo or a reading reaches bears a stamp that names    *)
(* its writer and the second of its making (document-stamp.ts): what             *)
(* UpdatesAreNotLost needs of the refusal WS-1.                                 *)
THEOREM StampsInvariant == Spec => [](TypeOK /\ StampsTell)
<1>1. Init => StampsTell
  BY DEF Init, emptyHistory, StampsTell, Tells
<1>2. TypeOK /\ StampsTell /\ [Next]_vars => StampsTell'
  BY NextTells
<1> QED
  BY <1>1, <1>2, TypeCorrect, PTL DEF Spec

(* A write an agent makes of what it read lands on the document it read, or on  *)
(* another one of the same writer and second (isStampMatched, AG-2).           *)
THEOREM UpdatesAreNotLost == Spec => NoLostUpdate
<1>1. ASSUME TypeOK, StampsTell, NEW a \in Agents, Declares(a)
      PROVE  \/ read[a].edit = held.edit
             \/ read[a].madeBy = held.madeBy /\ read[a].madeAt = held.madeAt
  <2>1. Tells(read[a]) /\ Tells(held)
    BY <1>1 DEF StampsTell, Declares
  <2> QED
    BY <1>1, <2>1 DEF Declares, isStampMatched, Tells
<1>2. ASSUME NEW a \in Agents,
             (\E group \in Groups : AgentWrites(a, group)) \/ (\E row \in Rows : AgentSteps(a, row))
      PROVE  Declares(a)
  BY <1>2 DEF AgentWrites, AgentSteps
<1>3. TypeOK /\ StampsTell =>
          [\A a \in Agents :
              (\E group \in Groups : AgentWrites(a, group)) \/ (\E row \in Rows : AgentSteps(a, row))
              => \/ read[a].edit = held.edit
                 \/ read[a].madeBy = held.madeBy /\ read[a].madeAt = held.madeAt]_vars
  BY <1>1, <1>2
<1> QED
  BY <1>3, StampsInvariant, PTL DEF NoLostUpdate
=============================================================================
