---------------------------- MODULE ScreenSession ----------------------------
(* What the shell of the screen answers a key and a pointer with, apart from    *)
(* the document: the notices and the waits that end them (notice-values.ts,      *)
(* frame-clock-wakes.ts), the edit in place (field-editing.ts), the ladder of     *)
(* what Esc and Enter take away (screen-state.ts, frame-loop.ts), the chooser of  *)
(* QN-12 (parent-task-hold.ts), and the frame that shows all of it.             *)
(*                                                                           *)
(* Everything runs on the page's one thread. A frame is asked for and comes      *)
(* later (requestAnimationFrame), so what the fields' listeners and the frame     *)
(* loop read of the screen is what the last frame drew. A key press reaches the   *)
(* listeners of the fields first, then the shell.                             *)
(*                                                                           *)
(* A notice is its reason and the number of the telling it was made by, which tells  *)
(* the objects the code compares apart and orders its list: each notice is put at   *)
(* the end when it is told. Its words and its count are left out. How the levels *)
(* below the edit in place come to stand is left to LevelRises. Left out: full      *)
(* screen, the filter inside a window, the answer given in the chooser, a press in  *)
(* the field being edited. The window has its size, and the first frame has run.   *)
EXTENDS Naturals, Sequences, FiniteSets

CONSTANTS
    Reasons,     \* the reasons of T-233 that are shown, at once or for a time
    Timed,       \* those among them that end by themselves
    WordsRow,    \* the row whose words a reason prints
    Levels,      \* the levels of the ladder that may stand, of Ladder
    MaxRaised    \* bound: the notices told, in all

(* IN-4, between the edit in place and the tooltip. *)
Ladder == << "confirmation", "surface", "gesture", "window", "propertiesPanel",
             "armed", "selection", "dualCursorMode" >>

ASSUME ReasonsAssumption ==
    /\ Timed \subseteq Reasons
    /\ WordsRow \in [Reasons -> Reasons]
    /\ \A r \in Timed, s \in Reasons : WordsRow[r] = WordsRow[s] => r = s

ASSUME LevelsAssumption ==
    /\ Levels \subseteq {Ladder[i] : i \in DOMAIN Ladder}
    /\ {"gesture", "propertiesPanel", "selection"} \subseteq Levels

ASSUME BoundAssumption == MaxRaised \in Nat

VARIABLES
    standing,          \* noticeDisplayState.standing
    made,              \* the notices told so far
    waits,             \* waits of noticeTimersOf, for each timed reason
    drawn,             \* the reasons of the boxes the last frame drew
    hovered,           \* partUnderPointer.noticeBoxReasons, of the last pointer input
    owed,              \* a frame was asked for and has not run
    isHintRested,      \* the pointer has rested on a target that has a hint
    isTooltipAllowed,  \* tooltipDisplayState
    isTooltipStanding, \* a tooltip was in the last frame
    open,              \* the levels that stand
    chooser,           \* the choice of QN-12 stands
    field,             \* the field being edited, and what its text is
    commit,            \* a settled text waits in fieldCommit
    keysHeld,          \* the keys now down: Esc, and any other
    isButtonDown       \* the pointer's button is down

vars == << standing, made, waits, drawn, hovered, owed, isHintRested, isTooltipAllowed,
           isTooltipStanding, open, chooser, field, commit, keysHeld, isButtonDown >>

NoField == [at |-> "none", text |-> "asFocused"]
NoWait  == [is |-> "none", held |-> 0]

ReasonsOf(notices) == {one.reason : one \in notices}
Without(notices, r) == {one \in notices : one.reason # r}

RaisedUngathered(notices, r, number) ==    \* mutant: each telling a notice of its own
    notices \cup {[reason |-> r, made |-> number]}

(* onNoticeRaised: a telling of a row that stands is gathered with it, as a new  *)
(* notice that keeps the reason first told.                                   *)
Raised(notices, r, number) ==
    LET same == {one \in notices : WordsRow[one.reason] = WordsRow[r]}
    IN (notices \ same) \cup
       {[reason |-> IF same = {} THEN r ELSE (CHOOSE one \in same : TRUE).reason,
         made |-> number]}

-----------------------------------------------------------------------------
(* Notices, their waits and the frame. *)

RaiseNotice(r) ==
    /\ made < MaxRaised
    /\ made' = made + 1
    /\ standing' = Raised(standing, r, made')
    /\ owed' = TRUE
    /\ UNCHANGED << waits, drawn, hovered, isHintRested, isTooltipAllowed, isTooltipStanding,
                    open, chooser, field, commit, keysHeld, isButtonDown >>

FollowedByReason(notices) ==               \* mutant: a wait begun or called off is kept
    [r \in Timed |->
        LET own == {one \in notices : one.reason = r}
        IN IF own = {} THEN NoWait
           ELSE IF waits[r] # NoWait THEN waits[r]
           ELSE [is   |-> IF r \in hovered THEN "calledOff" ELSE "begun",
                 held |-> (CHOOSE one \in own : TRUE).made]]

(* followTimedNotices: one wait per timed notice, called off while the pointer   *)
(* is over its box and begun anew when it leaves or the notice is another one.  *)
Followed(notices) ==
    [r \in Timed |->
        LET own == {one \in notices : one.reason = r}
        IN IF own = {} THEN NoWait
           ELSE [is   |-> IF r \in hovered THEN "calledOff" ELSE "begun",
                 held |-> (CHOOSE one \in own : TRUE).made]]

(* spendFieldCommit, before whatever else an input or a frame does: the write     *)
(* may be refused, and the refusal is told.                                   *)
Tellings(notices, isCommitted) ==
    {[standing |-> notices, made |-> made]} \cup
    {[standing |-> Raised(notices, r, made + 1), made |-> made + 1] :
        r \in IF isCommitted /\ made < MaxRaised THEN Reasons ELSE {}}

CommitSpent(notices, isCommitted) ==
    /\ \E told \in Tellings(notices, isCommitted) :
          standing' = told.standing /\ made' = told.made
    /\ commit' = FALSE

FrameRuns ==
    /\ owed
    /\ CommitSpent(standing, commit)
    /\ waits' = Followed(standing')
    /\ drawn' = ReasonsOf(standing')
    /\ isTooltipStanding' = (isHintRested /\ isTooltipAllowed)
    /\ owed' = FALSE
    /\ UNCHANGED << hovered, isHintRested, isTooltipAllowed, open, chooser, field, keysHeld,
                    isButtonDown >>

WaitElapsesAside(r) ==                    \* mutant: not while another box is under the pointer
    /\ waits[r].is = "begun"
    /\ waits' = [waits EXCEPT ![r] = NoWait]
    /\ standing' = IF hovered = {} THEN Without(standing, r) ELSE standing
    /\ owed' = TRUE
    /\ UNCHANGED << made, drawn, hovered, isHintRested, isTooltipAllowed, isTooltipStanding,
                    open, chooser, field, commit, keysHeld, isButtonDown >>

(* The wake of startWait: it names its reason alone. *)
WaitElapses(r) ==
    /\ waits[r].is = "begun"
    /\ waits' = [waits EXCEPT ![r] = NoWait]
    /\ standing' = Without(standing, r)
    /\ owed' = TRUE
    /\ UNCHANGED << made, drawn, hovered, isHintRested, isTooltipAllowed, isTooltipStanding,
                    open, chooser, field, commit, keysHeld, isButtonDown >>

(* The wake of beginHintTargetDwell, over a target and no box. *)
HintRests ==
    /\ ~isHintRested
    /\ hovered = {}
    /\ isHintRested' = TRUE
    /\ owed' = TRUE
    /\ UNCHANGED << standing, made, waits, drawn, hovered, isTooltipAllowed,
                    isTooltipStanding, open, chooser, field, commit, keysHeld, isButtonDown >>

LevelRises(level) ==
    /\ level \in Levels \ (open \cup {"gesture", "selection"})
    /\ open' = open \cup {level}
    /\ owed' = TRUE
    /\ UNCHANGED << standing, made, waits, drawn, hovered, isHintRested, isTooltipAllowed,
                    isTooltipStanding, chooser, field, commit, keysHeld, isButtonDown >>

-----------------------------------------------------------------------------
(* The pointer. *)

(* What readScreenPartAt may answer: the boxes are those drawn. *)
BoxesUnderPointer == {{}} \cup {{r} : r \in drawn}

(* To another place: the target of the hint is no longer the same. *)
PointerMoves(boxes) ==
    /\ hovered' = boxes
    /\ isHintRested' = FALSE
    /\ isTooltipAllowed' = TRUE
    /\ owed' = (owed \/ commit \/ hovered' # hovered \/ "gesture" \in open \/ isTooltipStanding)
    /\ CommitSpent(standing, commit)
    /\ UNCHANGED << waits, drawn, isTooltipStanding, open, chooser, field, keysHeld,
                    isButtonDown >>

(* settleOnPressOutside and settleDocumentTitleOnPressOutside, then the press.    *)
(* The press may be in another field. The chooser takes a press outside it whole.  *)
PointerPresses(boxes, at) ==
    /\ ~isButtonDown
    /\ at = "panelField" => "propertiesPanel" \in open
    /\ isButtonDown' = TRUE
    /\ field' = [at |-> at, text |-> "asFocused"]
    /\ CommitSpent(standing, commit \/ field.text = "typed")
    /\ chooser' = FALSE
    /\ IF chooser THEN UNCHANGED << open, hovered >>
       ELSE open' = open \cup {"gesture"} /\ hovered' = boxes
    /\ owed' = TRUE
    /\ UNCHANGED << waits, drawn, isHintRested, isTooltipAllowed, isTooltipStanding, keysHeld >>

(* A release away from the notices: what was pressed may be picked, and a         *)
(* marquee over tasks and links opens the chooser in place of a choice.         *)
PointerReleases(boxes, picked) ==
    /\ isButtonDown
    /\ picked # "nothing" => "gesture" \in open
    /\ isButtonDown' = FALSE
    /\ hovered' = boxes
    /\ CommitSpent(standing, commit)
    /\ open' = CASE picked = "objects" -> (open \ {"gesture"}) \cup {"selection"}
                 [] picked = "emptyArea" -> open \ {"gesture", "selection"}
                 [] OTHER -> open \ {"gesture"}
    /\ chooser' = (picked = "mixed")
    /\ owed' = TRUE
    /\ UNCHANGED << waits, drawn, isHintRested, isTooltipAllowed, isTooltipStanding, field,
                    keysHeld >>

(* The release on the entrance of a drawn box: dismissNoticeByKey. *)
NoticeDismissed(r) ==
    /\ isButtonDown
    /\ r \in drawn
    /\ isButtonDown' = FALSE
    /\ hovered' = {r}
    /\ open' = open \ {"gesture"}
    /\ \E told \in Tellings(standing, commit) :
          standing' = Without(told.standing, r) /\ made' = told.made
    /\ commit' = FALSE
    /\ owed' = TRUE
    /\ UNCHANGED << waits, drawn, isHintRested, isTooltipAllowed, isTooltipStanding, chooser,
                    field, keysHeld >>

-----------------------------------------------------------------------------
(* The keys. A listener of the field takes the key before the shell does, unless  *)
(* a notice was drawn (isPressTakenByStandingNotice).                          *)

IsEditing == field.at # "none"
IsFieldTakingAnyKey == IsEditing                \* mutant: the drawn notices not looked at
IsFieldTakingKeys == IsEditing /\ drawn = {}

IsPanelShown == "propertiesPanel" \in open

(* spendNoticeRungFirst: the newest notice as the key arrived. *)
NewestDropped ==
    standing \ {one \in standing : \A other \in standing : other.made <= one.made}

KeyGoesDown(key) == keysHeld' = keysHeld \cup {key}

(* escapeTarget, from what the key found: the focus in the properties panel       *)
(* puts the windows aside.                                                    *)
EscapeTarget(isFocusInPanel) ==
    LET aside  == IF isFocusInPanel THEN {"window"} ELSE {}
        levels == SelectSeq(Ladder, LAMBDA level : level \in open \ aside)
    IN IF standing # {} THEN "notice"
       ELSE IF IsEditing THEN "textEntry"
       ELSE IF levels # <<>> THEN Head(levels)
       ELSE IF isTooltipStanding THEN "tooltip" ELSE "none"

(* The field's listener gives it its text back and leaves it held until the key     *)
(* comes up, so that the shell finds an edit.                                   *)
FieldOnEscape == IF IsFieldTakingKeys THEN [field EXCEPT !.text = "takenBack"] ELSE field

(* Then the shell spends one rung, unless the chooser takes the key. Of an Esc held *)
(* down only the first press is reported.                                       *)
Escape(isFocusInPanel) ==
    LET target == IF chooser THEN "none" ELSE EscapeTarget(isFocusInPanel)
    IN /\ "Esc" \notin keysHeld
       /\ isFocusInPanel => IsPanelShown
       /\ field.at = "panelField" => isFocusInPanel
       /\ KeyGoesDown("Esc")
       /\ field' = FieldOnEscape
       /\ CommitSpent(NewestDropped, commit)
       /\ chooser' = FALSE
       /\ open' = open \ {target}
       /\ isTooltipAllowed' = (isTooltipAllowed /\ target # "tooltip")
       /\ owed' = (owed \/ standing # {} \/ commit \/ chooser \/ target # "none")
       /\ UNCHANGED << waits, drawn, hovered, isHintRested, isTooltipStanding, isButtonDown >>

(* settleOnScreen puts the panel away, or selectionFromInput clears the choice. *)
TakenByEnter(isSettled) ==
    IF IsPanelShown
    THEN IF isSettled \/ open \cap {"surface", "confirmation"} # {} THEN {}
         ELSE {"propertiesPanel"}
    ELSE {"selection"} \cap open

(* Enter settles the field and lets it go before the shell looks (SK-19).        *)
Enter ==
    LET isSettled == commit \/ (IsFieldTakingKeys /\ field.text = "typed")
        isFree    == standing = {} /\ ~chooser /\ ~(IsEditing /\ ~IsFieldTakingKeys)
        taken     == IF isFree THEN TakenByEnter(isSettled) ELSE {}
    IN /\ KeyGoesDown("other")
       /\ field' = IF IsFieldTakingKeys THEN NoField ELSE field
       /\ CommitSpent(NewestDropped, isSettled)
       /\ open' = open \ taken
       /\ owed' = (owed \/ standing # {} \/ isSettled \/ chooser \/ taken # {}
                        \/ (isFree /\ IsPanelShown) \/ "gesture" \in open)
       /\ UNCHANGED << waits, drawn, hovered, isHintRested, isTooltipAllowed, isTooltipStanding,
                       chooser, isButtonDown >>

(* Any other key: the shell spends the text that waits; the chooser keeps the key. *)
OtherKey ==
    /\ KeyGoesDown("other")
    /\ \E told \in Tellings(standing, commit) :
          standing' = told.standing /\ made' = told.made
    /\ UNCHANGED << waits, drawn, hovered, isHintRested, isTooltipAllowed, isTooltipStanding, open,
                    chooser, isButtonDown >>

LetterTyped ==
    /\ IsEditing
    /\ OtherKey
    /\ field' = [field EXCEPT !.text = "typed"]
    /\ commit' = FALSE
    /\ owed' = (owed \/ commit \/ chooser \/ "gesture" \in open)

(* F2: openDocumentTitleField. *)
TitleOpened ==
    /\ ~IsEditing /\ ~chooser
    /\ OtherKey
    /\ field' = [at |-> "title", text |-> "asFocused"]
    /\ commit' = FALSE
    /\ owed' = TRUE

(* The host moves the focus after the shell has had the key: the text of the field  *)
(* that loses it is settled unasked, and another may take it.                    *)
FocusTabbed(at) ==
    /\ at = "none" => IsEditing
    /\ at = "panelField" => "propertiesPanel" \in open
    /\ OtherKey
    /\ field' = [at |-> at, text |-> "asFocused"]
    /\ commit' = (field.text = "typed")
    /\ owed' = (owed \/ commit \/ chooser \/ "gesture" \in open)

KeyReleasedUnasked(key) ==                 \* mutant: no frame asked for
    /\ key \in keysHeld
    /\ keysHeld' = keysHeld \ {key}
    /\ field' = IF key = "Esc" /\ field.text = "takenBack" THEN NoField ELSE field
    /\ UNCHANGED << standing, made, waits, drawn, hovered, owed, isHintRested, isTooltipAllowed,
                    isTooltipStanding, open, chooser, commit, isButtonDown >>

(* Esc lets the field it has given its text back to go; every key asks a frame.   *)
KeyReleased(key) ==
    /\ key \in keysHeld
    /\ keysHeld' = keysHeld \ {key}
    /\ field' = IF key = "Esc" /\ field.text = "takenBack" THEN NoField ELSE field
    /\ owed' = TRUE
    /\ UNCHANGED << standing, made, waits, drawn, hovered, isHintRested, isTooltipAllowed,
                    isTooltipStanding, open, chooser, commit, isButtonDown >>

-----------------------------------------------------------------------------
Init ==
    /\ standing = {} /\ made = 0
    /\ waits = [r \in Timed |-> NoWait]
    /\ drawn = {} /\ hovered = {} /\ owed = FALSE
    /\ isHintRested = FALSE /\ isTooltipAllowed = TRUE /\ isTooltipStanding = FALSE
    /\ open = {} /\ chooser = FALSE
    /\ field = NoField /\ commit = FALSE
    /\ keysHeld = {} /\ isButtonDown = FALSE

Next ==
    \/ \E r \in Reasons : RaiseNotice(r) \/ NoticeDismissed(r)
    \/ FrameRuns
    \/ \E r \in Timed : WaitElapses(r)
    \/ HintRests
    \/ \E level \in Levels : LevelRises(level)
    \/ \E boxes \in BoxesUnderPointer :
          \/ PointerMoves(boxes)
          \/ \E at \in {"none", "panelField"} : PointerPresses(boxes, at)
          \/ \E picked \in {"nothing", "objects", "emptyArea", "mixed"} :
                PointerReleases(boxes, picked)
    \/ \E isFocusInPanel \in BOOLEAN : Escape(isFocusInPanel)
    \/ Enter
    \/ LetterTyped \/ TitleOpened
    \/ \E at \in {"none", "panelField"} : FocusTabbed(at)
    \/ \E key \in keysHeld : KeyReleased(key)

Spec == Init /\ [][Next]_vars

(* The browser draws the frames asked for and its timers elapse; the person lets  *)
(* a key go. Nothing else the person does is assumed.                           *)
Fairness ==
    /\ WF_vars(FrameRuns)
    /\ \A r \in Timed : WF_vars(WaitElapses(r))
    /\ \A key \in {"Esc", "other"} : WF_vars(KeyReleased(key))

FairSpec == Spec /\ Fairness

-----------------------------------------------------------------------------
NoticeMade == [reason : Reasons, made : 1 .. made]

TypeOK ==
    /\ standing \subseteq NoticeMade
    /\ \A one, other \in standing :
          one.made = other.made \/ WordsRow[one.reason] = WordsRow[other.reason] => one = other
    /\ made \in 0 .. MaxRaised
    /\ waits \in [Timed -> [is : {"none", "begun", "calledOff"}, held : 0 .. made]]
    /\ drawn \subseteq Reasons /\ hovered \subseteq Reasons
    /\ {owed, isHintRested, isTooltipAllowed, isTooltipStanding, chooser, commit, isButtonDown}
          \subseteq BOOLEAN
    /\ open \subseteq Levels
    /\ field \in [at : {"none", "panelField", "title"}, text : {"asFocused", "typed", "takenBack"}]
    /\ field.at = "none" => field = NoField
    /\ keysHeld \subseteq {"Esc", "other"}

(* While no frame is owed, the screen shows the notices that stand, and each       *)
(* timed one has a wait of its own, begun for that telling of it, or called off    *)
(* just while the pointer is over its box (NT-2): whatever raised, gathered,       *)
(* dismissed or uncovered it has asked for a frame.                            *)
WaitsFollowNotices ==
    ~owed =>
        /\ drawn = ReasonsOf(standing)
        /\ \A r \in Timed :
              LET own == {one \in standing : one.reason = r}
              IN IF own = {} THEN waits[r].is = "none"
                 ELSE /\ waits[r].is = IF r \in hovered THEN "calledOff" ELSE "begun"
                      /\ \A one \in own : waits[r].held = one.made

(* What Esc may take away, each with its rung of IN-4, the newest notice first. *)
Rungs(isEntryUnsettled) ==
    {<<0, MaxRaised - one.made>> : one \in standing}
    \cup (IF isEntryUnsettled THEN {<<1, 0>>} ELSE {})
    \cup {<<i + 1, 0>> : i \in {j \in DOMAIN Ladder : Ladder[j] \in open}}
    \cup (IF isTooltipStanding /\ isTooltipAllowed THEN {<<Len(Ladder) + 2, 0>>} ELSE {})

IsAbove(a, b) == a[1] < b[1] \/ (a[1] = b[1] /\ a[2] < b[2])

RungOfWindow == <<1 + (CHOOSE i \in DOMAIN Ladder : Ladder[i] = "window"), 0>>

(* One press takes away one thing, the one above all others on the ladder (IN-4,   *)
(* SK-19, NT-8): the field's listener, the notice rung, the write of the text and   *)
(* its refusal, the choice and the panel all see the same press. Left aside: a      *)
(* press that comes before the frame that draws what stands, the chooser beside a   *)
(* notice or an edit, and Enter in the document title with the panel away.        *)
OneLevelPerKey ==
    [][~owed /\ ~(chooser /\ (standing # {} \/ IsEditing)) =>
        /\ \A isFocusInPanel \in BOOLEAN :
              Escape(isFocusInPanel) /\ ~chooser =>
                LET before == Rungs(IsEditing /\ field.text # "takenBack")
                              \ (IF isFocusInPanel THEN {RungOfWindow} ELSE {})
                    after  == Rungs(IsEditing /\ field.text # "takenBack")'
                    gone   == before \ after
                IN /\ Cardinality(gone) = IF before = {} THEN 0 ELSE 1
                   /\ \A one \in gone, other \in before : ~IsAbove(other, one)
        /\ Enter /\ field.at # "title" =>
              Cardinality(Rungs(field.text = "typed") \ Rungs(field.text = "typed")') <= 1]_vars

(* A timed notice goes by itself unless the pointer comes to its box (NT-2).      *)
TimedNoticeGoes ==
    \A r \in Timed :
        r \in ReasonsOf(standing) ~> r \notin ReasonsOf(standing) \/ r \in hovered

(* A text left with Tab is written without a further input (FT-6): the release of  *)
(* the key asks for the frame that spends it.                                  *)
SettledTextIsWritten == commit ~> ~commit
=============================================================================
