------------------------ MODULE ScreenSessionProofs ------------------------
(* That the notices, the screen and the waits agree whenever no frame is owed, *)
(* for any reasons, levels and number of tellings.                            *)
EXTENDS ScreenSession, TLAPS

(* The notices that may stand when n were told: one at most of each row of words *)
(* and of each telling.                                                       *)
IsNoticeList(notices, n) ==
    /\ notices \subseteq [reason : Reasons, made : 1 .. n]
    /\ \A one, other \in notices :
          one.made = other.made \/ WordsRow[one.reason] = WordsRow[other.reason] => one = other

(* A telling keeps the list: its number is new, and its row is gathered.       *)
LEMMA RaisedKeepsList ==
    ASSUME NEW n \in Nat, NEW notices, IsNoticeList(notices, n), NEW r \in Reasons
    PROVE  IsNoticeList(Raised(notices, r, n + 1), n + 1)
<1> DEFINE same == {one \in notices : WordsRow[one.reason] = WordsRow[r]}
           kept == IF same = {} THEN r ELSE (CHOOSE one \in same : TRUE).reason
           told == [reason |-> kept, made |-> n + 1]
<1>1. Raised(notices, r, n + 1) = (notices \ same) \cup {told}
  BY DEF Raised
<1>2. kept \in Reasons /\ WordsRow[kept] = WordsRow[r]
  BY DEF IsNoticeList
<1>3. told \in [reason : Reasons, made : 1 .. n + 1]
  BY <1>2
<1>4. notices \subseteq [reason : Reasons, made : 1 .. n + 1]
  BY DEF IsNoticeList
<1>5. \A one \in notices \ same :
         one.made # told.made /\ WordsRow[one.reason] # WordsRow[told.reason]
  BY <1>2 DEF IsNoticeList
<1> QED
  BY <1>1, <1>3, <1>4, <1>5 DEF IsNoticeList

LEMMA FewerKeepsList ==
    ASSUME NEW n, NEW notices, IsNoticeList(notices, n), NEW fewer \in SUBSET notices
    PROVE  IsNoticeList(fewer, n)
  BY DEF IsNoticeList

(* What the write of a settled text may have told.                            *)
LEMMA TellingsKeepList ==
    ASSUME made \in 0 .. MaxRaised, NEW notices, IsNoticeList(notices, made),
           NEW isCommitted \in BOOLEAN, NEW told \in Tellings(notices, isCommitted)
    PROVE  /\ IsNoticeList(told.standing, told.made)
           /\ told.made \in 0 .. MaxRaised /\ made <= told.made
<1> USE BoundAssumption
<1>1. CASE told = [standing |-> notices, made |-> made]
  BY <1>1
<1>2. ASSUME NEW r \in Reasons, made < MaxRaised,
             told = [standing |-> Raised(notices, r, made + 1), made |-> made + 1]
      PROVE  /\ IsNoticeList(told.standing, told.made)
             /\ told.made \in 0 .. MaxRaised /\ made <= told.made
  BY <1>2, RaisedKeepsList
<1> QED
  BY <1>1, <1>2 DEF Tellings

LEMMA NothingToTell ==
    ASSUME NEW notices, NEW told \in Tellings(notices, FALSE)
    PROVE  told.standing = notices /\ told.made = made
  BY DEF Tellings

LEMMA CommitSpentKeepsList ==
    ASSUME made \in 0 .. MaxRaised, NEW notices, IsNoticeList(notices, made),
           NEW isCommitted \in BOOLEAN, CommitSpent(notices, isCommitted)
    PROVE  /\ IsNoticeList(standing', made')
           /\ made' \in 0 .. MaxRaised /\ made <= made'
           /\ commit' = FALSE
           /\ ~isCommitted => standing' = notices
<1>1. PICK told \in Tellings(notices, isCommitted) :
         standing' = told.standing /\ made' = told.made
  BY DEF CommitSpent
<1> QED
  BY <1>1, TellingsKeepList, NothingToTell DEF CommitSpent

(* The waits a frame leaves are those of the notices that then stand.          *)
LEMMA FollowedAgrees ==
    ASSUME NEW n \in Nat, NEW notices, IsNoticeList(notices, n), NEW r \in Timed
    PROVE  LET own == {one \in notices : one.reason = r}
           IN /\ own = {} => Followed(notices)[r] = NoWait
              /\ own # {} =>
                    Followed(notices)[r].is = IF r \in hovered THEN "calledOff" ELSE "begun"
              /\ \A one \in own : Followed(notices)[r].held = one.made
              /\ Followed(notices)[r] \in [is : {"none", "begun", "calledOff"}, held : 0 .. n]
<1> DEFINE own == {one \in notices : one.reason = r}
<1>1. \A one, other \in own : one = other
  BY ReasonsAssumption DEF IsNoticeList
<1>2. own \subseteq [reason : Reasons, made : 1 .. n]
  BY DEF IsNoticeList
<1>3. CASE own = {}
  BY <1>3 DEF Followed, NoWait
<1>4. CASE own # {}
  <2>1. PICK one \in own : own = {one} /\ (CHOOSE other \in own : TRUE) = one
    BY <1>1, <1>4
  <2>2. Followed(notices)[r] = [is |-> IF r \in hovered THEN "calledOff" ELSE "begun",
                                held |-> one.made]
    BY <1>4, <2>1 DEF Followed
  <2>3. one.made \in 0 .. n
    BY <1>2
  <2> QED
    BY <1>4, <2>1, <2>2, <2>3
<1> QED
  BY <1>3, <1>4

-----------------------------------------------------------------------------
(* Type correctness *)

LEMMA TypeIsList == TypeOK => IsNoticeList(standing, made) /\ made \in 0 .. MaxRaised
  BY DEF TypeOK, NoticeMade, IsNoticeList

LEMMA ListIsType ==
    ASSUME IsNoticeList(standing, made), made \in 0 .. MaxRaised,
           waits \in [Timed -> [is : {"none", "begun", "calledOff"}, held : 0 .. made]],
           drawn \subseteq Reasons, hovered \subseteq Reasons,
           {owed, isHintRested, isTooltipAllowed, isTooltipStanding, chooser, commit,
            isButtonDown} \subseteq BOOLEAN,
           open \subseteq Levels,
           field \in [at : {"none", "panelField", "title"},
                      text : {"asFocused", "typed", "takenBack"}],
           field.at = "none" => field = NoField,
           keysHeld \subseteq {"Esc", "other"}
    PROVE  TypeOK
  BY DEF TypeOK, NoticeMade, IsNoticeList

(* Waits of fewer tellings stay waits when more were told. *)
LEMMA WaitsStayTyped ==
    ASSUME NEW m \in Nat, NEW n \in Nat, m <= n,
           NEW w \in [Timed -> [is : {"none", "begun", "calledOff"}, held : 0 .. m]]
    PROVE  w \in [Timed -> [is : {"none", "begun", "calledOff"}, held : 0 .. n]]
<1>1. [is : {"none", "begun", "calledOff"}, held : 0 .. m]
      \subseteq [is : {"none", "begun", "calledOff"}, held : 0 .. n]
  OBVIOUS
<1> QED
  BY <1>1

(* The steps that spend the settled text: what is left is the rest of the state. *)
LEMMA SpendingKeepsTyped ==
    ASSUME TypeOK, NEW notices \in SUBSET standing, NEW isCommitted \in BOOLEAN,
           \E told \in Tellings(notices, isCommitted) :
              IsNoticeList(standing', told.made) /\ made' = told.made
    PROVE  /\ IsNoticeList(standing', made') /\ made' \in 0 .. MaxRaised
           /\ waits \in [Timed -> [is : {"none", "begun", "calledOff"}, held : 0 .. made']]
<1>1. IsNoticeList(notices, made)
  BY TypeIsList, FewerKeepsList
<1>2. made' \in 0 .. MaxRaised /\ made <= made' /\ IsNoticeList(standing', made')
  BY <1>1, TypeIsList, TellingsKeepList
<1> QED
  BY <1>2, WaitsStayTyped, BoundAssumption DEF TypeOK

LEMMA CommitSpentTells ==
    ASSUME TypeOK, NEW notices \in SUBSET standing, NEW isCommitted \in BOOLEAN,
           CommitSpent(notices, isCommitted)
    PROVE  /\ IsNoticeList(standing', made') /\ made' \in 0 .. MaxRaised
           /\ waits \in [Timed -> [is : {"none", "begun", "calledOff"}, held : 0 .. made']]
           /\ commit' = FALSE
           /\ ~isCommitted => standing' = notices
<1>1. IsNoticeList(notices, made)
  BY TypeIsList, FewerKeepsList
<1>2. PICK told \in Tellings(notices, isCommitted) :
         standing' = told.standing /\ made' = told.made
  BY DEF CommitSpent
<1>3. IsNoticeList(standing', told.made)
  BY <1>1, <1>2, TypeIsList, TellingsKeepList
<1> QED
  BY <1>1, <1>2, <1>3, TypeIsList, CommitSpentKeepsList, SpendingKeepsTyped

(* OtherKey without the field: what it tells. *)
LEMMA OtherKeyTells ==
    ASSUME TypeOK, OtherKey
    PROVE  /\ IsNoticeList(standing', made') /\ made' \in 0 .. MaxRaised
           /\ waits \in [Timed -> [is : {"none", "begun", "calledOff"}, held : 0 .. made']]
           /\ ~commit => standing' = standing
<1>1. PICK told \in Tellings(standing, commit) : standing' = told.standing /\ made' = told.made
  BY DEF OtherKey
<1>2. commit \in BOOLEAN
  BY DEF TypeOK
<1>3. IsNoticeList(standing', told.made)
  BY <1>1, <1>2, TypeIsList, TellingsKeepList
<1>4. ~commit => standing' = standing
  BY <1>1, <1>2, NothingToTell
<1> QED
  BY <1>1, <1>2, <1>3, <1>4, SpendingKeepsTyped

LEMMA InitTyped == Init => TypeOK
<1> SUFFICES ASSUME Init PROVE TypeOK
  OBVIOUS
<1>1. IsNoticeList(standing, made) /\ made \in 0 .. MaxRaised
  BY BoundAssumption DEF Init, IsNoticeList
<1>2. waits \in [Timed -> [is : {"none", "begun", "calledOff"}, held : 0 .. made]]
  BY DEF Init, NoWait
<1> QED
  BY <1>1, <1>2, ListIsType DEF Init, NoField

LEMMA NextTyped == TypeOK /\ [Next]_vars => TypeOK'
<1> SUFFICES ASSUME TypeOK, [Next]_vars PROVE TypeOK'
  OBVIOUS
<1> USE ReasonsAssumption, LevelsAssumption, BoundAssumption
<1>0. standing \in SUBSET standing /\ NewestDropped \in SUBSET standing /\ commit \in BOOLEAN
  BY DEF TypeOK, NewestDropped
<1>1. ASSUME NEW r \in Reasons, RaiseNotice(r) PROVE TypeOK'
  <2>1. made \in Nat /\ made + 1 \in 0 .. MaxRaised /\ made' = made + 1
    BY <1>1 DEF TypeOK, RaiseNotice
  <2>2. IsNoticeList(standing', made')
    BY <1>1, <2>1, TypeIsList, RaisedKeepsList DEF RaiseNotice
  <2>3. waits \in [Timed -> [is : {"none", "begun", "calledOff"}, held : 0 .. made']]
    BY <2>1, WaitsStayTyped DEF TypeOK
  <2> QED
    BY <1>1, <2>1, <2>2, <2>3 DEF TypeOK, RaiseNotice, NoticeMade, IsNoticeList
<1>2. ASSUME NEW r \in Reasons, NoticeDismissed(r) PROVE TypeOK'
  <2>1. PICK told \in Tellings(standing, commit) :
           standing' = Without(told.standing, r) /\ made' = told.made
    BY <1>2 DEF NoticeDismissed
  <2>2. IsNoticeList(told.standing, told.made)
    BY <1>0, TypeIsList, TellingsKeepList
  <2>3. IsNoticeList(standing', told.made)
    BY <2>1, <2>2, FewerKeepsList DEF Without
  <2>4. /\ IsNoticeList(standing', made') /\ made' \in 0 .. MaxRaised
        /\ waits \in [Timed -> [is : {"none", "begun", "calledOff"}, held : 0 .. made']]
    BY <1>0, <2>1, <2>3, SpendingKeepsTyped
  <2> QED
    BY <1>2, <2>4 DEF TypeOK, NoticeDismissed, NoticeMade, IsNoticeList
<1>3. CASE FrameRuns
  <2>1. IsNoticeList(standing', made') /\ made' \in 0 .. MaxRaised /\ commit' = FALSE
    BY <1>0, <1>3, CommitSpentTells DEF FrameRuns
  <2>2. waits' \in [Timed -> [is : {"none", "begun", "calledOff"}, held : 0 .. made']]
    <3>1. waits' = Followed(standing') /\ hovered' = hovered /\ made' \in Nat
      BY <1>3, <2>1 DEF FrameRuns
    <3>2. \A r \in Timed : Followed(standing')[r]
             \in [is : {"none", "begun", "calledOff"}, held : 0 .. made']
      BY <2>1, <3>1, FollowedAgrees
    <3> QED
      BY <3>1, <3>2 DEF Followed
  <2>3. drawn' \subseteq Reasons
    BY <1>3, <2>1 DEF FrameRuns, ReasonsOf, IsNoticeList
  <2> QED
    BY <1>3, <2>1, <2>2, <2>3 DEF TypeOK, FrameRuns, NoticeMade, IsNoticeList
<1>4. ASSUME NEW r \in Timed, WaitElapses(r) PROVE TypeOK'
  <2>1. IsNoticeList(standing', made)
    BY <1>4, TypeIsList, FewerKeepsList DEF WaitElapses, Without
  <2>2. waits' \in [Timed -> [is : {"none", "begun", "calledOff"}, held : 0 .. made]]
    BY <1>4 DEF TypeOK, WaitElapses, NoWait
  <2> QED
    BY <1>4, <2>1, <2>2 DEF TypeOK, WaitElapses, NoticeMade, IsNoticeList
<1>5. CASE HintRests
  BY <1>5 DEF TypeOK, HintRests, NoticeMade
<1>6. ASSUME NEW level \in Levels, LevelRises(level) PROVE TypeOK'
  BY <1>6 DEF TypeOK, LevelRises, NoticeMade
<1>7. ASSUME NEW boxes \in BoxesUnderPointer,
             PointerMoves(boxes) \/ \E at \in {"none", "panelField"} : PointerPresses(boxes, at)
                \/ \E picked \in {"nothing", "objects", "emptyArea", "mixed"} :
                      PointerReleases(boxes, picked)
      PROVE TypeOK'
  <2>0. boxes \subseteq Reasons
    BY <1>7 DEF BoxesUnderPointer, TypeOK
  <2>1. CASE PointerMoves(boxes)
    <3>1. /\ IsNoticeList(standing', made') /\ made' \in 0 .. MaxRaised /\ commit' = FALSE
          /\ waits \in [Timed -> [is : {"none", "begun", "calledOff"}, held : 0 .. made']]
      BY <1>0, <2>1, CommitSpentTells DEF PointerMoves
    <3> QED
      BY <2>0, <2>1, <3>1 DEF TypeOK, PointerMoves, NoticeMade, IsNoticeList
  <2>2. ASSUME NEW at \in {"none", "panelField"}, PointerPresses(boxes, at) PROVE TypeOK'
    <3>1. /\ IsNoticeList(standing', made') /\ made' \in 0 .. MaxRaised /\ commit' = FALSE
          /\ waits \in [Timed -> [is : {"none", "begun", "calledOff"}, held : 0 .. made']]
      BY <1>0, <2>2, CommitSpentTells DEF PointerPresses
    <3>2. open' \subseteq Levels /\ hovered' \subseteq Reasons /\ chooser' = FALSE
      BY <2>0, <2>2 DEF TypeOK, PointerPresses
    <3>3. /\ field' \in [at : {"none", "panelField", "title"},
                         text : {"asFocused", "typed", "takenBack"}]
          /\ field'.at = "none" => field' = NoField
      BY <2>2 DEF PointerPresses, NoField
    <3> QED
      BY <2>2, <3>1, <3>2, <3>3 DEF TypeOK, PointerPresses, NoticeMade, IsNoticeList
  <2>3. ASSUME NEW picked \in {"nothing", "objects", "emptyArea", "mixed"},
               PointerReleases(boxes, picked)
        PROVE TypeOK'
    <3>1. /\ IsNoticeList(standing', made') /\ made' \in 0 .. MaxRaised /\ commit' = FALSE
          /\ waits \in [Timed -> [is : {"none", "begun", "calledOff"}, held : 0 .. made']]
      BY <1>0, <2>3, CommitSpentTells DEF PointerReleases
    <3>2. open' \subseteq Levels /\ chooser' \in BOOLEAN
      BY <2>3 DEF TypeOK, PointerReleases
    <3> QED
      BY <2>0, <2>3, <3>1, <3>2 DEF TypeOK, PointerReleases, NoticeMade, IsNoticeList
  <2> QED
    BY <1>7, <2>1, <2>2, <2>3
<1>8. ASSUME NEW isFocusInPanel \in BOOLEAN, Escape(isFocusInPanel) PROVE TypeOK'
  <2>1. /\ IsNoticeList(standing', made') /\ made' \in 0 .. MaxRaised /\ commit' = FALSE
        /\ waits \in [Timed -> [is : {"none", "begun", "calledOff"}, held : 0 .. made']]
    BY <1>0, <1>8, CommitSpentTells DEF Escape
  <2>2. /\ field' \in [at : {"none", "panelField", "title"},
                       text : {"asFocused", "typed", "takenBack"}]
        /\ field'.at = "none" => field' = NoField
    BY <1>8 DEF TypeOK, Escape, FieldOnEscape, IsFieldTakingKeys, IsEditing
  <2>3. /\ open' \subseteq Levels /\ keysHeld' \subseteq {"Esc", "other"}
        /\ {owed', isTooltipAllowed', chooser'} \subseteq BOOLEAN
    BY <1>8 DEF TypeOK, Escape, KeyGoesDown
  <2> QED
    BY <1>8, <2>1, <2>2, <2>3 DEF TypeOK, Escape, NoticeMade, IsNoticeList
<1>9. CASE Enter
  <2> DEFINE isSettled == commit \/ (IsFieldTakingKeys /\ field.text = "typed")
  <2>0. isSettled \in BOOLEAN
    BY DEF TypeOK
  <2>1. /\ IsNoticeList(standing', made') /\ made' \in 0 .. MaxRaised /\ commit' = FALSE
        /\ waits \in [Timed -> [is : {"none", "begun", "calledOff"}, held : 0 .. made']]
    BY <1>0, <1>9, <2>0, CommitSpentTells DEF Enter
  <2>2. /\ field' \in [at : {"none", "panelField", "title"},
                       text : {"asFocused", "typed", "takenBack"}]
        /\ field'.at = "none" => field' = NoField
    BY <1>9 DEF TypeOK, Enter, NoField
  <2>3. open' \subseteq Levels /\ keysHeld' \subseteq {"Esc", "other"} /\ owed' \in BOOLEAN
    BY <1>9 DEF TypeOK, Enter, KeyGoesDown
  <2> QED
    BY <1>9, <2>1, <2>2, <2>3 DEF TypeOK, Enter, NoticeMade, IsNoticeList
<1>10. CASE LetterTyped \/ TitleOpened \/ \E at \in {"none", "panelField"} : FocusTabbed(at)
  <2>0. OtherKey
    BY <1>10 DEF LetterTyped, TitleOpened, FocusTabbed
  <2>1. /\ IsNoticeList(standing', made') /\ made' \in 0 .. MaxRaised
        /\ waits \in [Timed -> [is : {"none", "begun", "calledOff"}, held : 0 .. made']]
    BY <2>0, OtherKeyTells
  <2>2. /\ field' \in [at : {"none", "panelField", "title"},
                       text : {"asFocused", "typed", "takenBack"}]
        /\ field'.at = "none" => field' = NoField
    BY <1>10 DEF TypeOK, LetterTyped, TitleOpened, FocusTabbed, IsEditing, NoField
  <2>3. {owed', commit'} \subseteq BOOLEAN /\ keysHeld' \subseteq {"Esc", "other"}
    BY <1>10, <2>0 DEF TypeOK, OtherKey, KeyGoesDown, LetterTyped, TitleOpened, FocusTabbed
  <2> QED
    BY <2>0, <2>1, <2>2, <2>3 DEF TypeOK, OtherKey, NoticeMade, IsNoticeList
<1>11. ASSUME NEW key \in keysHeld, KeyReleased(key) PROVE TypeOK'
  BY <1>11 DEF TypeOK, KeyReleased, NoticeMade, NoField
<1>12. CASE UNCHANGED vars
  BY <1>12 DEF TypeOK, vars, NoticeMade
<1> QED
  BY <1>1, <1>2, <1>3, <1>4, <1>5, <1>6, <1>7, <1>8, <1>9, <1>10, <1>11, <1>12 DEF Next

(* Every notice that stands bears a telling and a row of words of its own, and all *)
(* else has its type (NT-3).                                                  *)
THEOREM TypeCorrect == Spec => []TypeOK
<1> QED
  BY InitTyped, NextTyped, PTL DEF Spec

-----------------------------------------------------------------------------
(* The notices, the screen and the waits *)

(* A step that leaves all four alone and owes no frame keeps what held before.  *)
LEMMA QuietKeepsAgreement ==
    ASSUME WaitsFollowNotices, ~owed, standing' = standing, waits' = waits, drawn' = drawn,
           hovered' = hovered
    PROVE  WaitsFollowNotices'
  BY DEF WaitsFollowNotices, ReasonsOf

LEMMA FrameAgrees ==
    ASSUME TypeOK, FrameRuns PROVE WaitsFollowNotices'
<1>1. standing \in SUBSET standing /\ commit \in BOOLEAN
  BY DEF TypeOK
<1>2. IsNoticeList(standing', made') /\ made' \in Nat
  <2>1. CommitSpent(standing, commit)
    BY DEF FrameRuns
  <2>2. IsNoticeList(standing', made') /\ made' \in 0 .. MaxRaised
    BY <1>1, <2>1, CommitSpentTells
  <2> QED
    BY <2>2, BoundAssumption
<1>3. drawn' = ReasonsOf(standing)' /\ waits' = Followed(standing') /\ hovered' = hovered
  BY DEF FrameRuns, ReasonsOf
<1>4. ASSUME NEW r \in Timed
      PROVE  LET own == {one \in standing' : one.reason = r}
             IN IF own = {} THEN waits'[r].is = "none"
                ELSE /\ waits'[r].is = IF r \in hovered' THEN "calledOff" ELSE "begun"
                     /\ \A one \in own : waits'[r].held = one.made
  BY <1>2, <1>3, FollowedAgrees DEF NoWait
<1> QED
  BY <1>3, <1>4 DEF WaitsFollowNotices

LEMMA InitAgrees == Init => WaitsFollowNotices
  BY DEF Init, WaitsFollowNotices, ReasonsOf, NoWait

LEMMA NextAgrees == TypeOK /\ WaitsFollowNotices /\ [Next]_vars => WaitsFollowNotices'
<1> SUFFICES ASSUME TypeOK, WaitsFollowNotices, [Next]_vars, ~owed' PROVE WaitsFollowNotices'
  BY DEF WaitsFollowNotices
<1>0. standing \in SUBSET standing /\ NewestDropped \in SUBSET standing /\ commit \in BOOLEAN
  BY DEF TypeOK, NewestDropped
<1>1. CASE FrameRuns
  BY <1>1, FrameAgrees
<1>2. ASSUME NEW boxes \in BoxesUnderPointer, PointerMoves(boxes) PROVE WaitsFollowNotices'
  <2>1. ~owed /\ ~commit /\ hovered' = hovered
    BY <1>2 DEF PointerMoves
  <2>2. standing' = standing
    BY <1>0, <1>2, <2>1, CommitSpentTells DEF PointerMoves
  <2> QED
    BY <1>2, <2>1, <2>2, QuietKeepsAgreement DEF PointerMoves
<1>3. ASSUME NEW isFocusInPanel \in BOOLEAN, Escape(isFocusInPanel) PROVE WaitsFollowNotices'
  <2>1. ~owed /\ ~commit /\ standing = {}
    BY <1>3 DEF Escape
  <2>2. standing' = NewestDropped
    BY <1>0, <1>3, <2>1, CommitSpentTells DEF Escape
  <2>3. standing' = standing
    BY <2>1, <2>2 DEF NewestDropped
  <2> QED
    BY <1>3, <2>1, <2>3, QuietKeepsAgreement DEF Escape
<1>4. CASE Enter
  <2> DEFINE isSettled == commit \/ (IsFieldTakingKeys /\ field.text = "typed")
  <2>1. ~owed /\ ~isSettled /\ standing = {}
    BY <1>4 DEF Enter
  <2>2. CommitSpent(NewestDropped, isSettled) /\ isSettled \in BOOLEAN
    BY <1>4, <2>1 DEF Enter
  <2>3. standing' = NewestDropped
    BY <1>0, <2>1, <2>2, CommitSpentTells
  <2>4. standing' = standing
    BY <2>1, <2>3 DEF NewestDropped
  <2> QED
    BY <1>4, <2>1, <2>4, QuietKeepsAgreement DEF Enter
<1>5. CASE LetterTyped \/ \E at \in {"none", "panelField"} : FocusTabbed(at)
  <2>1. OtherKey /\ ~owed /\ ~commit
    BY <1>5 DEF LetterTyped, FocusTabbed
  <2>2. standing' = standing
    BY <2>1, OtherKeyTells
  <2> QED
    BY <2>1, <2>2, QuietKeepsAgreement DEF OtherKey
<1>6. CASE UNCHANGED vars
  BY <1>6, QuietKeepsAgreement DEF vars
<1> QED
  BY <1>1, <1>2, <1>3, <1>4, <1>5, <1>6
  DEF Next, RaiseNotice, NoticeDismissed, WaitElapses, HintRests, LevelRises, PointerPresses,
      PointerReleases, TitleOpened, KeyReleased

(* Whatever tells, gathers, dismisses or uncovers a notice asks for a frame, and    *)
(* the frame leaves the screen and the waits agreeing with what stands (NT-2).   *)
THEOREM WaitsAlwaysFollow == Spec => []WaitsFollowNotices
<1>1. Init => TypeOK /\ WaitsFollowNotices
  BY InitTyped, InitAgrees
<1>2. TypeOK /\ WaitsFollowNotices /\ [Next]_vars => (TypeOK /\ WaitsFollowNotices)'
  BY NextTyped, NextAgrees
<1> QED
  BY <1>1, <1>2, PTL DEF Spec
=============================================================================
