-------------------------- MODULE DelayFixesProofs --------------------------
(* Proofs about the log of DelayFixes, for every tree of tasks, every limit of *)
(* the history and every edit given.                                          *)
EXTENDS DelayFixes, TLAPS

-----------------------------------------------------------------------------
(* The documents a behaviour tells of *)

Line   == ToSet(done) \cup {held} \cup ToSet(undone)
Landed == {landed[i].before : i \in DOMAIN landed} \cup {landed[i].after : i \in DOMAIN landed}

(* The numbers of a document have been given out. *)
isNumbered(document) ==
    document.reference \in 1 .. made /\ document.edit \in 1 .. made /\ document.view \in Nat

SequencesHold ==
    /\ done \in Seq(ToSet(done)) /\ undone \in Seq(ToSet(undone)) /\ landed \in Seq(ToSet(landed))
    /\ made \in Nat /\ maxSteps \in Nat \ {0}

AllNumbered == \A document \in Line \cup Landed : isNumbered(document)

(* A reference stands for one document. *)
OneByReference == \A a, b \in Line \cup Landed : a.reference = b.reference => a = b

(* The held document has seen every move of the view. *)
ViewIsLatest == \A document \in Line : document.view <= held.view

(* The documents lie in the history in the order of their edits. *)
EditsInOrder ==
    /\ \A i, j \in DOMAIN done : i < j => done[i].edit < done[j].edit
    /\ \A i \in DOMAIN done : done[i].edit < held.edit
    /\ \A i \in DOMAIN undone : held.edit < undone[i].edit
    /\ \A i, j \in DOMAIN undone : i < j => undone[i].edit < undone[j].edit

(* What the history has of an edit that landed is the document it landed as,  *)
(* or one made anew after the view moved.                                     *)
LandedIsNotLater ==
    \A document \in Landed, there \in Line :
        document.edit = there.edit => document = there \/ document.view < there.view

LogInv ==
    /\ SequencesHold /\ AllNumbered /\ OneByReference /\ ViewIsLatest /\ EditsInOrder
    /\ LandedIsNotLater

-----------------------------------------------------------------------------
(* Sequences *)

LEMMA OwnElements ==
    ASSUME NEW T, NEW s \in Seq(T)
    PROVE  /\ s \in Seq(ToSet(s)) /\ ToSet(s) \subseteq T
           /\ Len(s) \in Nat /\ DOMAIN s = 1 .. Len(s)
           /\ \A i \in 1 .. Len(s) : s[i] \in ToSet(s)
           /\ \A e \in ToSet(s) : \E i \in 1 .. Len(s) : e = s[i]
<1>1. Len(s) \in Nat /\ DOMAIN s = 1 .. Len(s) /\ \A i \in 1 .. Len(s) : s[i] \in T
  OBVIOUS
<1>2. ToSet(s) = {s[i] : i \in 1 .. Len(s)}
  BY <1>1 DEF ToSet
<1>3. s = [i \in 1 .. Len(s) |-> s[i]]
  BY <1>1
<1>4. s \in [1 .. Len(s) -> ToSet(s)]
  BY <1>2, <1>3
<1>5. s \in Seq(ToSet(s))
  BY <1>1, <1>4
<1> QED
  BY <1>1, <1>2, <1>5

LEMMA WiderElements ==
    ASSUME NEW S, NEW T, S \subseteq T, NEW s \in Seq(S)
    PROVE  s \in Seq(T)
OBVIOUS

(* What is kept of a history that takes a step is its newer end. *)
LEMMA HistoryIsCut ==
    ASSUME SequencesHold
    PROVE  LET kept == historyWithStep(done) IN
           /\ kept \in Seq(ToSet(done) \cup {held})
           /\ \E k \in 0 .. Len(done) :
                 /\ Len(kept) = Len(done) + 1 - k
                 /\ \A i \in 1 .. Len(kept) :
                       kept[i] = IF k + i <= Len(done) THEN done[k + i] ELSE held
<1> DEFINE longer == Append(done, held)
           n == Len(done) + 1
           least == Min({n, maxSteps})
           S == ToSet(done) \cup {held}
<1>1. done \in Seq(S) /\ Len(done) \in Nat
  BY WiderElements DEF SequencesHold
<1>2. longer \in Seq(S) /\ Len(longer) = n
      /\ \A i \in 1 .. n : longer[i] = IF i <= Len(done) THEN done[i] ELSE held
  <2> HIDE DEF S
  <2> QED
    BY <1>1 DEF S
<1>3. least \in 1 .. n
  <2>1. \E x \in {n, maxSteps} : \A y \in {n, maxSteps} : x <= y
    BY <1>1 DEF SequencesHold
  <2>2. least \in {n, maxSteps} /\ \A y \in {n, maxSteps} : least <= y
    BY <2>1 DEF Min
  <2> QED
    BY <1>1, <2>2 DEF SequencesHold
<1> DEFINE k == n - least
           kept == SubSeq(longer, k + 1, n)
<1>4. historyWithStep(done) = kept
  BY <1>2 DEF historyWithStep
<1> HIDE DEF longer, least, S
<1>5. k \in 0 .. Len(done) /\ n \in Nat
  BY <1>1, <1>3
<1>6. /\ kept \in Seq(S) /\ Len(kept) = n - k
      /\ \A i \in 1 .. n - k : kept[i] = longer[k + i]
  BY <1>1, <1>2, <1>5
<1>7. /\ Len(kept) = Len(done) + 1 - k
      /\ \A i \in 1 .. Len(kept) : kept[i] = IF k + i <= Len(done) THEN done[k + i] ELSE held
  <2>1. n - k = Len(done) + 1 - k
    BY <1>1, <1>5
  <2> HIDE DEF kept, k
  <2>2. \A i \in 1 .. n - k : k + i \in 1 .. n
    BY <1>1, <1>5
  <2>3. \A i \in 1 .. n - k : kept[i] = longer[k + i]
    BY <1>6
  <2>4. \A i \in 1 .. n - k : longer[k + i] = IF k + i <= Len(done) THEN done[k + i] ELSE held
    BY <1>2, <2>2
  <2> QED
    BY <1>6, <2>1, <2>3, <2>4
<1> HIDE DEF kept, k
<1> QED
  BY <1>4, <1>5, <1>6, <1>7 DEF S

-----------------------------------------------------------------------------
(* What is asked of the documents, when one is made or restored *)

DocumentsHold == AllNumbered /\ OneByReference /\ ViewIsLatest /\ LandedIsNotLater

(* No two documents of the history are of one edit. *)
LEMMA OneByEdit ==
    ASSUME SequencesHold, AllNumbered, EditsInOrder, NEW there \in Line, there.edit = held.edit
    PROVE  there = held
<1>1. \A document \in Line : document.edit \in Nat
  BY DEF AllNumbered, isNumbered, SequencesHold
<1>2. CASE there \in ToSet(done)
  <2>1. PICK i \in DOMAIN done : there = done[i]
    BY <1>2 DEF ToSet
  <2>2. there.edit < held.edit
    BY <2>1 DEF EditsInOrder
  <2> QED
    BY <1>1, <2>2 DEF Line
<1>3. CASE there \in ToSet(undone)
  <2>1. PICK i \in DOMAIN undone : there = undone[i]
    BY <1>3 DEF ToSet
  <2>2. held.edit < there.edit
    BY <2>1 DEF EditsInOrder
  <2> QED
    BY <1>1, <2>2 DEF Line
<1> QED
  BY <1>2, <1>3 DEF Line

(* A document made by an edit, and perhaps by a bundle that lands so. *)
LEMMA EditMakesDocument ==
    ASSUME SequencesHold, DocumentsHold, EditsInOrder, NEW schedule,
           held' = Document(made + 1, made + 1, held.view, schedule), made' = made + 1,
           Line' \subseteq Line \cup {held'}, Landed' \subseteq Landed \cup {held, held'}
    PROVE  DocumentsHold'
<1>1. /\ held'.reference = made + 1 /\ held'.edit = made + 1 /\ held'.view = held.view
      /\ held \in Line /\ made \in Nat
  BY DEF Document, Line, SequencesHold
<1>2. \A document \in Line \cup Landed : isNumbered(document)
  BY DEF DocumentsHold, AllNumbered
<1>3. \A document \in Line \cup Landed :
          document.reference # made + 1 /\ document.edit # made + 1
  BY <1>1, <1>2 DEF isNumbered
<1>4. AllNumbered'
  <2>1. isNumbered(held)'
    BY <1>1, <1>2 DEF isNumbered
  <2>2. \A document \in Line \cup Landed : isNumbered(document)'
    BY <1>1, <1>2 DEF isNumbered
  <2> QED
    BY <1>1, <2>1, <2>2 DEF AllNumbered
<1>5. OneByReference'
  BY <1>1, <1>3 DEF OneByReference, DocumentsHold
<1>6. ViewIsLatest'
  <2>1. held'.view \in Nat
    BY <1>1, <1>2 DEF isNumbered
  <2> QED
    BY <1>1, <2>1 DEF ViewIsLatest, DocumentsHold
<1>7. LandedIsNotLater'
  <2> SUFFICES ASSUME NEW document \in Landed \cup {held, held'}, NEW there \in Line \cup {held'},
                      document.edit = there.edit
               PROVE  document = there \/ document.view < there.view
    BY DEF LandedIsNotLater
  <2>1. CASE document = held' \/ there = held'
    BY <1>1, <1>3, <2>1
  <2>2. CASE document = held /\ there \in Line
    BY <2>2, OneByEdit DEF DocumentsHold
  <2>3. CASE document \in Landed /\ there \in Line
    BY <2>3 DEF DocumentsHold, LandedIsNotLater
  <2> QED
    BY <2>1, <2>2, <2>3
<1> QED
  BY <1>4, <1>5, <1>6, <1>7 DEF DocumentsHold

(* A version of a document of the history, made anew with a later view. *)
LEMMA VersionIsMade ==
    ASSUME SequencesHold, DocumentsHold, NEW old \in Line, NEW view \in Nat,
           old.view < view, held.view <= view,
           held' = Document(made + 1, old.edit, view, old.schedule), made' = made + 1,
           Line' \subseteq Line \cup {held'}, landed' = landed
    PROVE  DocumentsHold'
<1>1. /\ held'.reference = made + 1 /\ held'.edit = old.edit /\ held'.view = view
      /\ held \in Line /\ made \in Nat
  BY DEF Document, Line, SequencesHold
<1>2. \A document \in Line \cup Landed : isNumbered(document)
  BY DEF DocumentsHold, AllNumbered
<1>3. \A document \in Line \cup Landed : document.reference # made + 1
  BY <1>1, <1>2 DEF isNumbered
<1>4. Landed' = Landed
  BY DEF Landed
<1>5. AllNumbered'
  <2>1. isNumbered(held)'
    BY <1>1, <1>2 DEF isNumbered
  <2>2. \A document \in Line \cup Landed : isNumbered(document)'
    BY <1>1, <1>2 DEF isNumbered
  <2> QED
    BY <1>1, <1>4, <2>1, <2>2 DEF AllNumbered
<1>6. OneByReference'
  BY <1>1, <1>3, <1>4 DEF OneByReference, DocumentsHold
<1>7. ViewIsLatest'
  <2>1. \A document \in Line : document.view <= held.view /\ document.view \in Nat
    BY <1>2 DEF ViewIsLatest, DocumentsHold, isNumbered
  <2> QED
    BY <1>1, <2>1 DEF ViewIsLatest
<1>8. LandedIsNotLater'
  <2> SUFFICES ASSUME NEW document \in Landed, NEW there \in Line \cup {held'},
                      document.edit = there.edit
               PROVE  document = there \/ document.view < there.view
    BY <1>4 DEF LandedIsNotLater
  <2>1. CASE there = held'
    <3>1. document = old \/ document.view < old.view
      BY <1>1, <2>1 DEF DocumentsHold, LandedIsNotLater
    <3>2. document.view \in Nat /\ old.view \in Nat
      BY <1>2 DEF isNumbered
    <3> QED
      BY <1>1, <2>1, <3>1, <3>2
  <2>2. CASE there \in Line
    BY <2>2 DEF DocumentsHold, LandedIsNotLater
  <2> QED
    BY <2>1, <2>2
<1> QED
  BY <1>5, <1>6, <1>7, <1>8 DEF DocumentsHold

(* Undo and redo: the very document, or its version of the view. *)
LEMMA DocumentIsRestored ==
    ASSUME SequencesHold, DocumentsHold, NEW old \in Line, Restores(old),
           Line' \subseteq Line \cup {held'}, landed' = landed
    PROVE  /\ DocumentsHold' /\ held'.edit = old.edit
           /\ made' \in Nat
<1>1. CASE old.view = held.view /\ held' = old /\ UNCHANGED made
  <2>1. Line' \subseteq Line /\ Landed' = Landed
    BY <1>1 DEF Landed
  <2>2. AllNumbered' /\ OneByReference' /\ LandedIsNotLater'
    BY <1>1, <2>1 DEF DocumentsHold, AllNumbered, isNumbered, OneByReference, LandedIsNotLater
  <2>3. ViewIsLatest'
    BY <1>1, <2>1 DEF DocumentsHold, ViewIsLatest
  <2> QED
    BY <1>1, <2>2, <2>3 DEF DocumentsHold, SequencesHold
<1>2. CASE /\ old.view # held.view
           /\ held' = Document(made + 1, old.edit, held.view, old.schedule) /\ made' = made + 1
  <2>1. held \in Line
    BY DEF Line
  <2>2. old.view \in Nat /\ held.view \in Nat /\ old.view <= held.view
    BY <2>1 DEF DocumentsHold, AllNumbered, isNumbered, ViewIsLatest
  <2>3. DocumentsHold'
    BY <1>2, <2>2, VersionIsMade
  <2> QED
    BY <1>2, <2>3 DEF Document, SequencesHold
<1> QED
  BY <1>1, <1>2 DEF Restores

-----------------------------------------------------------------------------
(* The steps *)

LEMMA LogInvParts ==
    LogInv <=> SequencesHold /\ DocumentsHold /\ EditsInOrder
BY DEF LogInv, DocumentsHold

(* An edit lands: the history is cut, and nothing is left to redo. *)
LEMMA EditKeeps ==
    ASSUME LogInv, NEW schedule, EditLands(schedule),
           landed' \in Seq(ToSet(landed')), Landed' \subseteq Landed \cup {held, held'}
    PROVE  LogInv'
<1> USE LogInvParts
<1> DEFINE n == Len(done)
<1>1. /\ n \in Nat /\ DOMAIN done = 1 .. n /\ \A i \in 1 .. n : done[i] \in ToSet(done)
      /\ made \in Nat
  BY OwnElements DEF SequencesHold
<1>2. /\ done' \in Seq(ToSet(done) \cup {held}) /\ undone' = <<>>
      /\ held' = Document(made + 1, made + 1, held.view, schedule) /\ made' = made + 1
      /\ UNCHANGED maxSteps
  BY HistoryIsCut DEF EditLands
<1>3. PICK k \in 0 .. n :
          /\ Len(done') = n + 1 - k
          /\ \A i \in 1 .. Len(done') : done'[i] = IF k + i <= n THEN done[k + i] ELSE held
  BY HistoryIsCut DEF EditLands
<1>4. /\ done' \in Seq(ToSet(done')) /\ ToSet(done') \subseteq ToSet(done) \cup {held}
      /\ DOMAIN done' = 1 .. Len(done')
  BY <1>2, OwnElements
<1>5. undone' \in Seq(ToSet(undone')) /\ ToSet(undone') = {}
  BY <1>2 DEF ToSet
<1>6. SequencesHold'
  BY <1>1, <1>2, <1>4, <1>5 DEF SequencesHold
<1>7. DocumentsHold'
  BY <1>2, <1>4, <1>5, EditMakesDocument DEF Line
<1>8. \A document \in Line : document.edit \in 1 .. made
  BY DEF DocumentsHold, AllNumbered, isNumbered
<1>9. EditsInOrder'
  <2>1. \A i \in 1 .. n : done[i].edit \in 1 .. made
    BY <1>1, <1>8 DEF Line
  <2>2. held.edit \in 1 .. made /\ held'.edit = made + 1
    BY <1>2, <1>8 DEF Line, Document
  <2>3. \A i \in 1 .. Len(done') : k + i \in 1 .. n \/ k + i = n + 1
    BY <1>1, <1>3
  <2>4. \A i \in DOMAIN done' : done'[i].edit \in 1 .. made
    <3> SUFFICES ASSUME NEW i \in DOMAIN done' PROVE done'[i].edit \in 1 .. made
      OBVIOUS
    <3>1. CASE k + i \in 1 .. n
      BY <1>3, <1>4, <2>1, <3>1
    <3>2. CASE k + i = n + 1
      BY <1>1, <1>3, <1>4, <2>2, <3>2
    <3> QED
      BY <1>4, <2>3, <3>1, <3>2
  <2>5. ASSUME NEW i \in DOMAIN done', NEW j \in DOMAIN done', i < j
        PROVE  done'[i].edit < done'[j].edit
    <3>1. k + i \in 1 .. n /\ k + i < k + j /\ done'[i] = done[k + i]
      BY <1>1, <1>3, <1>4, <2>5
    <3>2. CASE k + j \in 1 .. n
      BY <1>1, <1>3, <1>4, <3>1, <3>2 DEF EditsInOrder
    <3>3. CASE k + j = n + 1
      BY <1>1, <1>3, <1>4, <3>1, <3>3 DEF EditsInOrder
    <3> QED
      BY <1>4, <2>3, <3>2, <3>3
  <2>6. \A i \in DOMAIN done' : done'[i].edit < held'.edit
    BY <1>1, <2>2, <2>4
  <2> QED
    BY <1>2, <2>5, <2>6 DEF EditsInOrder
<1> QED
  BY <1>6, <1>7, <1>9 DEF LogInv, DocumentsHold

LEMMA MoveViewKeeps ==
    ASSUME LogInv, MoveView
    PROVE  LogInv'
<1> USE LogInvParts
<1>1. /\ held' = Document(made + 1, held.edit, held.view + 1, held.schedule) /\ made' = made + 1
      /\ UNCHANGED <<done, undone, maxSteps, landed>>
  BY DEF MoveView
<1>2. held \in Line /\ held.view \in Nat
  BY DEF Line, DocumentsHold, AllNumbered, isNumbered
<1>3. Line' \subseteq Line \cup {held'} /\ Landed' = Landed
  BY <1>1 DEF Line, Landed
<1>4. DocumentsHold'
  BY <1>1, <1>2, <1>3, VersionIsMade
<1>5. SequencesHold' /\ EditsInOrder'
  BY <1>1 DEF SequencesHold, EditsInOrder, Document
<1> QED
  BY <1>4, <1>5 DEF LogInv, DocumentsHold

LEMMA UndoKeeps ==
    ASSUME LogInv, Undo
    PROVE  LogInv'
<1> USE LogInvParts
<1> DEFINE n == Len(done)  S == ToSet(done) \cup {held} \cup ToSet(undone)
<1>1. /\ n \in Nat \ {0} /\ DOMAIN done = 1 .. n /\ \A i \in 1 .. n : done[i] \in ToSet(done)
      /\ Len(undone) \in Nat /\ DOMAIN undone = 1 .. Len(undone)
      /\ \A i \in 1 .. Len(undone) : undone[i] \in ToSet(undone)
  BY OwnElements DEF SequencesHold, Undo
<1>2. /\ Restores(done[n]) /\ done' = SubSeq(done, 1, n - 1) /\ undone' = <<held>> \o undone
      /\ UNCHANGED <<maxSteps, landed>>
  BY <1>1 DEF Undo, Last, Front
<1>3. /\ done' \in Seq(ToSet(done)) /\ Len(done') = n - 1
      /\ \A i \in 1 .. n - 1 : done'[i] = done[i] /\ i \in 1 .. n
  BY <1>1, <1>2 DEF SequencesHold
<1>4. /\ done' \in Seq(ToSet(done')) /\ ToSet(done') \subseteq ToSet(done)
      /\ DOMAIN done' = 1 .. n - 1
  BY <1>3, OwnElements
<1>5. <<held>> \in Seq(ToSet(undone) \cup {held}) /\ undone \in Seq(ToSet(undone) \cup {held})
  BY WiderElements DEF SequencesHold
<1>6. /\ undone' \in Seq(ToSet(undone) \cup {held}) /\ Len(undone') = Len(undone) + 1
      /\ \A i \in 1 .. Len(undone) + 1 : undone'[i] = IF i = 1 THEN held ELSE undone[i - 1]
  BY <1>1, <1>2, <1>5
<1>7. /\ undone' \in Seq(ToSet(undone')) /\ ToSet(undone') \subseteq ToSet(undone) \cup {held}
      /\ DOMAIN undone' = 1 .. Len(undone) + 1
  BY <1>6, OwnElements
<1>8. done[n] \in Line /\ Line' \subseteq Line \cup {held'}
  BY <1>1, <1>4, <1>7 DEF Line
<1>9. DocumentsHold' /\ held'.edit = done[n].edit /\ made' \in Nat
  BY <1>2, <1>8, DocumentIsRestored
<1>10. SequencesHold'
  BY <1>2, <1>4, <1>7, <1>9 DEF SequencesHold
<1>11. EditsInOrder'
  <2>1. \A document \in Line : document.edit \in Nat
    BY DEF DocumentsHold, AllNumbered, isNumbered
  <2>2. /\ \A i \in 1 .. n : done[i].edit \in Nat
        /\ \A i \in 1 .. Len(undone) : undone[i].edit \in Nat
        /\ held.edit \in Nat
    BY <1>1, <2>1 DEF Line
  <2>3. \A i, j \in DOMAIN done' : i < j => done'[i].edit < done'[j].edit
    <3>1. \A i \in DOMAIN done' : i \in DOMAIN done /\ done'[i] = done[i]
      BY <1>1, <1>3, <1>4
    <3> QED
      BY <3>1 DEF EditsInOrder
  <2>4. \A i \in DOMAIN done' : done'[i].edit < held'.edit
    <3>1. \A i \in DOMAIN done' :
              i \in DOMAIN done /\ n \in DOMAIN done /\ i < n /\ done'[i] = done[i]
      BY <1>1, <1>3, <1>4
    <3> QED
      BY <1>9, <3>1 DEF EditsInOrder
  <2>5. done[n].edit < held.edit
    BY <1>1 DEF EditsInOrder
  <2>6. \A i \in DOMAIN undone' : i = 1 \/ i - 1 \in 1 .. Len(undone)
    BY <1>1, <1>7
  <2>7. \A i \in DOMAIN undone' : held'.edit < undone'[i].edit
    <3> SUFFICES ASSUME NEW i \in DOMAIN undone' PROVE held'.edit < undone'[i].edit
      OBVIOUS
    <3>1. CASE i = 1
      BY <1>6, <1>7, <1>9, <2>5, <3>1
    <3>2. CASE i # 1
      <4>1. i - 1 \in 1 .. Len(undone) /\ undone'[i] = undone[i - 1]
        BY <1>6, <1>7, <2>6, <3>2
      <4>2. held.edit < undone[i - 1].edit
        BY <1>1, <4>1 DEF EditsInOrder
      <4> QED
        BY <1>1, <1>9, <2>2, <2>5, <4>1, <4>2
    <3> QED
      BY <3>1, <3>2
  <2>8. ASSUME NEW i \in DOMAIN undone', NEW j \in DOMAIN undone', i < j
        PROVE  undone'[i].edit < undone'[j].edit
    <3>1. j - 1 \in 1 .. Len(undone) /\ undone'[j] = undone[j - 1]
      BY <1>1, <1>6, <1>7, <2>6, <2>8
    <3>2. CASE i = 1
      BY <1>1, <1>6, <1>7, <3>1, <3>2 DEF EditsInOrder
    <3>3. CASE i # 1
      <4>1. i - 1 \in 1 .. Len(undone) /\ undone'[i] = undone[i - 1] /\ i - 1 < j - 1
        BY <1>1, <1>6, <1>7, <2>6, <2>8, <3>3
      <4> QED
        BY <1>1, <3>1, <4>1 DEF EditsInOrder
    <3> QED
      BY <3>2, <3>3
  <2> QED
    BY <2>3, <2>4, <2>7, <2>8 DEF EditsInOrder
<1> QED
  BY <1>9, <1>10, <1>11 DEF LogInv, DocumentsHold

LEMMA RedoKeeps ==
    ASSUME LogInv, Redo
    PROVE  LogInv'
<1> USE LogInvParts
<1> DEFINE n == Len(done)  m == Len(undone)
<1>1. /\ n \in Nat /\ DOMAIN done = 1 .. n /\ \A i \in 1 .. n : done[i] \in ToSet(done)
      /\ m \in Nat \ {0} /\ DOMAIN undone = 1 .. m
      /\ \A i \in 1 .. m : undone[i] \in ToSet(undone)
  BY OwnElements DEF SequencesHold, Redo
<1>2. /\ Restores(undone[1]) /\ done' = Append(done, held) /\ undone' = Tail(undone)
      /\ UNCHANGED <<maxSteps, landed>>
  BY <1>1 DEF Redo, SequencesHold
<1>3. /\ undone' \in Seq(ToSet(undone)) /\ Len(undone') = m - 1
      /\ \A i \in 1 .. m - 1 : undone'[i] = undone[i + 1] /\ i + 1 \in 1 .. m
  BY <1>1, <1>2 DEF SequencesHold
<1>4. /\ undone' \in Seq(ToSet(undone')) /\ ToSet(undone') \subseteq ToSet(undone)
      /\ DOMAIN undone' = 1 .. m - 1
  BY <1>3, OwnElements
<1>5. done \in Seq(ToSet(done) \cup {held})
  BY WiderElements DEF SequencesHold
<1>6. /\ done' \in Seq(ToSet(done) \cup {held}) /\ Len(done') = n + 1
      /\ \A i \in 1 .. n : done'[i] = done[i]
      /\ done'[n + 1] = held
  BY <1>1, <1>2, <1>5
<1>7. /\ done' \in Seq(ToSet(done')) /\ ToSet(done') \subseteq ToSet(done) \cup {held}
      /\ DOMAIN done' = 1 .. n + 1
  BY <1>6, OwnElements
<1>8. undone[1] \in Line /\ Line' \subseteq Line \cup {held'}
  BY <1>1, <1>4, <1>7 DEF Line
<1>9. DocumentsHold' /\ held'.edit = undone[1].edit /\ made' \in Nat
  BY <1>2, <1>8, DocumentIsRestored
<1>10. SequencesHold'
  BY <1>2, <1>4, <1>7, <1>9 DEF SequencesHold
<1>11. EditsInOrder'
  <2>1. \A document \in Line : document.edit \in Nat
    BY DEF DocumentsHold, AllNumbered, isNumbered
  <2>2. /\ \A i \in 1 .. n : done[i].edit \in Nat
        /\ undone[1].edit \in Nat /\ held.edit \in Nat
    BY <1>1, <2>1 DEF Line
  <2>3. held.edit < undone[1].edit
    BY <1>1 DEF EditsInOrder
  <2>4. \A i \in DOMAIN done' : i \in 1 .. n \/ i = n + 1
    BY <1>1, <1>7
  <2>5. \A i \in DOMAIN done' : done'[i].edit < held'.edit
    BY <1>1, <1>6, <1>9, <2>2, <2>3, <2>4 DEF EditsInOrder
  <2>6. ASSUME NEW i \in DOMAIN done', NEW j \in DOMAIN done', i < j
        PROVE  done'[i].edit < done'[j].edit
    <3>1. i \in 1 .. n /\ done'[i] = done[i]
      BY <1>1, <1>6, <1>7, <2>6
    <3> QED
      BY <1>1, <1>6, <2>4, <2>6, <3>1 DEF EditsInOrder
  <2>7. \A i \in DOMAIN undone' : held'.edit < undone'[i].edit
    <3>1. \A i \in DOMAIN undone' :
              1 \in DOMAIN undone /\ i + 1 \in DOMAIN undone /\ 1 < i + 1 /\ undone'[i] = undone[i + 1]
      BY <1>1, <1>3, <1>4
    <3> QED
      BY <1>9, <3>1 DEF EditsInOrder
  <2>8. \A i, j \in DOMAIN undone' : i < j => undone'[i].edit < undone'[j].edit
    <3>1. \A i \in DOMAIN undone' : i + 1 \in DOMAIN undone /\ undone'[i] = undone[i + 1]
      BY <1>1, <1>3, <1>4
    <3>2. \A i, j \in DOMAIN undone' : i < j => i + 1 < j + 1
      BY <1>1, <1>4
    <3> QED
      BY <3>1, <3>2 DEF EditsInOrder
  <2> QED
    BY <2>5, <2>6, <2>7, <2>8 DEF EditsInOrder
<1> QED
  BY <1>9, <1>10, <1>11 DEF LogInv, DocumentsHold

LEMMA ReplacingKeeps ==
    ASSUME LogInv, ReplaceHeldDocument
    PROVE  LogInv'
<1>1. PICK schedule \in Openings :
          /\ held' = Document(made + 1, made + 1, 0, schedule) /\ made' = made + 1
          /\ done' = <<>> /\ undone' = <<>> /\ landed' = <<>> /\ UNCHANGED maxSteps
  BY DEF ReplaceHeldDocument
<1>2. made \in Nat /\ maxSteps \in Nat \ {0}
  BY DEF LogInv, SequencesHold
<1>3. Line' = {held'} /\ Landed' = {}
  BY <1>1 DEF Line, Landed, ToSet
<1>4. SequencesHold'
  BY <1>1, <1>2 DEF SequencesHold
<1>5. isNumbered(held)'
  BY <1>1, <1>2 DEF isNumbered, Document
<1>6. AllNumbered' /\ OneByReference' /\ LandedIsNotLater'
  BY <1>3, <1>5 DEF AllNumbered, OneByReference, LandedIsNotLater
<1>7. ViewIsLatest'
  BY <1>3, <1>5 DEF ViewIsLatest, isNumbered
<1>8. EditsInOrder'
  BY <1>1 DEF EditsInOrder
<1> QED
  BY <1>4, <1>6, <1>7, <1>8 DEF LogInv

(* The log is forgotten, and the document is left alone. *)
LEMMA ForgettingKeeps ==
    ASSUME LogInv, UNCHANGED unchangedDocument, landed' = <<>>
    PROVE  LogInv'
<1>1. Line' = Line /\ Landed' = {}
  BY DEF Line, Landed, unchangedDocument
<1>2. SequencesHold'
  BY DEF LogInv, SequencesHold, unchangedDocument
<1>3. AllNumbered' /\ OneByReference' /\ LandedIsNotLater' /\ ViewIsLatest' /\ EditsInOrder'
  BY <1>1 DEF LogInv, AllNumbered, isNumbered, OneByReference, LandedIsNotLater, ViewIsLatest,
              EditsInOrder, unchangedDocument
<1> QED
  BY <1>2, <1>3 DEF LogInv

LEMMA StayingKeeps ==
    ASSUME LogInv, UNCHANGED <<unchangedDocument, landed>>
    PROVE  LogInv'
<1>1. Line' = Line /\ Landed' = Landed
  BY DEF Line, Landed, unchangedDocument
<1> QED
  BY <1>1 DEF LogInv, SequencesHold, AllNumbered, isNumbered, OneByReference, LandedIsNotLater,
              ViewIsLatest, EditsInOrder, unchangedDocument

(* A bundle lands as one edit, which the log holds with both its documents. *)
LEMMA LandingKeeps ==
    ASSUME LogInv, NEW rows, NEW of, BundleLands(rows, of)
    PROVE  LogInv'
<1> DEFINE commands == delayFixCommands(rows)
           bundle == [rows |-> rows, before |-> held, after |-> held', of |-> of]
           n == Len(landed)
<1>1. CASE UNCHANGED <<held, done, undone, maxSteps, made, landed>>
  BY <1>1, StayingKeeps DEF unchangedDocument
<1>2. CASE /\ EditLands(FoldLeft(commandTaken, held.schedule, commands))
           /\ landed' = Append(landed, bundle)
  <2> DEFINE T == ToSet(landed) \cup {bundle}
  <2>1. landed \in Seq(T) /\ bundle \in T
    BY WiderElements DEF LogInv, SequencesHold
  <2> HIDE DEF T, bundle
  <2>2. /\ landed' \in Seq(T) /\ n \in Nat
        /\ DOMAIN landed' = 1 .. n + 1 /\ DOMAIN landed = 1 .. n
        /\ \A i \in 1 .. n : landed'[i] = landed[i]
        /\ landed'[n + 1] = bundle
    BY <1>2, <2>1
  <2>3. landed' \in Seq(ToSet(landed'))
    BY <2>2, OwnElements
  <2>4. \A i \in DOMAIN landed' : (i \in DOMAIN landed /\ landed'[i] = landed[i]) \/ landed'[i] = bundle
    BY <2>2
  <2>5. bundle.before = held /\ bundle.after = held'
    BY DEF bundle
  <2>6. Landed' \subseteq Landed \cup {held, held'}
    BY <2>4, <2>5 DEF Landed
  <2> QED
    BY <1>2, <2>3, <2>6, EditKeeps
<1> QED
  BY <1>1, <1>2 DEF BundleLands

LEMMA LogInvInit ==
    ASSUME Init
    PROVE  LogInv
<1>1. PICK schedule \in Openings : held = Document(1, 1, 0, schedule)
  BY DEF Init
<1>2. /\ done = <<>> /\ undone = <<>> /\ landed = <<>> /\ made = 1 /\ maxSteps \in Nat \ {0}
  BY BoundsAssumption DEF Init
<1>3. Line = {held} /\ Landed = {}
  BY <1>2 DEF Line, Landed, ToSet
<1>4. SequencesHold /\ EditsInOrder
  BY <1>2 DEF SequencesHold, EditsInOrder
<1>5. isNumbered(held)
  BY <1>1, <1>2 DEF isNumbered, Document
<1>6. AllNumbered /\ OneByReference /\ LandedIsNotLater /\ ViewIsLatest
  BY <1>3, <1>5 DEF AllNumbered, OneByReference, LandedIsNotLater, ViewIsLatest, isNumbered
<1> QED
  BY <1>4, <1>6 DEF LogInv

LEMMA LogInvStep ==
    ASSUME LogInv, [Next]_vars
    PROVE  LogInv'
<1>1. ASSUME EditDocument PROVE LogInv'
  <2>1. PICK command \in Edits : EditLands(commandTaken(held.schedule, command))
    BY <1>1 DEF EditDocument
  <2>2. landed' = landed
    BY <1>1 DEF EditDocument
  <2>3. Landed' = Landed /\ landed' \in Seq(ToSet(landed'))
    BY <2>2 DEF Landed, LogInv, SequencesHold
  <2> QED
    BY <2>1, <2>3, EditKeeps
<1>2. ASSUME WriteEnds PROVE LogInv'
  BY <1>2, LandingKeeps DEF WriteEnds
<1>3. ASSUME IssueDelayFixes PROVE LogInv'
  BY <1>3, LandingKeeps DEF IssueDelayFixes
<1>4. ASSUME EndDiagnosis PROVE LogInv'
  BY <1>4, ForgettingKeeps DEF EndDiagnosis
<1>5. ASSUME Diagnose \/ PickCheck \/ PickChoice \/ AdoptAll \/ UncheckAll PROVE LogInv'
  <2>1. UNCHANGED <<unchangedDocument, landed>>
    BY <1>5 DEF Diagnose, PickCheck, PickChoice, AdoptAll, UncheckAll, PickMany, Picked
  <2> QED
    BY <2>1, StayingKeeps
<1>6. ASSUME AskFixWrite \/ WriteFails \/ UNCHANGED vars PROVE LogInv'
  BY <1>6, StayingKeeps DEF AskFixWrite, WriteFails, vars, unchangedDocument
<1> QED
  BY <1>1, <1>2, <1>3, <1>4, <1>5, <1>6, MoveViewKeeps, UndoKeeps, RedoKeeps, ReplacingKeeps
     DEF Next

-----------------------------------------------------------------------------
(* The log *)

(* The line is the documents of the history that are done, in order. *)
LEMMA LineIsOfHistory ==
    ASSUME SequencesHold, NEW i \in DOMAIN done
    PROVE  line[i] \in Line /\ line[i + 1] \in Line
<1> DEFINE n == Len(done)  S == ToSet(done) \cup {held}
<1>1. /\ n \in Nat /\ DOMAIN done = 1 .. n /\ \A j \in 1 .. n : done[j] \in ToSet(done)
  BY OwnElements DEF SequencesHold
<1>2. done \in Seq(S) /\ held \in S
  BY WiderElements DEF SequencesHold
<1> HIDE DEF S
<1>3. \A j \in 1 .. n + 1 : line[j] = IF j <= n THEN done[j] ELSE held
  BY <1>1, <1>2 DEF line
<1>4. i \in 1 .. n + 1 /\ i + 1 \in 1 .. n + 1
  BY <1>1
<1>5. \A j \in 1 .. n + 1 : line[j] \in Line
  <2> SUFFICES ASSUME NEW j \in 1 .. n + 1 PROVE line[j] \in Line
    OBVIOUS
  <2>1. CASE j \in 1 .. n
    BY <1>1, <1>3, <2>1 DEF Line
  <2>2. CASE j = n + 1
    BY <1>1, <1>3, <2>2 DEF Line
  <2> QED
    BY <1>1, <2>1, <2>2
<1> QED
  BY <1>4, <1>5

(* A document that landed is the one of the history with its reference, and   *)
(* the one of its edit and its view.                                          *)
LEMMA LandedIsTold ==
    ASSUME LogInv, NEW document \in Landed, NEW there \in Line
    PROVE  there.reference = document.reference
               <=> there.edit = document.edit /\ there.view = document.view
<1>1. there.reference = document.reference => there = document
  BY DEF LogInv, OneByReference
<1>2. document.view \in Nat /\ there.view \in Nat
  BY DEF LogInv, AllNumbered, isNumbered
<1>3. document.edit = there.edit => document = there \/ document.view < there.view
  BY DEF LogInv, LandedIsNotLater
<1> QED
  BY <1>1, <1>2, <1>3

(* What the log tells by the references of two documents is what is in effect *)
(* by their edits: the references of isFixBundleStanding never mistake a      *)
(* version made anew after the view moved, nor miss the document undo and     *)
(* redo bring back (delay-fixes.ts, T-374).                                   *)
THEOREM LogIsTrue == Spec => []LogTellsWhatIsInEffect
<1>1. LogInv => LogTellsWhatIsInEffect
  <2> SUFFICES ASSUME LogInv, NEW b \in DOMAIN landed
               PROVE  b \in standing <=> isInEffect(landed[b])
    BY DEF LogTellsWhatIsInEffect
  <2>1. landed[b].before \in Landed /\ landed[b].after \in Landed
    BY DEF Landed
  <2>2. \A i \in DOMAIN done : line[i] \in Line /\ line[i + 1] \in Line
    BY LineIsOfHistory DEF LogInv
  <2>3. \A i \in DOMAIN done :
            /\ line[i].reference = landed[b].before.reference
                   <=> line[i].edit = landed[b].before.edit /\ line[i].view = landed[b].before.view
            /\ line[i + 1].reference = landed[b].after.reference
                   <=> line[i + 1].edit = landed[b].after.edit /\ line[i + 1].view = landed[b].after.view
    BY <2>1, <2>2, LandedIsTold
  <2> QED
    BY <2>3 DEF standing, isFixBundleStanding, isInEffect
<1> QED
  BY <1>1, LogInvInit, LogInvStep, PTL DEF Spec

=============================================================================
