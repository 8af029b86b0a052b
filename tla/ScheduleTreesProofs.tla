------------------------ MODULE ScheduleTreesProofs ------------------------
(* The trees of ScheduleEditing: neither the WBS nor the task groups close a   *)
(* ring, and no task group lies past the depth, for every document a write can *)
(* find and every bound. Nothing here is proved along the paths of a tree: a   *)
(* set of rows stands for each, and that a tree has no ring is what lets its   *)
(* rows be taken from the root down.                                          *)
EXTENDS ScheduleEditingProofs

-----------------------------------------------------------------------------
(* Trees that lose rows, gain rows, and move a row *)

(* The rows that are left keep their parents. *)
Pruned(parent, left) ==
    /\ DOMAIN left \subseteq DOMAIN parent
    /\ \A one \in DOMAIN left : left[one] = parent[one]

(* The rows there were keep their parents, which are not among the new ones. *)
Grown(parent, grown) ==
    /\ DOMAIN parent \subseteq DOMAIN grown
    /\ \A one \in DOMAIN parent :
          grown[one] = parent[one] /\ parent[one] \notin DOMAIN grown \ DOMAIN parent

LEMMA PrunedHasNoRing ==
    ASSUME NEW parent, NEW left, HasNoRing(parent), Pruned(parent, left)
    PROVE  HasNoRing(left)
BY DEF HasNoRing, Pruned

(* A tree grows by rows that close no ring among themselves. *)
LEMMA GrownHasNoRing ==
    ASSUME NEW parent, NEW grown, HasNoRing(parent), Grown(parent, grown),
           \A rows \in SUBSET (DOMAIN grown \ DOMAIN parent) :
               rows # {} => \E key \in rows : grown[key] \notin rows
    PROVE  HasNoRing(grown)
<1> SUFFICES ASSUME NEW rows \in SUBSET DOMAIN grown, rows # {}
             PROVE  \E key \in rows : grown[key] \notin rows
  BY DEF HasNoRing
<1> DEFINE old == rows \cap DOMAIN parent
<1>1. CASE old = {}
  <2>1. rows \in SUBSET (DOMAIN grown \ DOMAIN parent)
    BY <1>1
  <2> QED
    BY <2>1
<1>2. CASE old # {}
  <2>1. PICK key \in old : parent[key] \notin old
    BY <1>2 DEF HasNoRing
  <2>2. grown[key] = parent[key] /\ parent[key] \notin DOMAIN grown \ DOMAIN parent
    BY DEF Grown
  <2> QED
    BY <2>1, <2>2
<1> QED
  BY <1>1, <1>2

(* A row moves under one that does not hang below it. *)
LEMMA MovedHasNoRing ==
    ASSUME NEW parent, NEW key \in DOMAIN parent, NEW above, HasNoRing(parent),
           parent = [one \in DOMAIN parent |-> parent[one]],
           above \notin Subtree(parent, {key})
    PROVE  HasNoRing([parent EXCEPT ![key] = above])
<1> DEFINE below == Subtree(parent, {key})
           moved == [parent EXCEPT ![key] = above]
<1>1. below \subseteq DOMAIN parent /\ key \in below /\ Closed(parent, below)
  BY SubtreeIsClosed
<1> HIDE DEF below
<1>2. DOMAIN moved = DOMAIN parent /\ moved[key] = above
      /\ \A one \in DOMAIN parent : one # key => moved[one] = parent[one]
  OBVIOUS
<1> HIDE DEF moved
<1> SUFFICES ASSUME NEW rows \in SUBSET DOMAIN parent, rows # {}
             PROVE  \E one \in rows : moved[one] \notin rows
  BY <1>2 DEF HasNoRing, moved
<1>3. CASE rows \ below # {}
  <2>1. rows \ below \in SUBSET DOMAIN parent
    OBVIOUS
  <2>2. PICK one \in rows \ below : parent[one] \notin rows \ below
    BY <1>3, <2>1 DEF HasNoRing
  <2>3. parent[one] \notin below
    BY <1>1, <2>2 DEF Closed
  <2> QED
    BY <1>1, <1>2, <2>2, <2>3
<1>4. CASE rows \ below = {} /\ key \in rows
  <2>1. above \notin rows
    BY <1>4 DEF below
  <2> QED
    BY <1>2, <1>4, <2>1
<1>5. CASE key \notin rows
  BY <1>2, <1>5 DEF HasNoRing
<1> QED
  BY <1>3, <1>4, <1>5

-----------------------------------------------------------------------------
(* The rows above a row, itself included, whose number is its depth *)

Above(parent, key) == {above \in DOMAIN parent : key \in Subtree(parent, {above})}

LEMMA DepthIsOfAbove ==
    ASSUME NEW parent, NEW key
    PROVE  DepthOf(parent, key) = Cardinality(Above(parent, key))
BY DEF DepthOf, Above

(* A set that holds the seeds and all that hangs below its rows holds the     *)
(* subtree.                                                                   *)
LEMMA SubtreeIsLeast ==
    ASSUME NEW parent, NEW seeds, NEW rows \in SUBSET DOMAIN parent,
           seeds \cap DOMAIN parent \subseteq rows, Closed(parent, rows)
    PROVE  Subtree(parent, seeds) \subseteq rows
BY DEF Subtree, Closed

(* Above a row stand itself and what stands above its parent. *)
LEMMA AboveIsWalk ==
    ASSUME NEW parent, NEW key \in DOMAIN parent
    PROVE  /\ key \in Above(parent, key)
           /\ Above(parent, parent[key]) \subseteq Above(parent, key)
           /\ \A above \in Above(parent, key) :
                 above # key => parent[key] \in DOMAIN parent /\ above \in Above(parent, parent[key])
<1>1. \A above \in DOMAIN parent :
          above \in Subtree(parent, {above}) /\ Closed(parent, Subtree(parent, {above}))
  BY SubtreeIsClosed
<1>2. key \in Above(parent, key)
  BY <1>1 DEF Above
<1>3. Above(parent, parent[key]) \subseteq Above(parent, key)
  BY <1>1 DEF Above, Closed
<1>4. ASSUME NEW above \in Above(parent, key), above # key
      PROVE  parent[key] \in DOMAIN parent /\ above \in Above(parent, parent[key])
  <2> DEFINE below == Subtree(parent, {above})
             rest == below \ {key}
  <2>1. above \in DOMAIN parent /\ key \in below
    BY <1>4 DEF Above
  <2>2. below \subseteq DOMAIN parent /\ above \in below /\ Closed(parent, below)
    BY <2>1, SubtreeIsClosed
  <2>3. parent[key] \in below
    <3>1. SUFFICES ASSUME parent[key] \notin below PROVE FALSE
      OBVIOUS
    <3> HIDE DEF below
    <3>2. rest \in SUBSET DOMAIN parent /\ {above} \cap DOMAIN parent \subseteq rest
      BY <1>4, <2>2
    <3>3. Closed(parent, rest)
      BY <2>2, <3>1 DEF Closed
    <3>4. below \subseteq rest
      BY <3>2, <3>3, SubtreeIsLeast DEF below
    <3> QED
      BY <2>1, <3>4
  <2> QED
    BY <2>1, <2>2, <2>3 DEF Above
<1> QED
  BY <1>2, <1>3, <1>4

(* What stands above what stands above a row stands above it. *)
LEMMA AboveIsTransitive ==
    ASSUME NEW parent, NEW key, NEW above \in Above(parent, key)
    PROVE  Above(parent, above) \subseteq Above(parent, key)
<1> SUFFICES ASSUME NEW top \in Above(parent, above) PROVE top \in Above(parent, key)
  OBVIOUS
<1>1. /\ top \in DOMAIN parent /\ above \in Subtree(parent, {top})
      /\ above \in DOMAIN parent /\ key \in Subtree(parent, {above})
  BY DEF Above
<1>2. Subtree(parent, {top}) \subseteq DOMAIN parent /\ Closed(parent, Subtree(parent, {top}))
  BY SubtreeIsClosed
<1>3. Subtree(parent, {above}) \subseteq Subtree(parent, {top})
  BY <1>1, <1>2, SubtreeIsLeast
<1> QED
  BY <1>1, <1>3 DEF Above

(* No two rows stand above each other. *)
LEMMA AboveIsAntisymmetric ==
    ASSUME NEW parent, HasNoRing(parent), NEW a, NEW b \in Above(parent, a), a \in Above(parent, b)
    PROVE  a = b
<1> SUFFICES ASSUME a # b PROVE FALSE
  OBVIOUS
<1> DEFINE ring == {x \in DOMAIN parent : x \in Above(parent, b) /\ b \in Above(parent, x)}
<1>1. a \in DOMAIN parent /\ b \in DOMAIN parent
  BY DEF Above
<1>2. ring \in SUBSET DOMAIN parent /\ ring # {}
  BY <1>1, AboveIsWalk
<1>3. PICK x \in ring : parent[x] \notin ring
  BY <1>2 DEF HasNoRing
<1>4. x \in DOMAIN parent /\ x \in Above(parent, b) /\ b \in Above(parent, x)
  BY <1>3
<1>5. CASE x # b
  <2>1. parent[x] \in DOMAIN parent /\ b \in Above(parent, parent[x])
    BY <1>4, <1>5, AboveIsWalk
  <2>2. parent[x] \in Above(parent, x)
    BY <1>4, <2>1, AboveIsWalk
  <2>3. parent[x] \in Above(parent, b)
    BY <1>4, <2>2, AboveIsTransitive
  <2> QED
    BY <1>3, <2>1, <2>3
<1>6. CASE x = b
  <2>1. parent[b] \in DOMAIN parent /\ a \in Above(parent, parent[b])
    BY <1>1, AboveIsWalk
  <2>2. b \in Above(parent, parent[b])
    BY <2>1, AboveIsTransitive
  <2>3. parent[b] \in Above(parent, b)
    BY <1>1, <2>1, AboveIsWalk
  <2> QED
    BY <1>3, <1>6, <2>1, <2>2, <2>3
<1> QED
  BY <1>5, <1>6

(* Of two rows above a row, one stands above the other. *)
LEMMA AboveIsAChain ==
    ASSUME NEW parent, HasNoRing(parent), NEW key \in DOMAIN parent,
           NEW a \in Above(parent, key), NEW b \in Above(parent, key)
    PROVE  a \in Above(parent, b) \/ b \in Above(parent, a)
<1> DEFINE isChained(x) ==
             \A c, e \in Above(parent, x) : c \in Above(parent, e) \/ e \in Above(parent, c)
           unchained == {x \in DOMAIN parent : ~isChained(x)}
<1>1. ASSUME unchained # {} PROVE FALSE
  <2>1. PICK x \in unchained : parent[x] \notin unchained
    BY <1>1 DEF HasNoRing
  <2>2. PICK c \in Above(parent, x), e \in Above(parent, x) :
            c \notin Above(parent, e) /\ e \notin Above(parent, c)
    BY <2>1
  <2>3. c # x /\ e # x
    BY <2>2
  <2>4. parent[x] \in DOMAIN parent /\ c \in Above(parent, parent[x]) /\ e \in Above(parent, parent[x])
    BY <2>1, <2>3, AboveIsWalk
  <2> QED
    BY <2>1, <2>2, <2>4
<1> QED
  BY <1>1

(* The rows above a row lie at different depths. *)
LEMMA DepthsAboveDiffer ==
    ASSUME NEW parent, HasNoRing(parent), IsFiniteSet(DOMAIN parent), NEW key \in DOMAIN parent,
           NEW a \in Above(parent, key), NEW b \in Above(parent, key),
           DepthOf(parent, a) = DepthOf(parent, b)
    PROVE  a = b
<1>1. a \in DOMAIN parent /\ b \in DOMAIN parent
  BY DEF Above
<1>2. ASSUME NEW c \in {a, b}, NEW e \in {a, b}, c \in Above(parent, e) PROVE c = e
  <2>1. Above(parent, e) \in SUBSET DOMAIN parent
    BY DEF Above
  <2>2. IsFiniteSet(Above(parent, e))
    BY <2>1, FS_Subset
  <2>3. Above(parent, c) \in SUBSET Above(parent, e)
    BY <1>2, AboveIsTransitive
  <2>4. Cardinality(Above(parent, c)) = Cardinality(Above(parent, e))
    BY DepthIsOfAbove
  <2>5. Above(parent, c) = Above(parent, e)
    BY <2>2, <2>3, <2>4, FS_Subset
  <2>6. e \in Above(parent, c)
    BY <1>1, <2>5, AboveIsWalk
  <2> QED
    BY <1>2, <2>6, AboveIsAntisymmetric
<1>3. a \in Above(parent, b) \/ b \in Above(parent, a)
  BY AboveIsAChain
<1> QED
  BY <1>2, <1>3

-----------------------------------------------------------------------------
(* What a tree that changes has above a row *)

LEMMA PrunedAbove ==
    ASSUME NEW parent, NEW left, Pruned(parent, left), NEW key \in DOMAIN left
    PROVE  Above(left, key) \subseteq Above(parent, key)
<1> SUFFICES ASSUME NEW above \in Above(left, key) PROVE above \in Above(parent, key)
  OBVIOUS
<1> DEFINE below == Subtree(parent, {above})
           rows == below \cap DOMAIN left
<1>1. above \in DOMAIN left /\ above \in DOMAIN parent /\ key \in Subtree(left, {above})
  BY DEF Above, Pruned
<1>2. above \in below /\ Closed(parent, below)
  BY <1>1, SubtreeIsClosed
<1> HIDE DEF below
<1>3. Closed(left, rows) /\ {above} \cap DOMAIN left \subseteq rows
  BY <1>2 DEF Closed, Pruned
<1>4. Subtree(left, {above}) \subseteq rows
  BY <1>3, SubtreeIsLeast
<1> QED
  BY <1>1, <1>4 DEF Above, below

(* The rows that are new hang, all of them in the end, under one that is not. *)
LEMMA GraftedAbove ==
    ASSUME NEW parent, NEW grown, Grown(parent, grown), NEW under,
           under \notin DOMAIN grown \ DOMAIN parent,
           \A one \in DOMAIN grown \ DOMAIN parent :
               grown[one] = under \/ grown[one] \in DOMAIN grown \ DOMAIN parent
    PROVE  /\ \A key \in DOMAIN parent : Above(grown, key) \subseteq Above(parent, key)
           /\ \A key \in DOMAIN grown :
                 Above(grown, key) \cap DOMAIN parent \subseteq
                     IF key \in DOMAIN parent THEN Above(parent, key) ELSE Above(parent, under)
<1> DEFINE fresh == DOMAIN grown \ DOMAIN parent
<1>1. ASSUME NEW above \in DOMAIN parent
      PROVE  \A key \in Subtree(grown, {above}) :
                 above \in IF key \in DOMAIN parent THEN Above(parent, key) ELSE Above(parent, under)
  <2> DEFINE below == Subtree(parent, {above})
             rows == below \cup {one \in fresh : above \in Above(parent, under)}
  <2>1. below \subseteq DOMAIN parent /\ above \in below /\ Closed(parent, below)
    BY <1>1, SubtreeIsClosed
  <2>2. under \in below <=> above \in Above(parent, under)
    BY <1>1 DEF Above
  <2> HIDE DEF below
  <2>3. rows \in SUBSET DOMAIN grown /\ {above} \cap DOMAIN grown \subseteq rows
    BY <2>1 DEF Grown
  <2>4. Closed(grown, rows)
    <3> SUFFICES ASSUME NEW one \in DOMAIN grown, grown[one] \in rows PROVE one \in rows
      BY DEF Closed
    <3>1. CASE one \in DOMAIN parent
      <4>1. parent[one] \in below
        BY <3>1 DEF Grown
      <4> QED
        BY <2>1, <3>1, <4>1 DEF Closed
    <3>2. CASE one \in fresh
      <4>1. above \in Above(parent, under)
        BY <2>1, <2>2, <3>2
      <4> QED
        BY <3>2, <4>1
    <3> QED
      BY <3>1, <3>2
  <2>5. Subtree(grown, {above}) \subseteq rows
    BY <2>3, <2>4, SubtreeIsLeast
  <2>6. \A key \in DOMAIN parent : key \in below => above \in Above(parent, key)
    BY <1>1 DEF Above, below
  <2> QED
    BY <2>1, <2>5, <2>6
<1>2. ASSUME NEW above \in fresh PROVE Subtree(grown, {above}) \subseteq fresh
  <2>1. fresh \in SUBSET DOMAIN grown /\ {above} \cap DOMAIN grown \subseteq fresh
    BY <1>2
  <2>2. Closed(grown, fresh)
    BY DEF Closed, Grown
  <2> QED
    BY <2>1, <2>2, SubtreeIsLeast
<1>3. ASSUME NEW key \in DOMAIN parent PROVE Above(grown, key) \subseteq Above(parent, key)
  <2> SUFFICES ASSUME NEW above \in Above(grown, key) PROVE above \in Above(parent, key)
    OBVIOUS
  <2>1. above \in DOMAIN grown /\ key \in Subtree(grown, {above})
    BY DEF Above
  <2>2. above \in DOMAIN parent
    BY <1>2, <1>3, <2>1
  <2> QED
    BY <1>1, <1>3, <2>1, <2>2
<1>4. ASSUME NEW key \in DOMAIN grown
      PROVE  Above(grown, key) \cap DOMAIN parent \subseteq
                 IF key \in DOMAIN parent THEN Above(parent, key) ELSE Above(parent, under)
  BY <1>1, <1>4 DEF Above
<1> QED
  BY <1>3, <1>4

(* The rows below the one that moves keep what is above them among themselves, *)
(* and come under what is above its new place; any other keeps what it has.   *)
LEMMA MovedAbove ==
    ASSUME NEW parent, NEW key \in DOMAIN parent, NEW under, NEW moved,
           under \notin Subtree(parent, {key}),
           DOMAIN moved = DOMAIN parent, moved[key] = under,
           \A one \in DOMAIN parent : one # key => moved[one] = parent[one]
    PROVE  \A one \in DOMAIN parent :
               Above(moved, one) \subseteq
                   IF one \in Subtree(parent, {key})
                   THEN (Above(parent, one) \cap Subtree(parent, {key})) \cup Above(parent, under)
                   ELSE Above(parent, one)
<1> DEFINE below == Subtree(parent, {key})
           rowsOf(above) ==
             {x \in DOMAIN parent :
                 above \in IF x \in below THEN (Above(parent, x) \cap below) \cup Above(parent, under)
                           ELSE Above(parent, x)}
<1>1. below \subseteq DOMAIN parent /\ key \in below /\ Closed(parent, below)
  BY SubtreeIsClosed
<1>2. \A x \in below : key \in Above(parent, x)
  BY DEF Above
<1>3. under \notin below
  OBVIOUS
<1> HIDE DEF below
<1>4. ASSUME NEW above \in DOMAIN parent PROVE Subtree(moved, {above}) \subseteq rowsOf(above)
  <2>1. above \in rowsOf(above)
    BY <1>4, AboveIsWalk
  <2>2. Closed(moved, rowsOf(above))
    <3> SUFFICES ASSUME NEW x \in DOMAIN parent, moved[x] \in rowsOf(above)
                 PROVE  x \in rowsOf(above)
      BY DEF Closed
    <3>1. CASE x = key
      <4>1. above \in Above(parent, under)
        BY <1>3, <3>1
      <4> QED
        BY <1>1, <3>1, <4>1
    <3>2. CASE x # key
      <4>1. parent[x] \in DOMAIN parent /\ parent[x] \in rowsOf(above)
        BY <3>2
      <4>2. Above(parent, parent[x]) \subseteq Above(parent, x)
        BY AboveIsWalk
      <4>3. x \in below <=> parent[x] \in below
        <5>1. ASSUME x \in below PROVE parent[x] \in below
          <6>1. key \in Above(parent, parent[x])
            BY <1>2, <3>2, <5>1, AboveIsWalk
          <6> QED
            BY <4>1, <6>1 DEF Above, below
        <5> QED
          BY <1>1, <5>1 DEF Closed
      <4>4. CASE parent[x] \in below
        BY <4>1, <4>2, <4>3, <4>4
      <4>5. CASE parent[x] \notin below
        BY <4>1, <4>2, <4>3, <4>5
      <4> QED
        BY <4>4, <4>5
    <3> QED
      BY <3>1, <3>2
  <2>3. rowsOf(above) \in SUBSET DOMAIN moved /\ {above} \cap DOMAIN moved \subseteq rowsOf(above)
    BY <2>1
  <2> HIDE DEF rowsOf
  <2> QED
    BY <2>2, <2>3, SubtreeIsLeast
<1> SUFFICES ASSUME NEW one \in DOMAIN parent, NEW above \in Above(moved, one)
             PROVE  above \in IF one \in below
                              THEN (Above(parent, one) \cap below) \cup Above(parent, under)
                              ELSE Above(parent, one)
  BY DEF below
<1>5. above \in DOMAIN parent /\ one \in Subtree(moved, {above})
  BY DEF Above
<1>6. one \in rowsOf(above)
  BY <1>4, <1>5
<1> QED
  BY <1>6

-----------------------------------------------------------------------------
(* What a tree that changes makes of the depths *)

LEMMA AboveIsFinite ==
    ASSUME NEW parent, IsFiniteSet(DOMAIN parent), NEW key
    PROVE  IsFiniteSet(Above(parent, key)) /\ Cardinality(Above(parent, key)) \in Nat
<1>1. Above(parent, key) \in SUBSET DOMAIN parent
  BY DEF Above
<1> QED
  BY <1>1, FS_Subset, FS_CardinalityType

(* Two sets that hold a third bound its number. *)
LEMMA NumberOfTwo ==
    ASSUME NEW A, IsFiniteSet(A), NEW B, IsFiniteSet(B), NEW C, C \subseteq A \cup B
    PROVE  /\ IsFiniteSet(C)
           /\ Cardinality(A) \in Nat /\ Cardinality(B) \in Nat /\ Cardinality(C) \in Nat
           /\ Cardinality(C) <= Cardinality(A) + Cardinality(B)
<1>1. IsFiniteSet(A \cup B)
      /\ Cardinality(A \cup B) = Cardinality(A) + Cardinality(B) - Cardinality(A \cap B)
  BY FS_Union
<1>2. IsFiniteSet(C) /\ Cardinality(C) <= Cardinality(A \cup B)
  <2>1. C \in SUBSET (A \cup B)
    OBVIOUS
  <2> QED
    BY <1>1, <2>1, FS_Subset
<1>3. IsFiniteSet(A \cap B)
  <2>1. A \cap B \in SUBSET A
    OBVIOUS
  <2> QED
    BY <2>1, FS_Subset
<1>4. /\ Cardinality(A) \in Nat /\ Cardinality(B) \in Nat /\ Cardinality(C) \in Nat
      /\ Cardinality(A \cap B) \in Nat /\ Cardinality(A \cup B) \in Nat
  BY <1>1, <1>2, <1>3, FS_CardinalityType
<1> QED
  BY <1>1, <1>2, <1>4

(* What stands above a row of a subtree, within it, is no more than the       *)
(* levels of the subtree.                                                     *)
LEMMA HeightHoldsLevels ==
    ASSUME NEW parent, HasNoRing(parent), IsFiniteSet(DOMAIN parent), NEW root, NEW key,
           key \in Subtree(parent, {root})
    PROVE  /\ HeightOf(parent, root) \in Nat
           /\ Cardinality(Above(parent, key) \cap Subtree(parent, {root})) <= HeightOf(parent, root)
<1> DEFINE below == Subtree(parent, {root})
           within == Above(parent, key) \cap below
           depths == [one \in below |-> DepthOf(parent, one)]
           levels == {DepthOf(parent, one) : one \in below}
           level == [one \in within |-> DepthOf(parent, one)]
<1>1. below \subseteq DOMAIN parent
  BY SubtreeIsClosed
<1>2. IsFiniteSet(levels)
  <2>1. IsFiniteSet(below)
    BY <1>1, FS_Subset
  <2>2. depths \in Surjection(below, levels)
    BY DEF Surjection
  <2> QED
    BY <2>1, <2>2, FS_Surjection
<1>3. level \in Injection(within, levels)
  <2>1. level \in [within -> levels]
    OBVIOUS
  <2>2. \A a, b \in within : level[a] = level[b] => a = b
    BY <1>1, DepthsAboveDiffer
  <2> HIDE DEF level, levels, within
  <2> QED
    BY <2>1, <2>2 DEF Injection, IsInjective
<1>4. HeightOf(parent, root) = Cardinality(levels)
  BY DEF HeightOf
<1> HIDE DEF levels, within, level
<1>5. Cardinality(levels) \in Nat /\ Cardinality(within) <= Cardinality(levels)
  BY <1>2, <1>3, FS_CardinalityType, FS_Injection
<1> QED
  BY <1>4, <1>5 DEF within

(* Under a parent rows start at the number of rows above it, under none at 0. *)
LEMMA DepthUnderIsOfAbove ==
    ASSUME NEW d, Null \notin TaskGroups(d), NEW parentId
    PROVE  DepthUnder(d, parentId) = Cardinality(Above(ParentGroups(d), parentId))
<1>1. CASE parentId = Null
  <2>1. \A above \in DOMAIN ParentGroups(d) : Null \notin Subtree(ParentGroups(d), {above})
    BY SubtreeIsClosed DEF ParentGroups
  <2>2. Above(ParentGroups(d), parentId) = {}
    BY <1>1, <2>1 DEF Above
  <2> QED
    BY <1>1, <2>2, FS_EmptySet DEF DepthUnder
<1> QED
  BY <1>1, DepthIsOfAbove DEF DepthUnder

LEMMA PrunedDepths ==
    ASSUME NEW parent, NEW left, Pruned(parent, left), IsFiniteSet(DOMAIN parent),
           NEW key \in DOMAIN left
    PROVE  DepthOf(left, key) <= DepthOf(parent, key)
<1>1. Above(left, key) \in SUBSET Above(parent, key)
  BY PrunedAbove
<1> QED
  BY <1>1, AboveIsFinite, FS_Subset, DepthIsOfAbove

(* Below a row there is room, within a limit, for the rows a new one has above *)
(* it that are new too.                                                       *)
HasRoom(parent, grown, under, limit) ==
    \A key \in DOMAIN grown \ DOMAIN parent :
        \E levels \in Nat : \E within :
            /\ Above(grown, key) \ DOMAIN parent \subseteq within
            /\ IsFiniteSet(within) /\ Cardinality(within) <= levels
            /\ levels + Cardinality(Above(parent, under)) <= limit

LEMMA GraftedDepths ==
    ASSUME NEW parent, NEW grown, Grown(parent, grown), IsFiniteSet(DOMAIN parent), NEW under,
           under \notin DOMAIN grown \ DOMAIN parent,
           \A one \in DOMAIN grown \ DOMAIN parent :
               grown[one] = under \/ grown[one] \in DOMAIN grown \ DOMAIN parent,
           NEW limit \in Nat,
           \A key \in DOMAIN parent : DepthOf(parent, key) <= limit,
           HasRoom(parent, grown, under, limit)
    PROVE  \A key \in DOMAIN grown : DepthOf(grown, key) <= limit
<1>1. ASSUME NEW key \in DOMAIN parent PROVE DepthOf(grown, key) <= limit
  <2>1. Above(grown, key) \in SUBSET Above(parent, key)
    BY GraftedAbove
  <2>2. /\ Cardinality(Above(grown, key)) \in Nat /\ Cardinality(Above(parent, key)) \in Nat
        /\ Cardinality(Above(grown, key)) <= Cardinality(Above(parent, key))
    BY <2>1, AboveIsFinite, FS_Subset, FS_CardinalityType
  <2> QED
    BY <2>2, DepthIsOfAbove
<1>2. ASSUME NEW key \in DOMAIN grown \ DOMAIN parent PROVE DepthOf(grown, key) <= limit
  <2>1. PICK levels \in Nat : \E within :
            /\ Above(grown, key) \ DOMAIN parent \subseteq within
            /\ IsFiniteSet(within) /\ Cardinality(within) <= levels
            /\ levels + Cardinality(Above(parent, under)) <= limit
    BY DEF HasRoom
  <2>6. PICK within :
            /\ Above(grown, key) \ DOMAIN parent \subseteq within
            /\ IsFiniteSet(within) /\ Cardinality(within) <= levels
            /\ levels + Cardinality(Above(parent, under)) <= limit
    BY <2>1
  <2>2. Above(grown, key) \cap DOMAIN parent \subseteq Above(parent, under)
    BY GraftedAbove
  <2>3. Above(grown, key) \subseteq within \cup Above(parent, under)
    BY <2>6, <2>2
  <2>4. IsFiniteSet(Above(parent, under))
    BY AboveIsFinite
  <2>5. /\ Cardinality(within) \in Nat /\ Cardinality(Above(parent, under)) \in Nat
        /\ Cardinality(Above(grown, key)) \in Nat
        /\ Cardinality(Above(grown, key)) <= Cardinality(within) + Cardinality(Above(parent, under))
    BY <2>6, <2>3, <2>4, NumberOfTwo
  <2> QED
    BY <2>6, <2>5, DepthIsOfAbove
<1> QED
  BY <1>1, <1>2

LEMMA MovedDepths ==
    ASSUME NEW parent, HasNoRing(parent), IsFiniteSet(DOMAIN parent),
           NEW key \in DOMAIN parent, NEW under, NEW moved,
           under \notin Subtree(parent, {key}),
           DOMAIN moved = DOMAIN parent, moved[key] = under,
           \A one \in DOMAIN parent : one # key => moved[one] = parent[one],
           NEW limit \in Nat,
           \A one \in DOMAIN parent : DepthOf(parent, one) <= limit,
           Cardinality(Above(parent, under)) + HeightOf(parent, key) <= limit
    PROVE  \A one \in DOMAIN moved : DepthOf(moved, one) <= limit
<1> SUFFICES ASSUME NEW one \in DOMAIN parent PROVE DepthOf(moved, one) <= limit
  OBVIOUS
<1> DEFINE below == Subtree(parent, {key})
<1>1. Above(moved, one) \subseteq IF one \in below
                                  THEN (Above(parent, one) \cap below) \cup Above(parent, under)
                                  ELSE Above(parent, one)
  BY MovedAbove
<1>2. IsFiniteSet(Above(parent, one)) /\ IsFiniteSet(Above(parent, under))
  BY AboveIsFinite
<1>3. CASE one \in below
  <2> DEFINE within == Above(parent, one) \cap below
  <2>1. HeightOf(parent, key) \in Nat /\ Cardinality(within) <= HeightOf(parent, key)
    BY <1>3, HeightHoldsLevels
  <2>2. IsFiniteSet(within)
    <3>1. within \in SUBSET Above(parent, one)
      OBVIOUS
    <3> QED
      BY <1>2, <3>1, FS_Subset
  <2>3. Above(moved, one) \subseteq within \cup Above(parent, under)
    BY <1>1, <1>3
  <2> HIDE DEF within
  <2>4. /\ Cardinality(within) \in Nat /\ Cardinality(Above(parent, under)) \in Nat
        /\ Cardinality(Above(moved, one)) \in Nat
        /\ Cardinality(Above(moved, one)) <= Cardinality(within) + Cardinality(Above(parent, under))
    BY <1>2, <2>2, <2>3, NumberOfTwo
  <2> QED
    BY <2>1, <2>4, DepthIsOfAbove
<1>4. CASE one \notin below
  <2>1. Above(moved, one) \in SUBSET Above(parent, one)
    BY <1>1, <1>4
  <2>2. /\ Cardinality(Above(moved, one)) \in Nat /\ Cardinality(Above(parent, one)) \in Nat
        /\ Cardinality(Above(moved, one)) <= Cardinality(Above(parent, one))
    BY <1>2, <2>1, FS_Subset, FS_CardinalityType
  <2> QED
    BY <2>2, DepthIsOfAbove
<1> QED
  BY <1>3, <1>4

-----------------------------------------------------------------------------
(* A copied subtree *)

(* The rows below a root are copied under a row, each copy under the copy of   *)
(* its parent.                                                                *)
CopiedUnder(parent, root, idOf, under, grown) ==
    /\ root \in DOMAIN parent
    /\ \A a, b \in Subtree(parent, {root}) : idOf[a] = idOf[b] => a = b
    /\ \A one \in Subtree(parent, {root}) : idOf[one] \notin DOMAIN parent
    /\ DOMAIN grown = DOMAIN parent \cup {idOf[one] : one \in Subtree(parent, {root})}
    /\ Grown(parent, grown)
    /\ under \notin DOMAIN grown \ DOMAIN parent
    /\ \A one \in Subtree(parent, {root}) :
          grown[idOf[one]] = IF one = root THEN under ELSE idOf[parent[one]]

(* The parent of a row below a root is below it too, but the root's.          *)
LEMMA ParentIsBelow ==
    ASSUME NEW parent, NEW root \in DOMAIN parent, NEW one \in Subtree(parent, {root}), one # root
    PROVE  parent[one] \in Subtree(parent, {root})
<1>1. one \in DOMAIN parent
  BY SubtreeIsClosed
<1>2. root \in Above(parent, one)
  BY DEF Above
<1>3. root \in Above(parent, parent[one])
  BY <1>1, <1>2, AboveIsWalk
<1> QED
  BY <1>3 DEF Above

LEMMA CopiesAreNew ==
    ASSUME NEW parent, NEW root, NEW idOf, NEW under, NEW grown,
           CopiedUnder(parent, root, idOf, under, grown)
    PROVE  DOMAIN grown \ DOMAIN parent = {idOf[one] : one \in Subtree(parent, {root})}
<1> DEFINE copies == {idOf[one] : one \in Subtree(parent, {root})}
<1>1. DOMAIN grown = DOMAIN parent \cup copies
  BY DEF CopiedUnder
<1>2. \A one \in Subtree(parent, {root}) : idOf[one] \notin DOMAIN parent
  BY DEF CopiedUnder
<1>3. \A copy \in copies : copy \notin DOMAIN parent
  BY <1>2
<1> HIDE DEF copies
<1>4. DOMAIN grown \ DOMAIN parent = copies
  BY <1>1, <1>3
<1> QED
  BY <1>4 DEF copies

LEMMA CopiedHasNoRing ==
    ASSUME NEW parent, NEW root, NEW idOf, NEW under, NEW grown, HasNoRing(parent),
           CopiedUnder(parent, root, idOf, under, grown)
    PROVE  HasNoRing(grown)
<1> DEFINE copied == Subtree(parent, {root})
<1> SUFFICES ASSUME NEW rows \in SUBSET (DOMAIN grown \ DOMAIN parent), rows # {}
             PROVE  \E key \in rows : grown[key] \notin rows
  BY GrownHasNoRing DEF CopiedUnder
<1> DEFINE sources == {one \in copied : idOf[one] \in rows}
<1>1. copied \subseteq DOMAIN parent /\ root \in DOMAIN parent
  BY SubtreeIsClosed DEF CopiedUnder
<1>2. DOMAIN grown \ DOMAIN parent = {idOf[one] : one \in copied}
  BY CopiesAreNew
<1>3. sources \in SUBSET DOMAIN parent /\ sources # {}
  BY <1>1, <1>2
<1>4. PICK key \in sources : parent[key] \notin sources
  BY <1>3 DEF HasNoRing
<1>5. idOf[key] \in rows
  OBVIOUS
<1>6. CASE key = root
  BY <1>5, <1>6 DEF CopiedUnder
<1>7. CASE key # root
  <2>1. parent[key] \in copied /\ grown[idOf[key]] = idOf[parent[key]]
    BY <1>1, <1>7, ParentIsBelow DEF CopiedUnder
  <2> QED
    BY <1>4, <1>5, <2>1
<1> QED
  BY <1>6, <1>7

LEMMA CopiedAbove ==
    ASSUME NEW parent, NEW root, NEW idOf, NEW under, NEW grown,
           CopiedUnder(parent, root, idOf, under, grown), NEW key \in Subtree(parent, {root})
    PROVE  Above(grown, idOf[key]) \ DOMAIN parent \subseteq
               {idOf[one] : one \in Above(parent, key) \cap Subtree(parent, {root})}
<1> DEFINE copied == Subtree(parent, {root})
<1>1. copied \subseteq DOMAIN parent /\ Closed(parent, copied) /\ root \in DOMAIN parent
  BY SubtreeIsClosed DEF CopiedUnder
<1>2. DOMAIN grown \ DOMAIN parent = {idOf[one] : one \in copied}
  BY CopiesAreNew
<1> SUFFICES ASSUME NEW top \in copied, idOf[top] \in Above(grown, idOf[key])
             PROVE  top \in Above(parent, key)
  BY <1>2 DEF Above
<1> DEFINE below == Subtree(parent, {top})
           copies == {idOf[one] : one \in below}
<1>3. below \subseteq copied
  BY <1>1, SubtreeIsLeast
<1>4. top \in below /\ Closed(parent, below)
  BY <1>1, SubtreeIsClosed
<1> HIDE DEF below
<1>5. copies \in SUBSET DOMAIN grown /\ {idOf[top]} \cap DOMAIN grown \subseteq copies
  BY <1>2, <1>3, <1>4
<1>6. Closed(grown, copies)
  <2> SUFFICES ASSUME NEW one \in DOMAIN grown, grown[one] \in copies PROVE one \in copies
    BY DEF Closed
  <2>1. grown[one] \in DOMAIN grown \ DOMAIN parent
    BY <1>2, <1>3
  <2>2. one \notin DOMAIN parent
    BY <2>1 DEF CopiedUnder, Grown
  <2>3. PICK source \in copied : one = idOf[source]
    BY <1>2, <2>2
  <2>4. source # root /\ grown[one] = idOf[parent[source]]
    BY <2>1, <2>3 DEF CopiedUnder
  <2>5. parent[source] \in copied
    BY <1>1, <2>4, ParentIsBelow
  <2>6. parent[source] \in below
    <3>1. PICK held \in below : grown[one] = idOf[held]
      OBVIOUS
    <3>2. held \in copied /\ idOf[held] = idOf[parent[source]]
      BY <1>3, <2>4, <3>1
    <3>3. held = parent[source]
      BY <2>5, <3>2 DEF CopiedUnder
    <3> QED
      BY <3>3
  <2>7. source \in below
    BY <1>1, <1>4, <2>6 DEF Closed
  <2> QED
    BY <2>3, <2>7
<1>7. idOf[key] \in copies
  <2>1. idOf[key] \in Subtree(grown, {idOf[top]})
    BY DEF Above
  <2> QED
    BY <1>5, <1>6, <2>1, SubtreeIsLeast
<1>8. key \in below
  <2>1. PICK held \in below : idOf[key] = idOf[held]
    BY <1>7
  <2>2. held \in copied
    BY <1>3
  <2>3. held = key
    BY <2>1, <2>2 DEF CopiedUnder
  <2> QED
    BY <2>3
<1> QED
  BY <1>1, <1>8 DEF Above, below

LEMMA CopiedDepths ==
    ASSUME NEW parent, NEW root, NEW idOf, NEW under, NEW grown, HasNoRing(parent),
           IsFiniteSet(DOMAIN parent), CopiedUnder(parent, root, idOf, under, grown),
           NEW limit \in Nat,
           \A key \in DOMAIN parent : DepthOf(parent, key) <= limit,
           Cardinality(Above(parent, under)) + HeightOf(parent, root) <= limit
    PROVE  \A key \in DOMAIN grown : DepthOf(grown, key) <= limit
<1> DEFINE copied == Subtree(parent, {root})
           levels == HeightOf(parent, root)
<1>1. root \in DOMAIN parent /\ Grown(parent, grown) /\ under \notin DOMAIN grown \ DOMAIN parent
      /\ DOMAIN grown \ DOMAIN parent = {idOf[one] : one \in copied}
  <2>1. DOMAIN grown \ DOMAIN parent = {idOf[one] : one \in copied}
    BY CopiesAreNew
  <2>2. root \in DOMAIN parent /\ Grown(parent, grown) /\ under \notin DOMAIN grown \ DOMAIN parent
    BY DEF CopiedUnder
  <2> QED
    BY <2>1, <2>2
<1>2. \A one \in DOMAIN grown \ DOMAIN parent :
          grown[one] = under \/ grown[one] \in DOMAIN grown \ DOMAIN parent
  <2> SUFFICES ASSUME NEW source \in copied
               PROVE  grown[idOf[source]] = under
                      \/ grown[idOf[source]] \in DOMAIN grown \ DOMAIN parent
    BY <1>1
  <2> QED
    <3>1. grown[idOf[source]] = IF source = root THEN under ELSE idOf[parent[source]]
      BY DEF CopiedUnder
    <3>2. source # root => parent[source] \in copied
      BY <1>1, ParentIsBelow
    <3> QED
      BY <1>1, <3>1, <3>2
<1>3. root \in copied
  BY <1>1, SubtreeIsClosed
<1>4. levels \in Nat
  BY <1>3, HeightHoldsLevels
<1>5. Cardinality(Above(parent, under)) \in Nat
  BY AboveIsFinite
<1>6. ASSUME NEW key \in DOMAIN grown \ DOMAIN parent
      PROVE  \E within : /\ Above(grown, key) \ DOMAIN parent \subseteq within
                         /\ IsFiniteSet(within) /\ Cardinality(within) <= levels
  <2>1. PICK source \in copied : key = idOf[source]
    BY <1>1
  <2> DEFINE rows == Above(parent, source) \cap copied
             within == {idOf[one] : one \in rows}
             copyOf == [one \in rows |-> idOf[one]]
  <2>2. IsFiniteSet(rows)
    <3>1. rows \in SUBSET Above(parent, source)
      OBVIOUS
    <3>2. IsFiniteSet(Above(parent, source))
      BY AboveIsFinite
    <3> QED
      BY <3>1, <3>2, FS_Subset
  <2>3. Cardinality(rows) <= levels
    BY HeightHoldsLevels
  <2>4. Above(grown, key) \ DOMAIN parent \subseteq within
    BY <2>1, CopiedAbove
  <2> HIDE DEF rows
  <2>5. copyOf \in Surjection(rows, within)
    BY DEF Surjection
  <2>6. IsFiniteSet(within) /\ Cardinality(within) <= Cardinality(rows)
    BY <2>2, <2>5, FS_Surjection
  <2>7. Cardinality(within) \in Nat /\ Cardinality(rows) \in Nat
    BY <2>2, <2>6, FS_CardinalityType
  <2> QED
    BY <1>4, <2>3, <2>4, <2>6, <2>7
<1> HIDE DEF levels, copied
<1>7. HasRoom(parent, grown, under, limit)
  <2>1. levels + Cardinality(Above(parent, under)) <= limit
    BY <1>4, <1>5 DEF levels
  <2> QED
    BY <1>4, <1>6, <2>1 DEF HasRoom
<1> QED
  BY <1>1, <1>2, <1>7, GraftedDepths

-----------------------------------------------------------------------------
(* The copies of tasks, which take their parents one after the other *)

(* The parts of InferredCopyParents: how the copies stand before the first    *)
(* walk, what a source's walk infers from how they stand, a turn, and how     *)
(* they stand after each.                                                     *)
MirroredParents(d, uidOf) ==
    [copy \in Copies(uidOf) |-> CopiedParent(d, uidOf, SourceOf(uidOf, copy))]

Inferred(d, groups, landingOf, uidOf, settled, uid) ==
    NearestDerivedTaskUid(groups, Tasks(d) \cup Copies(uidOf),
                          IF groups[landingOf[uid]].source \in {uid, uidOf[uid]}
                          THEN groups[landingOf[uid]].parent ELSE landingOf[uid],
                          Subtree(settled, {uidOf[uid]}))

SourceAt(uidOf, turn) == CHOOSE one \in DOMAIN uidOf : RankIn(DOMAIN uidOf, one) = turn

Turned(d, groups, landingOf, uidOf, settled, turn) ==
    LET uid == SourceAt(uidOf, turn)
    IN IF d.tasks[uid].parent \in DOMAIN uidOf THEN settled
       ELSE [settled EXCEPT ![uidOf[uid]] = Inferred(d, groups, landingOf, uidOf, settled, uid)]

SettledAfter(d, groups, landingOf, uidOf) ==
    CHOOSE f : f = [turn \in 0 .. Cardinality(DOMAIN uidOf) |->
                       IF turn = 0 THEN MirroredParents(d, uidOf)
                       ELSE Turned(d, groups, landingOf, uidOf, f[turn - 1], turn)]

LEMMA CopyParentsAreInferred ==
    ASSUME NEW d, NEW groups, NEW landingOf, NEW uidOf, NEW uid \in DOMAIN uidOf
    PROVE  InferredCopyParents(d, groups, landingOf, uidOf)[uid]
             = IF d.tasks[uid].parent \in DOMAIN uidOf THEN CopiedParent(d, uidOf, uid)
               ELSE Inferred(d, groups, landingOf, uidOf,
                             SettledAfter(d, groups, landingOf, uidOf)[RankIn(DOMAIN uidOf, uid) - 1],
                             uid)
BY DEF InferredCopyParents, Inferred, SettledAfter, Turned, SourceAt, MirroredParents

(* The turns are defined, one from the other. *)
LEMMA TurnsAreDefined ==
    ASSUME NEW d, NEW groups, NEW landingOf, NEW uidOf, NEW n \in Nat, n = Cardinality(DOMAIN uidOf),
           NEW after, after = SettledAfter(d, groups, landingOf, uidOf)
    PROVE  /\ after[0] = MirroredParents(d, uidOf)
           /\ \A turn \in 1 .. n :
                 after[turn] = Turned(d, groups, landingOf, uidOf, after[turn - 1], turn)
<1> DEFINE base == MirroredParents(d, uidOf)
           turned(settled, turn) == Turned(d, groups, landingOf, uidOf, settled, turn)
           turnsTo(k, f) == /\ DOMAIN f = 0 .. k
                            /\ f = [turn \in 0 .. k |-> f[turn]]
                            /\ f[0] = base
                            /\ \A turn \in 1 .. k : f[turn] = turned(f[turn - 1], turn)
           missing == {k \in Nat : ~ \E f : turnsTo(k, f)}
<1>1. after = CHOOSE f : f = [turn \in 0 .. n |-> IF turn = 0 THEN base ELSE turned(f[turn - 1], turn)]
  BY DEF SettledAfter
<1> HIDE DEF base, turned
<1>2. missing = {}
  <2> SUFFICES ASSUME missing # {} PROVE FALSE
    OBVIOUS
  <2>1. PICK k \in missing : \A other \in missing : k <= other
    <3>1. missing \in SUBSET Nat
      OBVIOUS
    <3> HIDE DEF missing
    <3> QED
      BY <3>1, LeastExists
  <2>2. k # 0
    <3>1. turnsTo(0, [turn \in 0 .. 0 |-> base])
      OBVIOUS
    <3> QED
      BY <3>1
  <2>3. k - 1 \in Nat /\ k - 1 \notin missing
    BY <2>1, <2>2
  <2>4. PICK f : turnsTo(k - 1, f)
    BY <2>3
  <2> DEFINE g == [turn \in 0 .. k |-> IF turn = k THEN turned(f[k - 1], k) ELSE f[turn]]
  <2>5. turnsTo(k, g)
    <3>1. DOMAIN g = 0 .. k /\ g = [turn \in 0 .. k |-> g[turn]]
      OBVIOUS
    <3>2. g[0] = base
      BY <2>2, <2>4
    <3>3. ASSUME NEW turn \in 1 .. k PROVE g[turn] = turned(g[turn - 1], turn)
      <4>1. turn - 1 \in 0 .. k - 1 /\ g[turn - 1] = f[turn - 1]
        OBVIOUS
      <4>2. CASE turn = k
        BY <4>1, <4>2
      <4>3. CASE turn # k
        <5>1. turn \in 1 .. k - 1 /\ g[turn] = f[turn]
          BY <4>3
        <5> QED
          BY <2>4, <4>1, <5>1
      <4> QED
        BY <4>2, <4>3
    <3> HIDE DEF g
    <3> QED
      BY <3>1, <3>2, <3>3
  <2> QED
    BY <2>5
<1>3. PICK f : turnsTo(n, f)
  BY <1>2
<1>4. f = [turn \in 0 .. n |-> IF turn = 0 THEN base ELSE turned(f[turn - 1], turn)]
  <2>1. \A turn \in 0 .. n : f[turn] = IF turn = 0 THEN base ELSE turned(f[turn - 1], turn)
    BY <1>3
  <2> QED
    BY <1>3, <2>1
<1>5. after = [turn \in 0 .. n |-> IF turn = 0 THEN base ELSE turned(after[turn - 1], turn)]
  BY <1>1, <1>4
<1>6. after[0] = base /\ \A turn \in 1 .. n : after[turn] = turned(after[turn - 1], turn)
  BY <1>5
<1> QED
  BY <1>6 DEF base, turned

(* A walk ends at a task it was not told to pass, or at none. *)
LEMMA InferredIsUnpassed ==
    ASSUME NEW d, NEW groups, NEW landingOf, NEW uidOf, NEW settled, NEW uid
    PROVE  Inferred(d, groups, landingOf, uidOf, settled, uid)
             \in ((Tasks(d) \cup Copies(uidOf)) \ Subtree(settled, {uidOf[uid]})) \cup {Null}
<1> DEFINE uids == Tasks(d) \cup Copies(uidOf)
           passed == Subtree(settled, {uidOf[uid]})
           landing == IF groups[landingOf[uid]].source \in {uid, uidOf[uid]}
                      THEN groups[landingOf[uid]].parent ELSE landingOf[uid]
           walk == CHOOSE walk : walk = [step \in 0 .. Cardinality(DOMAIN groups) |->
                       IF step = 0 THEN landing
                       ELSE LET below == walk[step - 1]
                            IN IF below = Null THEN Null ELSE groups[below].parent]
           derived == {step \in 0 .. Cardinality(DOMAIN groups) :
                          /\ walk[step] \in DOMAIN groups
                          /\ DerivesUnpassed(groups[walk[step]], uids, passed)}
           first == {step \in derived : \A other \in derived : step <= other}
<1>1. Inferred(d, groups, landingOf, uidOf, settled, uid)
        = IF first = {} THEN Null ELSE groups[walk[CHOOSE step \in first : TRUE]].source
  BY DEF Inferred, NearestDerivedTaskUid
<1>2. \A step \in first : groups[walk[step]].source \in uids \ passed
  BY DEF DerivesUnpassed
<1> HIDE DEF first, walk, uids, passed
<1> QED
  BY <1>1, <1>2 DEF uids, passed

(* The sources come one at each turn. *)
LEMMA EachTurnHasASource ==
    ASSUME NEW uids \in SUBSET Nat, IsFiniteSet(uids), NEW turn \in 1 .. Cardinality(uids)
    PROVE  \E uid \in uids : RankIn(uids, uid) = turn
<1> DEFINE rank == [uid \in uids |-> RankIn(uids, uid)]
           n == Cardinality(uids)
<1>1. n \in Nat
  BY FS_CardinalityType
<1>2. rank \in Injection(uids, 1 .. n)
  BY RankIsInjective DEF Injection, IsInjective
<1>3. IsFiniteSet(1 .. n) /\ Cardinality(1 .. n) = n
  BY <1>1, FS_Interval
<1>4. rank \in Surjection(uids, 1 .. n)
  BY <1>2, <1>3, FS_Injection
<1> QED
  BY <1>4 DEF Surjection

(* The copies as the parents given to them say. *)
CopiesStand(d, sources, uidOf, settled, parentOf, turn) ==
    /\ DOMAIN settled = Copies(uidOf)
    /\ settled = [copy \in Copies(uidOf) |-> settled[copy]]
    /\ HasNoRing(settled)
    /\ \A uid \in sources :
          settled[uidOf[uid]] = IF RankIn(sources, uid) <= turn THEN parentOf[uid]
                                ELSE CopiedParent(d, uidOf, uid)

(* Before the first turn the copies stand as their sources do. *)
LEMMA MirroredCopiesStand ==
    ASSUME NEW d, IsSound(d), HasNoRing(ParentTasks(d)), NEW sources \in SUBSET Tasks(d),
           NEW uidOf, AreFresh(d, sources, uidOf), NEW parentOf
    PROVE  CopiesStand(d, sources, uidOf, MirroredParents(d, uidOf), parentOf, 0)
<1> DEFINE settled == MirroredParents(d, uidOf)
<1>1. /\ DOMAIN uidOf = sources /\ IsFiniteSet(sources) /\ sources \in SUBSET Nat
      /\ \A uid \in sources : uidOf[uid] \in Nat /\ uidOf[uid] \notin Tasks(d)
      /\ \A a, b \in sources : uidOf[a] = uidOf[b] => a = b
  BY DEF AreFresh, IsSound, IsDocument
<1>2. DOMAIN settled = Copies(uidOf) /\ settled = [copy \in Copies(uidOf) |-> settled[copy]]
  BY DEF MirroredParents
<1>3. ASSUME NEW uid \in sources
      PROVE  /\ uidOf[uid] \in Copies(uidOf)
             /\ settled[uidOf[uid]] = CopiedParent(d, uidOf, uid)
             /\ ~(RankIn(sources, uid) <= 0)
  <2>1. uidOf[uid] \in Copies(uidOf)
    BY <1>1 DEF Copies
  <2>2. SourceOf(uidOf, uidOf[uid]) = uid
    BY <1>1 DEF SourceOf
  <2>3. RankIn(sources, uid) \in 1 .. Cardinality(sources)
    BY <1>1, RankIsInjective
  <2> QED
    BY <2>1, <2>2, <2>3 DEF MirroredParents
<1>4. HasNoRing(settled)
  <2> SUFFICES ASSUME NEW rows \in SUBSET Copies(uidOf), rows # {}
               PROVE  \E key \in rows : settled[key] \notin rows
    BY <1>2 DEF HasNoRing
  <2> DEFINE from == {uid \in sources : uidOf[uid] \in rows}
  <2>1. from # {} /\ from \in SUBSET DOMAIN ParentTasks(d)
    <3>1. PICK copy \in rows : TRUE
      OBVIOUS
    <3>2. PICK uid \in sources : copy = uidOf[uid]
      BY <1>1 DEF Copies
    <3>3. uid \in from
      BY <3>1, <3>2
    <3>4. DOMAIN ParentTasks(d) = Tasks(d)
      BY DEF ParentTasks
    <3> QED
      BY <3>3, <3>4
  <2>2. PICK uid \in from : ParentTasks(d)[uid] \notin from
    BY <2>1 DEF HasNoRing
  <2>3. d.tasks[uid].parent \notin from /\ uidOf[uid] \in rows
    BY <2>2 DEF ParentTasks
  <2>4. settled[uidOf[uid]] = IF d.tasks[uid].parent \in sources
                              THEN uidOf[d.tasks[uid].parent] ELSE Null
    BY <1>1, <1>3 DEF CopiedParent
  <2>5. Null \notin rows
    <3>1. ASSUME NEW copy \in Copies(uidOf) PROVE copy \in Nat
      <4>1. PICK source \in DOMAIN uidOf : copy = uidOf[source]
        BY DEF Copies
      <4> QED
        BY <1>1, <4>1
    <3> QED
      BY <3>1, NullAssumption
  <2> QED
    BY <2>3, <2>4, <2>5
<1> QED
  BY <1>2, <1>3, <1>4 DEF CopiesStand

(* A turn moves one copy, to where none of its own hangs. *)
LEMMA TurnedCopiesStand ==
    ASSUME NEW d, IsSound(d), NEW groups, NEW landingOf, NEW sources \in SUBSET Tasks(d),
           NEW uidOf, AreFresh(d, sources, uidOf), NEW settled, NEW parentOf,
           NEW turn \in 1 .. Cardinality(sources),
           CopiesStand(d, sources, uidOf, settled, parentOf, turn - 1),
           \A uid \in sources : RankIn(sources, uid) = turn =>
               parentOf[uid] = IF d.tasks[uid].parent \in sources THEN CopiedParent(d, uidOf, uid)
                               ELSE Inferred(d, groups, landingOf, uidOf, settled, uid)
    PROVE  CopiesStand(d, sources, uidOf, Turned(d, groups, landingOf, uidOf, settled, turn),
                       parentOf, turn)
<1> DEFINE turned == Turned(d, groups, landingOf, uidOf, settled, turn)
           uid == SourceAt(uidOf, turn)
           above == Inferred(d, groups, landingOf, uidOf, settled, uid)
<1>1. /\ DOMAIN uidOf = sources /\ IsFiniteSet(sources) /\ sources \in SUBSET Nat
      /\ \A one \in sources : uidOf[one] \in Nat /\ uidOf[one] \notin Tasks(d)
      /\ \A a, b \in sources : uidOf[a] = uidOf[b] => a = b
      /\ Cardinality(sources) \in Nat
  BY DEF AreFresh, IsSound, IsDocument
<1>2. uid \in sources /\ RankIn(sources, uid) = turn
  BY <1>1, EachTurnHasASource DEF SourceAt
<1>3. /\ \A one \in sources : RankIn(sources, one) \in 1 .. Cardinality(sources)
      /\ \A one \in sources : RankIn(sources, one) = turn => one = uid
  <2>1. /\ \A one \in sources : RankIn(sources, one) \in 1 .. Cardinality(sources)
        /\ \A a, b \in sources : RankIn(sources, a) = RankIn(sources, b) => a = b
    BY <1>1, RankIsInjective
  <2> HIDE DEF uid
  <2> QED
    BY <1>2, <2>1
<1>4. /\ DOMAIN settled = Copies(uidOf) /\ settled = [copy \in Copies(uidOf) |-> settled[copy]]
      /\ HasNoRing(settled)
      /\ \A one \in sources :
            settled[uidOf[one]] = IF RankIn(sources, one) <= turn - 1 THEN parentOf[one]
                                  ELSE CopiedParent(d, uidOf, one)
  BY DEF CopiesStand
<1>5. \A one \in sources : uidOf[one] \in Copies(uidOf)
  BY <1>1 DEF Copies
<1>6. turned = IF d.tasks[uid].parent \in sources THEN settled
               ELSE [settled EXCEPT ![uidOf[uid]] = above]
  BY <1>1 DEF Turned
<1>7. above \notin Subtree(settled, {uidOf[uid]})
  <2>1. Subtree(settled, {uidOf[uid]}) \subseteq Copies(uidOf)
    BY <1>4, SubtreeIsClosed
  <2>2. Null \notin Copies(uidOf)
    BY <1>1, NullAssumption DEF Copies
  <2> QED
    BY <2>1, <2>2, InferredIsUnpassed
<1> HIDE DEF uid, above, turned
<1>8. /\ DOMAIN turned = Copies(uidOf) /\ turned = [copy \in Copies(uidOf) |-> turned[copy]]
      /\ HasNoRing(turned)
  <2>1. CASE d.tasks[uid].parent \in sources
    BY <1>4, <1>6, <2>1
  <2>2. CASE d.tasks[uid].parent \notin sources
    <3>1. HasNoRing([settled EXCEPT ![uidOf[uid]] = above])
      BY <1>2, <1>4, <1>5, <1>7, MovedHasNoRing
    <3> QED
      BY <1>4, <1>6, <2>2, <3>1
  <2> QED
    BY <2>1, <2>2
<1>9. ASSUME NEW one \in sources
      PROVE  turned[uidOf[one]] = IF RankIn(sources, one) <= turn THEN parentOf[one]
                                  ELSE CopiedParent(d, uidOf, one)
  <2>1. CASE one = uid
    <3>1. parentOf[uid] = IF d.tasks[uid].parent \in sources THEN CopiedParent(d, uidOf, uid)
                          ELSE above
      BY <1>2 DEF above
    <3>2. settled[uidOf[uid]] = CopiedParent(d, uidOf, uid)
      BY <1>2, <1>4
    <3>3. turned[uidOf[uid]] = parentOf[uid]
      BY <1>2, <1>4, <1>5, <1>6, <3>1, <3>2
    <3> QED
      BY <1>2, <2>1, <3>3
  <2>2. CASE one # uid
    <3>1. RankIn(sources, one) # turn /\ RankIn(sources, one) \in Nat
      BY <1>3, <2>2
    <3>2. RankIn(sources, one) <= turn <=> RankIn(sources, one) <= turn - 1
      BY <3>1
    <3>3. turned[uidOf[one]] = settled[uidOf[one]]
      BY <1>1, <1>2, <1>4, <1>5, <1>6, <2>2
    <3> QED
      BY <1>4, <3>2, <3>3
  <2> QED
    BY <2>1, <2>2
<1> QED
  BY <1>8, <1>9 DEF CopiesStand, turned

(* After the last turn the copies close no ring, and have the parents that    *)
(* InferredCopyParents gives.                                                 *)
LEMMA InferredParentsHaveNoRing ==
    ASSUME NEW d, IsSound(d), HasNoRing(ParentTasks(d)), NEW groups, NEW landingOf,
           NEW sources \in SUBSET Tasks(d), NEW uidOf, AreFresh(d, sources, uidOf),
           NEW parentOf, parentOf = InferredCopyParents(d, groups, landingOf, uidOf)
    PROVE  \A rows \in SUBSET sources : rows # {} =>
               \E uid \in rows : \A other \in rows : parentOf[uid] # uidOf[other]
<1> DEFINE n == Cardinality(sources)
           after == SettledAfter(d, groups, landingOf, uidOf)
           stands(turn) == CopiesStand(d, sources, uidOf, after[turn], parentOf, turn)
           fallen == {turn \in 0 .. n : ~stands(turn)}
<1>1. /\ DOMAIN uidOf = sources /\ IsFiniteSet(sources) /\ sources \in SUBSET Nat /\ n \in Nat
  BY DEF AreFresh, IsSound, IsDocument
<1>2. /\ after[0] = MirroredParents(d, uidOf)
      /\ \A turn \in 1 .. n :
            after[turn] = Turned(d, groups, landingOf, uidOf, after[turn - 1], turn)
  BY <1>1, TurnsAreDefined
<1>3. \A uid \in sources :
          parentOf[uid] = IF d.tasks[uid].parent \in sources THEN CopiedParent(d, uidOf, uid)
                          ELSE Inferred(d, groups, landingOf, uidOf,
                                        after[RankIn(sources, uid) - 1], uid)
  BY <1>1, CopyParentsAreInferred
<1> HIDE DEF after
<1>4. fallen = {}
  <2> SUFFICES ASSUME fallen # {} PROVE FALSE
    OBVIOUS
  <2>1. PICK turn \in fallen : \A other \in fallen : turn <= other
    <3>1. fallen \in SUBSET Nat
      OBVIOUS
    <3> HIDE DEF fallen
    <3> QED
      BY <3>1, LeastExists
  <2>2. turn # 0
    <3>1. stands(0)
      BY <1>2, MirroredCopiesStand
    <3> QED
      BY <2>1, <3>1
  <2>3. turn \in 1 .. n /\ turn - 1 \in 0 .. n /\ turn - 1 \notin fallen
    BY <1>1, <2>1, <2>2
  <2>4. CopiesStand(d, sources, uidOf, after[turn - 1], parentOf, turn - 1)
    BY <2>3
  <2>5. after[turn] = Turned(d, groups, landingOf, uidOf, after[turn - 1], turn)
    BY <1>2, <2>3
  <2>6. \A uid \in sources : RankIn(sources, uid) = turn =>
            parentOf[uid] = IF d.tasks[uid].parent \in sources THEN CopiedParent(d, uidOf, uid)
                            ELSE Inferred(d, groups, landingOf, uidOf, after[turn - 1], uid)
    BY <1>3
  <2>7. CopiesStand(d, sources, uidOf, Turned(d, groups, landingOf, uidOf, after[turn - 1], turn),
                    parentOf, turn)
    BY <2>3, <2>4, <2>6, TurnedCopiesStand
  <2> QED
    BY <2>1, <2>5, <2>7
<1>5. CopiesStand(d, sources, uidOf, after[n], parentOf, n)
  BY <1>1, <1>4
<1>6. \A uid \in sources : after[n][uidOf[uid]] = parentOf[uid]
  <2>1. \A uid \in sources : RankIn(sources, uid) \in 1 .. n
    BY <1>1, RankIsInjective
  <2> QED
    BY <1>5, <2>1 DEF CopiesStand
<1> SUFFICES ASSUME NEW rows \in SUBSET sources, rows # {}
             PROVE  \E uid \in rows : \A other \in rows : parentOf[uid] # uidOf[other]
  OBVIOUS
<1> DEFINE copies == {uidOf[uid] : uid \in rows}
<1>7. copies # {} /\ copies \in SUBSET DOMAIN after[n]
  <2>1. DOMAIN after[n] = {uidOf[uid] : uid \in sources}
    BY <1>1, <1>5 DEF CopiesStand, Copies
  <2> QED
    BY <2>1
<1>8. PICK copy \in copies : after[n][copy] \notin copies
  BY <1>5, <1>7 DEF CopiesStand, HasNoRing
<1>9. PICK uid \in rows : copy = uidOf[uid]
  OBVIOUS
<1> QED
  BY <1>6, <1>8, <1>9

(* The WBS with the copies has no ring. *)
LEMMA CopiedTasksHaveNoRing ==
    ASSUME NEW d, IsSound(d), HasNoRing(ParentTasks(d)), NEW groups, NEW landingOf,
           NEW sources \in SUBSET Tasks(d), NEW uidOf, uidOf = PastedUidsOf(d.mark, sources)
    PROVE  /\ HasNoRing(ParentTasks(WithCopies(d, groups, landingOf, uidOf)))
           /\ WithCopies(d, groups, landingOf, uidOf).groups = groups
<1> DEFINE e == WithCopies(d, groups, landingOf, uidOf)
           parentOf == InferredCopyParents(d, groups, landingOf, uidOf)
           parent == ParentTasks(d)
           grown == ParentTasks(e)
           row(uid) == IF uid \in Tasks(d) THEN d.tasks[uid]
                       ELSE [parent |-> parentOf[SourceOf(uidOf, uid)],
                             preds |-> {uidOf[pred] :
                                 pred \in d.tasks[SourceOf(uidOf, uid)].preds \cap DOMAIN uidOf}]
<1>1. AreFresh(d, sources, uidOf)
  BY PastedUidsAreFresh
<1>2. /\ DOMAIN uidOf = sources
      /\ \A uid \in sources : uidOf[uid] \in Nat /\ uidOf[uid] \notin Tasks(d)
      /\ \A a, b \in sources : uidOf[a] = uidOf[b] => a = b
  BY <1>1 DEF AreFresh
<1>3. e.tasks = [uid \in Tasks(d) \cup Copies(uidOf) |-> row(uid)] /\ e.groups = groups
  <2> HIDE DEF parentOf
  <2>1. IsRecord(d)
    BY DEF IsRecord, IsSound, IsDocument
  <2> QED
    BY <2>1 DEF WithCopies, parentOf, IsRecord
<1>4. /\ DOMAIN grown = Tasks(d) \cup Copies(uidOf)
      /\ \A uid \in Tasks(d) \cup Copies(uidOf) : grown[uid] = row(uid).parent
  <2> HIDE DEF e, row
  <2> QED
    BY <1>3 DEF ParentTasks, Tasks
<1> HIDE DEF e, grown, parentOf
<1>5. DOMAIN parent = Tasks(d) /\ \A uid \in Tasks(d) : parent[uid] = d.tasks[uid].parent
  BY DEF ParentTasks
<1>6. ASSUME NEW copy \in Copies(uidOf) PROVE copy \in Nat /\ copy \notin Tasks(d)
  <2>1. PICK uid \in sources : copy = uidOf[uid]
    BY <1>2 DEF Copies
  <2> QED
    BY <1>2, <2>1
<1>7. \A uid \in sources : uidOf[uid] \in Copies(uidOf) /\ SourceOf(uidOf, uidOf[uid]) = uid
  BY <1>2 DEF Copies, SourceOf
<1>8. \A uid \in sources : grown[uidOf[uid]] = parentOf[uid]
  <2> TAKE uid \in sources
  <2>1. row(uidOf[uid]).parent = parentOf[uid]
    BY <1>2, <1>7
  <2> HIDE DEF row
  <2> QED
    BY <1>4, <1>7, <2>1
<1>9. Grown(parent, grown)
  <2>1. \A uid \in Tasks(d) : grown[uid] = d.tasks[uid].parent
    BY <1>4
  <2>2. \A uid \in Tasks(d) : d.tasks[uid].parent \in Tasks(d) \cup {Null}
    BY DEF IsSound, AllLand
  <2>3. \A uid \in Tasks(d) : d.tasks[uid].parent \notin Copies(uidOf)
    BY <1>6, <2>2, NullAssumption
  <2> HIDE DEF row, parent
  <2> QED
    BY <1>4, <1>5, <2>1, <2>3 DEF Grown
<1>10. ASSUME NEW rows \in SUBSET (DOMAIN grown \ DOMAIN parent), rows # {}
       PROVE  \E key \in rows : grown[key] \notin rows
  <2> DEFINE from == {uid \in sources : uidOf[uid] \in rows}
  <2>1. rows \subseteq Copies(uidOf)
    BY <1>4, <1>5
  <2>2. from # {} /\ \A copy \in rows : \E uid \in from : copy = uidOf[uid]
    <3>1. \A copy \in rows : \E uid \in sources : copy = uidOf[uid]
      BY <1>2, <2>1 DEF Copies
    <3> QED
      BY <1>10, <3>1
  <2>3. from \in SUBSET sources
    OBVIOUS
  <2> HIDE DEF from
  <2>4. PICK uid \in from : \A other \in from : parentOf[uid] # uidOf[other]
    BY <1>1, <2>2, <2>3, InferredParentsHaveNoRing DEF parentOf
  <2>5. uidOf[uid] \in rows /\ grown[uidOf[uid]] = parentOf[uid]
    BY <1>8 DEF from
  <2> QED
    BY <2>2, <2>4, <2>5
<1> HIDE DEF parent
<1>11. HasNoRing(grown)
  BY <1>9, <1>10, GrownHasNoRing DEF parent
<1> QED
  BY <1>3, <1>11 DEF e, grown

(* A row put in where nothing hangs. *)
LEMMA LeafKeepsTree ==
    ASSUME NEW parent, HasNoRing(parent), NEW leaf, NEW under, NEW grown, leaf \notin DOMAIN parent,
           under # leaf, \A one \in DOMAIN parent : parent[one] # leaf,
           grown = [one \in DOMAIN parent \cup {leaf} |-> IF one = leaf THEN under ELSE parent[one]]
    PROVE  /\ HasNoRing(grown)
           /\ \A limit \in Nat :
                 (/\ IsFiniteSet(DOMAIN parent)
                  /\ \A key \in DOMAIN parent : DepthOf(parent, key) <= limit
                  /\ Cardinality(Above(parent, under)) < limit)
                 => \A key \in DOMAIN grown : DepthOf(grown, key) <= limit
<1>1. Grown(parent, grown) /\ DOMAIN grown \ DOMAIN parent = {leaf} /\ grown[leaf] = under
  BY DEF Grown
<1>2. HasNoRing(grown)
  <2>1. \A rows \in SUBSET (DOMAIN grown \ DOMAIN parent) :
            rows # {} => \E key \in rows : grown[key] \notin rows
    BY <1>1
  <2> QED
    BY <1>1, <2>1, GrownHasNoRing
<1>3. ASSUME NEW limit \in Nat, IsFiniteSet(DOMAIN parent),
             \A key \in DOMAIN parent : DepthOf(parent, key) <= limit,
             Cardinality(Above(parent, under)) < limit
      PROVE  \A key \in DOMAIN grown : DepthOf(grown, key) <= limit
  <2>1. Cardinality(Above(parent, under)) \in Nat
    BY <1>3, AboveIsFinite
  <2>2. IsFiniteSet({leaf}) /\ Cardinality({leaf}) = 1
    BY FS_Singleton
  <2>3. 1 + Cardinality(Above(parent, under)) <= limit
    BY <1>3, <2>1
  <2>4. \A key : Above(grown, key) \ DOMAIN parent \subseteq {leaf}
    BY <1>1 DEF Above
  <2>5. HasRoom(parent, grown, under, limit)
    BY <2>2, <2>3, <2>4 DEF HasRoom
  <2>6. under \notin DOMAIN grown \ DOMAIN parent
        /\ \A one \in DOMAIN grown \ DOMAIN parent :
               grown[one] = under \/ grown[one] \in DOMAIN grown \ DOMAIN parent
    BY <1>1
  <2> QED
    BY <1>1, <1>3, <2>5, <2>6, GraftedDepths
<1> QED
  BY <1>2, <1>3

-----------------------------------------------------------------------------
(* The commands *)

(* The trees of a document stand, and its task groups are finitely many. *)
Stands(d) == TreesStand(d) /\ IsFiniteSet(TaskGroups(d))

LEMMA StandsByItsTrees ==
    ASSUME NEW d, HasNoRing(ParentTasks(d)), HasNoRing(ParentGroups(d)),
           IsFiniteSet(DOMAIN ParentGroups(d)),
           \A id \in DOMAIN ParentGroups(d) : DepthOf(ParentGroups(d), id) <= MaxDepth
    PROVE  Stands(d)
BY DEF Stands, TreesStand, ParentGroups

LEMMA TreesOfStanding ==
    ASSUME NEW d, Stands(d)
    PROVE  /\ HasNoRing(ParentTasks(d)) /\ HasNoRing(ParentGroups(d))
           /\ DOMAIN ParentGroups(d) = TaskGroups(d) /\ IsFiniteSet(DOMAIN ParentGroups(d))
           /\ \A id \in DOMAIN ParentGroups(d) : DepthOf(ParentGroups(d), id) <= MaxDepth
           /\ DOMAIN ParentTasks(d) = Tasks(d)
           /\ MaxDepth \in Nat
BY BoundsAssumption DEF Stands, TreesStand, ParentGroups, ParentTasks

(* What columns of a sound document are functions of, and that no task and no  *)
(* task group is the null.                                                    *)
LEMMA ColumnsOfSound ==
    ASSUME NEW d, IsSound(d)
    PROVE  /\ IsRecord(d)
           /\ d.tasks \in [Tasks(d) -> TaskRows] /\ d.groups \in [TaskGroups(d) -> TaskGroupRows]
           /\ Null \notin Tasks(d) /\ Null \notin TaskGroups(d)
           /\ \A uid \in Tasks(d) : d.tasks[uid].parent \in Tasks(d) \cup {Null}
           /\ \A id \in TaskGroups(d) : d.groups[id].parent \in TaskGroups(d) \cup {Null}
BY NullAssumption DEF IsSound, IsDocument, AllLand, IsRecord

(* Commands on other rows leave both trees alone. *)
LEMMA OtherCommandsKeepTrees ==
    ASSUME IsSound(draft), Stands(draft),
           EditDependency \/ EditResource \/ EditAnnotation \/ EditDocumentSettings
    PROVE  Stands(draft')
<1> DEFINE keepsParents ==
              /\ ParentTasks(draft') = ParentTasks(draft)
              /\ ParentGroups(draft') = ParentGroups(draft)
<1> SUFFICES keepsParents
  BY TreesOfStanding, StandsByItsTrees
<1>0. IsRecord(draft) /\ draft.tasks \in [Tasks(draft) -> TaskRows]
  BY ColumnsOfSound
<1>1. ASSUME draft'.tasks = draft.tasks, draft'.groups = draft.groups PROVE keepsParents
  BY <1>1 DEF ParentTasks, ParentGroups, Tasks, TaskGroups
<1>2. CASE EditDependency
  <2>1. PICK succ \in Tasks(draft) : \E preds :
            draft' = [draft EXCEPT !.tasks[succ].preds = preds]
    <3>1. PICK pred \in Tasks(draft), succ \in Tasks(draft) :
              CreateDependency(pred, succ) \/ DeleteDependency(pred, succ)
      BY <1>2 DEF EditDependency
    <3>2. CASE CreateDependency(pred, succ)
      <4>1. draft' = [draft EXCEPT !.tasks[succ].preds = draft.tasks[succ].preds \cup {pred}]
        BY <1>0, <3>1, <3>2 DEF CreateDependency, Takes, TakesWithRow, IsRecord, TaskRows
      <4> QED
        BY <4>1
    <3>3. CASE DeleteDependency(pred, succ)
      <4>1. draft' = [draft EXCEPT !.tasks[succ].preds = draft.tasks[succ].preds \ {pred}]
        BY <1>0, <3>1, <3>3 DEF DeleteDependency, Takes, TakesWithRow, IsRecord, TaskRows
      <4> QED
        BY <4>1
    <3> QED
      BY <3>1, <3>2, <3>3
  <2>2. /\ Tasks(draft') = Tasks(draft) /\ draft'.groups = draft.groups
        /\ \A uid \in Tasks(draft) : draft'.tasks[uid].parent = draft.tasks[uid].parent
    BY <1>0, <2>1 DEF IsRecord, Tasks, TaskRows
  <2> QED
    BY <2>2 DEF ParentTasks, ParentGroups, TaskGroups
<1>3. CASE EditResource
  <2>1. draft'.tasks = draft.tasks /\ draft'.groups = draft.groups
    BY <1>0, <1>3 DEF EditResource, CreateResource, DeleteResources, DeleteUnreferencedResources,
          CreateAssignment, DeleteAssignment, TableViewsKeptIn, Takes, TakesWithRow, IsRecord
  <2> QED
    BY <1>1, <2>1
<1>4. CASE EditAnnotation
  <2>1. draft'.tasks = draft.tasks /\ draft'.groups = draft.groups
    BY <1>0, <1>4 DEF EditAnnotation, CreateCommentBox, SetCommentBoxAnchor, DeleteCommentBox,
          CreateHighlightBox, SetHighlightBoxRange, DeleteHighlightBox, Takes, TakesWithRow, IsRecord
  <2> QED
    BY <1>1, <2>1
<1>5. CASE EditDocumentSettings
  <2>1. draft'.tasks = draft.tasks /\ draft'.groups = draft.groups
    BY <1>0, <1>5 DEF EditDocumentSettings, PinTaskGroup, UnpinTaskGroup, SetTableView, Takes,
          TakesWithRow, IsRecord
  <2> QED
    BY <1>1, <2>1
<1> QED
  BY <1>2, <1>3, <1>4, <1>5

(* A task is made without a parent, and a task group with it, at the root. *)
LEMMA CreateTaskKeepsTrees ==
    ASSUME IsSound(draft), Stands(draft), NEW groupId \in GroupIds, CreateTask(groupId)
    PROVE  Stands(draft')
<1> DEFINE uid == draft.mark + 1
           tasks == ParentTasks(draft)
           groups == ParentGroups(draft)
<1>1. /\ IsRecord(draft) /\ Tasks(draft) \subseteq 1 .. draft.mark /\ draft.mark \in Nat
      /\ draft.tasks \in [Tasks(draft) -> TaskRows]
      /\ draft.groups \in [TaskGroups(draft) -> TaskGroupRows]
  BY ColumnsOfSound DEF IsSound, IsDocument
<1>2. uid \notin Tasks(draft) /\ uid # Null /\ groupId # Null
  BY <1>1, NullAssumption
<1>3. /\ draft'.tasks = With(draft.tasks, uid, [parent |-> Null, preds |-> {}])
      /\ draft'.groups = IF groupId \in TaskGroups(draft) THEN draft.groups
                         ELSE With(draft.groups, groupId,
                                   [parent |-> Null, named |-> FALSE, source |-> uid])
  BY <1>1 DEF CreateTask, Takes, TakesWithRow, IsRecord, TaskGroups
<1>4. /\ DOMAIN tasks = Tasks(draft) /\ \A one \in Tasks(draft) : tasks[one] = draft.tasks[one].parent
      /\ DOMAIN groups = TaskGroups(draft)
      /\ \A one \in TaskGroups(draft) : groups[one] = draft.groups[one].parent
  BY DEF ParentTasks, ParentGroups
<1> HIDE DEF uid
<1>5. ParentTasks(draft') = [one \in DOMAIN tasks \cup {uid} |-> IF one = uid THEN Null ELSE tasks[one]]
  <2> HIDE DEF tasks
  <2> QED
    BY <1>3, <1>4 DEF ParentTasks, Tasks, With
<1>6. \/ ParentGroups(draft') = groups
      \/ /\ groupId \notin DOMAIN groups
         /\ ParentGroups(draft')
              = [one \in DOMAIN groups \cup {groupId} |-> IF one = groupId THEN Null ELSE groups[one]]
  <2> HIDE DEF groups
  <2>1. CASE groupId \in TaskGroups(draft)
    BY <1>3, <2>1 DEF ParentGroups, TaskGroups, groups
  <2>2. CASE groupId \notin TaskGroups(draft)
    BY <1>3, <1>4, <2>2 DEF ParentGroups, TaskGroups, With
  <2> QED
    BY <2>1, <2>2
<1>7. /\ HasNoRing(tasks) /\ HasNoRing(groups) /\ IsFiniteSet(DOMAIN groups)
      /\ \A id \in DOMAIN groups : DepthOf(groups, id) <= MaxDepth
      /\ MaxDepth \in Nat
  BY TreesOfStanding
<1>8. HasNoRing(ParentTasks(draft'))
  <2>1. \A one \in DOMAIN tasks : tasks[one] # uid
    BY <1>2, <1>4, ColumnsOfSound
  <2> HIDE DEF tasks
  <2> QED
    BY <1>2, <1>4, <1>5, <1>7, <2>1, LeafKeepsTree
<1>9. CASE ParentGroups(draft') = groups
  BY <1>7, <1>8, <1>9, StandsByItsTrees
<1>10. CASE /\ groupId \notin DOMAIN groups
            /\ ParentGroups(draft')
                 = [one \in DOMAIN groups \cup {groupId} |-> IF one = groupId THEN Null ELSE groups[one]]
  <2>1. \A one \in DOMAIN groups : groups[one] # groupId
    BY <1>2, <1>4, <1>10, ColumnsOfSound
  <2>2. Cardinality(Above(groups, Null)) < MaxDepth
    <3>1. DepthUnder(draft, Null) = 0
      BY DEF DepthUnder
    <3>2. DepthUnder(draft, Null) = Cardinality(Above(groups, Null))
      BY DepthUnderIsOfAbove, ColumnsOfSound
    <3> QED
      BY <3>1, <3>2, BoundsAssumption
  <2> HIDE DEF groups
  <2>3. /\ HasNoRing(ParentGroups(draft'))
        /\ \A key \in DOMAIN ParentGroups(draft') : DepthOf(ParentGroups(draft'), key) <= MaxDepth
    BY <1>2, <1>7, <1>10, <2>1, <2>2, LeafKeepsTree
  <2>4. IsFiniteSet(DOMAIN ParentGroups(draft'))
    BY <1>7, <1>10, FS_AddElement
  <2> QED
    BY <1>8, <2>3, <2>4, StandsByItsTrees
<1> QED
  BY <1>6, <1>9, <1>10

(* A task moves under one that does not hang below it, or to the root. *)
LEMMA SetTaskParentTaskKeepsTrees ==
    ASSUME IsSound(draft), Stands(draft), NEW uid \in Tasks(draft),
           NEW parentUid \in Tasks(draft) \cup {Null}, SetTaskParentTask(uid, parentUid)
    PROVE  Stands(draft')
<1> DEFINE tasks == ParentTasks(draft)
<1>1. /\ IsRecord(draft) /\ draft.tasks \in [Tasks(draft) -> TaskRows] /\ Null \notin Tasks(draft)
  BY ColumnsOfSound
<1>2. draft' = [draft EXCEPT !.tasks[uid].parent = parentUid]
  BY DEF SetTaskParentTask, Takes, TakesWithRow
<1>3. /\ Tasks(draft') = Tasks(draft) /\ draft'.groups = draft.groups
      /\ \A one \in Tasks(draft) :
            draft'.tasks[one].parent = IF one = uid THEN parentUid ELSE draft.tasks[one].parent
  BY <1>1, <1>2 DEF IsRecord, Tasks, TaskRows
<1>4. ParentTasks(draft') = [tasks EXCEPT ![uid] = parentUid]
      /\ ParentGroups(draft') = ParentGroups(draft)
  BY <1>3 DEF ParentTasks, ParentGroups, TaskGroups
<1>5. parentUid \notin Subtree(tasks, {uid})
  <2>1. Subtree(tasks, {uid}) \subseteq Tasks(draft)
    BY SubtreeIsClosed, TreesOfStanding
  <2> QED
    BY <1>1, <2>1 DEF SetTaskParentTask
<1>6. HasNoRing([tasks EXCEPT ![uid] = parentUid])
  <2>1. HasNoRing(tasks) /\ uid \in DOMAIN tasks
    BY TreesOfStanding
  <2>2. tasks = [one \in DOMAIN tasks |-> tasks[one]]
    BY DEF ParentTasks
  <2> HIDE DEF tasks
  <2> QED
    BY <1>5, <2>1, <2>2, MovedHasNoRing
<1> QED
  BY <1>4, <1>6, TreesOfStanding, StandsByItsTrees

(* The trees of what is left keep the parents they had. *)
LEMMA DocumentsWithoutArePruned ==
    ASSUME NEW d, IsSound(d), NEW doomedGroups, NEW doomed \in SUBSET Tasks(d)
    PROVE  /\ Pruned(ParentTasks(d), ParentTasks(WithoutTasks(d, doomed)))
           /\ ParentGroups(WithoutTasks(d, doomed)) = ParentGroups(d)
           /\ Pruned(ParentTasks(d), ParentTasks(WithoutTaskGroups(d, doomedGroups, doomed)))
           /\ Pruned(ParentGroups(d), ParentGroups(WithoutTaskGroups(d, doomedGroups, doomed)))
<1> DEFINE c == WithoutTasks(d, doomed)
           e == WithoutTaskGroups(d, doomedGroups, doomed)
<1>1. IsRecord(d) /\ d.tasks \in [Tasks(d) -> TaskRows] /\ d.groups \in [TaskGroups(d) -> TaskGroupRows]
  BY ColumnsOfSound
<1>2. /\ c.tasks = [uid \in Tasks(d) \ doomed |-> [d.tasks[uid] EXCEPT !.preds = @ \ doomed]]
      /\ c.groups = [id \in TaskGroups(d) |-> IF d.groups[id].source \in doomed
                                              THEN SettledTaskGroup(d.groups[id]) ELSE d.groups[id]]
      /\ IsRecord(c)
  <2>1. IsRecord(RowsWithoutTasks(d, doomed))
    BY <1>1 DEF IsRecord, RowsWithoutTasks
  <2>2. IsRecord(c)
    BY <2>1 DEF IsRecord, WithoutTasks, TableViewsKeptIn
  <2> QED
    BY <1>1, <2>2 DEF WithoutTasks, RowsWithoutTasks, TableViewsKeptIn, IsRecord
<1>3. e.tasks = c.tasks /\ e.groups = Except(c.groups, doomedGroups)
  <2> HIDE DEF c
  <2> QED
    BY <1>2 DEF WithoutTaskGroups, c, IsRecord
<1> HIDE DEF c, e
<1>4. /\ Tasks(c) = Tasks(d) \ doomed
      /\ \A uid \in Tasks(d) \ doomed : c.tasks[uid].parent = d.tasks[uid].parent
  BY <1>1, <1>2 DEF Tasks, TaskRows
<1>5. /\ TaskGroups(c) = TaskGroups(d)
      /\ \A id \in TaskGroups(d) : c.groups[id].parent = d.groups[id].parent
  <2>1. \A group \in TaskGroupRows : SettledTaskGroup(group).parent = group.parent
    BY DEF SettledTaskGroup, TaskGroupRows
  <2> QED
    BY <1>1, <1>2, <2>1 DEF TaskGroups
<1>6. /\ TaskGroups(e) = TaskGroups(d) \ doomedGroups
      /\ \A id \in TaskGroups(e) : e.groups[id].parent = d.groups[id].parent
  BY <1>3, <1>5 DEF TaskGroups, Except
<1>7. Pruned(ParentTasks(d), ParentTasks(c)) /\ ParentGroups(c) = ParentGroups(d)
  BY <1>4, <1>5 DEF Pruned, ParentTasks, ParentGroups
<1>8. ParentTasks(e) = ParentTasks(c)
  BY <1>3 DEF ParentTasks, Tasks
<1>9. Pruned(ParentGroups(d), ParentGroups(e))
  BY <1>6 DEF Pruned, ParentGroups
<1> QED
  BY <1>7, <1>8, <1>9 DEF c, e

(* Trees that only lose rows still stand. *)
LEMMA PrunedStands ==
    ASSUME NEW d, Stands(d), NEW e, Pruned(ParentTasks(d), ParentTasks(e)),
           Pruned(ParentGroups(d), ParentGroups(e))
    PROVE  Stands(e)
<1>1. HasNoRing(ParentTasks(e)) /\ HasNoRing(ParentGroups(e))
  BY TreesOfStanding, PrunedHasNoRing
<1>2. IsFiniteSet(DOMAIN ParentGroups(e))
  <2>1. DOMAIN ParentGroups(e) \in SUBSET DOMAIN ParentGroups(d)
    BY DEF Pruned
  <2> QED
    BY <2>1, TreesOfStanding, FS_Subset
<1>3. ASSUME NEW id \in DOMAIN ParentGroups(e) PROVE DepthOf(ParentGroups(e), id) <= MaxDepth
  <2>1. DepthOf(ParentGroups(e), id) <= DepthOf(ParentGroups(d), id)
    BY TreesOfStanding, PrunedDepths
  <2>2. DepthOf(ParentGroups(d), id) <= MaxDepth /\ MaxDepth \in Nat
    BY TreesOfStanding DEF Pruned
  <2>3. DepthOf(ParentGroups(e), id) \in Nat /\ DepthOf(ParentGroups(d), id) \in Nat
    BY <1>2, TreesOfStanding, AboveIsFinite, DepthIsOfAbove
  <2> QED
    BY <2>1, <2>2, <2>3
<1> QED
  BY <1>1, <1>2, <1>3, StandsByItsTrees

LEMMA DeletionsKeepTrees ==
    ASSUME IsSound(draft), Stands(draft), NEW id, NEW newId,
           DeleteTask(id) \/ DeleteTaskGroup(id, newId)
    PROVE  Stands(draft')
<1>1. CASE DeleteTask(id)
  <2> DEFINE doomed == Subtree(ParentTasks(draft), {id})
  <2>1. draft' = WithoutTasks(draft, doomed)
    BY <1>1 DEF DeleteTask, Takes, TakesWithRow
  <2>2. doomed \in SUBSET Tasks(draft)
    BY SubtreeIsClosed, TreesOfStanding
  <2> HIDE DEF doomed
  <2>3. /\ Pruned(ParentTasks(draft), ParentTasks(draft'))
        /\ ParentGroups(draft') = ParentGroups(draft)
    BY <2>1, <2>2, DocumentsWithoutArePruned
  <2>4. Pruned(ParentGroups(draft), ParentGroups(draft'))
    BY <2>3 DEF Pruned
  <2> QED
    BY <2>3, <2>4, PrunedStands
<1>2. CASE DeleteTaskGroup(id, newId)
  <2> DEFINE doomedGroups == Subtree(ParentGroups(draft), {id})
             seeds == {uid \in Tasks(draft) :
                         \E one \in draft.members : one[1] = uid /\ one[2] \in doomedGroups}
             doomed == Subtree(ParentTasks(draft), seeds)
  <2>1. draft' = WithoutTaskGroups(draft, doomedGroups, doomed)
    BY <1>2 DEF DeleteTaskGroup, TakesWithRow
  <2>2. doomed \in SUBSET Tasks(draft)
    BY SubtreeIsClosed, TreesOfStanding
  <2> HIDE DEF doomed, doomedGroups
  <2>3. /\ Pruned(ParentTasks(draft), ParentTasks(draft'))
        /\ Pruned(ParentGroups(draft), ParentGroups(draft'))
    BY <2>1, <2>2, DocumentsWithoutArePruned
  <2> QED
    BY <2>3, PrunedStands
<1> QED
  BY <1>1, <1>2

(* Tasks are pasted on task groups that stay as they are. *)
LEMMA PasteTasksKeepsTrees ==
    ASSUME IsSound(draft), Stands(draft), NEW sources \in SUBSET Tasks(draft), NEW landingOf,
           PasteTasks(sources, landingOf)
    PROVE  Stands(draft')
<1> DEFINE uidOf == PastedUidsOf(draft.mark, sources)
<1>1. draft' = WithCopies(draft, draft.groups, landingOf, uidOf)
  BY DEF PasteTasks, Takes, TakesWithRow
<1> HIDE DEF uidOf
<1>2. HasNoRing(ParentTasks(draft')) /\ draft'.groups = draft.groups
  BY <1>1, CopiedTasksHaveNoRing, TreesOfStanding DEF uidOf
<1>3. ParentGroups(draft') = ParentGroups(draft)
  BY <1>2 DEF ParentGroups, TaskGroups
<1> QED
  BY <1>2, <1>3, TreesOfStanding, StandsByItsTrees

(* The commands on tasks. *)
LEMMA EditTaskKeepsTrees ==
    ASSUME IsSound(draft), Stands(draft), EditTask
    PROVE  Stands(draft')
<1>1. ASSUME NEW uid \in Tasks(draft), NEW id \in TaskGroups(draft), MoveTaskToTaskGroup(uid, id)
      PROVE  Stands(draft')
  <2>1. draft'.tasks = draft.tasks /\ draft'.groups = draft.groups
    BY <1>1, ColumnsOfSound DEF MoveTaskToTaskGroup, Takes, TakesWithRow, IsRecord
  <2>2. ParentTasks(draft') = ParentTasks(draft) /\ ParentGroups(draft') = ParentGroups(draft)
    BY <2>1 DEF ParentTasks, ParentGroups, Tasks, TaskGroups
  <2> QED
    BY <2>2, TreesOfStanding, StandsByItsTrees
<1> QED
  BY <1>1, CreateTaskKeepsTrees, DeletionsKeepTrees, PasteTasksKeepsTrees,
     SetTaskParentTaskKeepsTrees DEF EditTask

(* A task group is made under one that lies above the last level. *)
LEMMA CreateTaskGroupKeepsTrees ==
    ASSUME IsSound(draft), Stands(draft), NEW id \in GroupIds,
           NEW parentId \in TaskGroups(draft) \cup {Null}, NEW named, NEW source,
           CreateTaskGroup(id, parentId, named, source)
    PROVE  Stands(draft')
<1> DEFINE groups == ParentGroups(draft)
<1>1. /\ IsRecord(draft) /\ id \notin TaskGroups(draft) /\ DepthUnder(draft, parentId) < MaxDepth
      /\ draft' = [draft EXCEPT !.groups =
                      With(@, id, [parent |-> parentId, named |-> named, source |-> source])]
  BY ColumnsOfSound DEF CreateTaskGroup, Takes, TakesWithRow
<1>2. /\ draft'.tasks = draft.tasks
      /\ draft'.groups = With(draft.groups, id, [parent |-> parentId, named |-> named, source |-> source])
  BY <1>1 DEF IsRecord
<1>3. ParentTasks(draft') = ParentTasks(draft)
  BY <1>2 DEF ParentTasks, Tasks
<1>4. ParentGroups(draft')
        = [one \in DOMAIN groups \cup {id} |-> IF one = id THEN parentId ELSE groups[one]]
  BY <1>2 DEF ParentGroups, TaskGroups, With
<1>5. id \notin DOMAIN groups /\ parentId # id /\ \A one \in DOMAIN groups : groups[one] # id
  <2>1. id # Null
    BY NullAssumption
  <2> QED
    BY <1>1, <2>1, ColumnsOfSound DEF ParentGroups
<1>6. Cardinality(Above(groups, parentId)) < MaxDepth
  BY <1>1, ColumnsOfSound, DepthUnderIsOfAbove
<1>7. /\ HasNoRing(ParentTasks(draft)) /\ HasNoRing(groups) /\ IsFiniteSet(DOMAIN groups)
      /\ \A one \in DOMAIN groups : DepthOf(groups, one) <= MaxDepth
      /\ MaxDepth \in Nat
  BY TreesOfStanding
<1> HIDE DEF groups
<1>8. /\ HasNoRing(ParentGroups(draft'))
      /\ \A key \in DOMAIN ParentGroups(draft') : DepthOf(ParentGroups(draft'), key) <= MaxDepth
  BY <1>4, <1>5, <1>6, <1>7, LeafKeepsTree
<1>9. IsFiniteSet(DOMAIN ParentGroups(draft'))
  BY <1>4, <1>7, FS_AddElement
<1> QED
  BY <1>3, <1>7, <1>8, <1>9, StandsByItsTrees

LEMMA SetTaskGroupNameKeepsTrees ==
    ASSUME IsSound(draft), Stands(draft), NEW id \in TaskGroups(draft), NEW named,
           SetTaskGroupName(id, named)
    PROVE  Stands(draft')
<1>1. IsRecord(draft) /\ draft.groups \in [TaskGroups(draft) -> TaskGroupRows]
      /\ draft' = [draft EXCEPT !.groups[id].named = named]
  BY ColumnsOfSound DEF SetTaskGroupName, Takes, TakesWithRow
<1>2. /\ draft'.tasks = draft.tasks /\ TaskGroups(draft') = TaskGroups(draft)
      /\ \A one \in TaskGroups(draft) : draft'.groups[one].parent = draft.groups[one].parent
  BY <1>1 DEF IsRecord, TaskGroups, TaskGroupRows
<1>3. ParentTasks(draft') = ParentTasks(draft) /\ ParentGroups(draft') = ParentGroups(draft)
  BY <1>2 DEF ParentTasks, ParentGroups, Tasks
<1> QED
  BY <1>3, TreesOfStanding, StandsByItsTrees

(* A task group moves with all that hangs below it, as deep as it reaches, and *)
(* its task under the one inferred, unless that hangs below the task.         *)
LEMMA MoveTaskGroupKeepsTrees ==
    ASSUME IsSound(draft), Stands(draft), NEW id \in TaskGroups(draft),
           NEW parentId \in TaskGroups(draft) \cup {Null}, MoveTaskGroup(id, parentId)
    PROVE  Stands(draft')
<1> DEFINE groups == ParentGroups(draft)
           tasks == ParentTasks(draft)
           source == draft.groups[id].source
           parentUid == NearestDerivedTaskUid(draft.groups, Tasks(draft), parentId, {})
           moved == [draft EXCEPT !.groups[id].parent = parentId]
<1>1. /\ IsRecord(draft) /\ draft.groups \in [TaskGroups(draft) -> TaskGroupRows]
      /\ draft.tasks \in [Tasks(draft) -> TaskRows]
  BY ColumnsOfSound
<1>2. /\ parentId \notin Subtree(groups, {id})
      /\ DepthUnder(draft, parentId) + HeightOf(groups, id) <= MaxDepth
      /\ \/ draft' = moved
         \/ /\ source \in Tasks(draft) /\ parentUid \notin Subtree(tasks, {source})
            /\ draft' = [moved EXCEPT !.tasks[source].parent = parentUid]
  BY DEF MoveTaskGroup, Takes, TakesWithRow
<1>3. /\ IsRecord(moved) /\ moved.tasks = draft.tasks /\ DOMAIN moved.groups = TaskGroups(draft)
      /\ \A one \in TaskGroups(draft) :
            moved.groups[one].parent = IF one = id THEN parentId ELSE draft.groups[one].parent
  BY <1>1 DEF IsRecord, TaskGroupRows
<1> HIDE DEF moved, parentUid, source
<1>4. /\ draft'.groups = moved.groups
      /\ \/ draft'.tasks = draft.tasks
         \/ /\ source \in Tasks(draft) /\ parentUid \notin Subtree(tasks, {source})
            /\ draft'.tasks = [draft.tasks EXCEPT ![source].parent = parentUid]
  BY <1>2, <1>3 DEF IsRecord
<1>5. ParentGroups(draft') = [one \in TaskGroups(draft) |-> IF one = id THEN parentId ELSE groups[one]]
  BY <1>3, <1>4 DEF ParentGroups, TaskGroups
<1>6. /\ HasNoRing(tasks) /\ HasNoRing(groups) /\ IsFiniteSet(DOMAIN groups)
      /\ \A one \in DOMAIN groups : DepthOf(groups, one) <= MaxDepth
      /\ DOMAIN groups = TaskGroups(draft) /\ DOMAIN tasks = Tasks(draft)
      /\ MaxDepth \in Nat
  BY TreesOfStanding
<1>7. HasNoRing(ParentTasks(draft'))
  <2>1. CASE draft'.tasks = draft.tasks
    <3>1. ParentTasks(draft') = tasks
      BY <2>1 DEF ParentTasks, Tasks
    <3> QED
      BY <1>6, <3>1
  <2>2. CASE /\ source \in Tasks(draft) /\ parentUid \notin Subtree(tasks, {source})
             /\ draft'.tasks = [draft.tasks EXCEPT ![source].parent = parentUid]
    <3>1. /\ Tasks(draft') = Tasks(draft)
          /\ \A one \in Tasks(draft) :
                draft'.tasks[one].parent = IF one = source THEN parentUid ELSE draft.tasks[one].parent
      BY <1>1, <2>2 DEF Tasks, TaskRows
    <3>2. ParentTasks(draft') = [tasks EXCEPT ![source] = parentUid]
      BY <3>1 DEF ParentTasks
    <3>3. tasks = [one \in DOMAIN tasks |-> tasks[one]]
      BY DEF ParentTasks
    <3> HIDE DEF tasks
    <3> QED
      <4>1. HasNoRing([tasks EXCEPT ![source] = parentUid])
        BY <1>6, <2>2, <3>3, MovedHasNoRing
      <4> QED
        BY <3>2, <4>1
  <2> QED
    BY <1>4, <2>1, <2>2
<1>8. groups = [one \in DOMAIN groups |-> groups[one]]
  BY DEF ParentGroups
<1>9. Cardinality(Above(groups, parentId)) + HeightOf(groups, id) <= MaxDepth
  BY <1>2, DepthUnderIsOfAbove, ColumnsOfSound
<1> HIDE DEF groups
<1>10. ParentGroups(draft') = [groups EXCEPT ![id] = parentId]
  BY <1>5, <1>6
<1>11. HasNoRing(ParentGroups(draft'))
  <2>1. HasNoRing([groups EXCEPT ![id] = parentId])
    BY <1>2, <1>6, <1>8, MovedHasNoRing
  <2> QED
    BY <1>10, <2>1
<1>12. \A one \in DOMAIN ParentGroups(draft') : DepthOf(ParentGroups(draft'), one) <= MaxDepth
  <2>1. /\ DOMAIN ParentGroups(draft') = DOMAIN groups /\ ParentGroups(draft')[id] = parentId
        /\ \A one \in DOMAIN groups : one # id => ParentGroups(draft')[one] = groups[one]
    BY <1>5, <1>6
  <2> QED
    BY <1>2, <1>6, <1>9, <2>1, MovedDepths
<1>13. IsFiniteSet(DOMAIN ParentGroups(draft'))
  BY <1>6, <1>10
<1> QED
  BY <1>7, <1>11, <1>12, <1>13, StandsByItsTrees

(* A subtree of task groups is copied under a task group, as deep as it        *)
(* reaches, with copies of the tasks that stand on it.                        *)
LEMMA PasteTaskGroupSubtreeKeepsTrees ==
    ASSUME IsSound(draft), Stands(draft), NEW sourceId \in TaskGroups(draft),
           NEW parentId \in TaskGroups(draft) \cup {Null},
           NEW idOf \in [Subtree(ParentGroups(draft), {sourceId}) -> GroupIds],
           PasteTaskGroupSubtree(sourceId, parentId, idOf)
    PROVE  Stands(draft')
<1> DEFINE parent == ParentGroups(draft)
           copied == Subtree(parent, {sourceId})
           riders == {uid \in Tasks(draft) :
                        \E one \in draft.members : one[1] = uid /\ one[2] \in copied}
           uidOf == PastedUidsOf(draft.mark, riders)
           landingOf == [uid \in riders |->
                           idOf[CHOOSE id \in copied : <<uid, id>> \in draft.members]]
           copyOf == CopiedTaskGroupOf(draft, sourceId, parentId, idOf, uidOf)
           fresh == {idOf[id] : id \in copied}
           groups == [id \in TaskGroups(draft) \cup fresh |->
                        IF id \in TaskGroups(draft) THEN draft.groups[id]
                        ELSE copyOf[CHOOSE one \in copied : idOf[one] = id]]
<1>1. /\ draft' = WithCopies(draft, groups, landingOf, uidOf)
      /\ DepthUnder(draft, parentId) + HeightOf(parent, sourceId) <= MaxDepth
      /\ fresh \cap TaskGroups(draft) = {}
      /\ \A one, other \in copied : idOf[one] = idOf[other] => one = other
  BY DEF PasteTaskGroupSubtree, Takes, TakesWithRow
<1>2. riders \in SUBSET Tasks(draft)
  OBVIOUS
<1>3. /\ HasNoRing(ParentTasks(draft)) /\ HasNoRing(parent) /\ IsFiniteSet(DOMAIN parent)
      /\ \A id \in DOMAIN parent : DepthOf(parent, id) <= MaxDepth
      /\ DOMAIN parent = TaskGroups(draft)
      /\ MaxDepth \in Nat
  BY TreesOfStanding
<1>4. copied \subseteq TaskGroups(draft) /\ sourceId \in copied
  BY <1>3, SubtreeIsClosed
<1>5. /\ \A id \in TaskGroups(draft) : parent[id] = draft.groups[id].parent
      /\ draft.groups \in [TaskGroups(draft) -> TaskGroupRows]
      /\ Null \notin TaskGroups(draft)
      /\ \A id \in TaskGroups(draft) : draft.groups[id].parent \in TaskGroups(draft) \cup {Null}
  BY ColumnsOfSound DEF ParentGroups
<1>6. DOMAIN idOf = copied /\ \A id \in copied : idOf[id] \in GroupIds /\ idOf[id] # Null
  BY NullAssumption
<1>7. ASSUME NEW id \in copied
      PROVE  copyOf[id].parent = IF id = sourceId THEN parentId ELSE idOf[parent[id]]
  <2> DEFINE group == draft.groups[id]
             above == IF id = sourceId THEN parentId
                      ELSE IF group.parent \in DOMAIN idOf THEN idOf[group.parent] ELSE group.parent
             pasted == [group EXCEPT !.parent = above]
  <2>1. group \in TaskGroupRows /\ parent[id] = group.parent
    BY <1>4, <1>5
  <2>2. /\ pasted.parent = above /\ SettledTaskGroup(pasted).parent = above
        /\ \A uid : [pasted EXCEPT !.source = uid].parent = above
    BY <2>1 DEF TaskGroupRows, SettledTaskGroup
  <2>3. \E uid : copyOf[id] \in {pasted, [pasted EXCEPT !.source = uid], SettledTaskGroup(pasted)}
    <3>1. \/ copyOf[id] = pasted
          \/ copyOf[id] = [pasted EXCEPT !.source = uidOf[@]]
          \/ copyOf[id] = SettledTaskGroup(pasted)
      <4> HIDE DEF uidOf
      <4> QED
        BY <1>6, <2>1 DEF CopiedTaskGroupOf, TaskGroupRows
    <3>2. [pasted EXCEPT !.source = uidOf[@]] = [pasted EXCEPT !.source = uidOf[pasted.source]]
      BY <2>1 DEF TaskGroupRows
    <3> HIDE DEF pasted, copyOf, uidOf
    <3> QED
      BY <3>1, <3>2
  <2>4. copyOf[id].parent = above
    <3> HIDE DEF pasted, copyOf, above
    <3> QED
      BY <2>2, <2>3
  <2>5. id # sourceId => group.parent \in DOMAIN idOf
    <3>1. id # sourceId => parent[id] \in copied
      BY <1>3, ParentIsBelow
    <3> QED
      BY <1>6, <2>1, <3>1
  <2> QED
    BY <2>1, <2>4, <2>5
<1> HIDE DEF copyOf, uidOf, landingOf, riders
<1>8. /\ DOMAIN groups = TaskGroups(draft) \cup fresh
      /\ \A id \in TaskGroups(draft) : groups[id] = draft.groups[id]
      /\ \A id \in copied : groups[idOf[id]] = copyOf[id]
  <2>1. ASSUME NEW id \in copied PROVE groups[idOf[id]] = copyOf[id]
    <3>1. idOf[id] \in fresh /\ idOf[id] \notin TaskGroups(draft)
      BY <1>1
    <3>2. (CHOOSE one \in copied : idOf[one] = idOf[id]) = id
      BY <1>1
    <3> QED
      BY <3>1, <3>2
  <2> QED
    BY <2>1
<1> HIDE DEF groups
<1>9. /\ HasNoRing(ParentTasks(draft'))
      /\ draft'.groups = groups
  BY <1>1, <1>2, <1>3, CopiedTasksHaveNoRing DEF uidOf
<1>10. /\ DOMAIN ParentGroups(draft') = DOMAIN groups
       /\ \A id \in DOMAIN groups : ParentGroups(draft')[id] = groups[id].parent
  BY <1>9 DEF ParentGroups, TaskGroups
<1> DEFINE grown == ParentGroups(draft')
<1>11. CopiedUnder(parent, sourceId, idOf, parentId, grown)
  <2>1. \A id \in TaskGroups(draft) : grown[id] = parent[id] /\ parent[id] \notin fresh
    <3>1. \A id \in fresh : id \notin TaskGroups(draft) /\ id # Null
      BY <1>1, <1>6
    <3>2. \A id \in TaskGroups(draft) : parent[id] \in TaskGroups(draft) \cup {Null}
      BY <1>5
    <3>3. \A id \in TaskGroups(draft) : grown[id] = parent[id]
      BY <1>5, <1>8, <1>10
    <3> HIDE DEF fresh, grown, parent
    <3> QED
      BY <3>1, <3>2, <3>3
  <2>2. \A id \in copied : grown[idOf[id]] = IF id = sourceId THEN parentId ELSE idOf[parent[id]]
    BY <1>7, <1>8, <1>10
  <2>3. DOMAIN grown = DOMAIN parent \cup fresh /\ DOMAIN grown \ DOMAIN parent \subseteq fresh
    BY <1>3, <1>8, <1>10
  <2>4. parentId \notin fresh
    BY <1>1, <1>6
  <2>5. \A id \in copied : idOf[id] \notin DOMAIN parent
    BY <1>1, <1>3
  <2> HIDE DEF parent, grown
  <2>6. Grown(parent, grown)
    BY <1>3, <2>1, <2>3 DEF Grown
  <2> QED
    BY <1>1, <1>3, <2>2, <2>3, <2>4, <2>5, <2>6 DEF CopiedUnder
<1>12. Cardinality(Above(parent, parentId)) + HeightOf(parent, sourceId) <= MaxDepth
  BY <1>1, DepthUnderIsOfAbove, ColumnsOfSound
<1>13. IsFiniteSet(DOMAIN grown)
  <2>1. IsFiniteSet(copied)
    BY <1>3, <1>4, FS_Subset
  <2>2. IsFiniteSet(fresh)
    <3> HIDE DEF copied
    <3> QED
      BY <2>1, ImageIsFinite
  <2> HIDE DEF fresh, grown, parent
  <2>3. IsFiniteSet(TaskGroups(draft) \cup fresh)
    BY <1>3, <2>2, FS_Union
  <2>4. DOMAIN grown = TaskGroups(draft) \cup fresh
    BY <1>8, <1>10 DEF grown
  <2> QED
    BY <2>3, <2>4
<1> HIDE DEF parent, grown
<1>14. HasNoRing(grown) /\ \A key \in DOMAIN grown : DepthOf(grown, key) <= MaxDepth
  BY <1>3, <1>11, <1>12, CopiedHasNoRing, CopiedDepths
<1> QED
  BY <1>9, <1>13, <1>14, StandsByItsTrees DEF grown

(* The commands on task groups. *)
LEMMA EditTaskGroupKeepsTrees ==
    ASSUME IsSound(draft), Stands(draft), EditTaskGroup
    PROVE  Stands(draft')
BY CreateTaskGroupKeepsTrees, DeletionsKeepTrees, PasteTaskGroupSubtreeKeepsTrees,
   SetTaskGroupNameKeepsTrees, MoveTaskGroupKeepsTrees DEF EditTaskGroup

-----------------------------------------------------------------------------
(* The inductive invariant: what IInv says of both documents, and that the     *)
(* trees of both stand, of finitely many task groups.                         *)
TreesInv == IInv /\ Stands(document) /\ Stands(draft)

(* The one task group a document keeps is a root. *)
LEMMA HoldingOneTaskGroupStands ==
    ASSUME NEW d, IsSound(d), Stands(d), NEW id \in GroupIds \cup {Null}
    PROVE  Stands(DocumentHoldingOneTaskGroup(d, id))
<1> DEFINE e == DocumentHoldingOneTaskGroup(d, id)
<1>1. CASE TaskGroups(d) # {} \/ id = Null
  BY <1>1 DEF DocumentHoldingOneTaskGroup
<1>2. CASE TaskGroups(d) = {} /\ id # Null
  <2>1. e.tasks = d.tasks
        /\ e.groups = With(d.groups, id, [parent |-> Null, named |-> TRUE, source |-> Null])
    BY <1>2, ColumnsOfSound DEF DocumentHoldingOneTaskGroup, IsRecord
  <2> HIDE DEF e
  <2> DEFINE groups == ParentGroups(d)
  <2>2. ParentTasks(e) = ParentTasks(d)
    BY <2>1 DEF ParentTasks, Tasks
  <2>3. DOMAIN groups = {} /\ id \notin DOMAIN groups /\ id # Null
    BY <1>2 DEF ParentGroups
  <2>4. ParentGroups(e) = [one \in DOMAIN groups \cup {id} |-> IF one = id THEN Null ELSE groups[one]]
    BY <1>2, <2>1 DEF ParentGroups, TaskGroups, With
  <2>5. /\ HasNoRing(ParentTasks(d)) /\ HasNoRing(groups) /\ IsFiniteSet(DOMAIN groups)
        /\ MaxDepth \in Nat /\ 0 < MaxDepth
    BY TreesOfStanding, BoundsAssumption
  <2>6. Cardinality(Above(groups, Null)) = 0
    <3>1. Above(groups, Null) = {}
      BY <2>3 DEF Above
    <3> QED
      BY <3>1, FS_EmptySet
  <2> HIDE DEF groups
  <2>7. /\ HasNoRing(ParentGroups(e))
        /\ \A key \in DOMAIN ParentGroups(e) : DepthOf(ParentGroups(e), key) <= MaxDepth
    <3>1. Cardinality(Above(groups, Null)) < MaxDepth
      BY <2>5, <2>6
    <3>2. /\ \A one \in DOMAIN groups : groups[one] # id
          /\ \A one \in DOMAIN groups : DepthOf(groups, one) <= MaxDepth
      BY <2>3
    <3> DEFINE grown == ParentGroups(e)
    <3>3. grown = [one \in DOMAIN groups \cup {id} |-> IF one = id THEN Null ELSE groups[one]]
      BY <2>4
    <3> HIDE DEF grown
    <3>4. /\ HasNoRing(grown)
          /\ \A limit \in Nat :
                (/\ IsFiniteSet(DOMAIN groups)
                 /\ \A key \in DOMAIN groups : DepthOf(groups, key) <= limit
                 /\ Cardinality(Above(groups, Null)) < limit)
                => \A key \in DOMAIN grown : DepthOf(grown, key) <= limit
      BY <2>3, <2>5, <3>2, <3>3, LeafKeepsTree
    <3> QED
      BY <2>5, <3>1, <3>2, <3>4 DEF grown
  <2>8. IsFiniteSet(DOMAIN ParentGroups(e))
    BY <2>4, <2>5, FS_AddElement
  <2> QED
    BY <2>2, <2>5, <2>7, <2>8, StandsByItsTrees DEF e
<1> QED
  BY <1>1, <1>2

(* A command changes the draft alone. *)
LEMMA CommandsKeepDocument ==
    ASSUME IsSound(draft), EditDocument
    PROVE  document' = document
<1>1. CASE \E id \in TaskGroups(draft), newId \in GroupIds : DeleteTaskGroup(id, newId)
  <2>1. PICK id \in TaskGroups(draft), newId \in GroupIds : DeleteTaskGroup(id, newId)
    BY <1>1
  <2> QED
    BY <2>1, DeleteTaskGroupKeepsSound DEF TakesWithRow
<1>2. CASE ~ \E id \in TaskGroups(draft), newId \in GroupIds : DeleteTaskGroup(id, newId)
  <2>1. SoundlyTakes
    BY <1>2, EditTaskKeepsSound, EditTaskGroupKeepsSound, EditDependencyKeepsSound,
       EditResourceKeepsSound, EditAnnotationKeepsSound, EditDocumentSettingsKeepsSound
       DEF EditDocument
  <2> QED
    BY <2>1 DEF SoundlyTakes, Takes, TakesWithRow
<1> QED
  BY <1>1, <1>2

LEMMA InitKeepsTrees == Init => TreesInv
<1> SUFFICES ASSUME Init PROVE TreesInv
  OBVIOUS
<1>1. Stands(document) /\ draft = document
  BY OpeningsAssumption DEF Init, Stands
<1> QED
  BY <1>1, InitKeepsIInv DEF TreesInv

LEMMA StepKeepsTrees == TreesInv /\ [Next]_vars => TreesInv'
<1> SUFFICES ASSUME TreesInv, [Next]_vars PROVE Stands(document') /\ Stands(draft')
  BY StepKeepsIInv DEF TreesInv, Stands, TreesStand
<1>1. CASE EditDocument
  <2>1. IsSound(draft) /\ Stands(draft) /\ Stands(document)
    BY DEF TreesInv, IInv
  <2>2. Stands(draft')
    BY <1>1, <2>1, EditTaskKeepsTrees, EditTaskGroupKeepsTrees, OtherCommandsKeepTrees
       DEF EditDocument
  <2>3. document' = document
    BY <1>1, <2>1, CommandsKeepDocument
  <2> QED
    BY <2>1, <2>2, <2>3
<1>2. CASE PlanDocumentChange
  BY <1>2, HoldingOneTaskGroupStands DEF PlanDocumentChange, TreesInv, IInv
<1>3. CASE RefuseDocumentChange
  BY <1>3 DEF RefuseDocumentChange, TreesInv
<1>4. CASE UNCHANGED vars
  BY <1>4 DEF vars, TreesInv
<1> QED
  BY <1>1, <1>2, <1>3, <1>4 DEF Next

LEMMA SpecKeepsTrees == Spec => []TreesInv
BY InitKeepsTrees, StepKeepsTrees, PTL DEF Spec

(* Whatever the commands of a bundle are - the tasks copied, which take their  *)
(* parents one after the other from where they land, and the task moved with   *)
(* its task group, included - neither the WBS nor the tree of task groups      *)
(* closes a ring, and no task group lies past the depth, also in the middle of *)
(* a bundle.                                                                  *)
THEOREM TreesNeverCloseARing == Spec => []TreesHaveNoRing
<1>1. TreesInv => TreesHaveNoRing
  BY DEF TreesInv, Stands, TreesHaveNoRing
<1> QED
  BY <1>1, SpecKeepsTrees, PTL

=============================================================================
