--------------------------- MODULE LineEditProofs ----------------------------
(***************************************************************************)
(* Proofs about LineEdit: for every set of characters, size of the block   *)
(* and length of the text, the cursor stays in the text and on the screen. *)
(***************************************************************************)
EXTENDS LineEdit, FiniteSetTheorems, WellFoundedInduction, SequenceTheorems, TLAPS

(* insert puts one character into the text. *)
LEMMA InsertFacts ==
    ASSUME NEW t \in Seq(Char), NEW p \in 0..Len(t), NEW c \in Char
    PROVE  Insert(t, p, c) \in Seq(Char) /\ Len(Insert(t, p, c)) = Len(t) + 1
<1> DEFINE before == SubSeq(t, 1, p)
           after == SubSeq(t, p + 1, Len(t))
<1>1. before \in Seq(Char) /\ Len(before) = p
  BY SubSeqProperties
<1>2. after \in Seq(Char) /\ Len(after) = Len(t) - p
  BY SubSeqProperties
<1>3. <<c>> \in Seq(Char) /\ Len(<<c>>) = 1
  OBVIOUS
<1>4. before \o <<c>> \in Seq(Char) /\ Len(before \o <<c>>) = p + 1
  <2> HIDE DEF before
  <2> QED BY <1>1, <1>3, ConcatProperties
<1>5. /\ (before \o <<c>>) \o after \in Seq(Char)
      /\ Len((before \o <<c>>) \o after) = Len(t) + 1
  <2> HIDE DEF before, after
  <2> QED BY <1>2, <1>4, ConcatProperties
<1> QED BY <1>5 DEF Insert

(* erase takes one character out of it. *)
LEMMA EraseFacts ==
    ASSUME NEW t \in Seq(Char), NEW i \in 0..(Len(t) - 1)
    PROVE  Erase(t, i) \in Seq(Char) /\ Len(Erase(t, i)) = Len(t) - 1
<1>0. Len(t) \in Nat /\ i \in Nat
  OBVIOUS
<1> DEFINE before == SubSeq(t, 1, i)
           after == SubSeq(t, i + 2, Len(t))
<1>1. before \in Seq(Char) /\ Len(before) = i
  BY SubSeqProperties
<1>2. after \in Seq(Char) /\ Len(after) = Len(t) - i - 1
  BY SubSeqProperties
<1>3. before \o after \in Seq(Char) /\ Len(before \o after) = Len(t) - 1
  <2> HIDE DEF before, after
  <2>1. before \o after \in Seq(Char) /\ Len(before \o after) = Len(before) + Len(after)
    BY <1>1, <1>2, ConcatProperties
  <2> QED BY <1>0, <1>1, <1>2, <2>1
<1> QED BY <1>3 DEF Erase

(* A set of numbers has a least one. *)
LEMMA LeastNumber ==
    ASSUME NEW S \in SUBSET Nat, S # {}
    PROVE  \E m \in S : \A k \in S : m <= k
<1> DEFINE R == OpToRel(<, Nat)
<1>1. IsWellFoundedOn(R, Nat)
  BY NatLessThanWellFounded
<1>2. PICK m \in S : \A k \in S : <<k, m>> \notin R
  <2> HIDE DEF R
  <2> QED BY <1>1, WFMin
<1>3. \A k \in S : ~ (k < m)
  BY <1>2 DEF OpToRel
<1> QED BY <1>3

(* A line starts and ends inside the text. *)
LEMMA LineFacts ==
    ASSUME NEW t \in Seq(Char), NEW p \in 0..Len(t)
    PROVE  LineStart(t, p) \in 0..p /\ LineEnd(t, p) \in p..Len(t)
<1>0. Len(t) \in Nat /\ p \in Nat
  OBVIOUS
<1>1. LineStart(t, p) \in 0..p
  <2> DEFINE before == Newlines(t, 0, p)
             away == {n \in Nat : \E i \in before : n = p - i}
  <2>1. before \subseteq 0..(p - 1)
    BY DEF Newlines
  <2>2. CASE before = {}
    BY <2>2 DEF LineStart
  <2>3. CASE before # {}
    <3>1. away # {} /\ away \in SUBSET Nat
      <4>1. PICK i \in before : TRUE
        BY <2>3
      <4>2. p - i \in Nat
        BY <1>0, <2>1, <4>1
      <4>3. p - i \in away
        BY <4>1, <4>2
      <4> QED BY <4>3
    <3>2. PICK n \in away : \A m \in away : n <= m
      <4> HIDE DEF away
      <4> QED BY <3>1, LeastNumber
    <3>3. \E i \in before : \A j \in before : j <= i
      <4>1. PICK i \in before : n = p - i
        BY <3>2
      <4>2. ASSUME NEW j \in before PROVE j <= i
        <5>1. p - j \in away
          BY <2>1
        <5> QED BY <2>1, <3>2, <4>1, <5>1
      <4> QED BY <4>2
    <3> HIDE DEF before
    <3>4. (CHOOSE i \in before : \A j \in before : j <= i) \in 0..(p - 1)
      BY <2>1, <3>3
    <3> QED BY <2>3, <3>4 DEF LineStart, before
  <2> QED BY <2>2, <2>3
<1>2. LineEnd(t, p) \in p..Len(t)
  <2> DEFINE after == Newlines(t, p, Len(t))
  <2>1. after \subseteq p..(Len(t) - 1)
    BY DEF Newlines
  <2>2. CASE after = {}
    BY <2>2 DEF LineEnd
  <2>3. CASE after # {}
    <3> HIDE DEF after
    <3>1. \E i \in after : \A j \in after : i <= j
      <4>1. after \in SUBSET Nat
        BY <1>0, <2>1
      <4> QED BY <2>3, <4>1, LeastNumber
    <3>2. (CHOOSE i \in after : \A j \in after : i <= j) \in p..(Len(t) - 1)
      BY <2>1, <3>1
    <3> QED BY <2>3, <3>2 DEF LineEnd, after
  <2> QED BY <2>2, <2>3
<1> QED BY <1>1, <1>2

(* The keys that move by lines leave the cursor in the text. *)
LEMMA MoveFacts ==
    ASSUME NEW t \in Seq(Char), NEW p \in 0..Len(t), NEW n \in Nat
    PROVE  /\ MoveUp(t, p, n) \in 0..Len(t)
           /\ MoveDown(t, p, n) \in 0..Len(t)
           /\ LineBegin(t, p) \in 0..Len(t)
<1>0. Len(t) \in Nat /\ p \in Nat
  OBVIOUS
<1>1. MoveUp(t, p, n) \in 0..Len(t)
  <2> DEFINE before == {i \in Newlines(t, 0, p) : Cardinality(Newlines(t, i, p)) = n}
  <2>1. before \subseteq 0..Len(t)
    BY DEF Newlines
  <2> DEFINE chosen == CHOOSE i \in before : TRUE
  <2>2. before # {} => chosen \in before
    OBVIOUS
  <2> HIDE DEF before, chosen
  <2>3. (IF before = {} THEN 0 ELSE chosen) \in 0..Len(t)
    <3>1. CASE before = {}
      BY <1>0, <3>1
    <3>2. CASE before # {}
      <4>1. chosen \in 0..Len(t)
        BY <1>0, <2>1, <2>2, <3>2
      <4> QED BY <3>2, <4>1
    <3> QED BY <3>1, <3>2
  <2> QED BY <2>3 DEF MoveUp, before, chosen
<1>2. MoveDown(t, p, n) \in 0..Len(t)
  <2> DEFINE after == {i \in Newlines(t, p, Len(t)) :
                           Cardinality(Newlines(t, p, i + 1)) = n}
  <2>1. after \subseteq 0..(Len(t) - 1)
    BY DEF Newlines
  <2> DEFINE chosen == CHOOSE i \in after : TRUE
  <2>2. after # {} => chosen \in after
    OBVIOUS
  <2> HIDE DEF after, chosen
  <2>3. (IF after = {} THEN Len(t) ELSE 1 + chosen) \in 0..Len(t)
    <3>1. CASE after = {}
      BY <1>0, <3>1
    <3>2. CASE after # {}
      <4>0. chosen \in 0..(Len(t) - 1)
        BY <2>1, <2>2, <3>2
      <4>1. 1 + chosen \in 0..Len(t)
        BY <1>0, <4>0
      <4> QED BY <3>2, <4>1
    <3> QED BY <3>1, <3>2
  <2> QED BY <2>3 DEF MoveDown, after, chosen
<1>3. LineBegin(t, p) \in 0..Len(t)
  BY LineFacts DEF LineBegin
<1> QED BY <1>1, <1>2, <1>3

(* Every place of the text is in one of its rows. *)
LEMMA RowFacts ==
    ASSUME NEW t \in Seq(Char), NEW p \in 0..Len(t)
    PROVE  Row(t, p) \in Nat /\ Rows(t) \in Nat /\ Row(t, p) < Rows(t)
<1>1. IsFiniteSet(RowEnds(t, Len(t)))
  <2>1. RowEnds(t, Len(t)) \in SUBSET (0..(Len(t) - 1))
    BY DEF RowEnds
  <2>2. 0 \in Int /\ Len(t) - 1 \in Int
    OBVIOUS
  <2>3. IsFiniteSet(0..(Len(t) - 1))
    BY <2>2, FS_Interval
  <2> QED BY <2>1, <2>3, FS_Subset
<1>2. RowEnds(t, p) \in SUBSET RowEnds(t, Len(t))
  BY DEF RowEnds
<1>3. /\ IsFiniteSet(RowEnds(t, p))
      /\ Cardinality(RowEnds(t, p)) <= Cardinality(RowEnds(t, Len(t)))
  BY <1>1, <1>2, FS_Subset
<1> QED BY <1>1, <1>3, FS_CardinalityType DEF Row, Rows

(* Wherever the frame was, draw moves it to the cursor and wastes no room. *)
LEMMA FrameFacts ==
    ASSUME NEW f \in Nat, NEW r \in Nat, NEW n \in Nat, r < n
    PROVE  /\ Frame(f, r, n) \in Nat
           /\ Frame(f, r, n) <= r /\ r < Frame(f, r, n) + Height
           /\ Frame(f, r, n) > 0 => Frame(f, r, n) + Height <= n
BY LineEditAssumption DEF Frame, FrameFollowing

-----------------------------------------------------------------------------
(* What a key owes: its text and its cursor fit. *)
LEMMA EditCorrect ==
    ASSUME TypeOK, FrameFilled, NEW t \in Seq(Char), NEW p \in 0..Len(t), Edit(t, p)
    PROVE  TypeOK' /\ CursorShown' /\ FrameFilled'
<1>1. state' = t /\ pos' = p
  BY DEF Edit
<1>2. /\ echo => frame_start_line' = Frame(frame_start_line, Row(t, p), Rows(t))
      /\ ~ echo => frame_start_line' = frame_start_line
      /\ echo' = echo
  BY DEF Edit
<1>3. Row(t, p) \in Nat /\ Rows(t) \in Nat /\ Row(t, p) < Rows(t)
  BY RowFacts
<1>4. frame_start_line \in Nat /\ echo \in BOOLEAN
  BY DEF TypeOK
<1>5. CASE echo
  <2>1. /\ frame_start_line' \in Nat
        /\ frame_start_line' <= Row(t, p) /\ Row(t, p) < frame_start_line' + Height
        /\ frame_start_line' > 0 => frame_start_line' + Height <= Rows(t)
    BY <1>2, <1>3, <1>4, <1>5, FrameFacts
  <2>2. TypeOK'
    BY <1>1, <1>2, <1>4, <2>1 DEF TypeOK
  <2>3. Row(state, pos)' = Row(t, p) /\ Rows(state)' = Rows(t)
    BY <1>1 DEF Row, Rows, RowEnds, LineStart, Newlines
  <2>4. CursorShown'
    BY <1>3, <2>1, <2>3, LineEditAssumption DEF CursorShown
  <2>5. FrameFilled'
    BY <1>2, <1>5, <2>1, <2>3 DEF FrameFilled
  <2> QED BY <2>2, <2>4, <2>5
<1>6. CASE ~ echo
  <2>1. TypeOK'
    BY <1>1, <1>2, <1>4, <1>6 DEF TypeOK
  <2>2. ~ (frame_start_line > 0) /\ frame_start_line' = frame_start_line
    BY <1>2, <1>6 DEF FrameFilled
  <2>3. CursorShown'
    BY <1>2, <1>6 DEF CursorShown
  <2>4. FrameFilled'
    BY <2>2 DEF FrameFilled
  <2> QED BY <2>1, <2>3, <2>4
<1> QED BY <1>5, <1>6

(* Each key fits. *)
LEMMA NextCorrect ==
    ASSUME TypeOK, FrameFilled, Next
    PROVE  TypeOK' /\ CursorShown' /\ FrameFilled'
<1> USE DEF TypeOK
<1>1. ASSUME Type PROVE TypeOK' /\ CursorShown' /\ FrameFilled'
  <2>1. PICK c \in Char : Edit(Insert(state, pos, c), pos + 1)
    BY <1>1 DEF Type
  <2>2. Insert(state, pos, c) \in Seq(Char) /\ pos + 1 \in 0..Len(Insert(state, pos, c))
    BY InsertFacts
  <2> QED BY <2>1, <2>2, EditCorrect
<1>2. ASSUME Backspace PROVE TypeOK' /\ CursorShown' /\ FrameFilled'
  <2>1. /\ Erase(state, pos - 1) \in Seq(Char)
        /\ pos - 1 \in 0..Len(Erase(state, pos - 1))
    BY <1>2, EraseFacts DEF Backspace
  <2> QED BY <1>2, <2>1, EditCorrect DEF Backspace
<1>3. ASSUME Delete PROVE TypeOK' /\ CursorShown' /\ FrameFilled'
  <2>1. Erase(state, pos) \in Seq(Char) /\ pos \in 0..Len(Erase(state, pos))
    BY <1>3, EraseFacts DEF Delete
  <2> QED BY <1>3, <2>1, EditCorrect DEF Delete
<1>4. ASSUME Left \/ Right PROVE TypeOK' /\ CursorShown' /\ FrameFilled'
  <2>1. PICK p \in 0..Len(state) : Edit(state, p)
    BY <1>4 DEF Left, Right
  <2> QED BY <2>1, EditCorrect
<1>5. ASSUME Up \/ Down \/ PageUp \/ PageDown
      PROVE  TypeOK' /\ CursorShown' /\ FrameFilled'
  <2>1. 1 \in Nat /\ Page \in Nat
    BY LineEditAssumption
  <2>2. PICK p \in 0..Len(state) : Edit(state, p)
    BY <1>5, <2>1, MoveFacts DEF Up, Down, PageUp, PageDown
  <2> QED BY <2>2, EditCorrect
<1>6. ASSUME Home \/ End PROVE TypeOK' /\ CursorShown' /\ FrameFilled'
  <2>1. LineBegin(state, pos) \in 0..Len(state)
    BY MoveFacts
  <2>2. LineEnd(state, pos) \in 0..Len(state)
    BY LineFacts
  <2>3. PICK p \in 0..Len(state) : Edit(state, p)
    BY <1>6, <2>1, <2>2 DEF Home, End
  <2> QED BY <2>3, EditCorrect
<1>7. ASSUME Clear PROVE TypeOK' /\ CursorShown' /\ FrameFilled'
  <2>1. <<>> \in Seq(Char) /\ 0 \in 0..Len(<<>>)
    OBVIOUS
  <2> QED BY <1>7, <2>1, EditCorrect DEF Clear
<1> QED BY <1>1, <1>2, <1>3, <1>4, <1>5, <1>6, <1>7 DEF Next

(* The editor starts with an empty text. *)
LEMMA InitCorrect == Init => TypeOK /\ CursorShown /\ FrameFilled
<1> SUFFICES ASSUME Init PROVE TypeOK /\ CursorShown /\ FrameFilled
  OBVIOUS
<1>1. state = <<>> /\ pos = 0 /\ frame_start_line = 0 /\ echo \in BOOLEAN
  BY DEF Init
<1>2. TypeOK
  BY <1>1 DEF TypeOK
<1>3. RowEnds(state, pos) = {} /\ RowEnds(state, Len(state)) = {}
  BY <1>1 DEF RowEnds
<1>4. Row(state, pos) = 0 /\ Rows(state) = 1
  BY <1>3, FS_EmptySet DEF Row, Rows
<1>5. CursorShown /\ FrameFilled
  BY <1>1, <1>4, LineEditAssumption DEF CursorShown, FrameFilled
<1> QED BY <1>2, <1>5

(* Nothing else changes the three properties. *)
LEMMA Stutter ==
    ASSUME TypeOK, CursorShown, FrameFilled, UNCHANGED vars
    PROVE  TypeOK' /\ CursorShown' /\ FrameFilled'
BY DEF TypeOK, CursorShown, FrameFilled, vars, Row, Rows, RowEnds, LineStart, Newlines

(* They hold for ever. *)
LEMMA EditorInvariant == Spec => [](TypeOK /\ CursorShown /\ FrameFilled)
<1>1. Init => TypeOK /\ CursorShown /\ FrameFilled
  BY InitCorrect
<1>2. TypeOK /\ CursorShown /\ FrameFilled /\ [Next]_vars
      => TypeOK' /\ CursorShown' /\ FrameFilled'
  BY NextCorrect, Stutter
<1> QED BY <1>1, <1>2, PTL DEF Spec

(* The cursor is in the text after any keys, so that insert and erase      *)
(* never throw.                                                            *)
THEOREM TypeCorrect == Spec => []TypeOK
BY EditorInvariant, PTL

(* draw shows the cursor, however narrow and low the block is, and never   *)
(* reads a row that the text does not have.                                *)
THEOREM CursorCorrect == Spec => []CursorShown
BY EditorInvariant, PTL

(* draw never leaves room below the text while rows above are hidden.      *)
THEOREM FrameCorrect == Spec => []FrameFilled
BY EditorInvariant, PTL

-----------------------------------------------------------------------------
(***************************************************************************)
(* The keys that move by lines: a line is a number of newlines before it.  *)
(***************************************************************************)

(* A non-empty set of numbers with a bound has a greatest one. *)
LEMMA GreatestNumber ==
    ASSUME NEW p \in Nat, NEW S \in SUBSET (0..p), S # {}
    PROVE  \E m \in S : \A k \in S : k <= m
<1> DEFINE away == {n \in Nat : \E i \in S : n = p - i}
<1>1. away # {} /\ away \in SUBSET Nat
  <2>1. PICK i \in S : TRUE
    OBVIOUS
  <2>2. p - i \in Nat
    OBVIOUS
  <2>3. p - i \in away
    BY <2>1, <2>2
  <2> QED BY <2>3
<1>2. PICK n \in away : \A m \in away : n <= m
  <2> HIDE DEF away
  <2> QED BY <1>1, LeastNumber
<1>3. PICK i \in S : n = p - i
  BY <1>2
<1>4. ASSUME NEW j \in S PROVE j <= i
  <2>1. p - j \in away
    OBVIOUS
  <2> QED BY <1>2, <1>3, <2>1
<1> QED BY <1>4

(* The newlines of a part of a text are a number. *)
LEMMA CountType ==
    ASSUME NEW t, NEW a \in Int, NEW b \in Int
    PROVE  IsFiniteSet(Newlines(t, a, b)) /\ Cardinality(Newlines(t, a, b)) \in Nat
<1>1. Newlines(t, a, b) \in SUBSET (a..(b - 1))
  BY DEF Newlines
<1>2. a \in Int /\ b - 1 \in Int
  OBVIOUS
<1>3. IsFiniteSet(a..(b - 1))
  BY <1>2, FS_Interval
<1> QED BY <1>1, <1>3, FS_Subset, FS_CardinalityType

(* Those of two neighbouring parts add up. *)
LEMMA CountSum ==
    ASSUME NEW t, NEW a \in Int, NEW b \in Int, NEW c \in Int, a <= b, b <= c
    PROVE  Cardinality(Newlines(t, a, c))
             = Cardinality(Newlines(t, a, b)) + Cardinality(Newlines(t, b, c))
<1>1. Newlines(t, a, c) = Newlines(t, a, b) \cup Newlines(t, b, c)
  BY DEF Newlines
<1>2. Newlines(t, a, b) \cap Newlines(t, b, c) = {}
  BY DEF Newlines
<1>3. Cardinality(Newlines(t, a, b) \cup Newlines(t, b, c))
        = Cardinality(Newlines(t, a, b)) + Cardinality(Newlines(t, b, c))
          - Cardinality(Newlines(t, a, b) \cap Newlines(t, b, c))
  BY CountType, FS_Union
<1>4. Cardinality(Newlines(t, a, b) \cap Newlines(t, b, c)) = 0
  BY <1>2, FS_EmptySet
<1>5. Cardinality(Newlines(t, a, b)) \in Nat /\ Cardinality(Newlines(t, b, c)) \in Nat
  BY CountType
<1> QED BY <1>1, <1>3, <1>4, <1>5

(* Nothing has none. *)
LEMMA CountNone ==
    ASSUME NEW t, NEW a \in Int
    PROVE  Cardinality(Newlines(t, a, a)) = 0
<1>1. Newlines(t, a, a) = {}
  BY DEF Newlines
<1> QED BY <1>1, FS_EmptySet

(* One place has at most one. *)
LEMMA CountOne ==
    ASSUME NEW t, NEW a \in Int, NEW b \in Int, b = a + 1
    PROVE  Cardinality(Newlines(t, a, b)) = IF t[b] = NL THEN 1 ELSE 0
<1>1. CASE t[b] = NL
  <2>1. Newlines(t, a, b) = {a}
    BY <1>1 DEF Newlines
  <2> QED BY <1>1, <2>1, FS_Singleton
<1>2. CASE t[b] # NL
  <2>1. Newlines(t, a, b) = {}
    BY <1>2 DEF Newlines
  <2> QED BY <1>2, <2>1, FS_EmptySet
<1> QED BY <1>1, <1>2

(* How many newlines of t are before p. *)
Count(t, p) == Cardinality(Newlines(t, 0, p))

(* The newlines between two places are those that the later one has more. *)
LEMMA CountStep ==
    ASSUME NEW t, NEW a \in Nat, NEW b \in Nat, a <= b
    PROVE  /\ Count(t, a) \in Nat /\ Count(t, b) \in Nat /\ Count(t, 0) = 0
           /\ Cardinality(Newlines(t, a, b)) \in Nat
           /\ Count(t, b) = Count(t, a) + Cardinality(Newlines(t, a, b))
           /\ b = a + 1 => Count(t, b) = Count(t, a) + IF t[b] = NL THEN 1 ELSE 0
<1>1. Count(t, a) \in Nat /\ Count(t, b) \in Nat /\ Cardinality(Newlines(t, a, b)) \in Nat
  BY CountType DEF Count
<1>2. Count(t, 0) = 0
  BY CountNone DEF Count
<1>3. Count(t, b) = Count(t, a) + Cardinality(Newlines(t, a, b))
  BY CountSum DEF Count
<1>4. b = a + 1 => Cardinality(Newlines(t, a, b)) = IF t[b] = NL THEN 1 ELSE 0
  BY CountOne
<1> QED BY <1>1, <1>2, <1>3, <1>4

(* try_move_up n times: n lines up, or to the start of the text. *)
LEMMA MoveUpLines ==
    ASSUME NEW t \in Seq(Char), NEW p \in 0..Len(t), NEW n \in Nat \ {0}
    PROVE  Count(t, MoveUp(t, p, n)) = IF Count(t, p) > n THEN Count(t, p) - n ELSE 0
<1>0. Len(t) \in Nat /\ p \in Nat
  OBVIOUS
<1> DEFINE before == {i \in Newlines(t, 0, p) : Cardinality(Newlines(t, i, p)) = n}
           chosen == CHOOSE i \in before : TRUE
<1>1. MoveUp(t, p, n) = IF before = {} THEN 0 ELSE chosen
  BY DEF MoveUp
<1>2. ASSUME NEW i \in before
      PROVE  i \in Nat /\ Count(t, i) \in Nat /\ Count(t, p) = Count(t, i) + n
  <2>1. i \in Nat /\ i <= p /\ Cardinality(Newlines(t, i, p)) = n
    BY <1>0 DEF Newlines
  <2> QED BY <1>0, <2>1, CountStep
<1>3. ASSUME before = {} PROVE Count(t, p) < n
  <2>1. SUFFICES ASSUME ~ (Count(t, p) < n) PROVE FALSE
    OBVIOUS
  <2> DEFINE S == {i \in 0..p : Cardinality(Newlines(t, i, p)) >= n}
  <2>2. 0 \in S
    BY <1>0, <2>1, CountStep DEF Count
  <2>3. PICK i \in S : \A k \in S : k <= i
    <3>1. S \in SUBSET (0..p) /\ S # {}
      BY <2>2
    <3> HIDE DEF S
    <3> QED BY <1>0, <3>1, GreatestNumber
  <2>4. i \in Nat /\ i <= p /\ Cardinality(Newlines(t, i, p)) >= n
    BY <1>0, <2>3
  <2>5. i # p
    BY <1>0, <2>4, CountNone
  <2>6. i + 1 \in 0..p /\ i + 1 \notin S
    BY <1>0, <2>3, <2>4, <2>5
  <2>7. ~ (Cardinality(Newlines(t, i + 1, p)) >= n)
    BY <2>6
  <2>8. /\ Cardinality(Newlines(t, i + 1, p)) \in Nat
        /\ Cardinality(Newlines(t, i, p))
             = Cardinality(Newlines(t, i, i + 1)) + Cardinality(Newlines(t, i + 1, p))
        /\ Cardinality(Newlines(t, i, i + 1)) = IF t[i + 1] = NL THEN 1 ELSE 0
    <3>1. i \in Int /\ i + 1 \in Int /\ p \in Int /\ i <= i + 1 /\ i + 1 <= p
      BY <1>0, <2>4, <2>6
    <3>2. Cardinality(Newlines(t, i + 1, p)) \in Nat
      BY <3>1, CountType
    <3>3. Cardinality(Newlines(t, i, i + 1)) = IF t[i + 1] = NL THEN 1 ELSE 0
      BY <3>1, CountOne
    <3>4. Cardinality(Newlines(t, i, p))
            = Cardinality(Newlines(t, i, i + 1)) + Cardinality(Newlines(t, i + 1, p))
      BY <3>1, CountSum
    <3> QED BY <3>2, <3>3, <3>4
  <2>9. t[i + 1] = NL /\ Cardinality(Newlines(t, i, p)) = n
    BY <2>4, <2>7, <2>8
  <2>10. i \in before
    BY <1>0, <2>4, <2>6, <2>9 DEF Newlines
  <2> QED BY <1>3, <2>10
<1>4. Count(t, p) \in Nat /\ Count(t, 0) = 0
  BY <1>0, CountStep
<1>5. before # {} => chosen \in before
  OBVIOUS
<1> HIDE DEF before, chosen
<1>6. CASE before = {}
  BY <1>1, <1>3, <1>4, <1>6
<1>7. CASE before # {}
  <2>1. /\ Count(t, chosen) \in Nat /\ Count(t, p) = Count(t, chosen) + n
        /\ MoveUp(t, p, n) = chosen
    BY <1>1, <1>2, <1>5, <1>7
  <2> QED BY <1>4, <2>1
<1> QED BY <1>6, <1>7

(* try_move_down n times: n lines down, or to the end of the text. *)
LEMMA MoveDownLines ==
    ASSUME NEW t \in Seq(Char), NEW p \in 0..Len(t), NEW n \in Nat \ {0}
    PROVE  Count(t, MoveDown(t, p, n))
             = IF Count(t, p) + n < Count(t, Len(t)) THEN Count(t, p) + n ELSE Count(t, Len(t))
<1>0. Len(t) \in Nat /\ p \in Nat /\ p <= Len(t)
  OBVIOUS
<1> DEFINE after == {i \in Newlines(t, p, Len(t)) : Cardinality(Newlines(t, p, i + 1)) = n}
           chosen == CHOOSE i \in after : TRUE
<1>1. MoveDown(t, p, n) = IF after = {} THEN Len(t) ELSE 1 + chosen
  BY DEF MoveDown
<1>2. ASSUME NEW i \in after
      PROVE  /\ 1 + i \in Nat /\ Count(t, 1 + i) = Count(t, p) + n
             /\ Count(t, 1 + i) <= Count(t, Len(t))
  <2>1. /\ i + 1 \in Nat /\ p <= i + 1 /\ i + 1 <= Len(t) /\ 1 + i = i + 1
        /\ Cardinality(Newlines(t, p, i + 1)) = n
    BY <1>0 DEF Newlines
  <2>2. Count(t, i + 1) = Count(t, p) + n /\ Count(t, i + 1) \in Nat
    BY <1>0, <2>1, CountStep
  <2>3. /\ Count(t, Len(t)) = Count(t, i + 1) + Cardinality(Newlines(t, i + 1, Len(t)))
        /\ Cardinality(Newlines(t, i + 1, Len(t))) \in Nat
    BY <1>0, <2>1, CountStep
  <2> QED BY <2>1, <2>2, <2>3
<1>3. ASSUME after = {} PROVE Cardinality(Newlines(t, p, Len(t))) < n
  <2>1. SUFFICES ASSUME ~ (Cardinality(Newlines(t, p, Len(t))) < n) PROVE FALSE
    OBVIOUS
  <2> DEFINE S == {k \in Nat : p <= k /\ k <= Len(t) /\ Cardinality(Newlines(t, p, k)) >= n}
  <2>2. Len(t) \in S
    <3>1. Cardinality(Newlines(t, p, Len(t))) \in Nat
      BY <1>0, CountType
    <3> QED BY <1>0, <2>1, <3>1
  <2>3. PICK k \in S : \A j \in S : k <= j
    <3>1. S \in SUBSET Nat /\ S # {}
      BY <2>2
    <3> HIDE DEF S
    <3> QED BY <3>1, LeastNumber
  <2>4. k \in Nat /\ p <= k /\ k <= Len(t) /\ Cardinality(Newlines(t, p, k)) >= n
    BY <2>3
  <2>5. k # p
    BY <1>0, <2>4, CountNone
  <2>6. PICK j \in Nat : k = j + 1 /\ p <= j
    <3>1. k - 1 \in Nat /\ k = (k - 1) + 1 /\ p <= k - 1
      BY <1>0, <2>4, <2>5
    <3> QED BY <3>1
  <2>7. ~ (Cardinality(Newlines(t, p, j)) >= n)
    <3>1. j \notin S
      BY <2>3, <2>4, <2>6
    <3> QED BY <1>0, <2>4, <2>6, <3>1
  <2>8. /\ Cardinality(Newlines(t, p, j)) \in Nat
        /\ Cardinality(Newlines(t, p, k))
             = Cardinality(Newlines(t, p, j)) + Cardinality(Newlines(t, j, k))
        /\ Cardinality(Newlines(t, j, k)) = IF t[k] = NL THEN 1 ELSE 0
    <3>1. j \in Int /\ k \in Int /\ p \in Int /\ j <= k
      BY <1>0, <2>4, <2>6
    <3>2. Cardinality(Newlines(t, p, j)) \in Nat
      BY <3>1, CountType
    <3>3. Cardinality(Newlines(t, j, k)) = IF t[k] = NL THEN 1 ELSE 0
      BY <2>6, <3>1, CountOne
    <3>4. Cardinality(Newlines(t, p, k))
            = Cardinality(Newlines(t, p, j)) + Cardinality(Newlines(t, j, k))
      BY <2>6, <3>1, CountSum
    <3> QED BY <3>2, <3>3, <3>4
  <2>10. t[k] = NL /\ Cardinality(Newlines(t, p, k)) = n
    BY <2>4, <2>7, <2>8
  <2>11. j \in after
    BY <1>0, <2>4, <2>6, <2>10 DEF Newlines
  <2> QED BY <1>3, <2>11
<1>4. /\ Count(t, p) \in Nat /\ Count(t, Len(t)) \in Nat
      /\ Count(t, Len(t)) = Count(t, p) + Cardinality(Newlines(t, p, Len(t)))
      /\ Cardinality(Newlines(t, p, Len(t))) \in Nat
  BY <1>0, CountStep
<1>5. after # {} => chosen \in after
  OBVIOUS
<1> HIDE DEF after, chosen
<1>6. CASE after = {}
  BY <1>1, <1>3, <1>4, <1>6
<1>7. CASE after # {}
  <2>1. /\ Count(t, 1 + chosen) = Count(t, p) + n
        /\ Count(t, 1 + chosen) <= Count(t, Len(t))
        /\ MoveDown(t, p, n) = 1 + chosen
    BY <1>1, <1>2, <1>5, <1>7
  <2> QED BY <1>4, <2>1
<1> QED BY <1>6, <1>7

(* No newline is between the cursor and the end of its line. *)
LEMMA LineEndCount ==
    ASSUME NEW t \in Seq(Char), NEW p \in 0..Len(t)
    PROVE  /\ Count(t, LineEnd(t, p)) = Count(t, p)
           /\ p < Len(t) /\ t[p + 1] = NL => LineEnd(t, p) = p
<1>0. Len(t) \in Nat /\ p \in Nat
  OBVIOUS
<1> DEFINE after == Newlines(t, p, Len(t))
           chosen == CHOOSE i \in after : \A j \in after : i <= j
<1>1. LineEnd(t, p) = IF after = {} THEN Len(t) ELSE chosen
  BY DEF LineEnd
<1>2. after \in SUBSET Nat
  BY <1>0 DEF Newlines
<1>3. after # {} => chosen \in after /\ \A j \in after : chosen <= j
  <2>1. after # {} => \E i \in after : \A j \in after : i <= j
    <3> HIDE DEF after
    <3> QED BY <1>2, LeastNumber
  <2> HIDE DEF after
  <2> QED BY <2>1
<1>4. LineEnd(t, p) \in Nat /\ p <= LineEnd(t, p) /\ LineEnd(t, p) <= Len(t)
  BY <1>0, LineFacts
<1>5. Newlines(t, p, LineEnd(t, p)) = {}
  <2>1. SUFFICES ASSUME NEW i \in Newlines(t, p, LineEnd(t, p)) PROVE FALSE
    OBVIOUS
  <2>2. i \in after /\ i \in Nat /\ i < LineEnd(t, p)
    BY <1>0, <1>4, <2>1 DEF Newlines
  <2> HIDE DEF after, chosen
  <2>3. chosen <= i /\ LineEnd(t, p) = chosen
    BY <1>1, <1>3, <2>2
  <2>4. chosen \in Nat
    BY <1>2, <1>3, <2>2
  <2> QED BY <2>2, <2>3, <2>4
<1>6. Cardinality(Newlines(t, p, LineEnd(t, p))) = 0
  BY <1>5, FS_EmptySet
<1>7. Count(t, LineEnd(t, p)) = Count(t, p)
  BY <1>0, <1>4, <1>6, CountStep
<1>8. ASSUME p < Len(t), t[p + 1] = NL PROVE LineEnd(t, p) = p
  <2>1. p \in after
    BY <1>0, <1>8 DEF Newlines
  <2> HIDE DEF after, chosen
  <2>2. chosen <= p /\ LineEnd(t, p) = chosen
    BY <1>1, <1>3, <2>1
  <2> QED BY <1>0, <1>4, <2>2
<1> QED BY <1>7, <1>8

(* The promise of each key, for one step. *)
KeyMoves ==
    /\ Left \/ Right \/ End => LineNo(pos)' = LineNo(pos)
    /\ Home /\ pos # LineEnd(state, pos) => pos' = LineStart(state, pos)
    /\ Up => LineNo(pos)' = Above(1)
    /\ Down => LineNo(pos)' = Below(1)
    /\ PageUp => LineNo(pos)' = Above(Page)
    /\ PageDown => LineNo(pos)' = Below(Page)

(* Each key keeps it in a text that the cursor is in. *)
LEMMA KeyStep == TypeOK => KeyMoves
<1> SUFFICES ASSUME TypeOK PROVE KeyMoves
  OBVIOUS
<1>0. state \in Seq(Char) /\ pos \in 0..Len(state) /\ Len(state) \in Nat /\ pos \in Nat
  <2>1. state \in Seq(Char) /\ pos \in 0..Len(state)
    BY DEF TypeOK
  <2> QED BY <2>1, LenProperties
<1>1. ASSUME NEW p, Edit(state, p) PROVE LineNo(pos)' = Count(state, p) /\ pos' = p
  BY <1>1 DEF Edit, LineNo, Count, Newlines
<1>2. LineNo(pos) = Count(state, pos)
  BY DEF LineNo, Count
<1>3. ASSUME Left PROVE LineNo(pos)' = LineNo(pos)
  <2>1. PICK j \in Nat : pos = j + 1 /\ j = pos - 1
    BY <1>0, <1>3 DEF Left
  <2>2. Count(state, pos) = Count(state, j) + IF state[pos] = NL THEN 1 ELSE 0
    <3>1. pos \in Nat /\ j \in Nat /\ j <= pos /\ pos = j + 1
      BY <1>0, <2>1
    <3> QED BY ONLY <3>1, CountStep
  <2>3. Count(state, j) \in Nat
    BY <2>1, CountStep
  <2>4. Count(state, pos) = Count(state, j)
    BY <1>3, <2>2, <2>3 DEF Left
  <2> QED BY <1>1, <1>2, <1>3, <2>1, <2>4 DEF Left
<1>4. ASSUME Right PROVE LineNo(pos)' = LineNo(pos)
  <2>1. pos + 1 \in Nat /\ pos <= pos + 1
    BY <1>0
  <2>2. /\ Count(state, pos + 1) = Count(state, pos) + IF state[pos + 1] = NL THEN 1 ELSE 0
        /\ Count(state, pos) \in Nat
    BY <1>0, <2>1, CountStep
  <2>3. Count(state, pos + 1) = Count(state, pos)
    BY <1>4, <2>2 DEF Right
  <2> QED BY <1>1, <1>2, <1>4, <2>3 DEF Right
<1>5. ASSUME End PROVE LineNo(pos)' = LineNo(pos)
  BY <1>0, <1>1, <1>2, <1>5, LineEndCount DEF End
<1>6. ASSUME Home, pos # LineEnd(state, pos) PROVE pos' = LineStart(state, pos)
  <2>1. ~ (pos < Len(state) /\ state[pos + 1] = NL)
    BY <1>0, <1>6, LineEndCount
  <2> QED BY <1>1, <1>6, <2>1 DEF Home, LineBegin
<1>7. ASSUME NEW n \in Nat \ {0}
      PROVE  /\ Edit(state, MoveUp(state, pos, n)) => LineNo(pos)' = Above(n)
             /\ Edit(state, MoveDown(state, pos, n)) => LineNo(pos)' = Below(n)
  <2>1. Count(state, MoveUp(state, pos, n)) = Above(n)
    BY <1>0, <1>2, MoveUpLines DEF Above
  <2>2. Count(state, MoveDown(state, pos, n)) = Below(n)
    BY <1>0, <1>2, MoveDownLines DEF Below, LastLine, LineNo, Count
  <2> QED BY <1>1, <2>1, <2>2
<1>8. 1 \in Nat \ {0} /\ Page \in Nat \ {0}
  BY LineEditAssumption
<1> QED
  BY <1>3, <1>4, <1>5, <1>6, <1>7, <1>8 DEF KeyMoves, Up, Down, PageUp, PageDown

(* LEFT, RIGHT and END stay in the line, HOME goes to its start unless it  *)
(* is pressed on a newline, and UP, DOWN and the page keys move by the     *)
(* lines they promise, for every text (td-line-edit.cpp: try_move_up and   *)
(* the other try_ functions).                                              *)
THEOREM KeysCorrect == Spec => KeysMoveByLines
<1>1. TypeOK => [KeyMoves]_vars
  BY KeyStep
<1>2. Spec => [][KeyMoves]_vars
  <2>1. TypeOK /\ [Next]_vars => [KeyMoves]_vars
    BY <1>1
  <2> QED BY <2>1, TypeCorrect, PTL DEF Spec
<1> QED BY <1>2 DEF KeysMoveByLines, KeyMoves

-----------------------------------------------------------------------------
(***************************************************************************)
(* The loop of draw against the rows by their ends.                        *)
(***************************************************************************)

(* A quotient and a rest below the divisor are unique. *)
LEMMA RestUnique ==
    ASSUME NEW a \in Int, NEW b \in Int, NEW r \in Int, NEW s \in Int,
           NEW w \in Nat, w > 0, 0 <= r, r < w, 0 <= s, s < w, w * a + r = w * b + s
    PROVE  r = s
<1>1. CASE a = b
  BY <1>1
<1>2. CASE a > b
  <2>1. a - b >= 1 /\ w * (a - b) = w * a - w * b
    BY <1>2
  <2>2. w * (a - b) >= w
    BY <2>1
  <2> QED BY <2>1, <2>2
<1>3. CASE a < b
  <2>1. b - a >= 1 /\ w * (b - a) = w * b - w * a
    BY <1>3
  <2>2. w * (b - a) >= w
    BY <2>1
  <2> QED BY <2>1, <2>2
<1> QED BY <1>1, <1>2, <1>3

(* Every number has a rest. *)
LEMMA RestExists ==
    ASSUME NEW x \in Nat, NEW w \in Nat, w > 0
    PROVE  \E a \in Nat, r \in 0..(w - 1) : x = w * a + r /\ r = x % w
<1>1. x = (w * (x \div w)) + (x % w) /\ x \div w \in Nat /\ x % w \in 0..(w - 1)
  OBVIOUS
<1> QED BY <1>1

(* The rest counts up and starts again. *)
LEMMA RestStep ==
    ASSUME NEW x \in Nat, NEW w \in Nat, w > 0
    PROVE  /\ x % w \in 0..(w - 1) /\ 0 % w = 0
           /\ (x + 1) % w = IF (x % w) + 1 = w THEN 0 ELSE (x % w) + 1
<1>1. PICK a \in Nat, r \in 0..(w - 1) : x = w * a + r /\ r = x % w
  BY RestExists
<1>2. PICK b \in Nat, s \in 0..(w - 1) : x + 1 = w * b + s /\ s = (x + 1) % w
  <2>1. PICK y \in Nat : y = x + 1
    OBVIOUS
  <2>2. \E b \in Nat, s \in 0..(w - 1) : y = w * b + s /\ s = y % w
    BY RestExists
  <2> QED BY <2>1, <2>2
<1>3. CASE r + 1 = w
  <2>1. w * (a + 1) = w * a + w
    OBVIOUS
  <2>2. w * (a + 1) + 0 = w * b + s
    BY <1>1, <1>2, <1>3, <2>1
  <2>3. s = 0
    BY <2>2, RestUnique
  <2> QED BY <1>1, <1>2, <1>3, <2>3
<1>4. CASE r + 1 # w
  <2>1. w * a + (r + 1) = w * b + s
    BY <1>1, <1>2
  <2>2. s = r + 1
    BY <1>4, <2>1, RestUnique
  <2> QED BY <1>1, <1>2, <1>4, <2>2
<1> QED BY <1>3, <1>4

(* A line starts behind the last newline. *)
LEMMA LineStartIs ==
    ASSUME NEW t \in Seq(Char), NEW p \in 0..Len(t), NEW i \in Newlines(t, 0, p),
           \A m \in Newlines(t, 0, p) : m <= i
    PROVE  LineStart(t, p) = 1 + i
<1> DEFINE before == Newlines(t, 0, p)
           chosen == CHOOSE m \in before : \A j \in before : j <= m
<1>1. LineStart(t, p) = IF before = {} THEN 0 ELSE 1 + chosen
  BY DEF LineStart
<1>2. before \subseteq Int
  BY DEF Newlines
<1>3. chosen \in before /\ \A m \in before : m <= chosen
  <2>1. \E m \in before : \A j \in before : j <= m
    OBVIOUS
  <2> HIDE DEF before
  <2> QED BY <2>1
<1> HIDE DEF chosen
<1>4. chosen = i
  <2>1. chosen \in Int /\ i \in Int /\ chosen <= i /\ i <= chosen
    BY <1>2, <1>3
  <2> QED BY <2>1
<1> QED BY <1>1, <1>4

(* A newline starts a line, any other character stays in it. *)
LEMMA LineStartStep ==
    ASSUME NEW t \in Seq(Char), NEW j \in Nat, NEW k \in 1..Len(t), k = j + 1
    PROVE  /\ LineStart(t, 0) = 0
           /\ LineStart(t, k) = IF t[k] = NL THEN k ELSE LineStart(t, j)
<1>0. Len(t) \in Nat /\ j \in 0..Len(t) /\ k \in 0..Len(t)
  OBVIOUS
<1>1. LineStart(t, 0) = 0
  BY DEF LineStart, Newlines
<1>2. CASE t[k] = NL
  <2>1. j \in Newlines(t, 0, k) /\ \A m \in Newlines(t, 0, k) : m <= j
    BY <1>2 DEF Newlines
  <2>2. LineStart(t, k) = 1 + j
    BY <1>0, <2>1, LineStartIs
  <2> QED BY <1>1, <1>2, <2>2
<1>3. CASE t[k] # NL
  <2>1. Newlines(t, 0, k) = Newlines(t, 0, j)
    BY <1>3 DEF Newlines
  <2>2. CASE Newlines(t, 0, j) = {}
    <3>1. LineStart(t, k) = 0 /\ LineStart(t, j) = 0
      BY <2>1, <2>2 DEF LineStart
    <3> QED BY <1>1, <1>3, <3>1
  <2>3. CASE Newlines(t, 0, j) # {}
    <3>1. Newlines(t, 0, j) \in SUBSET (0..j)
      BY DEF Newlines
    <3>2. PICK i \in Newlines(t, 0, j) : \A m \in Newlines(t, 0, j) : m <= i
      BY <2>3, <3>1, GreatestNumber
    <3>3. LineStart(t, j) = 1 + i
      BY <1>0, <3>2, LineStartIs
    <3>4. i \in Newlines(t, 0, k) /\ \A m \in Newlines(t, 0, k) : m <= i
      BY <2>1, <3>2
    <3>5. LineStart(t, k) = 1 + i
      BY <1>0, <3>4, LineStartIs
    <3> QED BY <1>1, <1>3, <3>3, <3>5
  <2> QED BY <2>2, <2>3
<1> QED BY <1>2, <1>3

(* Where the next character is. *)
LEMMA PlaceStep ==
    ASSUME NEW t \in Seq(Char), NEW j \in Nat, NEW k \in 1..Len(t), k = j + 1
    PROVE  /\ Row(t, j) \in Nat /\ Row(t, k) \in Nat /\ Row(t, 0) = 0 /\ Column(t, 0) = 0
           /\ Column(t, j) \in 0..(Width - 1)
           /\ Column(t, k) = IF t[k] = NL \/ Column(t, j) + 1 = Width THEN 0
                             ELSE Column(t, j) + 1
           /\ Row(t, k) = Row(t, j)
                          + IF t[k] = NL \/ Column(t, j) + 1 = Width THEN 1 ELSE 0
<1>0. Len(t) \in Nat /\ j \in 0..Len(t) /\ k \in 0..Len(t) /\ Width \in Nat /\ Width > 0
  BY LineEditAssumption
<1>s. LineStart(t, j) \in 0..j
  BY <1>0, LineFacts
<1>1. PICK x \in Nat : x = j - LineStart(t, j)
  BY <1>s
<1>2. LineStart(t, j) \in Nat /\ k - LineStart(t, j) = x + 1 /\ j + 1 = k
  BY <1>s, <1>1
<1>3. Column(t, j) = x % Width
  BY <1>1 DEF Column
<1>4. /\ x % Width \in 0..(Width - 1) /\ 0 % Width = 0
      /\ (x + 1) % Width = IF (x % Width) + 1 = Width THEN 0 ELSE (x % Width) + 1
  BY <1>0, RestStep
<1>5. Column(t, k) = IF t[k] = NL \/ Column(t, j) + 1 = Width THEN 0 ELSE Column(t, j) + 1
  <2>1. CASE t[k] = NL
    <3>1. k - LineStart(t, k) = 0
      BY <1>0, <2>1, LineStartStep
    <3> QED BY <1>4, <2>1, <3>1 DEF Column
  <2>2. CASE t[k] # NL
    <3>1. k - LineStart(t, k) = x + 1
      BY <1>2, <2>2, LineStartStep
    <3> QED BY <1>3, <1>4, <2>2, <3>1 DEF Column
  <2> QED BY <2>1, <2>2
<1>6. Column(t, 0) = 0
  <2>1. 0 - LineStart(t, 0) = 0
    BY LineStartStep
  <2> QED BY <1>4, <2>1 DEF Column
<1> DEFINE full == t[k] = NL \/ (k - LineStart(t, j)) % Width = 0
<1>7. full <=> t[k] = NL \/ Column(t, j) + 1 = Width
  BY <1>2, <1>3, <1>4
<1>8. RowEnds(t, k) = RowEnds(t, j) \cup (IF full THEN {j} ELSE {}) /\ j \notin RowEnds(t, j)
  <2>1. 0..(k - 1) = 0..(j - 1) \cup {j} /\ j \notin 0..(j - 1)
    BY <1>0
  <2> QED BY <1>2, <2>1 DEF RowEnds
<1>9. IsFiniteSet(RowEnds(t, j)) /\ IsFiniteSet(RowEnds(t, 0)) /\ RowEnds(t, 0) = {}
  <2>1. RowEnds(t, j) \in SUBSET (0..(j - 1)) /\ RowEnds(t, 0) = {}
    BY DEF RowEnds
  <2>2. IsFiniteSet(0..(j - 1))
    BY FS_Interval
  <2> QED BY <2>1, <2>2, FS_Subset, FS_EmptySet
<1>10. Row(t, j) \in Nat /\ Row(t, 0) = 0
  BY <1>9, FS_CardinalityType, FS_EmptySet DEF Row
<1>11. Row(t, k) = Row(t, j) + IF full THEN 1 ELSE 0
  <2> HIDE DEF full
  <2>1. CASE full
    <3>1. RowEnds(t, k) = RowEnds(t, j) \cup {j}
      BY <1>8, <2>1
    <3> QED BY <1>8, <1>9, <2>1, <3>1, FS_AddElement DEF Row
  <2>2. CASE ~full
    <3>1. RowEnds(t, k) = RowEnds(t, j)
      BY <1>8, <2>2
    <3> QED BY <1>10, <2>2, <3>1 DEF Row
  <2> QED BY <2>1, <2>2
<1> HIDE DEF full
<1> QED BY <1>3, <1>4, <1>5, <1>6, <1>7, <1>10, <1>11

(* What draw keeps while it goes over the text. *)
Layout == [rows : Int, cur : Int, row : Int, col : Int, widest : Int]

(* What it knows after k characters. *)
Drawn(d, k) ==
    /\ d \in Layout
    /\ d.rows = Row(state, k) /\ d.cur = Column(state, k) /\ d.widest <= Width
    /\ pos < k => d.row = Row(state, pos) /\ d.col = Column(state, pos)

(* A row is done. *)
LEMMA PushFacts ==
    ASSUME NEW d \in Layout
    PROVE  /\ Push(d) \in Layout
           /\ Push(d).rows = d.rows + 1 /\ Push(d).cur = 0
           /\ Push(d).row = d.row /\ Push(d).col = d.col
           /\ Push(d).widest = IF d.cur > d.widest THEN d.cur ELSE d.widest
<1> DEFINE w == IF d.cur > d.widest THEN d.cur ELSE d.widest
           r == d.rows + 1
<1>1. Push(d) = [d EXCEPT !.rows = r, !.cur = 0, !.widest = w]
  BY DEF Push
<1>2. r \in Int /\ w \in Int
  BY DEF Layout
<1> HIDE DEF w, r
<1>3. [d EXCEPT !.rows = r, !.cur = 0, !.widest = w]
        = [[[d EXCEPT !.rows = r] EXCEPT !.cur = 0] EXCEPT !.widest = w]
  OBVIOUS
<1> DEFINE e == [d EXCEPT !.rows = r]
           f == [e EXCEPT !.cur = 0]
           g == [f EXCEPT !.widest = w]
<1>4. Push(d) = g
  BY <1>1, <1>3
<1>5. e \in Layout /\ e.rows = r /\ e.row = d.row /\ e.col = d.col
  BY <1>2 DEF Layout
<1> HIDE DEF e
<1>6. f \in Layout /\ f.rows = r /\ f.cur = 0 /\ f.row = d.row /\ f.col = d.col
  BY <1>5 DEF Layout
<1> HIDE DEF f
<1>7. /\ g \in Layout /\ g.rows = r /\ g.cur = 0 /\ g.row = d.row /\ g.col = d.col
      /\ g.widest = w
  BY <1>2, <1>6 DEF Layout
<1> HIDE DEF g
<1> QED BY <1>4, <1>7 DEF w, r

(* A row gets longer. *)
LEMMA WiderFacts ==
    ASSUME NEW d \in Layout
    PROVE  /\ Wider(d) \in Layout
           /\ Wider(d).rows = d.rows /\ Wider(d).cur = d.cur + 1
           /\ Wider(d).row = d.row /\ Wider(d).col = d.col /\ Wider(d).widest = d.widest
BY DEF Wider, Layout

(* The cursor is put down, in a row that has room for it. *)
LEMMA CursorFacts ==
    ASSUME NEW d \in Layout
    PROVE  LET c == [d EXCEPT !.row = d.rows, !.col = d.cur] IN
           /\ c \in Layout
           /\ c.rows = d.rows /\ c.cur = d.cur /\ c.row = d.rows /\ c.col = d.cur
           /\ c.widest = d.widest
           /\ d.cur # Width => Cursor(d) = c
<1> DEFINE c == [d EXCEPT !.row = d.rows, !.col = d.cur]
<1>1. c = [[d EXCEPT !.row = d.rows] EXCEPT !.col = d.cur]
  OBVIOUS
<1> DEFINE e == [d EXCEPT !.row = d.rows]
           f == [e EXCEPT !.col = d.cur]
<1>2. /\ e \in Layout /\ e.rows = d.rows
      /\ e.cur = d.cur /\ e.row = d.rows /\ e.widest = d.widest
  BY DEF Layout
<1>c. c = f
  BY <1>1
<1> HIDE DEF e
<1>3. /\ f \in Layout /\ f.rows = d.rows /\ f.cur = d.cur /\ f.row = d.rows
      /\ f.col = d.cur /\ f.widest = d.widest
  BY <1>2 DEF Layout
<1>5. d.cur # Width => Cursor(d) = c
  BY DEF Cursor
<1> HIDE DEF c, f
<1>6. /\ c \in Layout
      /\ c.rows = d.rows /\ c.cur = d.cur /\ c.row = d.rows /\ c.col = d.cur
      /\ c.widest = d.widest
  BY <1>3, <1>c
<1> QED BY <1>5, <1>6 DEF c

(* A character more. *)
LEMMA DrawnStep ==
    ASSUME TypeOK, NEW j \in Nat, NEW k \in 1..Len(state), k = j + 1,
           NEW d, Drawn(d, j)
    PROVE  Drawn(DrawChar(d, k), k)
<1>0. state \in Seq(Char) /\ pos \in Nat /\ Width \in Nat /\ Width > 0
  <2>1. state \in Seq(Char) /\ pos \in 0..Len(state)
    BY DEF TypeOK
  <2> QED BY <2>1, LineEditAssumption
<1>1. /\ Row(state, j) \in Nat /\ Row(state, k) \in Nat
      /\ Column(state, j) \in 0..(Width - 1)
      /\ Column(state, k) = IF state[k] = NL \/ Column(state, j) + 1 = Width THEN 0
                            ELSE Column(state, j) + 1
      /\ Row(state, k) = Row(state, j)
                         + IF state[k] = NL \/ Column(state, j) + 1 = Width THEN 1 ELSE 0
  BY <1>0, PlaceStep
<1>2. d \in Layout /\ d.rows \in Int /\ d.cur \in Int /\ d.widest \in Int
  BY DEF Drawn, Layout
<1>3. /\ d.rows = Row(state, j) /\ d.cur = Column(state, j) /\ d.widest <= Width
      /\ pos < j => d.row = Row(state, pos) /\ d.col = Column(state, pos)
  BY DEF Drawn
<1>4. pos = k - 1 <=> pos = j
  BY <1>0
<1>5. pos < k <=> pos < j \/ pos = j
  BY <1>0
<1>6. d.cur # Width /\ d.cur < Width
  <2>1. Column(state, j) \in 0..(Width - 1)
    BY <1>1
  <2> QED BY <1>0, <1>3, <2>1
<1> DEFINE put == [d EXCEPT !.row = d.rows, !.col = d.cur]
           c == IF pos = j THEN put ELSE d
<1>7. /\ c \in Layout /\ c.rows = d.rows /\ c.cur = d.cur /\ c.widest = d.widest
      /\ pos < k => c.row = Row(state, pos) /\ c.col = Column(state, pos)
  <2>1. /\ put \in Layout /\ put.rows = d.rows /\ put.cur = d.cur
        /\ put.row = d.rows /\ put.col = d.cur /\ put.widest = d.widest
    BY <1>2, CursorFacts
  <2> HIDE DEF put
  <2> QED BY <1>2, <1>3, <1>5, <2>1
<1>8. pos = j => Cursor(d) = c
  BY <1>2, <1>6, CursorFacts
<1>9. CASE state[k] = NL
  <2> DEFINE e == IF pos = j THEN Wider(c) ELSE c
  <2>1. DrawChar(d, k) = Push(e)
    BY <1>4, <1>8, <1>9 DEF DrawChar
  <2> HIDE DEF c
  <2>2. /\ e \in Layout /\ e.rows = d.rows /\ e.cur <= Width /\ e.cur \in Int
        /\ e.row = c.row /\ e.col = c.col /\ e.widest = d.widest
    <3>1. /\ Wider(c) \in Layout /\ Wider(c).rows = c.rows /\ Wider(c).cur = c.cur + 1
          /\ Wider(c).row = c.row /\ Wider(c).col = c.col /\ Wider(c).widest = c.widest
      BY <1>7, WiderFacts
    <3>2. d.cur + 1 <= Width /\ d.cur + 1 \in Int /\ d.cur <= Width
      BY <1>0, <1>2, <1>6
    <3> QED BY <1>2, <1>7, <3>1, <3>2
  <2> HIDE DEF e
  <2>3. /\ Push(e) \in Layout /\ Push(e).rows = d.rows + 1 /\ Push(e).cur = 0
        /\ Push(e).row = c.row /\ Push(e).col = c.col
        /\ Push(e).widest = IF e.cur > e.widest THEN e.cur ELSE e.widest
    BY <2>2, PushFacts
  <2>4. Push(e).widest <= Width
    BY <1>3, <2>2, <2>3
  <2>5. Push(e).rows = Row(state, k) /\ Push(e).cur = Column(state, k)
    BY <1>1, <1>3, <1>9, <2>3
  <2> QED BY <1>7, <2>1, <2>3, <2>4, <2>5 DEF Drawn
<1>10. CASE state[k] # NL
  <2> DEFINE e == Wider(c)
  <2>1. DrawChar(d, k) = IF e.cur = Width THEN Push(e) ELSE e
    BY <1>4, <1>10 DEF DrawChar
  <2> HIDE DEF c
  <2>2. /\ e \in Layout /\ e.rows = d.rows /\ e.cur = d.cur + 1
        /\ e.row = c.row /\ e.col = c.col /\ e.widest = d.widest
    BY <1>7, WiderFacts
  <2> HIDE DEF e
  <2>3. CASE d.cur + 1 = Width
    <3>1. DrawChar(d, k) = Push(e)
      BY <2>1, <2>2, <2>3
    <3>2. /\ Push(e) \in Layout /\ Push(e).rows = d.rows + 1 /\ Push(e).cur = 0
          /\ Push(e).row = c.row /\ Push(e).col = c.col
          /\ Push(e).widest = IF e.cur > e.widest THEN e.cur ELSE e.widest
      BY <2>2, PushFacts
    <3>3. Push(e).widest <= Width
      BY <1>0, <1>3, <2>2, <2>3, <3>2
    <3>4. Push(e).rows = Row(state, k) /\ Push(e).cur = Column(state, k)
      BY <1>1, <1>3, <1>10, <2>3, <3>2
    <3> QED BY <1>7, <3>1, <3>2, <3>3, <3>4 DEF Drawn
  <2>4. CASE d.cur + 1 # Width
    <3>1. DrawChar(d, k) = e
      BY <2>1, <2>2, <2>4
    <3>2. e.rows = Row(state, k) /\ e.cur = Column(state, k)
      BY <1>1, <1>3, <1>10, <2>2, <2>4
    <3>3. e.widest <= Width
      BY <1>3, <2>2
    <3> QED BY <1>7, <2>2, <3>1, <3>2, <3>3 DEF Drawn
  <2> QED BY <2>3, <2>4
<1> QED BY <1>9, <1>10

(* The function that the loop computes, up to n characters. *)
DrawnTo(f, n) ==
    f = [k \in 0..n |-> IF k = 0 THEN DrawStart ELSE DrawChar(f[k - 1], k)]

(* There is one. *)
LEMMA DrawExists == ASSUME NEW n \in Nat PROVE \E f : DrawnTo(f, n)
<1> DEFINE S == {m \in Nat : ~ \E f : DrawnTo(f, m)}
<1>1. SUFFICES ASSUME n \in S PROVE FALSE
  OBVIOUS
<1>2. PICK m \in S : \A k \in S : m <= k
  <2>1. S \in SUBSET Nat /\ S # {}
    BY <1>1
  <2> HIDE DEF S
  <2> QED BY <2>1, LeastNumber
<1>3. m \in Nat /\ ~ \E f : DrawnTo(f, m)
  BY <1>2
<1>4. CASE m = 0
  <2>1. DrawnTo([k \in 0..0 |-> DrawStart], 0)
    BY DEF DrawnTo
  <2> QED BY <1>3, <1>4, <2>1
<1>5. CASE m # 0
  <2>1. PICK j \in Nat : m = j + 1
    <3>1. m - 1 \in Nat /\ m = (m - 1) + 1
      BY <1>3, <1>5
    <3> QED BY <3>1
  <2>2. PICK g : DrawnTo(g, j)
    <3>1. j \notin S
      BY <1>2, <1>3, <2>1
    <3> QED BY <3>1
  <2> DEFINE f == [k \in 0..m |-> IF k = m THEN DrawChar(g[j], m) ELSE g[k]]
  <2>3. \A k \in 0..j : g[k] = IF k = 0 THEN DrawStart ELSE DrawChar(g[k - 1], k)
    BY <2>2, Zenon DEF DrawnTo
  <2>4. ASSUME NEW k \in 0..m
        PROVE  f[k] = IF k = 0 THEN DrawStart ELSE DrawChar(f[k - 1], k)
    <3>1. CASE k = m
      <4>1. k - 1 = j /\ j \in 0..m /\ j # m
        BY <2>1, <3>1
      <4>2. f[k - 1] = g[j]
        BY <4>1
      <4>3. f[k] = DrawChar(g[j], m)
        BY <3>1
      <4> QED BY <1>5, <3>1, <4>2, <4>3
    <3>2. CASE k # m
      <4>1. f[k] = g[k] /\ k \in 0..j
        BY <2>1, <3>2
      <4>2. k # 0 => k - 1 \in 0..m /\ k - 1 # m
        BY <2>1
      <4>3. k # 0 => f[k - 1] = g[k - 1]
        BY <4>2
      <4> HIDE DEF f
      <4> QED BY <2>3, <4>1, <4>3
    <3> QED BY <3>1, <3>2
  <2>5. DrawnTo(f, m)
    <3>1. f = [k \in 0..m |-> f[k]]
      OBVIOUS
    <3> HIDE DEF f
    <3> QED BY <2>4, <3>1, Zenon DEF DrawnTo
  <2> QED BY <1>3, <2>5
<1> QED BY <1>4, <1>5

(* The loop draws what the rows by their ends say, wherever the cursor is. *)
LEMMA LayoutStep == TypeOK => LayoutAgrees
<1> SUFFICES ASSUME TypeOK PROVE LayoutAgrees
  OBVIOUS
<1>0. /\ state \in Seq(Char) /\ pos \in Nat /\ Len(state) \in Nat /\ pos <= Len(state)
      /\ Width \in Nat /\ Width > 0
  <2>1. state \in Seq(Char) /\ pos \in 0..Len(state)
    BY DEF TypeOK
  <2>2. Len(state) \in Nat
    BY <2>1, LenProperties
  <2> QED BY <2>1, <2>2, LineEditAssumption
<1> DEFINE D == CHOOSE f : DrawnTo(f, Len(state))
           last == D[Len(state)]
<1>1. DrawnTo(D, Len(state))
  BY <1>0, DrawExists
<1>2. DrawLoop = Push(IF pos = Len(state) THEN Wider(Cursor(last)) ELSE last)
  BY DEF DrawLoop, DrawnTo
<1> HIDE DEF D
<1>3. \A k \in 0..Len(state) : D[k] = IF k = 0 THEN DrawStart ELSE DrawChar(D[k - 1], k)
  BY <1>1, Zenon DEF DrawnTo
<1>4. Row(state, 0) = 0 /\ Column(state, 0) = 0
  <2>1. RowEnds(state, 0) = {}
    BY DEF RowEnds
  <2>2. Newlines(state, 0, 0) = {}
    BY DEF Newlines
  <2>3. 0 % Width = 0
    BY <1>0, RestStep
  <2>4. LineStart(state, 0) = 0
    BY <2>2, Zenon DEF LineStart
  <2> QED BY <2>1, <2>3, <2>4, FS_EmptySet DEF Row, Column
<1>5. Drawn(last, Len(state))
  <2> DEFINE S == {k \in Nat : k <= Len(state) /\ ~ Drawn(D[k], k)}
  <2>1. SUFFICES ASSUME Len(state) \in S PROVE FALSE
    BY <1>0
  <2>2. PICK k \in S : \A i \in S : k <= i
    <3>1. S \in SUBSET Nat /\ S # {}
      BY <2>1
    <3> HIDE DEF S
    <3> QED BY <3>1, LeastNumber
  <2>3. k \in Nat /\ k <= Len(state) /\ ~ Drawn(D[k], k)
    BY <2>2
  <2>4. CASE k = 0
    <3>1. D[0] = DrawStart
      BY <1>0, <1>3
    <3>2. Drawn(DrawStart, 0)
      BY <1>0, <1>4 DEF Drawn, DrawStart, Layout
    <3> QED BY <2>3, <2>4, <3>1, <3>2
  <2>5. CASE k # 0
    <3>1. PICK j \in Nat : k = j + 1 /\ k - 1 = j
      <4>1. k - 1 \in Nat /\ k = (k - 1) + 1
        BY <2>3, <2>5
      <4> QED BY <4>1
    <3>2. Drawn(D[j], j)
      <4>1. j \notin S /\ j <= Len(state)
        BY <1>0, <2>2, <2>3, <3>1
      <4> QED BY <4>1
    <3>3. k \in 1..Len(state) /\ k \in 0..Len(state)
      BY <1>0, <2>3, <2>5
    <3>4. D[k] = DrawChar(D[j], k)
      BY <1>3, <2>5, <3>1, <3>3
    <3> QED BY <2>3, <3>1, <3>2, <3>3, <3>4, DrawnStep
  <2> QED BY <2>4, <2>5
<1> HIDE DEF last
<1>6. last \in Layout /\ last.rows \in Int /\ last.cur \in Int /\ last.widest \in Int
  BY <1>5 DEF Drawn, Layout
<1>7. /\ last.rows = Row(state, Len(state)) /\ last.cur = Column(state, Len(state))
      /\ last.widest <= Width
      /\ pos < Len(state) => last.row = Row(state, pos) /\ last.col = Column(state, pos)
  BY <1>5 DEF Drawn
<1>8. last.cur < Width /\ last.cur >= 0 /\ last.cur # Width
  <2>1. PICK x \in Nat : x = Len(state) - LineStart(state, Len(state))
    BY <1>0, LineFacts
  <2>2. x % Width \in 0..(Width - 1)
    BY <1>0, RestStep
  <2>3. last.cur = x % Width
    BY <1>7, <2>1 DEF Column
  <2> QED BY <1>0, <2>2, <2>3
<1>9. Rows(state) = last.rows + 1
  BY <1>7 DEF Rows
<1> DEFINE put == [last EXCEPT !.row = last.rows, !.col = last.cur]
           e == IF pos = Len(state) THEN Wider(put) ELSE last
<1>10. DrawLoop = Push(e)
  BY <1>2, <1>6, <1>8, CursorFacts
<1>11. /\ put \in Layout /\ put.rows = last.rows /\ put.cur = last.cur
       /\ put.row = last.rows /\ put.col = last.cur /\ put.widest = last.widest
  BY <1>6, CursorFacts
<1> HIDE DEF put
<1>12. /\ Wider(put) \in Layout /\ Wider(put).rows = last.rows
       /\ Wider(put).cur = last.cur + 1 /\ Wider(put).row = last.rows
       /\ Wider(put).col = last.cur /\ Wider(put).widest = last.widest
  BY <1>11, WiderFacts
<1>13. /\ e \in Layout /\ e.rows = last.rows /\ e.widest = last.widest
       /\ e.cur \in Int /\ e.cur <= Width
       /\ e.row = Row(state, pos) /\ e.col = Column(state, pos)
  <2>1. last.cur + 1 \in Int /\ last.cur + 1 <= Width /\ last.cur <= Width
    BY <1>0, <1>6, <1>8
  <2> QED BY <1>0, <1>6, <1>7, <1>12, <2>1
<1> HIDE DEF e
<1>14. /\ Push(e).rows = last.rows + 1 /\ Push(e).row = e.row /\ Push(e).col = e.col
       /\ Push(e).widest = IF e.cur > e.widest THEN e.cur ELSE e.widest
  BY <1>13, PushFacts
<1>15. Push(e).widest <= Width
  BY <1>7, <1>13, <1>14
<1> QED BY <1>9, <1>10, <1>13, <1>14, <1>15 DEF LayoutAgrees

(* draw puts the cursor and the rows where the text has them, and no row   *)
(* is wider than the block (td-line-edit.cpp: draw), for every text.       *)
THEOREM LayoutCorrect == Spec => []LayoutAgrees
BY LayoutStep, TypeCorrect, PTL
===============================================================================
