---------------------------- MODULE UndoLogProofs ----------------------------
(***************************************************************************)
(* The stacks of the undo log follow the documents, for any documents,     *)
(* windows, edits and limit.                                               *)
(*                                                                         *)
(* The invariant speaks of the edits whose replay nothing disturbed: where *)
(* one that nobody replays is (AtEase), and one that is being undone or    *)
(* redone (Undoing, Redoing), by a window that is alone on the document.   *)
(***************************************************************************)
EXTENDS UndoLog, SequenceTheorems, FiniteSetTheorems, WellFoundedInduction, TLAPS

Job == [kind : {"undo", "redo"}, step : {"perform", "commit", "rollback"}, edit : Edits, doc : Docs]

\* Types, and that an edit is only in documents it changed.
Types ==
    /\ undoStack \in [Docs -> Seq(Edits)] /\ redoStack \in [Docs -> Seq(Edits)]
    /\ hasUndo \in [Docs -> BOOLEAN] /\ known \subseteq Docs
    /\ roots \in [Edits -> SUBSET Docs] /\ job \in [Windows -> Job \cup {Free}]
Placed ==
    /\ \A d \in Docs : /\ \A e \in Range(undoStack[d]) \cup Range(redoStack[d]) : d \in roots[e]
                       /\ d \notin known => undoStack[d] = <<>> /\ redoStack[d] = <<>>
    /\ \A e \in Edits, d \in Docs : <<e, d>> \in applied => d \in roots[e]
    /\ \A w \in Windows : job[w] # Free => job[w].doc \in roots[job[w].edit]

\* An edit is on a stack once at most.
OnceIn(s, e) == \A i, j \in DOMAIN s : s[i] = e /\ s[j] = e => i = j
AtTop(s, e) == e \in Range(s) => e = Last(s)
Everywhere(e) == \A d \in roots[e] : <<e, d>> \in applied
Nowhere(e) == \A d \in roots[e] : <<e, d>> \notin applied
Single(e) ==
    /\ \A d \in Docs : OnceIn(undoStack[d], e) /\ OnceIn(redoStack[d], e)
    /\ \A c, d \in Docs : c # d => e \notin Range(redoStack[c]) \/ e \notin Range(redoStack[d])

\* An edit that no replay is at.
AtEase(e) ==
    /\ Everywhere(e) \/ Nowhere(e)
    /\ \A d \in Docs : /\ e \in Range(undoStack[d]) => <<e, d>> \in applied
                       /\ e \in Range(redoStack[d]) => <<e, d>> \notin applied
    /\ e \notin forgotten =>
          \A d \in roots[e] : <<e, d>> \in applied => e \in Range(undoStack[d])

\* An edit that is being undone, or redone, on document d; done says whether it was.
Undoing(e, d, done) ==
    /\ e \notin Range(undoStack[d]) /\ AtTop(redoStack[d], e)
    /\ \A c \in Docs \ {d} : e \notin Range(redoStack[c])
    /\ e \notin forgotten => e \in Range(redoStack[d])
    /\ IF done THEN Nowhere(e)
       ELSE /\ Everywhere(e)
            /\ e \notin forgotten => \A c \in roots[e] \ {d} : e \in Range(undoStack[c])
Redoing(e, d, done) ==
    /\ AtTop(undoStack[d], e) /\ \A c \in Docs : e \notin Range(redoStack[c])
    /\ \A c \in Docs \ {d} : e \notin Range(undoStack[c])
    /\ e \notin forgotten => e \in Range(undoStack[d])
    /\ IF done THEN Everywhere(e) ELSE Nowhere(e)

\* It is the only replay on its document, and of its edit.
Alone(w) == \A v \in Windows : job[v] # Free /\ v # w =>
                job[v].edit # job[w].edit /\ job[v].doc # job[w].doc
Underway(w) ==
    LET e == job[w].edit  d == job[w].doc  done == job[w].step = "commit"
    IN /\ Alone(w)
       /\ job[w].kind = "undo" => Undoing(e, d, done)
       /\ job[w].kind = "redo" => Redoing(e, d, done)

Undisturbed ==
    /\ \A e \in Edits \ disturbed : Single(e) /\ (e \notin InFlight => AtEase(e))
    /\ \A w \in Windows : job[w] # Free /\ job[w].edit \notin disturbed => Underway(w)

LogInv == Types /\ Placed /\ Undisturbed /\ TwiceOnlyWhenDisturbed
-----------------------------------------------------------------------------
(* Stacks.                                                                 *)

\* A set of numbers has a least one.
LEMMA Least ==
    ASSUME NEW S \in SUBSET Nat, S # {}
    PROVE  \E x \in S : \A y \in S : x <= y
<1> DEFINE R == OpToRel(<, Nat)
<1>1. IsWellFoundedOn(R, Nat)
  BY NatLessThanWellFounded
<1> HIDE DEF R
<1>2. PICK x \in S : \A y \in S : <<y, x>> \notin R
  BY <1>1, WFMin
<1>3. \A y \in S : ~(y < x)
  BY <1>2 DEF R, OpToRel
<1>4. QED
  BY <1>3

\* Min picks the least number.
LEMMA MinFacts ==
    ASSUME NEW S \in SUBSET Nat, S # {}
    PROVE  Min(S) \in S /\ \A y \in S : Min(S) <= y
BY Least DEF Min

\* What t is when the edits of T are taken out of s.
Removed(s, T, t) ==
    /\ t \in Seq(Edits) /\ Range(t) \subseteq Range(s) /\ Range(s) \ T \subseteq Range(t)
    /\ \A e \in Edits : /\ OnceIn(s, e) => OnceIn(t, e) /\ (e \in T => e \notin Range(t))
                        /\ e \notin T /\ AtTop(s, e) => AtTop(t, e)

\* RemoveFirst takes out an edit that is on the stack once, and leaves the others.
LEMMA RemovedOne ==
    ASSUME NEW s \in Seq(Edits), NEW x \in Edits
    PROVE  Removed(s, {x}, RemoveFirst(s, x))
<1> DEFINE t == RemoveFirst(s, x)
<1>1. DOMAIN s = 1..Len(s) /\ Len(s) \in Nat
  OBVIOUS
<1>2. CASE \E i \in 1..Len(s) : s[i] = x
  <2> DEFINE I == {i \in 1..Len(s) : s[i] = x}
  <2>1. I \in SUBSET Nat /\ I # {}
    BY <1>2
  <2>2. PICK k \in I : k = Min(I)
    BY <2>1, MinFacts
  <2>3. t = RemoveAt(s, k)
    BY <1>2, <2>1, <2>2 DEF RemoveFirst, SelectInSeq
  <2>4. k \in 1..Len(s) /\ s[k] = x
    OBVIOUS
  <2>5. /\ t \in Seq(Edits) /\ Len(t) = Len(s) - 1
        /\ \A i \in 1..Len(t) : t[i] = IF i < k THEN s[i] ELSE s[i + 1]
    <3> HIDE DEF t, I
    <3> DEFINE a == SubSeq(s, 1, k - 1)
               b == SubSeq(s, k + 1, Len(s))
    <3>1. a \in Seq(Edits) /\ Len(a) = k - 1 /\ \A i \in 1..(k - 1) : a[i] = s[i]
      <4>1. k - 1 \in 0..Len(s) /\ \A i \in 1..(k - 1) : s[i] \in Edits
        BY <1>1, <2>4
      <4>2. QED
        BY <4>1, SubSeqProperties
    <3>2. /\ b \in Seq(Edits) /\ Len(b) = Len(s) - k
          /\ \A i \in 1..(Len(s) - k) : b[i] = s[k + i]
      <4>1. \A i \in (k + 1)..Len(s) : s[i] \in Edits
        BY <1>1, <2>4
      <4>2. k + 1 \in Int /\ Len(s) \in Int
        BY <1>1, <2>4
      <4>3. /\ b \in Seq(Edits) /\ Len(b) = IF k + 1 <= Len(s) THEN Len(s) - (k + 1) + 1 ELSE 0
            /\ \A i \in 1..(Len(s) - (k + 1) + 1) : b[i] = s[(k + 1) + i - 1]
        BY <4>1, <4>2, SubSeqProperties
      <4> HIDE DEF b
      <4>4. Len(b) = Len(s) - k
        <5>1. (IF k + 1 <= Len(s) THEN Len(s) - (k + 1) + 1 ELSE 0) = Len(s) - k
          <6> k \in Nat /\ k <= Len(s) /\ Len(s) \in Nat
            BY <1>1, <2>4
          <6> QED
            OBVIOUS
        <5>2. QED
          BY <4>3, <5>1
      <4>5. ASSUME NEW i \in 1..(Len(s) - k) PROVE b[i] = s[k + i]
        <5>1. i \in 1..(Len(s) - (k + 1) + 1) /\ (k + 1) + i - 1 = k + i
          BY <1>1, <2>4
        <5>2. QED
          BY <4>3, <5>1
      <4>6. QED
        BY <4>3, <4>4, <4>5
    <3>3. t = a \o b
      BY <2>3 DEF RemoveAt
    <3> HIDE DEF a, b
    <3>4. /\ t \in Seq(Edits) /\ Len(t) = Len(a) + Len(b)
          /\ \A i \in 1..Len(t) : t[i] = IF i <= Len(a) THEN a[i] ELSE b[i - Len(a)]
      <4>1. /\ t \in Seq(Edits) /\ Len(t) = Len(a) + Len(b)
            /\ \A i \in 1..(Len(a) + Len(b)) : t[i] = IF i <= Len(a) THEN a[i] ELSE b[i - Len(a)]
        BY <3>1, <3>2, <3>3, ConcatProperties
      <4>2. QED
        BY <4>1
    <3>5. Len(t) = Len(s) - 1
      BY <1>1, <2>4, <3>1, <3>2, <3>4
    <3>6. ASSUME NEW i \in 1..Len(t) PROVE t[i] = IF i < k THEN s[i] ELSE s[i + 1]
      <4>1. CASE i < k
        BY <1>1, <2>4, <3>1, <3>4, <3>5, <4>1
      <4>2. CASE ~(i < k)
        <5>1. i - (k - 1) \in 1..(Len(s) - k) /\ k + (i - (k - 1)) = i + 1
          BY <1>1, <2>4, <3>5, <4>2
        <5>2. t[i] = b[i - (k - 1)]
          BY <1>1, <2>4, <3>1, <3>4, <3>5, <4>2
        <5>3. QED
          BY <3>2, <4>2, <5>1, <5>2
      <4>3. QED
        BY <4>1, <4>2
    <3>7. QED
      BY <3>4, <3>5, <3>6
  <2> HIDE DEF t, I
  <2>6. DOMAIN t = 1..(Len(s) - 1)
    BY <2>5
  <2>7. \A i \in 1..(Len(s) - 1) : t[i] = s[IF i < k THEN i ELSE i + 1]
    BY <1>1, <2>4, <2>5
  <2>8. Range(t) \subseteq Range(s)
    BY <1>1, <2>4, <2>6, <2>7 DEF Range
  <2>9. Range(s) \ {x} \subseteq Range(t)
    <3> SUFFICES ASSUME NEW i \in 1..Len(s), s[i] # x PROVE s[i] \in Range(t)
      BY <1>1 DEF Range
    <3>1. i # k
      BY <2>4
    <3>2. \E j \in 1..(Len(s) - 1) : (IF j < k THEN j ELSE j + 1) = i
      <4>1. CASE i < k
        <5>1. i \in 1..(Len(s) - 1)
          BY <1>1, <2>4, <4>1
        <5>2. QED
          BY <4>1, <5>1
      <4>2. CASE i > k
        <5>1. i - 1 \in 1..(Len(s) - 1) /\ ~(i - 1 < k) /\ (i - 1) + 1 = i
          BY <1>1, <2>4, <4>2
        <5>2. QED
          BY <5>1
      <4>3. QED
        BY <1>1, <2>4, <3>1, <4>1, <4>2
    <3>3. QED
      BY <2>6, <2>7, <3>2 DEF Range
  <2>10. ASSUME NEW e \in Edits, OnceIn(s, e)
         PROVE  OnceIn(t, e) /\ (e = x => e \notin Range(t))
    <3>1. OnceIn(t, e)
      <4> SUFFICES ASSUME NEW i \in 1..(Len(s) - 1), NEW j \in 1..(Len(s) - 1), t[i] = e, t[j] = e
                   PROVE  i = j
        BY <2>6 DEF OnceIn
      <4> DEFINE p == IF i < k THEN i ELSE i + 1
                 q == IF j < k THEN j ELSE j + 1
      <4>1. p \in 1..Len(s) /\ q \in 1..Len(s)
        BY <1>1, <2>4
      <4>2. s[p] = e /\ s[q] = e
        BY <2>7
      <4>3. p = q
        BY <1>1, <2>10, <4>1, <4>2 DEF OnceIn
      <4>4. QED
        BY <1>1, <2>4, <4>3
    <3>2. ASSUME NEW j \in 1..(Len(s) - 1), t[j] = x, e = x PROVE FALSE
      <4>1. (IF j < k THEN j ELSE j + 1) \in 1..Len(s) /\ (IF j < k THEN j ELSE j + 1) # k
        BY <1>1, <2>4
      <4>2. QED
        BY <1>1, <2>4, <2>7, <2>10, <3>2, <4>1 DEF OnceIn
    <3>3. QED
      BY <2>6, <3>1, <3>2 DEF Range
  <2>11. ASSUME NEW e \in Edits, e # x, AtTop(s, e), e \in Range(t) PROVE e = Last(t)
    <3>1. e = s[Len(s)]
      BY <2>8, <2>11 DEF AtTop, Last
    <3>2. k < Len(s)
      BY <1>1, <2>4, <2>11, <3>1
    <3>3. t[Len(s) - 1] = s[Len(s)] /\ Len(t) = Len(s) - 1
      BY <1>1, <2>4, <2>5, <2>7, <3>2
    <3>4. QED
      BY <3>1, <3>3 DEF Last
  <2>12. QED
    BY <2>5, <2>8, <2>9, <2>10, <2>11 DEF Removed, AtTop, t
<1>3. CASE ~\E i \in 1..Len(s) : s[i] = x
  <2>1. t = s /\ x \notin Range(s)
    BY <1>1, <1>3 DEF RemoveFirst, Range
  <2>2. QED
    BY <2>1 DEF Removed
<1>4. QED
  BY <1>2, <1>3

\* The fold of Without, as a function on the sets of edits to be taken out.
Folding(s, edits, n, f) ==
    \A T \in SUBSET edits : Cardinality(T) <= n =>
        f[T] = IF T = {} THEN s
               ELSE LET x == CHOOSE x \in T : TRUE IN RemoveFirst(f[T \ {x}], x)

\* The fold over the empty set is the stack itself.
LEMMA FoldStart ==
    ASSUME NEW s, NEW edits, IsFiniteSet(edits)
    PROVE  \E f : Folding(s, edits, 0, f)
<1> DEFINE f == [T \in SUBSET edits |-> s]
<1>1. \A T \in SUBSET edits : Cardinality(T) <= 0 => T = {}
  <2> SUFFICES ASSUME NEW T \in SUBSET edits, Cardinality(T) <= 0 PROVE T = {}
    OBVIOUS
  <2>1. IsFiniteSet(T)
    BY FS_Subset
  <2>2. Cardinality(T) = 0
    BY <2>1, FS_CardinalityType
  <2>3. QED
    BY <2>1, <2>2, FS_EmptySet
<1>2. Folding(s, edits, 0, f)
  BY <1>1 DEF Folding
<1>3. QED
  BY <1>2

\* Fewer by one.
LEMMA OneLess ==
    ASSUME NEW edits, IsFiniteSet(edits), NEW T \in SUBSET edits, T # {}, NEW x \in T
    PROVE  /\ T \ {x} \in SUBSET edits /\ Cardinality(T) \in Nat
           /\ Cardinality(T \ {x}) \in Nat /\ Cardinality(T \ {x}) = Cardinality(T) - 1
<1>1. IsFiniteSet(T)
  BY FS_Subset
<1>2. Cardinality(T) \in Nat /\ IsFiniteSet(T \ {x}) /\ Cardinality(T \ {x}) = Cardinality(T) - 1
  BY <1>1, FS_CardinalityType, FS_RemoveElement
<1>3. Cardinality(T \ {x}) \in Nat
  BY <1>2, FS_CardinalityType
<1>4. QED
  BY <1>2, <1>3

\* What is folded over sets of n edits can be folded over those of n + 1.
LEMMA FoldMore ==
    ASSUME NEW s, NEW edits, IsFiniteSet(edits), NEW n \in Nat, NEW f, Folding(s, edits, n, f)
    PROVE  \E g : Folding(s, edits, n + 1, g)
<1> DEFINE g == [T \in SUBSET edits |-> IF T = {} THEN s
                    ELSE LET x == CHOOSE x \in T : TRUE IN RemoveFirst(f[T \ {x}], x)]
<1>1. \A T \in SUBSET edits : Cardinality(T) <= n => g[T] = f[T]
  BY DEF Folding
<1>2. ASSUME NEW T \in SUBSET edits, Cardinality(T) <= n + 1, T # {}, NEW x, x = CHOOSE y \in T : TRUE
      PROVE  g[T] = RemoveFirst(g[T \ {x}], x)
  <2>1. x \in T
    BY <1>2
  <2>2. T \ {x} \in SUBSET edits /\ Cardinality(T \ {x}) <= n
    <3>1. /\ T \ {x} \in SUBSET edits /\ Cardinality(T) \in Nat
          /\ Cardinality(T \ {x}) = Cardinality(T) - 1
      BY <1>2, <2>1, OneLess
    <3>2. Cardinality(T) <= n + 1
      BY <1>2
    <3>3. QED
      BY <3>1, <3>2
  <2>3. g[T \ {x}] = f[T \ {x}]
    BY <1>1, <2>2
  <2>4. g[T] = RemoveFirst(f[T \ {x}], x)
    BY <1>2
  <2>5. QED
    BY <2>3, <2>4
<1>3. g[{}] = s
  OBVIOUS
<1> HIDE DEF g
<1>4. Folding(s, edits, n + 1, g)
  BY <1>2, <1>3 DEF Folding
<1>5. QED
  BY <1>4

\* Everything true of 0 and, with a number, of the next one.
LEMMA FoldExists ==
    ASSUME NEW s, NEW edits, IsFiniteSet(edits)
    PROVE  \A n \in Nat : \E f : Folding(s, edits, n, f)
<1> DEFINE Missing == {n \in Nat : ~\E f : Folding(s, edits, n, f)}
<1>1. CASE Missing = {}
  BY <1>1
<1>2. CASE Missing # {}
  <2>1. PICK n \in Missing : \A m \in Missing : n <= m
    BY <1>2, Least
  <2>2. n # 0
    BY FoldStart
  <2>3. n - 1 \in Nat /\ n - 1 \notin Missing /\ (n - 1) + 1 = n
    BY <2>1, <2>2
  <2>4. \E f : Folding(s, edits, n - 1, f)
    BY <2>3
  <2>5. \E f : Folding(s, edits, (n - 1) + 1, f)
    BY <2>3, <2>4, FoldMore
  <2>6. QED
    BY <2>3, <2>5
<1>3. QED
  BY <1>1, <1>2

\* Without is a function on the sets of edits, one edit after another.
LEMMA Fold ==
    ASSUME NEW s, NEW edits, IsFiniteSet(edits)
    PROVE  \E f : /\ \A n \in Nat : Folding(s, edits, n, f)
                  /\ Without(s, edits) = f[edits]
<1> DEFINE Def(f) == f = [T \in SUBSET edits |-> IF T = {} THEN s
                    ELSE LET x == CHOOSE x \in T : TRUE IN RemoveFirst(f[T \ {x}], x)]
<1>1. Without(s, edits) = (CHOOSE f : Def(f))[edits]
  BY DEF Without, FoldSet, MapThenFoldSet
<1>2. PICK f : Folding(s, edits, Cardinality(edits), f)
  BY FS_CardinalityType, FoldExists
<1> DEFINE g == [T \in SUBSET edits |-> f[T]]
<1>3. \A T \in SUBSET edits : Cardinality(T) <= Cardinality(edits)
  BY FS_Subset
<1>4. Def(g)
  <2>1. ASSUME NEW T \in SUBSET edits, NEW x \in T PROVE g[T \ {x}] = f[T \ {x}]
    OBVIOUS
  <2>2. ASSUME NEW T \in SUBSET edits
        PROVE  g[T] = IF T = {} THEN s
                      ELSE LET x == CHOOSE x \in T : TRUE IN RemoveFirst(g[T \ {x}], x)
    <3>1. CASE T = {}
      BY <1>2, <1>3, <3>1 DEF Folding
    <3>2. CASE T # {}
      <4>1. PICK x : x = CHOOSE y \in T : TRUE
        OBVIOUS
      <4>2. x \in T
        BY <3>2, <4>1
      <4>3. g[T] = RemoveFirst(f[T \ {x}], x)
        BY <1>2, <1>3, <3>2, <4>1 DEF Folding
      <4>4. g[T] = RemoveFirst(g[T \ {x}], x)
        BY <2>1, <4>2, <4>3
      <4> HIDE DEF g
      <4>5. QED
        BY <3>2, <4>1, <4>4
    <3>3. QED
      BY <3>1, <3>2
  <2>3. QED
    BY <2>2
<1> HIDE DEF g
<1>5. Def(CHOOSE h : Def(h))
  BY <1>4
<1>6. PICK h : Def(h) /\ Without(s, edits) = h[edits]
  BY <1>1, <1>5
<1>7. \A n \in Nat : Folding(s, edits, n, h)
  BY <1>6 DEF Folding
<1>8. QED
  BY <1>6, <1>7

\* Taking out one edit more.
LEMMA RemovedMore ==
    ASSUME NEW s \in Seq(Edits), NEW T \in SUBSET Edits, NEW x \in T, NEW t,
           Removed(s, T \ {x}, t)
    PROVE  Removed(s, T, RemoveFirst(t, x))
<1> PICK u : u = RemoveFirst(t, x)
  OBVIOUS
<1>1. Removed(t, {x}, u)
  BY RemovedOne DEF Removed
<1>2. u \in Seq(Edits) /\ Range(u) \subseteq Range(s) /\ Range(s) \ T \subseteq Range(u)
  BY <1>1 DEF Removed
<1>3. ASSUME NEW e \in Edits, OnceIn(s, e)
      PROVE  OnceIn(u, e) /\ (e \in T => e \notin Range(u))
  BY <1>1, <1>3 DEF Removed
<1>4. ASSUME NEW e \in Edits, e \notin T, AtTop(s, e) PROVE AtTop(u, e)
  BY <1>1, <1>4 DEF Removed
<1>5. QED
  BY <1>2, <1>3, <1>4 DEF Removed

\* Without takes out the edits it is given, and leaves the others as they are.
LEMMA WithoutFacts ==
    ASSUME NEW s \in Seq(Edits), NEW edits \in SUBSET Edits
    PROVE  Removed(s, edits, Without(s, edits))
<1>1. IsFiniteSet(edits)
  <2>1. IsFiniteSet(Edits)
    BY BoundsAssumption, FS_Interval DEF Edits
  <2>2. QED
    BY <2>1, FS_Subset
<1>2. PICK f : (\A n \in Nat : Folding(s, edits, n, f)) /\ Without(s, edits) = f[edits]
  BY <1>1, Fold
<1> DEFINE Wrong == {n \in Nat : \E T \in SUBSET edits : Cardinality(T) = n /\ ~Removed(s, T, f[T])}
<1>3. Wrong = {}
  <2> SUFFICES ASSUME Wrong # {} PROVE FALSE
    OBVIOUS
  <2>1. PICK n \in Wrong : \A m \in Wrong : n <= m
    BY Least
  <2>2. PICK T \in SUBSET edits : Cardinality(T) = n /\ ~Removed(s, T, f[T])
    OBVIOUS
  <2>3. CASE T = {}
    <3>1. f[T] = s
      <4>1. Folding(s, edits, n, f) /\ n \in Nat
        BY <1>2
      <4>2. Cardinality(T) <= n
        BY <2>2, <4>1
      <4>3. f[T] = IF T = {} THEN s
                   ELSE LET x == CHOOSE x \in T : TRUE IN RemoveFirst(f[T \ {x}], x)
        BY <4>1, <4>2 DEF Folding
      <4>4. QED
        BY <2>3, <4>3
    <3>2. Removed(s, {}, s)
      BY DEF Removed
    <3>3. QED
      BY <2>2, <2>3, <3>1, <3>2
  <2>4. CASE T # {}
    <3>1. PICK x : x = CHOOSE y \in T : TRUE
      OBVIOUS
    <3>2. x \in T
      BY <2>4, <3>1
    <3>3. f[T] = RemoveFirst(f[T \ {x}], x)
      BY <1>2, <2>2, <2>4, <3>1 DEF Folding
    <3>4. T \ {x} \in SUBSET edits /\ Cardinality(T \ {x}) \in Nat /\ Cardinality(T \ {x}) < n
      BY <1>1, <2>2, <3>2, OneLess
    <3>5. Cardinality(T \ {x}) \notin Wrong
      BY <2>1, <3>4
    <3>6. Removed(s, T \ {x}, f[T \ {x}])
      BY <3>4, <3>5
    <3>7. QED
      BY <2>2, <3>2, <3>3, <3>6, RemovedMore
  <2>5. QED
    BY <2>3, <2>4
<1>4. Cardinality(edits) \in Nat
  BY <1>1, FS_CardinalityType
<1>5. QED
  BY <1>2, <1>3, <1>4
-----------------------------------------------------------------------------
\* How a step may change a stack, as to an edit it is not about: it may go when
\* it is forgotten (Keeps) or for no reason (Loses), and stays at the top (Tops).
Loses(s, t, e) == /\ t \in Seq(Edits) /\ (e \in Range(t) => e \in Range(s))
                  /\ OnceIn(s, e) => OnceIn(t, e)
Keeps(s, t, e, gone) == Loses(s, t, e) /\ (e \in Range(s) => e \in Range(t) \cup gone)
Tops(s, t, e) == AtTop(s, e) => AtTop(t, e)

\* Without keeps the place of the edits that stay.
LEMMA WithoutKeeps ==
    ASSUME NEW s \in Seq(Edits), NEW T \in SUBSET Edits, NEW e \in Edits, OnceIn(s, e)
    PROVE  /\ Keeps(s, Without(s, T), e, T) /\ Tops(s, Without(s, T), e)
           /\ Range(Without(s, T)) \subseteq Range(s)
           /\ e \in T => e \notin Range(Without(s, T))
<1> PICK t : t = Without(s, T)
  OBVIOUS
<1>1. Removed(s, T, t)
  BY WithoutFacts
<1>2. QED
  BY <1>1 DEF Removed, Keeps, Loses, Tops, AtTop

\* An edit put on a stack.
LEMMA Pushed ==
    ASSUME NEW s \in Seq(Edits), NEW x \in Edits
    PROVE  /\ Append(s, x) \in Seq(Edits) /\ Range(Append(s, x)) = Range(s) \cup {x}
           /\ Last(Append(s, x)) = x
           /\ x \notin Range(s) => OnceIn(Append(s, x), x)
           /\ \A e \in Edits \ {x} : \A gone : Keeps(s, Append(s, x), e, gone)
<1> PICK t : t = Append(s, x)
  OBVIOUS
<1>1. /\ t \in Seq(Edits) /\ Len(t) = Len(s) + 1 /\ t[Len(s) + 1] = x
      /\ \A i \in 1..Len(s) : t[i] = s[i]
  OBVIOUS
<1>2. DOMAIN s = 1..Len(s) /\ DOMAIN t = 1..(Len(s) + 1) /\ Len(s) \in Nat
  BY <1>1
<1>3. Range(t) = Range(s) \cup {x}
  BY <1>1, <1>2 DEF Range
<1>4. Last(t) = x
  BY <1>1 DEF Last
<1>5. x \notin Range(s) => OnceIn(t, x)
  <2> SUFFICES ASSUME x \notin Range(s), NEW i \in 1..(Len(s) + 1), t[i] = x PROVE i = Len(s) + 1
    BY <1>2 DEF OnceIn
  <2>1. i \notin 1..Len(s)
    BY <1>1, <1>2 DEF Range
  <2>2. QED
    BY <1>2, <2>1
<1>6. ASSUME NEW e \in Edits \ {x}, OnceIn(s, e) PROVE OnceIn(t, e)
  <2>1. \A i \in 1..(Len(s) + 1) : t[i] = e => i \in 1..Len(s)
    BY <1>1, <1>2
  <2>2. QED
    BY <1>1, <1>2, <1>6, <2>1 DEF OnceIn
<1>7. QED
  BY <1>1, <1>3, <1>4, <1>5, <1>6 DEF Keeps, Loses

\* An edit taken off a stack.
LEMMA Popped ==
    ASSUME NEW s \in Seq(Edits), s # <<>>
    PROVE  /\ Last(s) \in Edits /\ Last(s) \in Range(s) /\ Front(s) \in Seq(Edits)
           /\ Range(Front(s)) \subseteq Range(s)
           /\ OnceIn(s, Last(s)) => Last(s) \notin Range(Front(s)) /\ OnceIn(Front(s), Last(s))
           /\ \A e \in Edits \ {Last(s)} : \A gone : Keeps(s, Front(s), e, gone)
<1> PICK t, x : t = Front(s) /\ x = Last(s)
  OBVIOUS
<1>1. Len(s) \in Nat /\ Len(s) > 0 /\ DOMAIN s = 1..Len(s)
  OBVIOUS
<1>2. x = s[Len(s)] /\ x \in Edits /\ x \in Range(s)
  BY <1>1 DEF Last, Range
<1>3. t \in Seq(Edits) /\ Len(t) = Len(s) - 1 /\ \A i \in 1..(Len(s) - 1) : t[i] = s[i]
  BY <1>1 DEF Front
<1>4. DOMAIN t = 1..(Len(s) - 1)
  BY <1>3
<1>5. Range(t) \subseteq Range(s) /\ Range(s) \subseteq Range(t) \cup {x}
  BY <1>1, <1>2, <1>3, <1>4 DEF Range
<1>6. ASSUME NEW e \in Edits, OnceIn(s, e) PROVE OnceIn(t, e)
  BY <1>1, <1>3, <1>4, <1>6 DEF OnceIn
<1>7. ASSUME OnceIn(s, x), x \in Range(t) PROVE FALSE
  <2>1. PICK i \in 1..(Len(s) - 1) : s[i] = x
    BY <1>3, <1>4, <1>7 DEF Range
  <2>2. i \in 1..Len(s) /\ Len(s) \in 1..Len(s) /\ i # Len(s)
    <3> PICK n \in Nat : n = Len(s) /\ n > 0
      BY <1>1
    <3>1. i \in 1..(n - 1)
      BY <2>1
    <3>2. QED
      BY <3>1
  <2>3. QED
    BY <1>1, <1>2, <1>7, <2>1, <2>2 DEF OnceIn
<1>8. QED
  BY <1>2, <1>3, <1>5, <1>6, <1>7 DEF Keeps, Loses

\* The newest entries of a stack.
LEMMA Trimmed ==
    ASSUME NEW s \in Seq(Edits)
    PROVE  /\ Trim(s) \in Seq(Edits) /\ Range(Trim(s)) \subseteq Range(s)
           /\ Range(s) \subseteq Range(Trim(s)) \cup Cut(s)
           /\ s # <<>> => Last(Trim(s)) = Last(s) /\ Last(s) \in Range(Trim(s))
           /\ \A e \in Edits : OnceIn(s, e) => OnceIn(Trim(s), e)
<1> PICK n \in Nat : n = Len(s)
  OBVIOUS
<1> PICK m \in Nat : m = MaxEntries /\ m > 0
  BY MaxEntriesAssumption
<1>1. DOMAIN s = 1..n /\ \A i \in 1..n : s[i] \in Edits
  OBVIOUS
<1>2. CASE n <= m
  <2>1. Trim(s) = SubSeq(s, 1, n)
    <3>1. ~(Len(s) > MaxEntries)
      BY <1>2
    <3>2. QED
      BY <3>1 DEF Trim
  <2>2. Trim(s) = s
    BY <2>1
  <2>3. QED
    BY <1>1, <2>2 DEF Last, Range
<1>3. CASE n > m
  <2> PICK t, c : t = Trim(s) /\ c = SubSeq(s, 1, n - m)
    OBVIOUS
  <2>1. t = SubSeq(s, n - m + 1, n)
    BY <1>3 DEF Trim
  <2>2. t \in Seq(Edits) /\ Len(t) = m /\ \A i \in 1..m : t[i] = s[n - m + i]
    <3>1. n - m + 1 \in Int /\ n \in Int /\ \A i \in (n - m + 1)..n : s[i] \in Edits
      BY <1>1, <1>3
    <3>2. /\ t \in Seq(Edits)
          /\ Len(t) = IF n - m + 1 <= n THEN n - (n - m + 1) + 1 ELSE 0
          /\ \A i \in 1..(n - (n - m + 1) + 1) : t[i] = s[(n - m + 1) + i - 1]
      BY <2>1, <3>1, SubSeqProperties
    <3>3. (IF n - m + 1 <= n THEN n - (n - m + 1) + 1 ELSE 0) = m
      BY <1>3
    <3>4. ASSUME NEW i \in 1..m PROVE t[i] = s[n - m + i]
      <4>1. i \in 1..(n - (n - m + 1) + 1) /\ (n - m + 1) + i - 1 = n - m + i
        BY <1>3
      <4>2. QED
        BY <3>2, <4>1
    <3>5. QED
      BY <3>2, <3>3, <3>4
  <2>3. Len(c) = n - m /\ DOMAIN c = 1..(n - m) /\ \A i \in 1..(n - m) : c[i] = s[i]
    <3>1. n - m \in 0..n /\ \A i \in 1..(n - m) : s[i] \in Edits
      BY <1>1, <1>3
    <3>2. c \in Seq(Edits) /\ Len(c) = n - m /\ \A i \in 1..(n - m) : c[i] = s[i]
      BY <3>1, SubSeqProperties
    <3>3. QED
      BY <3>2
  <2>4. DOMAIN t = 1..m
    BY <2>2
  <2>5. Range(t) \subseteq Range(s)
    <3> SUFFICES ASSUME NEW i \in 1..m PROVE t[i] \in Range(s)
      BY <2>4 DEF Range
    <3>1. n - m + i \in 1..n
      BY <1>3
    <3>2. QED
      BY <1>1, <2>2, <3>1 DEF Range
  <2>6. Range(s) \subseteq Range(t) \cup Cut(s)
    <3> SUFFICES ASSUME NEW i \in 1..n PROVE s[i] \in Range(t) \cup Range(c)
      BY <1>1 DEF Cut, Range
    <3>1. CASE i <= n - m
      <4>1. i \in 1..(n - m)
        BY <1>3, <3>1
      <4>2. QED
        BY <2>3, <4>1 DEF Range
    <3>2. CASE i > n - m
      <4>1. i - (n - m) \in 1..m /\ n - m + (i - (n - m)) = i
        BY <1>3, <3>2
      <4>2. t[i - (n - m)] = s[i]
        BY <2>2, <4>1
      <4>3. QED
        BY <2>4, <4>1, <4>2 DEF Range
    <3>3. QED
      BY <1>3, <3>1, <3>2
  <2>7. Last(t) = Last(s) /\ Last(s) \in Range(t)
    <3>1. m \in 1..m /\ n - m + m = n
      BY <1>3
    <3>2. t[m] = s[n]
      BY <2>2, <3>1
    <3>3. QED
      BY <2>2, <2>4, <3>1, <3>2 DEF Last, Range
  <2>8. ASSUME NEW e \in Edits, OnceIn(s, e) PROVE OnceIn(t, e)
    <3> SUFFICES ASSUME NEW i \in 1..m, NEW j \in 1..m, t[i] = e, t[j] = e PROVE i = j
      BY <2>4 DEF OnceIn
    <3>1. n - m + i \in 1..n /\ n - m + j \in 1..n
      BY <1>3
    <3>2. n - m + i = n - m + j
      BY <1>1, <2>2, <2>8, <3>1 DEF OnceIn
    <3>3. QED
      BY <1>3, <3>2
  <2>9. QED
    BY <2>2, <2>5, <2>6, <2>7, <2>8
<1>4. QED
  BY <1>2, <1>3

\* An edit put on a stack that is then cut to the limit.
LEMMA TrimPushed ==
    ASSUME NEW s \in Seq(Edits), NEW x \in Edits
    PROVE  /\ Trim(Append(s, x)) \in Seq(Edits)
           /\ x \in Range(Trim(Append(s, x))) /\ Last(Trim(Append(s, x))) = x
           /\ x \notin Range(s) => OnceIn(Trim(Append(s, x)), x)
           /\ Range(Trim(Append(s, x))) \subseteq Range(s) \cup {x}
           /\ \A e \in Edits \ {x} : Keeps(s, Trim(Append(s, x)), e, Cut(Append(s, x)))
<1> PICK t : t = Append(s, x)
  OBVIOUS
<1>1. /\ t \in Seq(Edits) /\ Range(t) = Range(s) \cup {x} /\ Last(t) = x
      /\ x \notin Range(s) => OnceIn(t, x)
      /\ \A e \in Edits \ {x} : Keeps(s, t, e, {})
  BY Pushed
<1>2. t # <<>>
  BY <1>1 DEF Range
<1>3. /\ Trim(t) \in Seq(Edits) /\ Range(Trim(t)) \subseteq Range(t)
      /\ Range(t) \subseteq Range(Trim(t)) \cup Cut(t)
      /\ Last(Trim(t)) = Last(t) /\ Last(t) \in Range(Trim(t))
      /\ \A e \in Edits : OnceIn(t, e) => OnceIn(Trim(t), e)
  BY <1>1, <1>2, Trimmed
<1>4. QED
  BY <1>1, <1>3 DEF Keeps, Loses

\* An edit taken from the top if it is there.
LEMMA TopOff ==
    ASSUME NEW s \in Seq(Edits), NEW x \in Edits
    PROVE  /\ WithoutTop(s, x) \in Seq(Edits) /\ Range(WithoutTop(s, x)) \subseteq Range(s)
           /\ AtTop(s, x) /\ OnceIn(s, x) => x \notin Range(WithoutTop(s, x))
           /\ \A e \in Edits \ {x} : \A gone : Keeps(s, WithoutTop(s, x), e, gone)
<1>1. CASE s # <<>> /\ Last(s) = x
  <2>1. WithoutTop(s, x) = Front(s)
    BY <1>1 DEF WithoutTop
  <2>2. QED
    BY <1>1, <2>1, Popped
<1>2. CASE ~(s # <<>> /\ Last(s) = x)
  <2>1. WithoutTop(s, x) = s
    BY <1>2 DEF WithoutTop
  <2>2. s = <<>> => Range(s) = {}
    BY DEF Range
  <2>3. AtTop(s, x) => x \notin Range(s)
    BY <1>2, <2>2 DEF AtTop
  <2>4. QED
    BY <2>1, <2>3 DEF Keeps, Loses
<1>3. QED
  BY <1>1, <1>2

\* A stack that is left as it is.
LEMMA Kept ==
    ASSUME NEW s \in Seq(Edits), NEW e \in Edits
    PROVE  \A gone : Keeps(s, s, e, gone) /\ Tops(s, s, e)
BY DEF Keeps, Loses, Tops
-----------------------------------------------------------------------------
(* A step, as to the edits it is not about.                                *)

\* It changes nothing of an edit, but may take it off a stack ...
Spared(e) ==
    /\ roots'[e] = roots[e] /\ forgotten \subseteq forgotten'
    /\ \A d \in Docs : /\ <<e, d>> \in applied' <=> <<e, d>> \in applied
                       /\ Keeps(undoStack[d], undoStack'[d], e, forgotten')
                       /\ Loses(redoStack[d], redoStack'[d], e)

\* ... and leaves it at the top on the document where it is replayed.
Near(e, d) ==
    /\ Tops(undoStack[d], undoStack'[d], e) /\ Tops(redoStack[d], redoStack'[d], e)
    /\ Keeps(redoStack[d], redoStack'[d], e, forgotten')

\* A spared edit that no replay is at stays as it was.
LEMMA EaseKeeps ==
    ASSUME Types, NEW e \in Edits, Spared(e), Single(e)
    PROVE  Single(e)' /\ (AtEase(e) => AtEase(e)')
<1>1. Single(e)'
  BY DEF Spared, Single, Keeps, Loses
<1>2. /\ roots'[e] = roots[e] /\ roots[e] \subseteq Docs
      /\ \A d \in Docs : <<e, d>> \in applied' <=> <<e, d>> \in applied
  BY DEF Spared, Types
<1>3. (Everywhere(e) => Everywhere(e)') /\ (Nowhere(e) => Nowhere(e)')
  BY <1>2 DEF Everywhere, Nowhere
<1>4. ASSUME AtEase(e) PROVE AtEase(e)'
  <2>1. \A d \in Docs : /\ e \in Range(undoStack'[d]) => <<e, d>> \in applied'
                        /\ e \in Range(redoStack'[d]) => <<e, d>> \notin applied'
    BY <1>2, <1>4 DEF AtEase, Spared, Keeps, Loses
  <2>2. e \notin forgotten' =>
          \A d \in roots'[e] : <<e, d>> \in applied' => e \in Range(undoStack'[d])
    BY <1>2, <1>4 DEF AtEase, Spared, Keeps
  <2>3. QED
    BY <1>3, <1>4, <2>1, <2>2 DEF AtEase
<1>5. QED
  BY <1>1, <1>4

\* A spared edit that is being replayed on document d stays as it was.
LEMMA WayKeeps ==
    ASSUME Types, NEW e \in Edits, NEW d \in Docs, NEW done \in BOOLEAN, Spared(e), Near(e, d)
    PROVE  /\ Undoing(e, d, done) => Undoing(e, d, done)'
           /\ Redoing(e, d, done) => Redoing(e, d, done)'
<1>1. /\ roots'[e] = roots[e] /\ roots[e] \subseteq Docs
      /\ \A c \in Docs : <<e, c>> \in applied' <=> <<e, c>> \in applied
  BY DEF Spared, Types
<1>2. (Everywhere(e) => Everywhere(e)') /\ (Nowhere(e) => Nowhere(e)')
  BY <1>1 DEF Everywhere, Nowhere
<1>3. forgotten \subseteq forgotten'
  BY DEF Spared
<1>4. \A c \in Docs : /\ e \in Range(undoStack'[c]) => e \in Range(undoStack[c])
                      /\ e \in Range(redoStack'[c]) => e \in Range(redoStack[c])
                      /\ e \notin forgotten' /\ e \in Range(undoStack[c]) => e \in Range(undoStack'[c])
  BY DEF Spared, Keeps, Loses
<1>5. /\ AtTop(undoStack[d], e) => AtTop(undoStack'[d], e)
      /\ AtTop(redoStack[d], e) => AtTop(redoStack'[d], e)
      /\ e \notin forgotten' /\ e \in Range(redoStack[d]) => e \in Range(redoStack'[d])
  BY DEF Near, Tops, Keeps
<1>6. ASSUME Undoing(e, d, done) PROVE Undoing(e, d, done)'
  BY <1>1, <1>2, <1>3, <1>4, <1>5, <1>6 DEF Undoing
<1>7. ASSUME Redoing(e, d, done) PROVE Redoing(e, d, done)'
  BY <1>2, <1>3, <1>4, <1>5, <1>7 DEF Redoing
<1>8. QED
  BY <1>6, <1>7

\* What a step about the edits in E, by the windows in W, does to the others.
OthersKeep(W, E) ==
    /\ disturbed \subseteq disturbed'
    /\ \A v \in Windows \ W : job'[v] = job[v]
    /\ \A v \in W : /\ job[v] # Free => job[v].edit \in E
                    /\ job'[v] # Free => job'[v].edit \in E
    /\ \A f \in Edits : f \notin E /\ f \notin disturbed' => Spared(f)
    /\ \A v \in Windows \ W : job[v] # Free /\ job[v].edit \notin disturbed' =>
          /\ job[v].edit \notin E /\ Near(job[v].edit, job[v].doc)
          /\ \A u \in W : job'[u] # Free => job'[u].doc # job[v].doc

\* A step has to account only for the windows W and the edits E it is about.
LEMMA StepKeeps ==
    ASSUME LogInv, Types', NEW W \in SUBSET Windows, NEW E \in SUBSET Edits, OthersKeep(W, E),
           \A e \in E : e \notin disturbed' => Single(e)' /\ (e \notin InFlight' => AtEase(e)'),
           \A w \in W : job'[w] # Free /\ job'[w].edit \notin disturbed' => Underway(w)'
    PROVE  Undisturbed'
<1>1. Types /\ Undisturbed
  BY DEF LogInv
<1>2. ASSUME NEW f \in Edits, f \notin disturbed', f \notin E
      PROVE  Single(f)' /\ (f \notin InFlight' => AtEase(f)')
  <2>1. Spared(f) /\ f \notin disturbed
    BY <1>2 DEF OthersKeep
  <2>2. f \notin InFlight' => f \notin InFlight
    BY <1>2 DEF InFlight, OthersKeep
  <2>3. Single(f) /\ (f \notin InFlight => AtEase(f))
    BY <1>1, <1>2, <2>1 DEF Undisturbed
  <2>4. QED
    BY <1>1, <2>1, <2>2, <2>3, EaseKeeps
<1>3. ASSUME NEW v \in Windows \ W, job'[v] # Free, job'[v].edit \notin disturbed'
      PROVE  Underway(v)'
  <2> PICK e, d, done : e = job[v].edit /\ d = job[v].doc /\ done = (job[v].step = "commit")
    OBVIOUS
  <2>1. job'[v] = job[v] /\ job[v] # Free /\ e \notin disturbed' /\ e \notin disturbed
    BY <1>3 DEF OthersKeep
  <2>2. job[v] \in Job /\ e \in Edits /\ d \in Docs /\ done \in BOOLEAN
    BY <1>1, <2>1 DEF Types, Job
  <2>3. e \notin E /\ Near(e, d) /\ \A u \in W : job'[u] # Free => job'[u].doc # d
    BY <2>1 DEF OthersKeep
  <2>4. Spared(e)
    BY <2>1, <2>2, <2>3 DEF OthersKeep
  <2>5. /\ Alone(v) /\ (job[v].kind = "undo" => Undoing(e, d, done))
        /\ (job[v].kind = "redo" => Redoing(e, d, done))
    BY <1>1, <2>1 DEF Undisturbed, Underway
  <2>6. /\ job[v].kind = "undo" => Undoing(e, d, done)'
        /\ job[v].kind = "redo" => Redoing(e, d, done)'
    BY <1>1, <2>2, <2>3, <2>4, <2>5, WayKeeps
  <2>7. Alone(v)'
    <3> SUFFICES ASSUME NEW u \in Windows, job'[u] # Free, u # v
                 PROVE  job'[u].edit # e /\ job'[u].doc # d
      BY <2>1 DEF Alone
    <3>1. CASE u \in W
      BY <2>3, <3>1 DEF OthersKeep
    <3>2. CASE u \notin W
      BY <2>5, <3>2 DEF OthersKeep, Alone
    <3>3. QED
      BY <3>1, <3>2
  <2>8. QED
    BY <2>1, <2>6, <2>7 DEF Underway
<1>4. disturbed \subseteq disturbed'
  BY DEF OthersKeep
<1>5. QED
  BY <1>2, <1>3 DEF Undisturbed
-----------------------------------------------------------------------------
(* A replay begins.                                                        *)

\* A step that changes the stacks of the documents in D.
LEMMA Elsewhere ==
    ASSUME Types, NEW D \in SUBSET Docs, NEW f \in Edits,
           roots'[f] = roots[f], forgotten \subseteq forgotten',
           \A c \in Docs : <<f, c>> \in applied' <=> <<f, c>> \in applied,
           \A c \in Docs \ D : undoStack'[c] = undoStack[c] /\ redoStack'[c] = redoStack[c],
           \A d \in D : /\ Keeps(undoStack[d], undoStack'[d], f, forgotten')
                        /\ Loses(redoStack[d], redoStack'[d], f)
    PROVE  Spared(f) /\ \A c \in Docs \ D : Near(f, c)
<1>1. ASSUME NEW c \in Docs \ D
      PROVE  /\ Keeps(undoStack[c], undoStack'[c], f, forgotten')
             /\ Keeps(redoStack[c], redoStack'[c], f, forgotten')
             /\ Tops(undoStack[c], undoStack'[c], f) /\ Tops(redoStack[c], redoStack'[c], f)
  <2>1. undoStack[c] \in Seq(Edits) /\ redoStack[c] \in Seq(Edits)
    BY DEF Types
  <2>2. undoStack'[c] = undoStack[c] /\ redoStack'[c] = redoStack[c]
    OBVIOUS
  <2>3. QED
    BY <2>1, <2>2, Kept
<1>2. \A c \in Docs \ D : Near(f, c)
  BY <1>1 DEF Near
<1>3. Spared(f)
  BY <1>1 DEF Spared, Keeps
<1>4. QED
  BY <1>2, <1>3

\* What the start of a replay does to the jobs and marks as disturbed.
LEMMA StartFacts ==
    ASSUME Types, NEW w \in Windows, NEW kind \in {"undo", "redo"}, NEW e \in Edits, NEW d \in Docs,
           job[w] = Free, Start(w, kind, e, d)
    PROVE  /\ job' \in [Windows -> Job \cup {Free}]
           /\ job'[w] = [kind |-> kind, step |-> "perform", edit |-> e, doc |-> d]
           /\ job'[w] # Free /\ \A v \in Windows \ {w} : job'[v] = job[v]
           /\ disturbed \subseteq disturbed' /\ roots' = roots /\ applied' = applied
           /\ known' = known /\ twice' = twice
           /\ \A v \in Windows : job[v] # Free /\ job[v].edit \notin disturbed' =>
                 job[v].edit # e /\ job[v].doc # d
           /\ e \notin disturbed' => \A v \in Windows : job[v] # Free =>
                 job[v].edit # e /\ job[v].doc # d
<1> PICK j : j = [kind |-> kind, step |-> "perform", edit |-> e, doc |-> d]
  OBVIOUS
<1>1. j \in Job /\ j # Free
  BY DEF Job, Free
<1>2. job' = [job EXCEPT ![w] = j]
  BY DEF Start
<1>3. disturbed' = disturbed \cup Busy({d}) \cup
          (IF e \in InFlight \/ Busy({d}) # {} THEN {e} ELSE {})
  BY DEF Start
<1>4. ASSUME NEW v \in Windows, job[v] # Free, job[v].doc = d PROVE job[v].edit \in Busy({d})
  BY <1>4 DEF Busy
<1>5. ASSUME NEW v \in Windows, job[v] # Free, job[v].edit = e PROVE e \in InFlight
  BY <1>5 DEF InFlight
<1>6. roots' = roots /\ applied' = applied /\ known' = known /\ twice' = twice
  BY DEF Start
<1>7. job' \in [Windows -> Job \cup {Free}] /\ job'[w] = j /\ \A v \in Windows \ {w} : job'[v] = job[v]
  BY <1>1, <1>2 DEF Types
<1>8. QED
  BY <1>1, <1>3, <1>4, <1>5, <1>6, <1>7

\* The start of a replay has to account only for its own edit and window.
LEMMA StartKeeps ==
    ASSUME LogInv, Types', NEW w \in Windows, NEW kind \in {"undo", "redo"}, NEW e \in Edits,
           NEW d \in Docs, job[w] = Free, Start(w, kind, e, d), forgotten \subseteq forgotten',
           \A c \in Docs \ {d} : undoStack'[c] = undoStack[c] /\ redoStack'[c] = redoStack[c],
           \A f \in Edits \ {e} : /\ Keeps(undoStack[d], undoStack'[d], f, forgotten')
                                  /\ Loses(redoStack[d], redoStack'[d], f),
           Single(e) /\ AtEase(e) =>
              /\ Single(e)' /\ (kind = "undo" => Undoing(e, d, FALSE)')
              /\ (kind = "redo" => Redoing(e, d, FALSE)')
    PROVE  Undisturbed'
<1>1. Types /\ Undisturbed
  BY DEF LogInv
<1>2. /\ job'[w] = [kind |-> kind, step |-> "perform", edit |-> e, doc |-> d]
      /\ job'[w] # Free /\ \A v \in Windows \ {w} : job'[v] = job[v]
      /\ disturbed \subseteq disturbed' /\ roots' = roots /\ applied' = applied
      /\ \A v \in Windows : job[v] # Free /\ job[v].edit \notin disturbed' =>
            job[v].edit # e /\ job[v].doc # d
      /\ e \notin disturbed' => \A v \in Windows : job[v] # Free =>
            job[v].edit # e /\ job[v].doc # d
  BY <1>1, StartFacts
<1>3. ASSUME NEW f \in Edits \ {e} PROVE Spared(f) /\ \A c \in Docs \ {d} : Near(f, c)
  <2>1. \A x \in {d} : /\ Keeps(undoStack[x], undoStack'[x], f, forgotten')
                       /\ Loses(redoStack[x], redoStack'[x], f)
    OBVIOUS
  <2>2. \A c \in Docs : <<f, c>> \in applied' <=> <<f, c>> \in applied
    BY <1>2
  <2>3. {d} \in SUBSET Docs
    OBVIOUS
  <2>4. QED
    BY <1>1, <1>2, <2>1, <2>2, <2>3, Elsewhere
<1>4. \A v \in Windows : job[v] # Free => job[v].edit \in Edits /\ job[v].doc \in Docs
  BY <1>1 DEF Types, Job
<1>5. OthersKeep({w}, {e})
  BY <1>2, <1>3, <1>4 DEF OthersKeep
<1>6. ASSUME e \notin disturbed' PROVE Single(e)' /\ e \in InFlight' /\ Underway(w)'
  <2>1. e \notin InFlight /\ e \notin disturbed
    BY <1>2, <1>6 DEF InFlight
  <2>2. Single(e) /\ AtEase(e)
    BY <1>1, <2>1 DEF Undisturbed
  <2>3. e \in InFlight'
    BY <1>2 DEF InFlight
  <2>4. Alone(w)'
    BY <1>2, <1>6 DEF Alone
  <2>5. /\ job'[w].kind = kind /\ job'[w].edit = e /\ job'[w].doc = d
        /\ (job'[w].step = "commit") = FALSE
    BY <1>2
  <2>6. Underway(w)'
    BY <2>2, <2>4, <2>5 DEF Underway
  <2>7. QED
    BY <2>2, <2>3, <2>6
<1>7. QED
  BY <1>2, <1>5, <1>6, StepKeeps

\* undolog.go Undo: the entry goes from one stack of the document to the other.
LEMMA UndoKeeps ==
    ASSUME LogInv, NEW w \in Windows, NEW d \in Docs, Undo(w, d)
    PROVE  LogInv'
<1>1. Types /\ Placed /\ Undisturbed /\ job[w] = Free /\ undoStack[d] # <<>>
  BY DEF LogInv, Undo
<1> PICK s, r, e : s = undoStack[d] /\ r = redoStack[d] /\ e = Last(undoStack[d])
  OBVIOUS
<1> PICK t, u : t = Front(s) /\ u = Trim(Append(r, e))
  OBVIOUS
<1>2. s \in Seq(Edits) /\ r \in Seq(Edits) /\ s # <<>>
  BY <1>1 DEF Types
<1>3. /\ e \in Edits /\ e \in Range(s) /\ t \in Seq(Edits) /\ Range(t) \subseteq Range(s)
      /\ OnceIn(s, e) => e \notin Range(t) /\ OnceIn(t, e)
      /\ \A f \in Edits \ {e} : \A gone : Keeps(s, t, f, gone)
  BY <1>2, Popped
<1>4. /\ u \in Seq(Edits) /\ e \in Range(u) /\ Last(u) = e
      /\ e \notin Range(r) => OnceIn(u, e)
      /\ Range(u) \subseteq Range(r) \cup {e}
      /\ \A f \in Edits \ {e} : Keeps(r, u, f, Cut(Append(r, e)))
  BY <1>2, <1>3, TrimPushed
<1>5. /\ undoStack' = [undoStack EXCEPT ![d] = t] /\ redoStack' = [redoStack EXCEPT ![d] = u]
      /\ hasUndo' = [hasUndo EXCEPT ![d] = TRUE]
      /\ forgotten' = forgotten \cup Cut(Append(r, e))
      /\ Start(w, "undo", e, d)
  BY DEF Undo
<1>6. /\ undoStack'[d] = t /\ redoStack'[d] = u
      /\ \A c \in Docs \ {d} : undoStack'[c] = undoStack[c] /\ redoStack'[c] = redoStack[c]
  BY <1>1, <1>5 DEF Types
<1>7. /\ job' \in [Windows -> Job \cup {Free}]
      /\ job'[w] = [kind |-> "undo", step |-> "perform", edit |-> e, doc |-> d]
      /\ \A v \in Windows \ {w} : job'[v] = job[v]
      /\ disturbed \subseteq disturbed' /\ roots' = roots /\ applied' = applied
      /\ known' = known /\ twice' = twice
  BY <1>1, <1>3, <1>5, StartFacts
<1>8. Types'
  BY <1>1, <1>3, <1>4, <1>5, <1>7 DEF Types
<1>9. d \in roots[e] /\ d \in known
  BY <1>1, <1>3 DEF Placed
<1>10. Placed'
  <2>1. ASSUME NEW c \in Docs
        PROVE  /\ \A f \in Range(undoStack'[c]) \cup Range(redoStack'[c]) : c \in roots[f]
               /\ c \notin known => undoStack'[c] = <<>> /\ redoStack'[c] = <<>>
    <3>1. CASE c = d
      BY <1>1, <1>3, <1>4, <1>6, <1>9, <3>1 DEF Placed
    <3>2. CASE c # d
      BY <1>1, <1>6, <3>2 DEF Placed
    <3>3. QED
      BY <3>1, <3>2
  <2>2. \A v \in Windows : job'[v] # Free => job'[v].doc \in roots[job'[v].edit]
    BY <1>1, <1>7, <1>9 DEF Placed
  <2>3. QED
    BY <1>1, <1>7, <2>1, <2>2 DEF Placed
<1>11. \A f \in Edits \ {e} : /\ Keeps(undoStack[d], undoStack'[d], f, forgotten')
                              /\ Loses(redoStack[d], redoStack'[d], f)
  BY <1>3, <1>4, <1>6 DEF Keeps
<1>12. ASSUME Single(e), AtEase(e) PROVE Single(e)' /\ Undoing(e, d, FALSE)'
  <2>1. <<e, d>> \in applied /\ OnceIn(s, e)
    BY <1>3, <1>12 DEF AtEase, Single
  <2>2. Everywhere(e)
    BY <1>9, <1>12, <2>1 DEF AtEase, Everywhere, Nowhere
  <2>3. \A c \in Docs : e \notin Range(redoStack[c])
    BY <1>1, <1>12, <2>2 DEF AtEase, Everywhere, Placed
  <2>4. OnceIn(u, e) /\ e \notin Range(t) /\ OnceIn(t, e)
    BY <1>3, <1>4, <2>1, <2>3
  <2>5. Single(e)'
    <3>1. \A c \in Docs : OnceIn(undoStack'[c], e) /\ OnceIn(redoStack'[c], e)
      BY <1>6, <1>12, <2>4 DEF Single
    <3>2. \A c \in Docs \ {d} : e \notin Range(redoStack'[c])
      BY <1>6, <2>3
    <3>3. QED
      BY <3>1, <3>2 DEF Single
  <2>6. Everywhere(e)'
    BY <1>7, <2>2 DEF Everywhere
  <2>7. e \notin forgotten => \A c \in roots[e] \ {d} : e \in Range(undoStack'[c])
    <3>1. roots[e] \subseteq Docs
      BY <1>1, <1>3 DEF Types
    <3>2. QED
      BY <1>6, <1>12, <2>2, <3>1 DEF AtEase, Everywhere
  <2>8. forgotten \subseteq forgotten'
    BY <1>5
  <2>9. Undoing(e, d, FALSE)'
    BY <1>4, <1>6, <1>7, <2>3, <2>4, <2>6, <2>7, <2>8 DEF Undoing, AtTop
  <2>10. QED
    BY <2>5, <2>9
<1>13. Undisturbed'
  <2>1. forgotten \subseteq forgotten'
    BY <1>5
  <2>2. QED
    BY <1>1, <1>3, <1>5, <1>6, <1>8, <1>11, <1>12, <2>1, StartKeeps
<1>14. TwiceOnlyWhenDisturbed'
  BY <1>7 DEF LogInv, TwiceOnlyWhenDisturbed
<1>15. QED
  BY <1>8, <1>10, <1>13, <1>14 DEF LogInv

\* undolog.go Redo, the same the other way.
LEMMA RedoKeeps ==
    ASSUME LogInv, NEW w \in Windows, NEW d \in Docs, Redo(w, d)
    PROVE  LogInv'
<1>1. Types /\ Placed /\ Undisturbed /\ job[w] = Free /\ redoStack[d] # <<>>
  BY DEF LogInv, Redo
<1> PICK s, r, e : s = undoStack[d] /\ r = redoStack[d] /\ e = Last(redoStack[d])
  OBVIOUS
<1> PICK t, u : t = Append(s, e) /\ u = Front(r)
  OBVIOUS
<1>2. s \in Seq(Edits) /\ r \in Seq(Edits) /\ r # <<>>
  BY <1>1 DEF Types
<1>3. /\ e \in Edits /\ e \in Range(r) /\ u \in Seq(Edits) /\ Range(u) \subseteq Range(r)
      /\ OnceIn(r, e) => e \notin Range(u) /\ OnceIn(u, e)
      /\ \A f \in Edits \ {e} : \A gone : Keeps(r, u, f, gone)
  BY <1>2, Popped
<1>4. /\ t \in Seq(Edits) /\ Range(t) = Range(s) \cup {e} /\ Last(t) = e
      /\ e \notin Range(s) => OnceIn(t, e)
      /\ \A f \in Edits \ {e} : \A gone : Keeps(s, t, f, gone)
  BY <1>2, <1>3, Pushed
<1>5. /\ undoStack' = [undoStack EXCEPT ![d] = t] /\ redoStack' = [redoStack EXCEPT ![d] = u]
      /\ hasUndo' = hasUndo /\ forgotten' = forgotten
      /\ Start(w, "redo", e, d)
  BY DEF Redo
<1>6. /\ undoStack'[d] = t /\ redoStack'[d] = u
      /\ \A c \in Docs \ {d} : undoStack'[c] = undoStack[c] /\ redoStack'[c] = redoStack[c]
  BY <1>1, <1>5 DEF Types
<1>7. /\ job' \in [Windows -> Job \cup {Free}]
      /\ job'[w] = [kind |-> "redo", step |-> "perform", edit |-> e, doc |-> d]
      /\ \A v \in Windows \ {w} : job'[v] = job[v]
      /\ disturbed \subseteq disturbed' /\ roots' = roots /\ applied' = applied
      /\ known' = known /\ twice' = twice
  BY <1>1, <1>3, <1>5, StartFacts
<1>8. Types'
  BY <1>1, <1>3, <1>4, <1>5, <1>7 DEF Types
<1>9. d \in roots[e] /\ d \in known
  BY <1>1, <1>3 DEF Placed
<1>10. Placed'
  <2>1. ASSUME NEW c \in Docs
        PROVE  /\ \A f \in Range(undoStack'[c]) \cup Range(redoStack'[c]) : c \in roots[f]
               /\ c \notin known => undoStack'[c] = <<>> /\ redoStack'[c] = <<>>
    <3>1. CASE c = d
      BY <1>1, <1>3, <1>4, <1>6, <1>9, <3>1 DEF Placed
    <3>2. CASE c # d
      BY <1>1, <1>6, <3>2 DEF Placed
    <3>3. QED
      BY <3>1, <3>2
  <2>2. \A v \in Windows : job'[v] # Free => job'[v].doc \in roots[job'[v].edit]
    BY <1>1, <1>7, <1>9 DEF Placed
  <2>3. QED
    BY <1>1, <1>7, <2>1, <2>2 DEF Placed
<1>11. \A f \in Edits \ {e} : /\ Keeps(undoStack[d], undoStack'[d], f, forgotten')
                              /\ Loses(redoStack[d], redoStack'[d], f)
  BY <1>3, <1>4, <1>6 DEF Keeps
<1>12. ASSUME Single(e), AtEase(e) PROVE Single(e)' /\ Redoing(e, d, FALSE)'
  <2>1. <<e, d>> \notin applied /\ OnceIn(r, e)
    BY <1>3, <1>12 DEF AtEase, Single
  <2>2. Nowhere(e)
    BY <1>9, <1>12, <2>1 DEF AtEase, Everywhere, Nowhere
  <2>3. \A c \in Docs : e \notin Range(undoStack[c])
    BY <1>1, <1>12, <2>2 DEF AtEase, Nowhere, Placed
  <2>4. OnceIn(u, e) /\ e \notin Range(u) /\ OnceIn(t, e)
    BY <1>3, <1>4, <2>1, <2>3
  <2>5. \A c \in Docs : e \notin Range(redoStack'[c])
    BY <1>3, <1>6, <1>12, <2>4 DEF Single
  <2>6. Single(e)'
    <3>1. \A c \in Docs : OnceIn(undoStack'[c], e) /\ OnceIn(redoStack'[c], e)
      BY <1>6, <1>12, <2>4 DEF Single
    <3>2. QED
      BY <2>5, <3>1 DEF Single
  <2>7. Nowhere(e)'
    BY <1>7, <2>2 DEF Nowhere
  <2>8. \A c \in Docs \ {d} : e \notin Range(undoStack'[c])
    BY <1>6, <2>3
  <2>9. Redoing(e, d, FALSE)'
    BY <1>4, <1>6, <2>5, <2>7, <2>8 DEF Redoing, AtTop
  <2>10. QED
    BY <2>6, <2>9
<1>13. Undisturbed'
  BY <1>1, <1>3, <1>5, <1>6, <1>8, <1>11, <1>12, StartKeeps
<1>14. TwiceOnlyWhenDisturbed'
  BY <1>7 DEF LogInv, TwiceOnlyWhenDisturbed
<1>15. QED
  BY <1>8, <1>10, <1>13, <1>14 DEF LogInv
-----------------------------------------------------------------------------
(* The operations run.                                                     *)

\* A window's replay, and those of the others that nothing disturbed.
LEMMA Rivals ==
    ASSUME LogInv, NEW w \in Windows, job[w] # Free
    PROVE  /\ job[w] \in Job /\ job[w].edit \in Edits /\ job[w].doc \in Docs
           /\ job[w].doc \in roots[job[w].edit] /\ roots[job[w].edit] \subseteq Docs
           /\ \A v \in Windows \ {w} : job[v] # Free /\ job[v].edit \notin disturbed =>
                 job[v].edit # job[w].edit /\ job[v].doc # job[w].doc
           /\ \A v \in Windows : job[v] # Free => job[v].edit \in Edits /\ job[v].doc \in Docs
           /\ job[w].edit \notin disturbed => Single(job[w].edit) /\ Underway(w)
<1>1. Types /\ Placed /\ Undisturbed
  BY DEF LogInv
<1>2. job[w] \in Job /\ job[w].edit \in Edits /\ job[w].doc \in Docs
  BY <1>1 DEF Types, Job
<1>3. job[w].doc \in roots[job[w].edit] /\ roots[job[w].edit] \subseteq Docs
  BY <1>1, <1>2 DEF Placed, Types
<1>4. \A v \in Windows : job[v] # Free => job[v].edit \in Edits /\ job[v].doc \in Docs
  BY <1>1 DEF Types, Job
<1>5. ASSUME NEW v \in Windows \ {w}, job[v] # Free, job[v].edit \notin disturbed
      PROVE  job[v].edit # job[w].edit /\ job[v].doc # job[w].doc
  BY <1>1, <1>5 DEF Undisturbed, Underway, Alone
<1>6. job[w].edit \notin disturbed => Single(job[w].edit) /\ Underway(w)
  BY <1>1, <1>2 DEF Undisturbed
<1>7. QED
  BY <1>2, <1>3, <1>4, <1>5, <1>6

\* What the operations do: nothing to another edit, and to theirs all or, when they
\* were refused, nothing.
OnlyAbout(e) ==
    \A f \in Edits, c \in Docs :
        /\ <<f, c>> \in applied' => <<f, c>> \in applied \/ (f = e /\ c \in roots[f])
        /\ f # e /\ <<f, c>> \in applied => <<f, c>> \in applied'
Ran(e, kind, done) ==
    /\ kind = "undo" /\ Everywhere(e) => IF done THEN Nowhere(e)' ELSE Everywhere(e)'
    /\ kind = "redo" /\ Nowhere(e) => IF done THEN Everywhere(e)' ELSE Nowhere(e)'

\* The operations of a replay change what is in effect, and no stack.
LEMMA PerformKeeps ==
    ASSUME LogInv, NEW w \in Windows, job[w] # Free, job[w].step = "perform",
           NEW step \in {"commit", "rollback"}, job' = [job EXCEPT ![w].step = step],
           UNCHANGED <<stacks, roots, forgotten>>,
           disturbed \subseteq disturbed', disturbed' \subseteq disturbed \cup {job[w].edit},
           OnlyAbout(job[w].edit),
           job[w].edit \notin disturbed' => Ran(job[w].edit, job[w].kind, step = "commit"),
           TwiceOnlyWhenDisturbed'
    PROVE  LogInv'
<1>1. Types /\ Placed /\ Undisturbed
  BY DEF LogInv
<1> PICK e, d, kind : e = job[w].edit /\ d = job[w].doc /\ kind = job[w].kind
  OBVIOUS
<1>2. /\ job[w] \in Job /\ e \in Edits /\ d \in Docs /\ d \in roots[e] /\ roots[e] \subseteq Docs
      /\ \A v \in Windows \ {w} : job[v] # Free /\ job[v].edit \notin disturbed =>
            job[v].edit # e /\ job[v].doc # d
      /\ \A v \in Windows : job[v] # Free => job[v].edit \in Edits /\ job[v].doc \in Docs
      /\ e \notin disturbed => Single(e) /\ Underway(w)
  BY Rivals
<1>3. kind \in {"undo", "redo"}
  BY <1>2 DEF Job
<1>4. /\ job'[w] \in Job /\ job'[w].kind = kind /\ job'[w].edit = e /\ job'[w].doc = d
      /\ job'[w].step = step /\ job'[w] # Free /\ \A v \in Windows \ {w} : job'[v] = job[v]
  <2>1. /\ job'[w] = [job[w] EXCEPT !.step = step]
        /\ \A v \in Windows \ {w} : job'[v] = job[v]
    BY <1>1 DEF Types
  <2>2. /\ job'[w] \in Job /\ job'[w].kind = kind /\ job'[w].edit = e /\ job'[w].doc = d
        /\ job'[w].step = step
    BY <1>2, <2>1 DEF Job
  <2>3. Free \notin Job
    BY DEF Free, Job
  <2>4. QED
    BY <2>1, <2>2, <2>3
<1>5. /\ undoStack' = undoStack /\ redoStack' = redoStack /\ hasUndo' = hasUndo /\ known' = known
      /\ roots' = roots /\ forgotten' = forgotten
  BY DEF stacks
<1>6. Types'
  <2>1. job' \in [Windows -> Job \cup {Free}]
    BY <1>1, <1>4 DEF Types
  <2>2. QED
    BY <1>1, <1>5, <2>1 DEF Types
<1>7. Placed'
  <2>1. \A v \in Windows : job'[v] # Free => job'[v].doc \in roots[job'[v].edit]
    BY <1>1, <1>2, <1>4 DEF Placed
  <2>2. \A f \in Edits, c \in Docs : <<f, c>> \in applied' => c \in roots[f]
    BY <1>1 DEF Placed, OnlyAbout
  <2>3. QED
    BY <1>1, <1>5, <2>1, <2>2 DEF Placed
<1>8. ASSUME NEW f \in Edits \ {e} PROVE Spared(f) /\ \A c \in Docs : Near(f, c)
  <2>1. \A c \in Docs : <<f, c>> \in applied' <=> <<f, c>> \in applied
    BY DEF OnlyAbout
  <2>2. {} \in SUBSET Docs /\ Docs \ {} = Docs
    OBVIOUS
  <2>3. forgotten \subseteq forgotten'
    BY <1>5
  <2>4. \A c \in Docs \ {} : undoStack'[c] = undoStack[c] /\ redoStack'[c] = redoStack[c]
    BY <1>5
  <2>5. \A c \in {} : /\ Keeps(undoStack[c], undoStack'[c], f, forgotten')
                      /\ Loses(redoStack[c], redoStack'[c], f)
    OBVIOUS
  <2>6. QED
    BY <1>1, <1>5, <2>1, <2>2, <2>3, <2>4, <2>5, Elsewhere
<1>9. OthersKeep({w}, {e})
  BY <1>2, <1>4, <1>8 DEF OthersKeep
<1>10. ASSUME e \notin disturbed' PROVE Single(e)' /\ e \in InFlight' /\ Underway(w)'
  <2>1. e \notin disturbed /\ Single(e) /\ Underway(w)
    BY <1>2, <1>10
  <2>2. Single(e)'
    BY <1>5, <2>1 DEF Single
  <2>3. e \in InFlight'
    BY <1>4 DEF InFlight
  <2>4. /\ Alone(w) /\ (kind = "undo" => Undoing(e, d, FALSE))
        /\ (kind = "redo" => Redoing(e, d, FALSE))
    BY <2>1 DEF Underway
  <2>5. Alone(w)'
    BY <1>4, <2>4 DEF Alone
  <2>6. kind = "undo" => Undoing(e, d, step = "commit")'
    <3> SUFFICES ASSUME kind = "undo" PROVE Undoing(e, d, step = "commit")'
      OBVIOUS
    <3>1. Undoing(e, d, FALSE)
      BY <2>4
    <3>2. IF step = "commit" THEN Nowhere(e)' ELSE Everywhere(e)'
      BY <1>10, <3>1 DEF Undoing, Ran
    <3>3. QED
      BY <1>5, <3>1, <3>2 DEF Undoing
  <2>7. kind = "redo" => Redoing(e, d, step = "commit")'
    <3> SUFFICES ASSUME kind = "redo" PROVE Redoing(e, d, step = "commit")'
      OBVIOUS
    <3>1. Redoing(e, d, FALSE)
      BY <2>4
    <3>2. IF step = "commit" THEN Everywhere(e)' ELSE Nowhere(e)'
      BY <1>10, <3>1 DEF Redoing, Ran
    <3>3. QED
      BY <1>5, <3>1, <3>2 DEF Redoing
  <2>8. Underway(w)'
    BY <1>4, <2>5, <2>6, <2>7 DEF Underway
  <2>9. QED
    BY <2>2, <2>3, <2>8
<1>11. Undisturbed'
  BY <1>2, <1>4, <1>6, <1>9, <1>10, StepKeeps
<1>12. QED
  BY <1>6, <1>7, <1>11 DEF LogInv

\* The operations were performed.
LEMMA PerformDoneKeeps ==
    ASSUME LogInv, NEW w \in Windows, PerformDone(w)
    PROVE  LogInv'
<1> PICK e, kind : e = job[w].edit /\ kind = job[w].kind
  OBVIOUS
<1>1. job[w] # Free /\ job[w].step = "perform"
  BY DEF PerformDone
<1>2. /\ job[w] \in Job /\ e \in Edits /\ roots[e] \subseteq Docs /\ job[w].doc \in roots[e]
      /\ e \notin disturbed => Underway(w)
  BY <1>1, Rivals
<1>3. kind \in {"undo", "redo"}
  BY <1>2 DEF Job
<1>4. /\ job' = [job EXCEPT ![w].step = "commit"] /\ UNCHANGED <<stacks, roots, forgotten>>
      /\ disturbed' = disturbed
      /\ applied' = IF kind = "undo" THEN applied \ ({e} \X roots[e])
                                     ELSE applied \cup ({e} \X roots[e])
      /\ twice' = twice \cup IF AlreadyDone(kind, e) THEN {<<kind, e>>} ELSE {}
  BY DEF PerformDone, Replayed
<1>5. OnlyAbout(e)
  BY <1>4 DEF OnlyAbout
<1>6. roots' = roots
  BY <1>4
<1>7. Ran(e, kind, TRUE)
  BY <1>2, <1>4, <1>6 DEF Nowhere, Everywhere, Ran
<1>8. e \notin disturbed => ~AlreadyDone(kind, e)
  <2> SUFFICES ASSUME e \notin disturbed PROVE ~AlreadyDone(kind, e)
    OBVIOUS
  <2>1. /\ (kind = "undo" => Undoing(e, job[w].doc, FALSE))
        /\ (kind = "redo" => Redoing(e, job[w].doc, FALSE))
    BY <1>1, <1>2 DEF Underway
  <2>2. /\ (kind = "undo" => Everywhere(e))
        /\ (kind = "redo" => Nowhere(e))
    BY <2>1 DEF Undoing, Redoing
  <2>3. <<e, job[w].doc>> \in Effects(e)
    BY <1>2 DEF Effects
  <2>4. QED
    BY <1>2, <1>3, <2>2, <2>3 DEF AlreadyDone, Everywhere, Nowhere
<1>9. TwiceOnlyWhenDisturbed'
  BY <1>4, <1>8 DEF LogInv, TwiceOnlyWhenDisturbed
<1>10. QED
  BY <1>1, <1>4, <1>5, <1>7, <1>9, PerformKeeps

\* The operations were refused, or some documents were written.
LEMMA PerformFailedKeeps ==
    ASSUME LogInv, NEW w \in Windows, PerformFailed(w)
    PROVE  LogInv'
<1> PICK e, kind : e = job[w].edit /\ kind = job[w].kind
  OBVIOUS
<1>1. job[w] # Free /\ job[w].step = "perform"
  BY DEF PerformFailed
<1>2. job[w] \in Job /\ e \in Edits /\ roots[e] \subseteq Docs
  BY <1>1, Rivals
<1>3. kind \in {"undo", "redo"}
  BY <1>2 DEF Job
<1>4. PICK written \in SUBSET roots[e] :
         /\ applied' = IF kind = "undo" THEN applied \ ({e} \X written)
                                        ELSE applied \cup ({e} \X written)
         /\ disturbed' = disturbed \cup IF written = {} THEN {} ELSE {e}
  BY DEF PerformFailed, Replayed
<1>5. /\ job' = [job EXCEPT ![w].step = "rollback"] /\ UNCHANGED <<stacks, roots, forgotten>>
      /\ twice' = twice
  BY DEF PerformFailed
<1>6. OnlyAbout(e)
  BY <1>4 DEF OnlyAbout
<1>7. disturbed \subseteq disturbed' /\ disturbed' \subseteq disturbed \cup {e}
  BY <1>4
<1>8. ASSUME e \notin disturbed' PROVE Ran(e, kind, FALSE)
  <2>1. \A c \in Docs : <<e, c>> \in applied' <=> <<e, c>> \in applied
    BY <1>4, <1>8
  <2>2. QED
    BY <1>2, <1>5, <2>1 DEF Everywhere, Nowhere, Ran
<1>9. TwiceOnlyWhenDisturbed'
  BY <1>5, <1>7 DEF LogInv, TwiceOnlyWhenDisturbed
<1>10. QED
  BY <1>1, <1>5, <1>6, <1>7, <1>8, <1>9, PerformKeeps
-----------------------------------------------------------------------------
(* A replay settles the stacks and ends.                                   *)

\* What the end of window w's replay does to the stacks of the documents in D.
Settles(w, D) ==
    /\ roots' = roots /\ applied' = applied
    /\ disturbed \subseteq disturbed' /\ forgotten \subseteq forgotten'
    /\ \A c \in Docs \ D : undoStack'[c] = undoStack[c] /\ redoStack'[c] = redoStack[c]
    /\ \A d \in D : \A f \in Edits : f # job[w].edit /\ Single(f) =>
          /\ Keeps(undoStack[d], undoStack'[d], f, forgotten')
          /\ Loses(redoStack[d], redoStack'[d], f)
    /\ \A v \in Windows \ {w} :
          job[v] # Free /\ job[v].edit \notin disturbed' /\ job[v].doc \in D
             => Near(job[v].edit, job[v].doc)

\* The end of a replay has to account only for its own edit.
LEMMA SettleKeeps ==
    ASSUME LogInv, Types', NEW w \in Windows, job[w] # Free, job' = [job EXCEPT ![w] = Free],
           NEW D \in SUBSET Docs, Settles(w, D), NEW e \in Edits, e = job[w].edit,
           e \notin disturbed' => Single(e)' /\ AtEase(e)'
    PROVE  Undisturbed'
<1>1. Types /\ Undisturbed
  BY DEF LogInv
<1>2. /\ e \in Edits
      /\ \A v \in Windows \ {w} : job[v] # Free /\ job[v].edit \notin disturbed => job[v].edit # e
      /\ \A v \in Windows : job[v] # Free => job[v].edit \in Edits /\ job[v].doc \in Docs
  BY Rivals
<1>3. job'[w] = Free /\ \A v \in Windows \ {w} : job'[v] = job[v]
  BY <1>1 DEF Types
<1>4. ASSUME NEW f \in Edits \ {e}, f \notin disturbed'
      PROVE  Spared(f) /\ \A c \in Docs \ D : Near(f, c)
  <2>1. Single(f)
    BY <1>1, <1>4 DEF Undisturbed, Settles
  <2>2. \A d \in D : /\ Keeps(undoStack[d], undoStack'[d], f, forgotten')
                     /\ Loses(redoStack[d], redoStack'[d], f)
    BY <2>1 DEF Settles
  <2>3. /\ \A c \in Docs : <<f, c>> \in applied' <=> <<f, c>> \in applied
        /\ roots' = roots /\ forgotten \subseteq forgotten'
        /\ \A c \in Docs \ D : undoStack'[c] = undoStack[c] /\ redoStack'[c] = redoStack[c]
    BY DEF Settles
  <2>4. QED
    BY <1>1, <2>2, <2>3, Elsewhere
<1>5. ASSUME NEW v \in Windows \ {w}, job[v] # Free, job[v].edit \notin disturbed'
      PROVE  job[v].edit # e /\ Near(job[v].edit, job[v].doc)
  <2>1. job[v].edit \in Edits \ {e} /\ job[v].doc \in Docs
    BY <1>2, <1>5 DEF Settles
  <2>2. QED
    BY <1>4, <1>5, <2>1 DEF Settles
<1>6. OthersKeep({w}, {e})
  BY <1>3, <1>4, <1>5 DEF OthersKeep, Settles
<1>7. /\ \A x \in {e} : x \notin disturbed' => Single(x)' /\ (x \notin InFlight' => AtEase(x)')
      /\ \A x \in {w} : job'[x] # Free /\ job'[x].edit \notin disturbed' => Underway(x)'
  BY <1>3
<1>8. {w} \in SUBSET Windows /\ {e} \in SUBSET Edits
  BY <1>2
<1>9. QED
  BY <1>6, <1>7, <1>8, StepKeeps

\* Free windows.
LEMMA Freed ==
    ASSUME Types, Placed, NEW w \in Windows, job' = [job EXCEPT ![w] = Free], roots' = roots
    PROVE  /\ job' \in [Windows -> Job \cup {Free}]
           /\ \A v \in Windows : job'[v] # Free => job'[v].doc \in roots'[job'[v].edit]
<1>1. job'[w] = Free /\ \A v \in Windows \ {w} : job'[v] = job[v]
  BY DEF Types
<1>2. QED
  BY <1>1 DEF Types, Placed

\* A stack with no edit on it is empty.
LEMMA EmptyStack ==
    ASSUME NEW s \in Seq(Edits)
    PROVE  s = <<>> <=> Range(s) = {}
<1>1. s = <<>> => Range(s) = {}
  BY DEF Range
<1>2. ASSUME s # <<>> PROVE Range(s) # {}
  <2>1. Len(s) \in Nat /\ Len(s) > 0 /\ DOMAIN s = 1..Len(s)
    BY <1>2
  <2>2. s[Len(s)] \in Range(s)
    BY <2>1 DEF Range
  <2>3. QED
    BY <2>2
<1>3. QED
  BY <1>1, <1>2

\* undolog.go UndoCommit: the entry leaves the other documents' stacks.
LEMMA UndoCommitKeeps ==
    ASSUME LogInv, NEW w \in Windows, UndoCommit(w)
    PROVE  LogInv'
<1>1. Types /\ Placed /\ Undisturbed
  BY DEF LogInv
<1> PICK e, d, D : e = job[w].edit /\ d = job[w].doc /\ D = Others(w)
  OBVIOUS
<1>2. job[w] # Free /\ job[w].kind = "undo" /\ job[w].step = "commit"
  BY DEF UndoCommit, At
<1>3. /\ e \in Edits /\ d \in Docs /\ d \in roots[e] /\ roots[e] \subseteq Docs
      /\ e \notin disturbed => Single(e) /\ Underway(w)
      /\ \A v \in Windows \ {w} : job[v] # Free /\ job[v].edit \notin disturbed => job[v].edit # e
      /\ \A v \in Windows : job[v] # Free => job[v].edit \in Edits /\ job[v].doc \in Docs
  BY <1>2, Rivals
<1>4. D = roots[e] \ {d} /\ D \in SUBSET Docs
  BY <1>3 DEF Others
<1>5. /\ undoStack' = [c \in Docs |-> IF c \in D THEN Without(undoStack[c], {e}) ELSE undoStack[c]]
      /\ job' = [job EXCEPT ![w] = Free]
      /\ redoStack' = redoStack /\ hasUndo' = hasUndo /\ known' = known /\ roots' = roots
      /\ applied' = applied /\ forgotten' = forgotten /\ disturbed' = disturbed /\ twice' = twice
  BY DEF UndoCommit, history
<1>6. ASSUME NEW c \in Docs
      PROVE  undoStack[c] \in Seq(Edits) /\ redoStack[c] \in Seq(Edits)
             /\ Removed(undoStack[c], {e}, Without(undoStack[c], {e}))
  <2>1. undoStack[c] \in Seq(Edits) /\ redoStack[c] \in Seq(Edits)
    BY <1>1 DEF Types
  <2>2. {e} \in SUBSET Edits
    BY <1>3
  <2>3. QED
    BY <2>1, <2>2, WithoutFacts
<1>7. /\ job' \in [Windows -> Job \cup {Free}]
      /\ \A v \in Windows : job'[v] # Free => job'[v].doc \in roots'[job'[v].edit]
  BY <1>1, <1>5, Freed
<1>8. Types'
  <2>1. undoStack' \in [Docs -> Seq(Edits)]
    BY <1>5, <1>6 DEF Removed
  <2>2. QED
    BY <1>1, <1>5, <1>7, <2>1 DEF Types
<1>9. \A c \in Docs : Range(undoStack'[c]) \subseteq Range(undoStack[c])
  BY <1>5, <1>6 DEF Removed
<1>10. Placed'
  <2>1. ASSUME NEW c \in Docs, c \notin known PROVE undoStack'[c] = <<>>
    <3>1. Range(undoStack[c]) = {}
      BY <1>1, <1>6, <2>1, EmptyStack DEF Placed
    <3>2. undoStack'[c] \in Seq(Edits) /\ Range(undoStack'[c]) = {}
      BY <1>8, <1>9, <3>1 DEF Types
    <3>3. QED
      BY <3>2, EmptyStack
  <2>2. QED
    BY <1>1, <1>5, <1>7, <1>9, <2>1 DEF Placed
<1>11. ASSUME NEW c \in D, NEW f \in Edits, Single(f)
       PROVE  /\ f # e => Keeps(undoStack[c], undoStack'[c], f, forgotten')
              /\ Tops(undoStack[c], undoStack'[c], f)
              /\ f = e => f \notin Range(undoStack'[c]) /\ OnceIn(undoStack'[c], f)
  <2>1. c \in Docs /\ OnceIn(undoStack[c], f)
    BY <1>4, <1>11 DEF Single
  <2>2. undoStack'[c] = Without(undoStack[c], {e})
    BY <1>5, <2>1
  <2>3. Removed(undoStack[c], {e}, undoStack'[c])
    BY <1>6, <2>1, <2>2
  <2>4. QED
    BY <2>1, <2>3 DEF Removed, Keeps, Loses, Tops, AtTop
<1>12. \A c \in Docs : redoStack'[c] = redoStack[c] /\ (c \notin D => undoStack'[c] = undoStack[c])
  BY <1>5
<1>13. \A c \in D : \A f \in Edits : f # e /\ Single(f) =>
          /\ Keeps(undoStack[c], undoStack'[c], f, forgotten')
          /\ Loses(redoStack[c], redoStack'[c], f)
  BY <1>4, <1>6, <1>11, <1>12, Kept DEF Keeps
<1>14. ASSUME NEW v \in Windows \ {w}, job[v] # Free, job[v].edit \notin disturbed', job[v].doc \in D
       PROVE  Near(job[v].edit, job[v].doc)
  <2>1. job[v].edit \in Edits /\ job[v].edit \notin disturbed
    BY <1>3, <1>5, <1>14
  <2>2. Single(job[v].edit)
    BY <1>1, <2>1 DEF Undisturbed
  <2>3. Tops(undoStack[job[v].doc], undoStack'[job[v].doc], job[v].edit)
    BY <1>11, <1>14, <2>1, <2>2
  <2>4. QED
    BY <1>4, <1>6, <1>12, <1>14, <2>1, <2>3, Kept DEF Near
<1>15. ASSUME e \notin disturbed' PROVE Single(e)' /\ AtEase(e)'
  <2>1. Single(e) /\ Undoing(e, d, TRUE)
    BY <1>2, <1>3, <1>5, <1>15 DEF Underway
  <2>2. Nowhere(e)'
    BY <1>5, <2>1 DEF Undoing, Nowhere
  <2>3. \A c \in Docs : e \notin Range(undoStack'[c]) /\ OnceIn(undoStack'[c], e)
    <3> SUFFICES ASSUME NEW c \in Docs
                 PROVE  e \notin Range(undoStack'[c]) /\ OnceIn(undoStack'[c], e)
      OBVIOUS
    <3>1. CASE c \in D
      BY <1>3, <1>11, <2>1, <3>1
    <3>2. CASE c = d
      BY <1>4, <1>12, <2>1, <3>2 DEF Undoing, Single
    <3>3. CASE c \notin roots[e]
      BY <1>1, <1>4, <1>12, <2>1, <3>3 DEF Placed, Single
    <3>4. QED
      BY <1>4, <3>1, <3>2, <3>3
  <2>4. Single(e)'
    BY <1>12, <2>1, <2>3 DEF Single
  <2>5. \A c \in Docs : e \in Range(redoStack'[c]) => <<e, c>> \notin applied'
    BY <1>8, <1>10, <2>2 DEF Nowhere, Placed
  <2>6. QED
    BY <2>2, <2>3, <2>4, <2>5 DEF AtEase, Nowhere
<1>16. Settles(w, D)
  BY <1>5, <1>12, <1>13, <1>14 DEF Settles
<1>17. Undisturbed'
  BY <1>2, <1>3, <1>4, <1>5, <1>8, <1>15, <1>16, SettleKeeps
<1>18. TwiceOnlyWhenDisturbed'
  BY <1>5 DEF LogInv, TwiceOnlyWhenDisturbed
<1>19. QED
  BY <1>8, <1>10, <1>17, <1>18 DEF LogInv

\* Nothing is put back on a document whose stacks were cleared.
LEMMA ClearedKeeps ==
    ASSUME LogInv, NEW w \in Windows, job[w] # Free, job[w].step = "rollback",
           job[w].doc \notin known, job' = [job EXCEPT ![w] = Free],
           UNCHANGED <<stacks, roots, applied, history>>
    PROVE  LogInv'
<1>1. Types /\ Placed /\ Undisturbed
  BY DEF LogInv
<1> PICK e, d : e = job[w].edit /\ d = job[w].doc
  OBVIOUS
<1>2. /\ job[w] \in Job /\ e \in Edits /\ d \in Docs /\ d \in roots[e] /\ roots[e] \subseteq Docs
      /\ e \notin disturbed => Single(e) /\ Underway(w)
  BY Rivals
<1>3. /\ undoStack' = undoStack /\ redoStack' = redoStack /\ hasUndo' = hasUndo /\ known' = known
      /\ roots' = roots /\ applied' = applied /\ forgotten' = forgotten
      /\ disturbed' = disturbed /\ twice' = twice
  BY DEF stacks, history
<1>4. /\ job' \in [Windows -> Job \cup {Free}]
      /\ \A v \in Windows : job'[v] # Free => job'[v].doc \in roots'[job'[v].edit]
  BY <1>1, <1>3, Freed
<1>5. Types' /\ Placed'
  BY <1>1, <1>3, <1>4 DEF Types, Placed
<1>6. Settles(w, {})
  BY <1>3 DEF Settles
<1>7. ASSUME e \notin disturbed' PROVE Single(e)' /\ AtEase(e)'
  <2>1. /\ Single(e) /\ (job[w].kind = "undo" => Undoing(e, d, FALSE))
        /\ (job[w].kind = "redo" => Redoing(e, d, FALSE))
    BY <1>2, <1>3, <1>7 DEF Underway
  <2>2. Range(undoStack[d]) = {} /\ Range(redoStack[d]) = {}
    BY <1>1, <1>2 DEF Placed, Range
  <2>3. \A c \in Docs : /\ e \in Range(undoStack[c]) \cup Range(redoStack[c]) => c \in roots[e]
    BY <1>1 DEF Placed
  <2>4. CASE job[w].kind = "undo"
    BY <1>2, <1>3, <2>1, <2>2, <2>3, <2>4 DEF Undoing, AtEase, Everywhere, Single
  <2>5. CASE job[w].kind = "redo"
    BY <1>2, <1>3, <2>1, <2>2, <2>3, <2>5 DEF Redoing, AtEase, Nowhere, Single
  <2>6. QED
    BY <1>2, <2>4, <2>5 DEF Job
<1>8. Undisturbed'
  BY <1>2, <1>5, <1>6, <1>7, SettleKeeps
<1>9. TwiceOnlyWhenDisturbed'
  BY <1>3 DEF LogInv, TwiceOnlyWhenDisturbed
<1>10. QED
  BY <1>5, <1>8, <1>9 DEF LogInv

\* The edit goes from one of its document's stacks to the other.
PutBack(w, e, d, s, r) ==
    /\ e = job[w].edit /\ d = job[w].doc /\ d \in known /\ job' = [job EXCEPT ![w] = Free]
    /\ undoStack' = [undoStack EXCEPT ![d] = s] /\ redoStack' = [redoStack EXCEPT ![d] = r]
    /\ \E flag \in BOOLEAN : hasUndo' = [hasUndo EXCEPT ![d] = flag]
    /\ forgotten \subseteq forgotten' /\ UNCHANGED <<known, roots, applied, disturbed, twice>>
    /\ Range(s) \subseteq Range(undoStack[d]) \cup {e}
    /\ Range(r) \subseteq Range(redoStack[d]) \cup {e}
    /\ \A f \in Edits \ {e} : /\ Keeps(undoStack[d], s, f, forgotten')
                               /\ Loses(redoStack[d], r, f)

\* A rollback that finds the document's stacks puts the entry back.
LEMMA PutBackKeeps ==
    ASSUME LogInv, NEW w \in Windows, job[w] # Free, NEW e \in Edits, NEW d \in Docs,
           NEW s \in Seq(Edits), NEW r \in Seq(Edits), PutBack(w, e, d, s, r),
           Single(e) /\ Underway(w) => Single(e)' /\ AtEase(e)'
    PROVE  LogInv'
<1>0. /\ e = job[w].edit /\ d = job[w].doc /\ d \in known /\ job' = [job EXCEPT ![w] = Free]
      /\ undoStack' = [undoStack EXCEPT ![d] = s] /\ redoStack' = [redoStack EXCEPT ![d] = r]
      /\ forgotten \subseteq forgotten' /\ known' = known /\ roots' = roots
      /\ applied' = applied /\ disturbed' = disturbed /\ twice' = twice
  BY DEF PutBack
<1>1. Types /\ Placed /\ Undisturbed
  BY DEF LogInv
<1>2. /\ job[w] \in Job /\ d \in roots[e] /\ roots[e] \subseteq Docs
      /\ \A v \in Windows \ {w} : job[v] # Free /\ job[v].edit \notin disturbed => job[v].doc # d
      /\ e \notin disturbed => Single(e) /\ Underway(w)
  BY <1>0, Rivals
<1>3. /\ undoStack'[d] = s /\ redoStack'[d] = r
      /\ \A c \in Docs \ {d} : undoStack'[c] = undoStack[c] /\ redoStack'[c] = redoStack[c]
  BY <1>0, <1>1 DEF Types
<1>4. /\ job' \in [Windows -> Job \cup {Free}]
      /\ \A v \in Windows : job'[v] # Free => job'[v].doc \in roots'[job'[v].edit]
  BY <1>0, <1>1, Freed
<1>5. Types'
  BY <1>0, <1>1, <1>4 DEF Types, PutBack
<1>6. Placed'
  <2>1. ASSUME NEW c \in Docs
        PROVE  /\ \A f \in Range(undoStack'[c]) \cup Range(redoStack'[c]) : c \in roots[f]
               /\ c \notin known => undoStack'[c] = <<>> /\ redoStack'[c] = <<>>
    <3>1. CASE c = d
      BY <1>0, <1>1, <1>2, <1>3, <3>1 DEF Placed, PutBack
    <3>2. CASE c # d
      BY <1>1, <1>3, <3>2 DEF Placed
    <3>3. QED
      BY <3>1, <3>2
  <2>2. QED
    BY <1>0, <1>1, <1>4, <2>1 DEF Placed
<1>7. Settles(w, {d})
  BY <1>0, <1>2, <1>3 DEF Settles, PutBack
<1>8. Undisturbed'
  BY <1>0, <1>2, <1>5, <1>7, SettleKeeps
<1>9. TwiceOnlyWhenDisturbed'
  BY <1>0 DEF LogInv, TwiceOnlyWhenDisturbed
<1>10. QED
  BY <1>5, <1>6, <1>8, <1>9 DEF LogInv

\* undolog.go UndoRollback.
LEMMA UndoRollbackKeeps ==
    ASSUME LogInv, NEW w \in Windows, UndoRollback(w)
    PROVE  LogInv'
<1>1. Types /\ Placed
  BY DEF LogInv
<1> PICK e, d : e = job[w].edit /\ d = job[w].doc
  OBVIOUS
<1>2. /\ job[w] # Free /\ job[w].kind = "undo" /\ job[w].step = "rollback"
      /\ job' = [job EXCEPT ![w] = Free]
      /\ UNCHANGED <<roots, applied, forgotten, disturbed, twice>>
  BY DEF UndoRollback, At
<1>3. e \in Edits /\ d \in Docs /\ d \in roots[e] /\ roots[e] \subseteq Docs
  BY <1>2, Rivals
<1>4. CASE d \notin known
  <2>1. UNCHANGED stacks
    BY <1>4 DEF UndoRollback
  <2>2. QED
    BY <1>2, <1>4, <2>1, ClearedKeeps DEF history
<1>5. CASE d \in known
  <2> PICK s, r : s = Append(undoStack[d], e) /\ r = WithoutTop(redoStack[d], e)
    OBVIOUS
  <2>1. /\ undoStack' = [undoStack EXCEPT ![d] = s] /\ redoStack' = [redoStack EXCEPT ![d] = r]
        /\ hasUndo' = [hasUndo EXCEPT ![d] = FALSE] /\ known' = known
    BY <1>5 DEF UndoRollback
  <2>2. undoStack[d] \in Seq(Edits) /\ redoStack[d] \in Seq(Edits)
    BY <1>1, <1>3 DEF Types
  <2>3. /\ s \in Seq(Edits) /\ Range(s) = Range(undoStack[d]) \cup {e}
        /\ e \notin Range(undoStack[d]) => OnceIn(s, e)
        /\ \A f \in Edits \ {e} : \A gone : Keeps(undoStack[d], s, f, gone)
    BY <1>3, <2>2, Pushed
  <2>4. /\ r \in Seq(Edits) /\ Range(r) \subseteq Range(redoStack[d])
        /\ AtTop(redoStack[d], e) /\ OnceIn(redoStack[d], e) => e \notin Range(r)
        /\ \A f \in Edits \ {e} : \A gone : Keeps(redoStack[d], r, f, gone)
    BY <1>3, <2>2, TopOff
  <2>5. \A f \in Edits \ {e} : /\ Keeps(undoStack[d], s, f, forgotten')
                               /\ Loses(redoStack[d], r, f)
    BY <2>3, <2>4 DEF Keeps
  <2>6. ASSUME Single(e), Underway(w) PROVE Single(e)' /\ AtEase(e)'
    <3>1. Undoing(e, d, FALSE)
      BY <1>2, <2>6 DEF Underway
    <3>2. /\ undoStack'[d] = s /\ redoStack'[d] = r
          /\ \A c \in Docs \ {d} : undoStack'[c] = undoStack[c] /\ redoStack'[c] = redoStack[c]
      BY <1>1, <1>3, <2>1 DEF Types
    <3>3. \A c \in Docs : e \notin Range(redoStack'[c]) /\ OnceIn(redoStack'[c], e)
      <4>1. e \notin Range(r) /\ OnceIn(r, e)
        <5>1. e \notin Range(r)
          BY <1>3, <2>4, <2>6, <3>1 DEF Undoing, Single
        <5>2. QED
          BY <5>1 DEF OnceIn, Range
      <4>2. QED
        BY <2>6, <3>1, <3>2, <4>1 DEF Undoing, Single
    <3>4. \A c \in Docs : OnceIn(undoStack'[c], e)
      BY <2>3, <2>6, <3>1, <3>2 DEF Undoing, Single
    <3>5. Single(e)'
      BY <3>3, <3>4 DEF Single
    <3>6. Everywhere(e)'
      BY <1>2, <3>1 DEF Undoing, Everywhere
    <3>7. \A c \in Docs : e \in Range(undoStack'[c]) => <<e, c>> \in applied'
      BY <1>1, <1>2, <1>3, <3>1, <3>2 DEF Undoing, Everywhere, Placed
    <3>8. e \notin forgotten' => \A c \in roots'[e] : e \in Range(undoStack'[c])
      BY <1>2, <1>3, <2>3, <3>1, <3>2 DEF Undoing
    <3>9. QED
      BY <3>3, <3>5, <3>6, <3>7, <3>8 DEF AtEase
  <2>7. PutBack(w, e, d, s, r)
    BY <1>2, <1>5, <2>1, <2>3, <2>4, <2>5 DEF PutBack
  <2>8. QED
    BY <1>2, <1>3, <2>3, <2>4, <2>6, <2>7, PutBackKeeps
<1>6. QED
  BY <1>4, <1>5

\* undolog.go RedoRollback.
LEMMA RedoRollbackKeeps ==
    ASSUME LogInv, NEW w \in Windows, RedoRollback(w)
    PROVE  LogInv'
<1>1. Types /\ Placed
  BY DEF LogInv
<1> PICK e, d : e = job[w].edit /\ d = job[w].doc
  OBVIOUS
<1>2. /\ job[w] # Free /\ job[w].kind = "redo" /\ job[w].step = "rollback"
      /\ job' = [job EXCEPT ![w] = Free]
      /\ UNCHANGED <<roots, applied, disturbed, twice>>
  BY DEF RedoRollback, At
<1>3. e \in Edits /\ d \in Docs /\ d \in roots[e] /\ roots[e] \subseteq Docs
  BY <1>2, Rivals
<1>4. CASE d \notin known
  <2>1. UNCHANGED <<stacks, forgotten>>
    BY <1>4 DEF RedoRollback
  <2>2. QED
    BY <1>2, <1>4, <2>1, ClearedKeeps DEF history
<1>5. CASE d \in known
  <2> PICK s, r : s = WithoutTop(undoStack[d], e) /\ r = Trim(Append(redoStack[d], e))
    OBVIOUS
  <2>1. /\ undoStack' = [undoStack EXCEPT ![d] = s] /\ redoStack' = [redoStack EXCEPT ![d] = r]
        /\ hasUndo' = hasUndo /\ known' = known
        /\ forgotten' = forgotten \cup Cut(Append(redoStack[d], e))
    BY <1>5 DEF RedoRollback
  <2>2. undoStack[d] \in Seq(Edits) /\ redoStack[d] \in Seq(Edits)
    BY <1>1, <1>3 DEF Types
  <2>3. /\ r \in Seq(Edits) /\ Range(r) \subseteq Range(redoStack[d]) \cup {e}
        /\ e \notin Range(redoStack[d]) => OnceIn(r, e)
        /\ \A f \in Edits \ {e} : Keeps(redoStack[d], r, f, Cut(Append(redoStack[d], e)))
    BY <1>3, <2>2, TrimPushed
  <2>4. /\ s \in Seq(Edits) /\ Range(s) \subseteq Range(undoStack[d])
        /\ AtTop(undoStack[d], e) /\ OnceIn(undoStack[d], e) => e \notin Range(s)
        /\ \A f \in Edits \ {e} : \A gone : Keeps(undoStack[d], s, f, gone)
    BY <1>3, <2>2, TopOff
  <2>5. \A f \in Edits \ {e} : /\ Keeps(undoStack[d], s, f, forgotten')
                               /\ Loses(redoStack[d], r, f)
    BY <2>3, <2>4 DEF Keeps
  <2>6. ASSUME Single(e), Underway(w) PROVE Single(e)' /\ AtEase(e)'
    <3>1. Redoing(e, d, FALSE)
      BY <1>2, <2>6 DEF Underway
    <3>2. /\ undoStack'[d] = s /\ redoStack'[d] = r
          /\ \A c \in Docs \ {d} : undoStack'[c] = undoStack[c] /\ redoStack'[c] = redoStack[c]
      BY <1>1, <1>3, <2>1 DEF Types
    <3>3. \A c \in Docs : e \notin Range(undoStack'[c]) /\ OnceIn(undoStack'[c], e)
      <4>1. e \notin Range(s) /\ OnceIn(s, e)
        <5>1. e \notin Range(s)
          BY <1>3, <2>4, <2>6, <3>1 DEF Redoing, Single
        <5>2. QED
          BY <5>1 DEF OnceIn, Range
      <4>2. QED
        BY <2>6, <3>1, <3>2, <4>1 DEF Redoing, Single
    <3>4. /\ \A c \in Docs : OnceIn(redoStack'[c], e)
          /\ \A c \in Docs \ {d} : e \notin Range(redoStack'[c])
      BY <1>3, <2>3, <2>6, <3>1, <3>2 DEF Redoing, Single
    <3>5. Single(e)'
      BY <3>3, <3>4 DEF Single
    <3>6. Nowhere(e)'
      BY <1>2, <3>1 DEF Redoing, Nowhere
    <3>7. \A c \in Docs : e \in Range(redoStack'[c]) => <<e, c>> \notin applied'
      BY <1>2, <1>3, <3>1, <3>4 DEF Redoing, Nowhere
    <3>8. QED
      BY <3>3, <3>5, <3>6, <3>7 DEF AtEase, Nowhere
  <2>7. \E flag \in BOOLEAN : hasUndo' = [hasUndo EXCEPT ![d] = flag]
    <3>1. hasUndo[d] \in BOOLEAN /\ hasUndo = [hasUndo EXCEPT ![d] = hasUndo[d]]
      BY <1>1, <1>3 DEF Types
    <3>2. QED
      BY <2>1, <3>1
  <2>8. PutBack(w, e, d, s, r)
    BY <1>2, <1>5, <2>1, <2>3, <2>4, <2>5, <2>7 DEF PutBack
  <2>9. QED
    BY <1>2, <1>3, <2>3, <2>4, <2>6, <2>8, PutBackKeeps
<1>6. QED
  BY <1>4, <1>5

\* undolog.go RedoCommit: the entry is put on the other documents' stacks.
LEMMA RedoCommitKeeps ==
    ASSUME LogInv, NEW w \in Windows, RedoCommit(w)
    PROVE  LogInv'
<1>1. Types /\ Placed /\ Undisturbed
  BY DEF LogInv
<1> PICK e, d, D : e = job[w].edit /\ d = job[w].doc /\ D = Others(w)
  OBVIOUS
<1>2. job[w] # Free /\ job[w].kind = "redo" /\ job[w].step = "commit"
  BY DEF RedoCommit, At
<1>3. /\ e \in Edits /\ d \in Docs /\ d \in roots[e] /\ roots[e] \subseteq Docs
      /\ e \notin disturbed => Single(e) /\ Underway(w)
  BY <1>2, Rivals
<1>4. D = roots[e] \ {d} /\ D \in SUBSET Docs
  BY <1>3 DEF Others
<1>5. /\ undoStack' = [c \in Docs |-> IF c \in D THEN Trim(Append(undoStack[c], e)) ELSE undoStack[c]]
      /\ forgotten' = forgotten \cup UNION {Cut(Append(undoStack[c], e)) : c \in D}
      /\ job' = [job EXCEPT ![w] = Free]
      /\ redoStack' = redoStack /\ hasUndo' = hasUndo /\ known' = known \cup D /\ roots' = roots
      /\ applied' = applied /\ disturbed' = disturbed \cup Busy(D) /\ twice' = twice
  BY DEF RedoCommit
<1>6. ASSUME NEW c \in D
      PROVE  /\ c \in Docs /\ undoStack'[c] \in Seq(Edits) /\ e \in Range(undoStack'[c])
             /\ e \notin Range(undoStack[c]) => OnceIn(undoStack'[c], e)
             /\ Range(undoStack'[c]) \subseteq Range(undoStack[c]) \cup {e}
             /\ \A f \in Edits \ {e} : Keeps(undoStack[c], undoStack'[c], f, forgotten')
  <2>1. c \in Docs /\ undoStack[c] \in Seq(Edits)
    BY <1>1, <1>4 DEF Types
  <2> PICK t : t = Trim(Append(undoStack[c], e))
    OBVIOUS
  <2>2. undoStack'[c] = t /\ Cut(Append(undoStack[c], e)) \subseteq forgotten'
    BY <1>5, <2>1
  <2>3. /\ t \in Seq(Edits) /\ e \in Range(t)
        /\ e \notin Range(undoStack[c]) => OnceIn(t, e)
        /\ Range(t) \subseteq Range(undoStack[c]) \cup {e}
        /\ \A f \in Edits \ {e} : Keeps(undoStack[c], t, f, Cut(Append(undoStack[c], e)))
    BY <1>3, <2>1, TrimPushed
  <2>4. QED
    BY <2>1, <2>2, <2>3 DEF Keeps
<1>7. \A c \in Docs : redoStack'[c] = redoStack[c] /\ (c \notin D => undoStack'[c] = undoStack[c])
  BY <1>5
<1>8. /\ job' \in [Windows -> Job \cup {Free}]
      /\ \A v \in Windows : job'[v] # Free => job'[v].doc \in roots'[job'[v].edit]
  BY <1>1, <1>5, Freed
<1>9. Types'
  <2>1. \A c \in Docs : undoStack'[c] \in Seq(Edits)
    BY <1>1, <1>6, <1>7 DEF Types
  <2>2. undoStack' \in [Docs -> Seq(Edits)]
    BY <1>5, <2>1
  <2>3. QED
    BY <1>1, <1>4, <1>5, <1>8, <2>2 DEF Types
<1>10. Placed'
  <2>1. ASSUME NEW c \in Docs
        PROVE  /\ \A f \in Range(undoStack'[c]) \cup Range(redoStack'[c]) : c \in roots[f]
               /\ c \notin known' => undoStack'[c] = <<>> /\ redoStack'[c] = <<>>
    <3>1. CASE c \in D
      BY <1>1, <1>4, <1>5, <1>6, <1>7, <3>1 DEF Placed
    <3>2. CASE c \notin D
      BY <1>1, <1>5, <1>7, <3>2 DEF Placed
    <3>3. QED
      BY <3>1, <3>2
  <2>2. QED
    BY <1>1, <1>5, <1>8, <2>1 DEF Placed
<1>11. \A c \in D : \A f \in Edits : f # e /\ Single(f) =>
          /\ Keeps(undoStack[c], undoStack'[c], f, forgotten')
          /\ Loses(redoStack[c], redoStack'[c], f)
  <2> SUFFICES ASSUME NEW c \in D, NEW f \in Edits, f # e
               PROVE  Loses(redoStack[c], redoStack'[c], f)
    BY <1>6
  <2>1. redoStack[c] \in Seq(Edits) /\ redoStack'[c] = redoStack[c]
    BY <1>1, <1>6, <1>7 DEF Types
  <2>2. QED
    BY <2>1 DEF Loses
<1>12. \A v \in Windows : job[v] # Free /\ job[v].doc \in D => job[v].edit \in disturbed'
  BY <1>5 DEF Busy
<1>13. Settles(w, D)
  BY <1>5, <1>7, <1>11, <1>12 DEF Settles
<1>14. ASSUME e \notin disturbed' PROVE Single(e)' /\ AtEase(e)'
  <2>1. Single(e) /\ Redoing(e, d, TRUE)
    BY <1>2, <1>3, <1>5, <1>14 DEF Underway
  <2>2. Everywhere(e)'
    BY <1>5, <2>1 DEF Redoing, Everywhere
  <2>3. \A c \in Docs : e \notin Range(redoStack'[c])
    BY <1>5, <2>1 DEF Redoing
  <2>4. \A c \in Docs : OnceIn(undoStack'[c], e) /\ OnceIn(redoStack'[c], e)
    BY <1>4, <1>6, <1>7, <2>1 DEF Redoing, Single
  <2>5. Single(e)'
    BY <2>3, <2>4 DEF Single
  <2>6. \A c \in Docs : e \in Range(undoStack'[c]) => <<e, c>> \in applied'
    BY <1>10, <2>2 DEF Everywhere, Placed
  <2>7. e \notin forgotten' => \A c \in roots'[e] : e \in Range(undoStack'[c])
    BY <1>3, <1>4, <1>5, <1>6, <1>7, <2>1 DEF Redoing
  <2>8. QED
    BY <2>2, <2>3, <2>5, <2>6, <2>7 DEF AtEase
<1>15. Undisturbed'
  BY <1>2, <1>3, <1>4, <1>5, <1>9, <1>13, <1>14, SettleKeeps
<1>16. TwiceOnlyWhenDisturbed'
  BY <1>5 DEF LogInv, TwiceOnlyWhenDisturbed
<1>17. QED
  BY <1>9, <1>10, <1>15, <1>16 DEF LogInv
-----------------------------------------------------------------------------
(* An edit is recorded; stacks are cleared.                                *)

\* undolog.go Record: an edit goes on the stacks of its documents.
LEMMA RecordKeeps ==
    ASSUME LogInv, Record
    PROVE  LogInv'
<1>1. Types /\ Placed /\ Undisturbed
  BY DEF LogInv
<1>2. PICK e \in Edits, docs \in SUBSET Docs \ {{}} :
         /\ roots[e] = {}
         /\ roots' = [roots EXCEPT ![e] = docs]
         /\ applied' = applied \cup {e} \X docs
         /\ undoStack' = [d \in Docs |-> IF d \in docs THEN Trim(Append(undoStack[d], e))
                                                       ELSE undoStack[d]]
         /\ redoStack' = [d \in Docs |-> IF d \in docs THEN KeptRedo(d) ELSE redoStack[d]]
         /\ hasUndo' = [d \in Docs |-> hasUndo[d] /\ d \notin docs]
         /\ known' = known \cup docs
         /\ disturbed' = disturbed \cup Busy(docs)
         /\ forgotten' = forgotten \cup UNION {Cut(Append(undoStack[d], e)) : d \in docs}
         /\ job' = job /\ twice' = twice
  BY DEF Record
<1>3. docs \in SUBSET Docs
  OBVIOUS
<1>4. /\ roots' \in [Edits -> SUBSET Docs] /\ roots'[e] = docs
      /\ \A f \in Edits \ {e} : roots'[f] = roots[f]
  BY <1>1, <1>2 DEF Types
<1>5. \A c \in Docs : e \notin Range(undoStack[c]) /\ e \notin Range(redoStack[c])
  BY <1>1, <1>2 DEF Placed
<1>6. \A v \in Windows : job[v] # Free =>
         job[v].edit # e /\ job[v].edit \in Edits /\ job[v].doc \in Docs
  BY <1>1, <1>2 DEF Types, Placed, Job
<1>7. ASSUME NEW c \in docs
      PROVE  /\ c \in Docs /\ undoStack'[c] \in Seq(Edits) /\ e \in Range(undoStack'[c])
             /\ OnceIn(undoStack'[c], e)
             /\ Range(undoStack'[c]) \subseteq Range(undoStack[c]) \cup {e}
             /\ \A f \in Edits \ {e} : Keeps(undoStack[c], undoStack'[c], f, forgotten')
  <2>1. c \in Docs /\ undoStack[c] \in Seq(Edits)
    BY <1>1, <1>3 DEF Types
  <2> PICK t : t = Trim(Append(undoStack[c], e))
    OBVIOUS
  <2>2. undoStack'[c] = t /\ Cut(Append(undoStack[c], e)) \subseteq forgotten'
    BY <1>2, <2>1
  <2>3. /\ t \in Seq(Edits) /\ e \in Range(t)
        /\ e \notin Range(undoStack[c]) => OnceIn(t, e)
        /\ Range(t) \subseteq Range(undoStack[c]) \cup {e}
        /\ \A f \in Edits \ {e} : Keeps(undoStack[c], t, f, Cut(Append(undoStack[c], e)))
    BY <2>1, TrimPushed
  <2>4. QED
    BY <1>5, <2>1, <2>2, <2>3 DEF Keeps
<1>8. ASSUME NEW c \in docs
      PROVE  /\ redoStack'[c] \in Seq(Edits) /\ Range(redoStack'[c]) \subseteq Range(redoStack[c])
             /\ \A f \in Edits : Loses(redoStack[c], redoStack'[c], f)
  <2>1. c \in Docs /\ redoStack[c] \in Seq(Edits)
    BY <1>1, <1>3 DEF Types
  <2>2. redoStack'[c] = KeptRedo(c)
    BY <1>2, <2>1
  <2>3. CASE hasUndo[c]
    <3>1. redoStack'[c] = <<>>
      BY <2>2, <2>3 DEF KeptRedo
    <3>2. QED
      BY <3>1 DEF Loses, OnceIn, Range
  <2>4. CASE ~hasUndo[c]
    <3>1. redoStack'[c] = redoStack[c]
      BY <2>2, <2>4 DEF KeptRedo
    <3>2. QED
      BY <2>1, <3>1 DEF Loses
  <2>5. QED
    BY <2>3, <2>4
<1>9. \A c \in Docs \ docs : undoStack'[c] = undoStack[c] /\ redoStack'[c] = redoStack[c]
  BY <1>2
<1>10. Types'
  <2>1. \A c \in Docs : undoStack'[c] \in Seq(Edits) /\ redoStack'[c] \in Seq(Edits)
    BY <1>1, <1>7, <1>8, <1>9 DEF Types
  <2>2. undoStack' \in [Docs -> Seq(Edits)] /\ redoStack' \in [Docs -> Seq(Edits)]
    BY <1>2, <2>1
  <2>3. hasUndo' \in [Docs -> BOOLEAN]
    BY <1>2
  <2>4. known' \subseteq Docs /\ job' \in [Windows -> Job \cup {Free}]
    BY <1>1, <1>2, <1>3 DEF Types
  <2>5. QED
    BY <1>4, <2>2, <2>3, <2>4 DEF Types
<1>11. Placed'
  <2>1. ASSUME NEW c \in Docs
        PROVE  /\ \A f \in Range(undoStack'[c]) \cup Range(redoStack'[c]) : c \in roots'[f]
               /\ c \notin known' => undoStack'[c] = <<>> /\ redoStack'[c] = <<>>
    <3>1. \A f \in Range(undoStack[c]) \cup Range(redoStack[c]) : f \in Edits \ {e} /\ c \in roots[f]
      <4>1. Range(undoStack[c]) \subseteq Edits /\ Range(redoStack[c]) \subseteq Edits
        BY <1>1 DEF Types, Range
      <4>2. QED
        BY <1>1, <1>5, <4>1 DEF Placed
    <3>2. CASE c \in docs
      <4>1. Range(undoStack'[c]) \cup Range(redoStack'[c])
              \subseteq Range(undoStack[c]) \cup Range(redoStack[c]) \cup {e}
        BY <1>7, <1>8, <3>2
      <4>2. c \in roots'[e] /\ c \in known'
        BY <1>2, <1>4, <3>2
      <4>3. \A f \in Range(undoStack[c]) \cup Range(redoStack[c]) : c \in roots'[f]
        BY <1>4, <3>1
      <4>4. QED
        BY <4>1, <4>2, <4>3
    <3>3. CASE c \notin docs
      BY <1>1, <1>2, <1>4, <1>9, <3>1, <3>3 DEF Placed
    <3>4. QED
      BY <3>2, <3>3
  <2>2. \A f \in Edits, c \in Docs : <<f, c>> \in applied' => c \in roots'[f]
    BY <1>1, <1>2, <1>4 DEF Placed
  <2>3. \A v \in Windows : job'[v] # Free => job'[v].doc \in roots'[job'[v].edit]
    BY <1>1, <1>2, <1>4, <1>6 DEF Placed
  <2>4. QED
    BY <2>1, <2>2, <2>3 DEF Placed
<1>12. ASSUME NEW f \in Edits \ {e}
       PROVE  Spared(f) /\ \A c \in Docs \ docs : Near(f, c)
  <2>1. \A d \in docs : /\ Keeps(undoStack[d], undoStack'[d], f, forgotten')
                        /\ Loses(redoStack[d], redoStack'[d], f)
    BY <1>7, <1>8
  <2>2. /\ roots'[f] = roots[f] /\ forgotten \subseteq forgotten'
        /\ \A c \in Docs : <<f, c>> \in applied' <=> <<f, c>> \in applied
    BY <1>2, <1>4
  <2>3. QED
    BY <1>1, <1>3, <1>9, <2>1, <2>2, Elsewhere
<1>13. \A v \in Windows : job[v] # Free /\ job[v].doc \in docs => job[v].edit \in disturbed'
  BY <1>2 DEF Busy
<1>14. OthersKeep({}, {e})
  BY <1>2, <1>6, <1>12, <1>13 DEF OthersKeep
<1>15. Single(e)' /\ AtEase(e)'
  <2>1. \A c \in Docs : e \notin Range(redoStack'[c])
    BY <1>5, <1>8, <1>9
  <2>2. \A c \in Docs : OnceIn(undoStack'[c], e) /\ OnceIn(redoStack'[c], e)
    <3>1. \A c \in Docs \ docs : e \notin Range(undoStack'[c])
      BY <1>5, <1>9
    <3>2. \A c \in Docs : OnceIn(redoStack'[c], e)
      BY <2>1 DEF OnceIn, Range
    <3>3. \A c \in Docs \ docs : OnceIn(undoStack'[c], e)
      BY <3>1 DEF OnceIn, Range
    <3>4. QED
      BY <1>7, <3>2, <3>3
  <2>3. Single(e)'
    BY <2>1, <2>2 DEF Single
  <2>4. Everywhere(e)'
    BY <1>2, <1>4 DEF Everywhere
  <2>5. \A c \in Docs : e \in Range(undoStack'[c]) => <<e, c>> \in applied'
    BY <1>11, <2>4 DEF Everywhere, Placed
  <2>6. \A c \in roots'[e] : e \in Range(undoStack'[c])
    BY <1>4, <1>7
  <2>7. QED
    BY <2>1, <2>3, <2>4, <2>5, <2>6 DEF AtEase
<1>16. Undisturbed'
  <2>1. /\ \A x \in {e} : x \notin disturbed' => Single(x)' /\ (x \notin InFlight' => AtEase(x)')
        /\ \A x \in {} : job'[x] # Free /\ job'[x].edit \notin disturbed' => Underway(x)'
    BY <1>15
  <2>2. {} \in SUBSET Windows /\ {e} \in SUBSET Edits
    OBVIOUS
  <2>3. QED
    BY <1>10, <1>14, <2>1, <2>2, StepKeeps
<1>17. TwiceOnlyWhenDisturbed'
  BY <1>2 DEF LogInv, TwiceOnlyWhenDisturbed
<1>18. QED
  BY <1>10, <1>11, <1>16, <1>17 DEF LogInv

\* undolog.go Clear: entries leave stacks, and no document changes.
LEMMA ClearKeeps ==
    ASSUME LogInv, NEW docs \in SUBSET Docs, NEW linked \in SUBSET Edits, Clear(docs, linked),
           linked \subseteq UNION {Range(undoStack[d]) \cup Range(redoStack[d]) : d \in docs}
    PROVE  LogInv'
<1>1. Types /\ Placed /\ Undisturbed
  BY DEF LogInv
<1>2. /\ undoStack' = [d \in Docs |-> IF d \in docs THEN <<>> ELSE Without(undoStack[d], linked)]
      /\ redoStack' = [d \in Docs |-> IF d \in docs THEN <<>> ELSE Without(redoStack[d], linked)]
      /\ hasUndo' = [d \in Docs |-> hasUndo[d] /\ d \notin docs]
      /\ known' = known \ docs
      /\ forgotten' = forgotten \cup
            UNION {Range(undoStack[d]) \cup Range(redoStack[d]) : d \in docs}
      /\ roots' = roots /\ job' = job /\ applied' = applied /\ disturbed' = disturbed
      /\ twice' = twice
  BY DEF Clear
<1>3. ASSUME NEW c \in Docs
      PROVE  /\ undoStack'[c] \in Seq(Edits) /\ Range(undoStack'[c]) \subseteq Range(undoStack[c])
             /\ redoStack'[c] \in Seq(Edits) /\ Range(redoStack'[c]) \subseteq Range(redoStack[c])
             /\ \A f \in Edits : OnceIn(undoStack[c], f) =>
                   /\ Keeps(undoStack[c], undoStack'[c], f, forgotten')
                   /\ Tops(undoStack[c], undoStack'[c], f)
             /\ \A f \in Edits : OnceIn(redoStack[c], f) =>
                   /\ Keeps(redoStack[c], redoStack'[c], f, forgotten')
                   /\ Tops(redoStack[c], redoStack'[c], f)
  <2>1. undoStack[c] \in Seq(Edits) /\ redoStack[c] \in Seq(Edits)
    BY <1>1 DEF Types
  <2>2. CASE c \in docs
    <3>1. undoStack'[c] = <<>> /\ redoStack'[c] = <<>>
      BY <1>2, <2>2
    <3>2. Range(undoStack[c]) \subseteq forgotten' /\ Range(redoStack[c]) \subseteq forgotten'
      BY <1>2, <2>2
    <3>3. <<>> \in Seq(Edits) /\ Range(<<>>) = {} /\ \A f \in Edits : OnceIn(<<>>, f)
      BY DEF Range, OnceIn
    <3>4. QED
      BY <3>1, <3>2, <3>3 DEF Keeps, Loses, Tops, AtTop
  <2>3. CASE c \notin docs
    <3>1. /\ undoStack'[c] = Without(undoStack[c], linked)
          /\ redoStack'[c] = Without(redoStack[c], linked)
      BY <1>2, <2>3
    <3>2. Removed(undoStack[c], linked, undoStack'[c]) /\ Removed(redoStack[c], linked, redoStack'[c])
      BY <2>1, <3>1, WithoutFacts
    <3>3. linked \subseteq forgotten'
      BY <1>2
    <3>4. QED
      BY <3>2, <3>3 DEF Removed, Keeps, Loses, Tops, AtTop
  <2>4. QED
    BY <2>2, <2>3
<1>4. Types'
  <2>1. undoStack' \in [Docs -> Seq(Edits)] /\ redoStack' \in [Docs -> Seq(Edits)]
    BY <1>2, <1>3
  <2>2. hasUndo' \in [Docs -> BOOLEAN]
    BY <1>2
  <2>3. QED
    BY <1>1, <1>2, <2>1, <2>2 DEF Types
<1>5. Placed'
  <2>1. ASSUME NEW c \in Docs
        PROVE  /\ \A f \in Range(undoStack'[c]) \cup Range(redoStack'[c]) : c \in roots'[f]
               /\ c \notin known' => undoStack'[c] = <<>> /\ redoStack'[c] = <<>>
    <3>1. \A f \in Range(undoStack'[c]) \cup Range(redoStack'[c]) : c \in roots'[f]
      BY <1>1, <1>2, <1>3 DEF Placed
    <3>2. CASE c \in docs
      BY <1>2, <3>1, <3>2
    <3>3. CASE c \notin docs /\ c \notin known
      <4>1. undoStack[c] = <<>> /\ redoStack[c] = <<>>
        BY <1>1, <3>3 DEF Placed
      <4>2. Range(<<>>) = {}
        BY DEF Range
      <4>3. Range(undoStack'[c]) = {} /\ Range(redoStack'[c]) = {}
        BY <1>3, <4>1, <4>2
      <4>4. undoStack'[c] = <<>> /\ redoStack'[c] = <<>>
        BY <1>3, <4>3, EmptyStack
      <4>5. QED
        BY <3>1, <4>4
    <3>4. QED
      BY <1>2, <3>1, <3>2, <3>3
  <2>2. QED
    BY <1>1, <1>2, <2>1 DEF Placed
<1>6. ASSUME NEW f \in Edits, f \notin disturbed' PROVE Spared(f) /\ \A c \in Docs : Near(f, c)
  <2>1. Single(f)
    BY <1>1, <1>2, <1>6 DEF Undisturbed
  <2>2. forgotten \subseteq forgotten'
    BY <1>2
  <2>3. \A c \in Docs : Near(f, c)
    BY <1>3, <2>1 DEF Single, Near
  <2>4. Spared(f)
    BY <1>2, <1>3, <2>1, <2>2 DEF Single, Spared, Keeps
  <2>5. QED
    BY <2>3, <2>4
<1>7. \A v \in Windows : job[v] # Free => job[v].edit \in Edits /\ job[v].doc \in Docs
  BY <1>1 DEF Types, Job
<1>8. OthersKeep({}, {})
  BY <1>2, <1>6, <1>7 DEF OthersKeep
<1>9. Undisturbed'
  <2>1. {} \in SUBSET Windows /\ {} \in SUBSET Edits
    OBVIOUS
  <2>2. QED
    BY <1>4, <1>8, <2>1, StepKeeps
<1>10. TwiceOnlyWhenDisturbed'
  BY <1>2 DEF LogInv, TwiceOnlyWhenDisturbed
<1>11. QED
  BY <1>4, <1>5, <1>9, <1>10 DEF LogInv
-----------------------------------------------------------------------------
(* The invariant holds, and with it the three properties.                  *)

\* The log starts empty.
LEMMA LogInit ==
    ASSUME Init
    PROVE  LogInv
<1>1. \A d \in Docs : undoStack[d] = <<>> /\ redoStack[d] = <<>>
  BY DEF Init
<1>2. Range(<<>>) = {} /\ \A e \in Edits : OnceIn(<<>>, e)
  BY DEF Range, OnceIn
<1>3. \A e \in Edits : roots[e] = {}
  BY DEF Init
<1>4. \A w \in Windows : job[w] = Free
  BY DEF Init
<1>5. Types
  <2>1. undoStack \in [Docs -> Seq(Edits)] /\ redoStack \in [Docs -> Seq(Edits)]
    BY DEF Init
  <2>2. hasUndo \in [Docs -> BOOLEAN] /\ known \subseteq Docs
    BY DEF Init
  <2>3. roots \in [Edits -> SUBSET Docs] /\ job \in [Windows -> Job \cup {Free}]
    BY DEF Init
  <2>4. QED
    BY <2>1, <2>2, <2>3 DEF Types
<1>6. Placed
  BY <1>1, <1>2, <1>4 DEF Init, Placed
<1>7. \A e \in Edits : Single(e)
  BY <1>1, <1>2 DEF Single
<1>8. \A e \in Edits : AtEase(e)
  <2>1. \A e \in Edits : Everywhere(e)
    BY <1>3 DEF Everywhere
  <2>2. QED
    BY <1>1, <1>2, <1>3, <2>1 DEF AtEase
<1>9. Undisturbed
  BY <1>4, <1>7, <1>8 DEF Undisturbed
<1>10. TwiceOnlyWhenDisturbed
  BY DEF Init, TwiceOnlyWhenDisturbed
<1>11. QED
  BY <1>5, <1>6, <1>9, <1>10 DEF LogInv

\* A step that changes nothing.
LEMMA LogStutters ==
    ASSUME LogInv, UNCHANGED vars
    PROVE  LogInv'
<1>1. /\ undoStack' = undoStack /\ redoStack' = redoStack /\ hasUndo' = hasUndo
      /\ known' = known /\ roots' = roots /\ job' = job /\ applied' = applied
      /\ forgotten' = forgotten /\ disturbed' = disturbed /\ twice' = twice
  BY DEF vars, stacks, history
<1>2. Types' /\ Placed' /\ TwiceOnlyWhenDisturbed'
  BY <1>1 DEF LogInv, Types, Placed, TwiceOnlyWhenDisturbed
<1>3. \A e \in Edits : (Single(e) => Single(e)') /\ (AtEase(e) => AtEase(e)')
  BY <1>1 DEF Single, AtEase, Everywhere, Nowhere
<1>4. InFlight' = InFlight
  BY <1>1 DEF InFlight
<1>5. ASSUME NEW w \in Windows, Underway(w) PROVE Underway(w)'
  BY <1>1, <1>5 DEF Underway, Alone, Undoing, Redoing, Everywhere, Nowhere
<1>6. Undisturbed'
  BY <1>1, <1>3, <1>4, <1>5 DEF LogInv, Undisturbed
<1>7. QED
  BY <1>2, <1>6 DEF LogInv

\* Every step keeps the invariant.
LEMMA LogNext ==
    ASSUME LogInv, [Next]_vars
    PROVE  LogInv'
<1>1. CASE Record
  BY <1>1, RecordKeeps
<1>2. ASSUME NEW w \in Windows, NEW d \in Docs, Undo(w, d) \/ Redo(w, d)
      PROVE  LogInv'
  BY <1>2, UndoKeeps, RedoKeeps
<1>3. ASSUME NEW w \in Windows,
             \/ PerformDone(w) \/ PerformFailed(w)
             \/ UndoCommit(w) \/ UndoRollback(w)
             \/ RedoCommit(w) \/ RedoRollback(w)
      PROVE  LogInv'
  BY <1>3, PerformDoneKeeps, PerformFailedKeeps, UndoCommitKeeps, UndoRollbackKeeps,
     RedoCommitKeeps, RedoRollbackKeeps
<1>4. ASSUME NEW d \in Docs, ClearDoc(d)
      PROVE  LogInv'
  <2> PICK linked : linked = {e \in Range(undoStack[d]) \cup Range(redoStack[d]) : roots[e] # {d}}
    OBVIOUS
  <2>1. Clear({d}, linked) /\ {d} \in SUBSET Docs
    BY <1>4 DEF ClearDoc
  <2>2. linked \subseteq UNION {Range(undoStack[c]) \cup Range(redoStack[c]) : c \in {d}}
    OBVIOUS
  <2>3. linked \in SUBSET Edits
    BY DEF LogInv, Types, Range
  <2>4. QED
    BY <2>1, <2>2, <2>3, ClearKeeps
<1>5. CASE ClearAll
  <2>1. Clear(Docs, {}) /\ Docs \in SUBSET Docs /\ {} \in SUBSET Edits
    BY <1>5 DEF ClearAll
  <2>2. QED
    BY <2>1, ClearKeeps
<1>6. CASE UNCHANGED vars
  BY <1>6, LogStutters
<1>7. QED
  BY <1>1, <1>2, <1>3, <1>4, <1>5, <1>6 DEF Next

\* The invariant holds throughout.
LEMMA LogHolds == Spec => []LogInv
<1>1. Init => LogInv
  BY LogInit
<1>2. LogInv /\ [Next]_vars => LogInv'
  BY LogNext
<1>3. QED
  BY <1>1, <1>2, PTL DEF Spec

\* A settled edit was not disturbed, and no replay is at it.
LEMMA SettledAtEase ==
    ASSUME LogInv, NEW e \in Settled
    PROVE  e \in Edits /\ AtEase(e)
BY DEF LogInv, Undisturbed, Settled

(* An undo or redo of an edit of several documents, their rollbacks, and   *)
(* the clearing of documents (undolog.go) leave no document with an entry  *)
(* to undo that is not in effect there, or one to redo that is.            *)
THEOREM StacksFollowDocuments == Spec => []StacksMatchDocuments
<1>1. LogInv => StacksMatchDocuments
  BY SettledAtEase DEF AtEase, StacksMatchDocuments
<1>2. QED
  BY <1>1, LogHolds, PTL

(* No undo, redo, rollback or clear (undolog.go) loses an entry: an edit   *)
(* in effect is on the undo stack of every document it changed, unless a   *)
(* limit cut it or a clear dropped it.                                     *)
THEOREM AppliedCanBeUndone == Spec => []AppliedIsUndoable
<1>1. LogInv => AppliedIsUndoable
  BY SettledAtEase DEF AtEase, AppliedIsUndoable
<1>2. QED
  BY <1>1, LogHolds, PTL

(* performUndo (transaction.go) undoes an entry only when it is in effect  *)
(* somewhere, and performRedo redoes one only when it is not in effect     *)
(* everywhere, unless its replay met an edit, another replay or a write    *)
(* error that left it half done.                                           *)
THEOREM NothingTwice == Spec => []TwiceOnlyWhenDisturbed
<1>1. LogInv => TwiceOnlyWhenDisturbed
  BY DEF LogInv
<1>2. QED
  BY <1>1, LogHolds, PTL
=============================================================================
