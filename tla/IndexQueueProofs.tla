--------------------------- MODULE IndexQueueProofs ---------------------------
(***************************************************************************)
(* The index queue and its journal, for any documents, bounds and faults:  *)
(* nothing is forgotten, and the list of reasons why the index may stay    *)
(* wrong is complete.                                                      *)
(*                                                                         *)
(* Both follow from one invariant.  A document that no reason excuses is   *)
(* accounted for twice.  In memory (MemInv): the last operation on it that *)
(* still has to run, in the queue, in the batch or in the entries under    *)
(* replay, fits the tree on disk.  On disk (DiskInv): replaying the        *)
(* journal from its first entry would leave its rows right, so that a stop *)
(* costs nothing.  The two are tied by Linked, which says that the last    *)
(* operation queued on a document is also the last entry on it.            *)
(***************************************************************************)
EXTENDS IndexQueue, SequenceTheorems, TLAPS

(* What a sequence of operations or entries says of a document, as        *)
(* operators of constants: t is the version of the tree, 0 for none.       *)

\* Findable, of a version and rows.
Shown(t, rows) == IF t = 0 THEN rows = NoRows ELSE rows[t] > 0
\* Running op would make the index fit the tree.
Right(t, op) == op.tree = t /\ (op.action \in TreeActions <=> t # 0)
\* The last thing s says of d is e.
Final(s, d, e) ==
    \E i \in DOMAIN s : /\ s[i] = e /\ e.doc = d
                        /\ \A j \in DOMAIN s : j > i => s[j].doc # d
Deletes(s, d) == \E e \in Range(s) : e.doc = d /\ e.action \notin TreeActions
OnlyDeletes(s, d) == \A e \in Range(s) : e.doc = d => e.action \notin TreeActions
\* Replaying s with the trees on disk makes the rows of d right, whatever they are.
Owes(t, s, d) == IF t = 0 THEN Deletes(s, d)
                 ELSE \E e \in Range(s) : Final(s, d, e) /\ e.action \in TreeActions
\* What follows the first n elements.
After(s, n) == SubSeq(s, n + 1, Len(s))

\* An empty sequence says nothing.
LEMMA EmptyFacts ==
    /\ Range(<<>>) = {} /\ DocsOf(<<>>) = {}
    /\ \A d, e : ~Final(<<>>, d, e)
BY DEF Range, DocsOf, Final

\* The documents of a sequence are those of its elements.
LEMMA RangeOf ==
    ASSUME NEW S, NEW s \in Seq(S)
    PROVE  /\ Range(s) \subseteq S
           /\ \A e \in Range(s) : e.doc \in DocsOf(s)
           /\ \A d \in DocsOf(s) : \E e \in Range(s) : e.doc = d
           /\ \A d, e : Final(s, d, e) => e \in Range(s) /\ e.doc = d
BY DEF Range, DocsOf, Final

\* Only one element is the last about a document.
LEMMA FinalUnique ==
    ASSUME NEW S, NEW s \in Seq(S), NEW d, NEW e, NEW f, Final(s, d, e), Final(s, d, f)
    PROVE  e = f
  <1>1. DOMAIN s = 1 .. Len(s) /\ Len(s) \in Nat
    OBVIOUS
  <1>2. PICK i \in 1 .. Len(s) : /\ s[i] = e /\ e.doc = d
                                 /\ \A j \in 1 .. Len(s) : j > i => s[j].doc # d
    BY <1>1 DEF Final
  <1>3. PICK k \in 1 .. Len(s) : /\ s[k] = f /\ f.doc = d
                                 /\ \A j \in 1 .. Len(s) : j > k => s[j].doc # d
    BY <1>1 DEF Final
  <1>4. i = k
    BY <1>1, <1>2, <1>3
  <1> QED BY <1>2, <1>3, <1>4

\* What appending an element changes.
LEMMA AppendFacts ==
    ASSUME NEW S, NEW s \in Seq(S), NEW x \in S
    PROVE  /\ Append(s, x) \in Seq(S) /\ Append(s, x) # <<>>
           /\ Len(Append(s, x)) = Len(s) + 1
           /\ Range(Append(s, x)) = Range(s) \cup {x}
           /\ DocsOf(Append(s, x)) = DocsOf(s) \cup {x.doc}
           /\ \A d, e : Final(Append(s, x), d, e) <=>
                           (x.doc = d /\ e = x) \/ (x.doc # d /\ Final(s, d, e))
  <1>1. DOMAIN Append(s, x) = 1 .. Len(s) + 1 /\ DOMAIN s = 1 .. Len(s) /\ Len(s) \in Nat
    OBVIOUS
  <1>2. \A i \in 1 .. Len(s) : Append(s, x)[i] = s[i]
    OBVIOUS
  <1>3. Append(s, x)[Len(s) + 1] = x
    OBVIOUS
  <1>4. ASSUME NEW d, NEW e
        PROVE  Final(Append(s, x), d, e) <=>
                   (x.doc = d /\ e = x) \/ (x.doc # d /\ Final(s, d, e))
    <2>1. CASE x.doc = d
      BY <1>1, <1>2, <1>3, <2>1 DEF Final
    <2>2. CASE x.doc # d
      BY <1>1, <1>2, <1>3, <2>2 DEF Final
    <2> QED BY <2>1, <2>2
  <1>5. Range(Append(s, x)) = Range(s) \cup {x}
    BY <1>1, <1>2, <1>3 DEF Range
  <1>6. DocsOf(Append(s, x)) = DocsOf(s) \cup {x.doc}
    BY <1>1, <1>2, <1>3 DEF DocsOf
  <1>7. Append(s, x) \in Seq(S)
    OBVIOUS
  <1>8. Len(Append(s, x)) = Len(s) + 1
    OBVIOUS
  <1>9. Append(s, x) # <<>>
    BY <1>1, <1>8
  <1> QED BY <1>4, <1>5, <1>6, <1>7, <1>8, <1>9

\* What taking the first element changes.
LEMMA TailFacts ==
    ASSUME NEW S, NEW s \in Seq(S), s # <<>>
    PROVE  /\ Head(s) \in S /\ Tail(s) \in Seq(S)
           /\ Range(s) = {Head(s)} \cup Range(Tail(s))
           /\ DocsOf(s) = {Head(s).doc} \cup DocsOf(Tail(s))
           /\ \A d, e : Final(s, d, e) <=>
                           \/ Final(Tail(s), d, e)
                           \/ e = Head(s) /\ e.doc = d /\ d \notin DocsOf(Tail(s))
  <1>1. Len(s) \in Nat /\ Len(s) > 0 /\ DOMAIN s = 1 .. Len(s) /\ Head(s) = s[1]
    OBVIOUS
  <1>2. Tail(s) \in Seq(S) /\ DOMAIN Tail(s) = 1 .. Len(s) - 1
    OBVIOUS
  <1>3. \A i \in 1 .. Len(s) - 1 : Tail(s)[i] = s[i + 1]
    OBVIOUS
  <1>4. \A i \in 1 .. Len(s) : i # 1 => s[i] = Tail(s)[i - 1] /\ i - 1 \in 1 .. Len(s) - 1
    BY <1>1, <1>3
  <1>5. Head(s) \in S
    OBVIOUS
  <1>6. Range(s) = {Head(s)} \cup Range(Tail(s))
    <2>1. \A x \in Range(s) : x = Head(s) \/ x \in Range(Tail(s))
      <3> SUFFICES ASSUME NEW i \in 1 .. Len(s), i # 1 PROVE s[i] \in Range(Tail(s))
        BY <1>1 DEF Range
      <3>1. i - 1 \in DOMAIN Tail(s) /\ s[i] = Tail(s)[i - 1]
        BY <1>2, <1>4
      <3> QED BY <3>1 DEF Range
    <2>2. \A x \in Range(Tail(s)) : x \in Range(s)
      <3> SUFFICES ASSUME NEW i \in 1 .. Len(s) - 1 PROVE Tail(s)[i] \in Range(s)
        BY <1>2 DEF Range
      <3> QED BY <1>1, <1>3 DEF Range
    <2>3. Head(s) \in Range(s)
      BY <1>1 DEF Range
    <2> QED BY <2>1, <2>2, <2>3
  <1>7. DocsOf(s) = {Head(s).doc} \cup DocsOf(Tail(s))
    <2>1. DocsOf(s) = {x.doc : x \in Range(s)} /\ DocsOf(Tail(s)) = {x.doc : x \in Range(Tail(s))}
      BY DEF DocsOf, Range
    <2> QED BY <1>6, <2>1
  <1>8. ASSUME NEW d, NEW e
        PROVE  Final(s, d, e) <=>
                   \/ Final(Tail(s), d, e)
                   \/ e = Head(s) /\ e.doc = d /\ d \notin DocsOf(Tail(s))
    <2>1. ASSUME Final(Tail(s), d, e) PROVE Final(s, d, e)
      <3>1. PICK i \in 1 .. Len(s) - 1 : /\ Tail(s)[i] = e /\ e.doc = d
                   /\ \A j \in 1 .. Len(s) - 1 : j > i => Tail(s)[j].doc # d
        BY <2>1, <1>2 DEF Final
      <3>2. \A j \in 1 .. Len(s) : j > i + 1 => s[j].doc # d
        BY <3>1, <1>4, <1>1
      <3>3. i + 1 \in 1 .. Len(s) /\ s[i + 1] = e
        BY <3>1, <1>3, <1>1
      <3> QED BY <3>1, <3>2, <3>3, <1>1 DEF Final
    <2>2. ASSUME e = Head(s), e.doc = d, d \notin DocsOf(Tail(s)) PROVE Final(s, d, e)
      <3>1. ASSUME NEW j \in 1 .. Len(s), j > 1 PROVE s[j].doc # d
        <4>1. j - 1 \in DOMAIN Tail(s) /\ s[j] = Tail(s)[j - 1]
          BY <1>2, <1>4, <3>1
        <4>2. Tail(s)[j - 1].doc \in DocsOf(Tail(s))
          BY <4>1 DEF DocsOf
        <4> QED BY <4>1, <4>2, <2>2
      <3> QED BY <2>2, <3>1, <1>1 DEF Final
    <2>3. ASSUME Final(s, d, e), ~Final(Tail(s), d, e)
          PROVE  e = Head(s) /\ e.doc = d /\ d \notin DocsOf(Tail(s))
      <3>1. PICK i \in 1 .. Len(s) : /\ s[i] = e /\ e.doc = d
                   /\ \A j \in 1 .. Len(s) : j > i => s[j].doc # d
        BY <2>3, <1>1 DEF Final
      <3>2. ASSUME i # 1 PROVE FALSE
        <4>1. i - 1 \in 1 .. Len(s) - 1 /\ Tail(s)[i - 1] = e
          BY <3>1, <3>2, <1>4, <1>1
        <4>2. \A j \in 1 .. Len(s) - 1 : j > i - 1 => Tail(s)[j].doc # d
          BY <3>1, <1>3, <1>1
        <4> QED BY <4>1, <4>2, <3>1, <1>2, <2>3 DEF Final
      <3>3. \A j \in 1 .. Len(s) - 1 : Tail(s)[j].doc # d
        BY <3>1, <3>2, <1>1, <1>3
      <3> QED BY <3>1, <3>2, <3>3, <1>1, <1>2 DEF DocsOf
    <2> QED BY <2>1, <2>2, <2>3
  <1> QED BY <1>2, <1>5, <1>6, <1>7, <1>8

\* What replacing an element by another about the same document changes.
LEMMA ReplaceFacts ==
    ASSUME NEW S, NEW s \in Seq(S), NEW x \in S, NEW i \in DOMAIN s, s[i].doc = x.doc
    PROVE  LET t == [s EXCEPT ![i] = x] IN
           /\ t \in Seq(S) /\ Len(t) = Len(s) /\ DOMAIN t = DOMAIN s /\ t # <<>>
           /\ DocsOf(t) = DocsOf(s)
           /\ \A e \in Range(t) : e = x \/ e \in Range(s)
           /\ \A e \in Range(s) : e = s[i] \/ e \in Range(t)
           /\ x \in Range(t)
           /\ \A d, e : d # x.doc => (Final(t, d, e) <=> Final(s, d, e))
           /\ \A e : Final(s, x.doc, e) => \/ e = s[i] /\ Final(t, x.doc, x)
                                           \/ Final(t, x.doc, e)
           /\ (\A j \in DOMAIN s : j > i => s[j].doc # x.doc)
                  => Final(t, x.doc, x) /\ Final(s, x.doc, s[i])
  <1> DEFINE t == [s EXCEPT ![i] = x]
  <1>1. t \in Seq(S) /\ Len(t) = Len(s) /\ DOMAIN t = DOMAIN s /\ DOMAIN s = 1 .. Len(s)
        /\ Len(s) \in Nat
    OBVIOUS
  <1>2. t[i] = x /\ \A j \in DOMAIN s : j # i => t[j] = s[j]
    OBVIOUS
  <1>3. \A j \in DOMAIN s : t[j].doc = s[j].doc
    BY <1>2
  <1>4. t # <<>>
    BY <1>1
  <1> HIDE DEF t
  <1>5. DocsOf(t) = DocsOf(s)
    BY <1>1, <1>3 DEF DocsOf
  <1>6. (\A e \in Range(t) : e = x \/ e \in Range(s)) /\ x \in Range(t)
    BY <1>1, <1>2 DEF Range
  <1>7. \A e \in Range(s) : e = s[i] \/ e \in Range(t)
    BY <1>1, <1>2 DEF Range
  <1>8. \A d, e : d # x.doc => (Final(t, d, e) <=> Final(s, d, e))
    BY <1>1, <1>2, <1>3 DEF Final
  <1>9. \A e : Final(s, x.doc, e) => \/ e = s[i] /\ Final(t, x.doc, x)
                                     \/ Final(t, x.doc, e)
    BY <1>1, <1>2, <1>3 DEF Final
  <1>10. (\A j \in DOMAIN s : j > i => s[j].doc # x.doc)
            => Final(t, x.doc, x) /\ Final(s, x.doc, s[i])
    BY <1>1, <1>2, <1>3 DEF Final
  <1> QED BY <1>1, <1>4, <1>5, <1>6, <1>7, <1>8, <1>9, <1>10 DEF t

\* The elements of a suffix.
LEMMA AfterIs ==
    ASSUME NEW S, NEW s \in Seq(S), NEW n \in Nat
    PROVE  /\ After(s, n) \in Seq(S)
           /\ Len(After(s, n)) = IF n <= Len(s) THEN Len(s) - n ELSE 0
           /\ \A j \in 1 .. Len(After(s, n)) : j + n \in 1 .. Len(s) /\ After(s, n)[j] = s[j + n]
  <1>1. Len(s) \in Nat /\ \A i \in n + 1 .. Len(s) : s[i] \in S
    OBVIOUS
  <1>2. /\ After(s, n) \in Seq(S)
        /\ Len(After(s, n)) = IF n + 1 <= Len(s) THEN Len(s) - (n + 1) + 1 ELSE 0
        /\ \A i \in 1 .. Len(s) - (n + 1) + 1 : After(s, n)[i] = s[n + 1 + i - 1]
    BY <1>1, SubSeqProperties DEF After
  <1>3. ASSUME NEW j \in 1 .. Len(After(s, n))
        PROVE  j + n \in 1 .. Len(s) /\ After(s, n)[j] = s[j + n]
    <2>1. j \in 1 .. Len(s) - (n + 1) + 1 /\ n + 1 + j - 1 = j + n /\ j + n \in 1 .. Len(s)
      BY <1>1, <1>2
    <2> QED BY <1>2, <2>1
  <1> QED BY <1>1, <1>2, <1>3

\* A suffix says nothing the sequence does not say.
LEMMA AfterFacts ==
    ASSUME NEW S, NEW s \in Seq(S), NEW n \in Nat
    PROVE  /\ After(s, n) \in Seq(S)
           /\ Range(After(s, n)) \subseteq Range(s)
           /\ DocsOf(After(s, n)) \subseteq DocsOf(s)
           /\ \A d, e : Final(After(s, n), d, e) => Final(s, d, e)
           /\ After(s, 0) = s
           /\ After(s, Len(s)) = <<>>
  <1> DEFINE t == After(s, n)
  <1>1. DOMAIN s = 1 .. Len(s) /\ Len(s) \in Nat
    OBVIOUS
  <1>2. t \in Seq(S) /\ Len(t) \in Nat /\ DOMAIN t = 1 .. Len(t)
    BY AfterIs
  <1>3. /\ Len(t) = IF n <= Len(s) THEN Len(s) - n ELSE 0
        /\ \A j \in 1 .. Len(t) : j + n \in 1 .. Len(s) /\ t[j] = s[j + n]
    BY AfterIs
  <1> HIDE DEF t
  <1>4. Range(t) \subseteq Range(s) /\ DocsOf(t) \subseteq DocsOf(s)
    BY <1>1, <1>2, <1>3 DEF Range, DocsOf
  <1>5. ASSUME NEW d, NEW e, Final(t, d, e) PROVE Final(s, d, e)
    <2>1. PICK j \in 1 .. Len(t) : /\ t[j] = e /\ e.doc = d
                 /\ \A k \in 1 .. Len(t) : k > j => t[k].doc # d
      BY <1>2, <1>5 DEF Final
    <2>2. j + n \in 1 .. Len(s) /\ s[j + n] = e
      BY <1>3, <2>1
    <2>3. ASSUME NEW k \in 1 .. Len(s), k > j + n PROVE s[k].doc # d
      <3> DEFINE l == Len(s) m == Len(t)
      <3>2. /\ l \in Nat /\ m \in Nat /\ m = (IF n <= l THEN l - n ELSE 0)
            /\ k \in 1 .. l /\ j \in 1 .. m /\ k > j + n
        BY <1>1, <1>2, <1>3, <2>1, <2>3
      <3> HIDE DEF l, m
      <3>3. k - n \in 1 .. m /\ k - n > j /\ (k - n) + n = k
        BY <3>2
      <3> QED BY <1>3, <2>1, <3>3 DEF m
    <2> QED BY <1>1, <2>1, <2>2, <2>3 DEF Final
  <1>6. After(s, 0) = s
    <2>1. After(s, 0) \in Seq(S) /\ Len(After(s, 0)) = Len(s)
          /\ \A j \in 1 .. Len(After(s, 0)) : After(s, 0)[j] = s[j]
      BY <1>1, AfterIs
    <2> QED BY <2>1, SeqEqual
  <1>7. After(s, Len(s)) = <<>>
    <2>1. After(s, Len(s)) \in Seq(S) /\ Len(After(s, Len(s))) = 0
      BY <1>1, AfterIs
    <2> QED BY <2>1
  <1> QED BY <1>2, <1>4, <1>5, <1>6, <1>7 DEF t

\* A suffix of a longer journal: what joins the journal joins what is kept.
LEMMA AfterAppend ==
    ASSUME NEW S, NEW s \in Seq(S), NEW x \in S, NEW n \in Nat, n <= Len(s)
    PROVE  After(Append(s, x), n) = Append(After(s, n), x)
  <1> DEFINE u == Append(s, x)
             a == After(u, n)
             b == Append(After(s, n), x)
  <1>1. /\ Len(s) \in Nat /\ u \in Seq(S) /\ Len(u) = Len(s) + 1
        /\ u[Len(s) + 1] = x /\ \A j \in 1 .. Len(s) : u[j] = s[j]
    OBVIOUS
  <1>2. /\ After(s, n) \in Seq(S) /\ Len(After(s, n)) = Len(s) - n
        /\ \A j \in 1 .. Len(s) - n : After(s, n)[j] = s[j + n]
    BY <1>1, AfterIs
  <1>3. /\ b \in Seq(S) /\ Len(b) = Len(s) - n + 1 /\ b[Len(s) - n + 1] = x
        /\ \A j \in 1 .. Len(s) - n : b[j] = s[j + n]
    BY <1>2
  <1> HIDE DEF u, b
  <1>4. /\ a \in Seq(S) /\ Len(a) = Len(s) - n + 1
        /\ \A j \in 1 .. Len(s) - n + 1 : a[j] = u[j + n]
    <2>1. n <= Len(u) /\ Len(u) - n = Len(s) - n + 1
      BY <1>1
    <2> QED BY <1>1, <2>1, AfterIs
  <1> HIDE DEF a
  <1>5. ASSUME NEW j \in 1 .. Len(a) PROVE a[j] = b[j]
    <2>1. CASE j = Len(s) - n + 1
      <3>1. j + n = Len(s) + 1
        BY <1>1, <2>1
      <3> QED BY <1>1, <1>3, <1>4, <2>1, <3>1
    <2>2. CASE j # Len(s) - n + 1
      <3> DEFINE l == Len(s)
      <3>0. l \in Nat /\ j \in 1 .. l - n + 1 /\ j # l - n + 1
        BY <1>1, <1>4, <1>5, <2>2
      <3> HIDE DEF l
      <3>1. j \in 1 .. l - n /\ j + n \in 1 .. l
        BY <3>0
      <3> QED BY <1>1, <1>3, <1>4, <3>0, <3>1 DEF l
    <2> QED BY <2>1, <2>2
  <1>6. a = b
    BY <1>3, <1>4, <1>5, SeqEqual
  <1> QED BY <1>6 DEF a, b, u

-----------------------------------------------------------------------------
(* The invariant.                                                          *)

Actions == TreeActions \cup DeleteActions
Operation == {op \in [action : Actions, doc : Docs, tree : {0} \cup Versions] :
                 op.tree = 0 <=> op.action \notin TreeActions}
Write == [action : {"write"}, doc : Docs, tree : Versions]
JournalEntry == [action : Actions, doc : Docs]
Stages == {"idle", "batch", "rewrite", "load", "replay", "down", "recover"}
Unstopped == {"reordered", "failed", "abandoned"}
Why == Unstopped \cup {"cut", "unqueued", "clearing"}

TypeOK ==
    /\ tree \in [Docs -> {0} \cup Versions]
    /\ writes \in 0 .. MaxWrites
    /\ chores \in Seq(Operation \cup Write)
    /\ operationQueue \in Seq(Operation)
    /\ indexQueue \in Seq(JournalEntry)
    /\ stage \in Stages
    /\ ops \in Seq(Operation)
    /\ snapshot \in Nat
    /\ preserved \in Seq(JournalEntry)
    /\ entries \in Seq(JournalEntry)
    /\ blocks \in [Docs -> [Versions -> 0 .. 2]]
    /\ crashes \in Nat /\ faults \in Nat
    /\ abandoned \subseteq Docs /\ cut \subseteq Docs
    /\ reasons \in [Docs -> SUBSET Why]

Shape ==
    /\ stage # "batch" => ops = <<>> /\ snapshot = 0
    /\ stage # "rewrite" => preserved = <<>>
    /\ stage = "rewrite" => indexQueue = <<>>
    /\ stage \notin {"replay", "recover"} => entries = <<>>
    /\ stage = "batch" => snapshot <= Len(indexQueue)
    /\ ~Running => chores = <<>> /\ abandoned = {} /\ cut = {}
    /\ stage = "down" => operationQueue = <<>>
    /\ crashes = 0 => \A d \in Docs : reasons[d] \subseteq Unstopped

\* The three forms of what is left to do about a document.
Restoring(d, v) == <<[action |-> "write", doc |-> d, tree |-> v], Index(d, v)>>
Rollback(d, v) == <<Delete("delete_id", d),
                    [action |-> "write", doc |-> d, tree |-> v], Index(d, v)>>
ToCome(s, d) == \E op \in Operation : s = <<op>> /\ op.doc = d /\ op.action \in TreeActions

ChoresOK ==
    \/ chores = <<>>
    \/ \E op \in Operation : chores = <<op>> /\ Right(tree[op.doc], op)
    \/ \E d \in Docs, v \in Versions :
          tree[d] = 0 /\ (chores = Restoring(d, v) \/ chores = Rollback(d, v))

\* The entries that survive the flush under way, and the journal as a stop finds it, but
\* for the moment in which it is empty.
Live == IF stage = "rewrite" THEN preserved ELSE After(indexQueue, snapshot)
Journal == IF stage = "rewrite" THEN preserved ELSE indexQueue

\* An operation waiting is among the entries that survive, unless its entry was cut.
Journalled ==
    \A op \in Range(operationQueue) : op.doc \in cut \/ Entry(op) \in Range(Live)

\* During a batch the entries that survive are of operations still waiting.
KeptQueued == stage \in {"batch", "rewrite"} => DocsOf(Live) \subseteq DocsOf(operationQueue)

\* The last operation waiting on a document is the last entry on it; or all of them
\* delete, and the document is gone or about to be queued.
Mirrors(s, j, d) == \E op \in Range(s) : Final(s, d, op) /\ Final(j, d, Entry(op))
LinkOK(s, j, t, c, d) ==
    d \notin DocsOf(s) \/ Mirrors(s, j, d) \/ (OnlyDeletes(s, d) /\ (t = 0 \/ ToCome(c, d)))
Linked == \A d \in Docs :
    \/ d \in cut
    \/ LinkOK(operationQueue, Live, tree[d], chores, d)
    \/ stage = "recover" /\ d \in DocsOf(entries)

\* A reason is known, or the document has yet to be queued.
Excused(d) == reasons[d] # {} \/ d \in DocsOf(chores)

\* The last operation on d fits its tree.
LastRight(t, s, d) == \A e \in Range(s) : Final(s, d, e) => Right(t, e)
\* Replaying s leaves the rows of d right.
Replayable(t, rows, s, d) == Owes(t, s, d) \/ (Shown(t, rows) /\ (t = 0 \/ d \notin DocsOf(s)))

\* In memory: whatever runs last for d, in the queue, the batch or the replay, is right;
\* and with nothing left to run d is findable, or was given up.
InMemory(d) ==
    IF d \in DocsOf(operationQueue) THEN LastRight(tree[d], operationQueue, d)
    ELSE IF d \in DocsOf(ops) THEN LastRight(tree[d], ops, d)
    ELSE IF stage = "replay" THEN Replayable(tree[d], blocks[d], entries, d)
    ELSE Shown(tree[d], blocks[d]) \/ d \in abandoned

\* After a stop: the entries s not yet handled and the queue q recovered so far.
RecoverOK(t, rows, s, q, d) ==
    IF t = 0 THEN OnlyDeletes(q, d) /\ (Deletes(q, d) \/ Replayable(t, rows, s, d))
    ELSE IF d \in DocsOf(s) THEN Owes(t, s, d)
    ELSE IF d \in DocsOf(q) THEN LastRight(t, q, d)
    ELSE Shown(t, rows)

MemInv == \A d \in Docs :
    \/ Excused(d)
    \/ stage = "down"
    \/ stage = "recover" /\ RecoverOK(tree[d], blocks[d], entries, operationQueue, d)
    \/ Running /\ InMemory(d)

\* On disk: the journal alone would make up for d; or nothing is owed.
DiskInv == \A d \in Docs :
    \/ Excused(d) \/ d \in cut \/ Owes(tree[d], Journal, d)
    \/ /\ Shown(tree[d], blocks[d]) /\ (tree[d] = 0 \/ d \notin DocsOf(Journal))
       /\ d \notin DocsOf(ops) \cup DocsOf(operationQueue)

\* A document queued in memory only still waits there or runs in this batch.
CutInv == \A d \in cut :
    \/ Excused(d) \/ d \in DocsOf(operationQueue)
    \/ stage = "batch" /\ (d \in DocsOf(ops) \/ d \notin abandoned)

\* What is being replayed or recovered was read from the journal.
EntriesInv ==
    /\ stage \in {"replay", "recover"} => Range(entries) \subseteq Range(indexQueue)
    /\ stage = "recover" =>
          /\ \A d \in Docs, e \in Range(entries) :
                Final(entries, d, e) => Final(indexQueue, d, e)
          /\ \A op \in Range(operationQueue) : ~IsNil(Entry(op))

IInv == TypeOK /\ Shape /\ ChoresOK /\ Journalled /\ KeptQueued /\ Linked
        /\ MemInv /\ DiskInv /\ CutInv /\ EntriesInv

-----------------------------------------------------------------------------
(* The changes of documents and their queueing.                            *)

\* The invariant holds initially.
LEMMA InitOK == Init => IInv
  <1> SUFFICES ASSUME Init PROVE IInv
    OBVIOUS
  <1> USE DEF Init
  <1>1. NoRows \in [Versions -> 0 .. 2]
    BY DEF NoRows
  <1>2. TypeOK
    BY <1>1, BoundsAssumption DEF TypeOK, Stages
  <1>3. Shape /\ ChoresOK
    BY DEF Shape, ChoresOK, Running
  <1>4. Journalled /\ KeptQueued /\ Linked
    BY EmptyFacts DEF Journalled, KeptQueued, Linked, LinkOK
  <1>5. MemInv
    BY EmptyFacts DEF MemInv, InMemory, Running, Shown
  <1>6. DiskInv
    BY EmptyFacts DEF DiskInv, Journal, Shown
  <1>7. CutInv /\ EntriesInv
    BY DEF CutInv, EntriesInv
  <1> QED BY <1>2, <1>3, <1>4, <1>5, <1>6, <1>7 DEF IInv

\* A step that leaves everything alone.
LEMMA StutterOK == IInv /\ UNCHANGED vars => IInv'
BY DEF vars, world, queue, flush, IInv, TypeOK, Shape, Running, ChoresOK, Journalled, KeptQueued,
   Live, Linked, MemInv, InMemory, Excused, DiskInv, Journal, CutInv, EntriesInv, IsNil

\* A document starts to change, or its restored version is written: only that document
\* is concerned, and it is excused as long as its operation has to be queued.
LEMMA ChangeOK ==
    ASSUME IInv, Running, NEW d0 \in Docs,
           UNCHANGED <<queue, flush, blocks, crashes, faults, abandoned, cut>>,
           tree' \in [Docs -> {0} \cup Versions], writes' \in 0 .. MaxWrites,
           chores' \in Seq(Operation \cup Write), ChoresOK',
           reasons' \in [Docs -> SUBSET Why], reasons'[d0] \subseteq reasons[d0],
           \A d \in Docs \ {d0} : tree'[d] = tree[d] /\ reasons'[d] = reasons[d],
           DocsOf(chores) \subseteq {d0}, DocsOf(chores') = {d0},
           tree'[d0] = 0 \/ ToCome(chores', d0)
    PROVE  IInv'
  <1> USE DEF IInv, queue, flush
  <1>0. /\ stage \in Stages /\ stage # "down" /\ stage # "recover" /\ stage' = stage
        /\ \A d \in Docs \ {d0} : tree'[d] = tree[d] /\ reasons'[d] = reasons[d]
                                  /\ d \notin DocsOf(chores) /\ d \notin DocsOf(chores')
        /\ \A d \in Docs \ {d0} : ~ToCome(chores, d)
    <2>1. ASSUME NEW d \in Docs \ {d0}, ToCome(chores, d) PROVE FALSE
      <3>1. PICK op \in Operation : chores = <<op>> /\ op.doc = d
        BY <2>1 DEF ToCome
      <3>2. DocsOf(chores) = {op.doc}
        BY <3>1 DEF DocsOf
      <3> QED BY <2>1, <3>1, <3>2
    <2> QED BY <2>1 DEF Running, TypeOK
  <1>1. TypeOK'
    BY DEF TypeOK
  <1>2. Shape'
    BY <1>0 DEF Shape, Running, TypeOK
  <1>3. Live' = Live /\ Journal' = Journal
    BY DEF Live, Journal
  <1>4. Journalled' /\ KeptQueued'
    BY <1>3 DEF Journalled, KeptQueued
  <1>5. Linked'
    <2> SUFFICES ASSUME NEW d \in Docs
                 PROVE  \/ d \in cut
                        \/ LinkOK(operationQueue, Live, tree'[d], chores', d)
      BY <1>3 DEF Linked
    <2>1. d \in cut \/ LinkOK(operationQueue, Live, tree[d], chores, d)
      BY <1>0 DEF Linked
    <2>2. CASE d = d0
      BY <2>1, <2>2 DEF LinkOK
    <2>3. CASE d # d0
      BY <1>0, <2>1, <2>3 DEF LinkOK
    <2> QED BY <2>2, <2>3
  <1>6. Excused(d0)' /\ \A d \in Docs \ {d0} : Excused(d)' <=> Excused(d)
    BY <1>0 DEF Excused
  <1>7. MemInv'
    BY <1>0, <1>6 DEF MemInv, InMemory, Running
  <1>8. DiskInv'
    BY <1>0, <1>3, <1>6 DEF DiskInv
  <1>9. CutInv'
    BY <1>0, <1>6 DEF CutInv, TypeOK
  <1>10. EntriesInv'
    BY <1>0 DEF EntriesInv
  <1> QED BY <1>1, <1>2, <1>4, <1>5, <1>7, <1>8, <1>9, <1>10

\* What a list of one, two or three operations holds.
LEMMA OneFacts ==
    ASSUME NEW S, NEW a \in S
    PROVE  /\ <<a>> \in Seq(S) /\ <<a>> # <<>> /\ Head(<<a>>) = a /\ Tail(<<a>>) = <<>>
           /\ DocsOf(<<a>>) = {a.doc}
  <1>1. DocsOf(<<a>>) = {a.doc}
    BY DEF DocsOf
  <1> QED BY <1>1

\* A list of two.
LEMMA TwoFacts ==
    ASSUME NEW S, NEW a \in S, NEW b \in S
    PROVE  /\ <<a, b>> \in Seq(S) /\ Head(<<a, b>>) = a /\ Tail(<<a, b>>) = <<b>>
           /\ DocsOf(<<a, b>>) = {a.doc, b.doc}
  <1>1. DocsOf(<<a, b>>) = {a.doc, b.doc}
    <2>1. DOMAIN <<a, b>> = {1, 2}
      OBVIOUS
    <2> QED BY <2>1 DEF DocsOf
  <1>2. <<a, b>> \in Seq(S) /\ Head(<<a, b>>) = a
    OBVIOUS
  <1>3. Tail(<<a, b>>) = <<b>>
    <2>1. Tail(<<a, b>>) \in Seq(S) /\ Len(Tail(<<a, b>>)) = 1 /\ Tail(<<a, b>>)[1] = b
      OBVIOUS
    <2>2. <<b>> \in Seq(S) /\ Len(<<b>>) = 1 /\ <<b>>[1] = b
      OBVIOUS
    <2> QED BY <2>1, <2>2, SeqEqual
  <1> QED BY <1>1, <1>2, <1>3

\* A list of three.
LEMMA ThreeFacts ==
    ASSUME NEW S, NEW a \in S, NEW b \in S, NEW c \in S
    PROVE  /\ <<a, b, c>> \in Seq(S) /\ Head(<<a, b, c>>) = a /\ Tail(<<a, b, c>>) = <<b, c>>
           /\ DocsOf(<<a, b, c>>) = {a.doc, b.doc, c.doc}
  <1>1. DocsOf(<<a, b, c>>) = {a.doc, b.doc, c.doc}
    <2>1. DOMAIN <<a, b, c>> = {1, 2, 3}
      OBVIOUS
    <2> QED BY <2>1 DEF DocsOf
  <1>2. <<a, b, c>> \in Seq(S) /\ Head(<<a, b, c>>) = a
    OBVIOUS
  <1>3. Tail(<<a, b, c>>) = <<b, c>>
    <2>1. /\ Tail(<<a, b, c>>) \in Seq(S) /\ Len(Tail(<<a, b, c>>)) = 2
          /\ Tail(<<a, b, c>>)[1] = b /\ Tail(<<a, b, c>>)[2] = c
      OBVIOUS
    <2>2. <<b, c>> \in Seq(S) /\ Len(<<b, c>>) = 2 /\ <<b, c>>[1] = b /\ <<b, c>>[2] = c
      OBVIOUS
    <2>3. \A i \in 1 .. Len(Tail(<<a, b, c>>)) : Tail(<<a, b, c>>)[i] = <<b, c>>[i]
      BY <2>1, <2>2
    <2> QED BY <2>1, <2>2, <2>3, SeqEqual
  <1> QED BY <1>1, <1>2, <1>3

\* The operations the callers queue.
LEMMA OperationTypes ==
    ASSUME NEW d \in Docs, NEW v \in Versions
    PROVE  /\ Index(d, v) \in Operation /\ Index(d, v).doc = d /\ Index(d, v).tree = v
           /\ Index(d, v).action \in TreeActions
           /\ Upsert(d, v) \in Operation /\ Upsert(d, v).doc = d /\ Upsert(d, v).tree = v
           /\ Upsert(d, v).action \in TreeActions
           /\ \A a \in DeleteActions :
                  /\ Delete(a, d) \in Operation /\ Delete(a, d).doc = d
                  /\ Delete(a, d).tree = 0 /\ Delete(a, d).action \notin TreeActions
           /\ [action |-> "write", doc |-> d, tree |-> v] \in Write
           /\ v # 0 /\ v \in Nat
  <1>1. v # 0 /\ v \in Nat
    BY BoundsAssumption DEF Versions
  <1> QED BY <1>1 DEF Index, Upsert, Delete, Operation, Write, Actions, TreeActions, DeleteActions

\* What a rollback has to do, step by step.
LEMMA RestoringFacts ==
    ASSUME NEW d \in Docs, NEW v \in Versions
    PROVE  /\ Restoring(d, v) \in Seq(Operation \cup Write) /\ DocsOf(Restoring(d, v)) = {d}
           /\ Restoring(d, v) # <<>> /\ Head(Restoring(d, v)).action = "write"
           /\ Head(Restoring(d, v)).doc = d /\ Head(Restoring(d, v)).tree = v
           /\ Tail(Restoring(d, v)) = <<Index(d, v)>>
           /\ Rollback(d, v) \in Seq(Operation \cup Write) /\ DocsOf(Rollback(d, v)) = {d}
           /\ Rollback(d, v) # <<>> /\ Head(Rollback(d, v)) = Delete("delete_id", d)
           /\ Tail(Rollback(d, v)) = Restoring(d, v)
  <1> DEFINE w == [action |-> "write", doc |-> d, tree |-> v]
             S == Operation \cup Write
  <1>1. w \in S /\ Index(d, v) \in S /\ Delete("delete_id", d) \in S
        /\ w.doc = d /\ Index(d, v).doc = d /\ Delete("delete_id", d).doc = d
        /\ w.action = "write" /\ w.tree = v
    BY OperationTypes DEF DeleteActions
  <1> HIDE DEF w, S
  <1>2. <<w, Index(d, v)>> \in Seq(S) /\ DocsOf(<<w, Index(d, v)>>) = {d}
        /\ Head(<<w, Index(d, v)>>) = w /\ Tail(<<w, Index(d, v)>>) = <<Index(d, v)>>
    BY <1>1, TwoFacts
  <1>3. /\ <<Delete("delete_id", d), w, Index(d, v)>> \in Seq(S)
        /\ DocsOf(<<Delete("delete_id", d), w, Index(d, v)>>) = {d}
        /\ Head(<<Delete("delete_id", d), w, Index(d, v)>>) = Delete("delete_id", d)
        /\ Tail(<<Delete("delete_id", d), w, Index(d, v)>>) = <<w, Index(d, v)>>
    BY <1>1, ThreeFacts
  <1>4. Restoring(d, v) = <<w, Index(d, v)>>
        /\ Rollback(d, v) = <<Delete("delete_id", d), w, Index(d, v)>>
    BY DEF Restoring, Rollback, w
  <1>5. Restoring(d, v) # <<>> /\ Rollback(d, v) # <<>>
    BY DEF Restoring, Rollback
  <1> QED BY <1>1, <1>2, <1>3, <1>4, <1>5 DEF S

\* The three ways a document starts to change.
LEMMA BeginOK ==
    ASSUME IInv, NEW d0 \in Docs, NEW todo, Begin(d0, todo),
           tree' \in [Docs -> {0} \cup Versions], writes' \in 0 .. MaxWrites,
           \A d \in Docs \ {d0} : tree'[d] = tree[d],
           todo \in Seq(Operation \cup Write), DocsOf(todo) = {d0}, ChoresOK',
           tree'[d0] = 0 \/ ToCome(todo, d0)
    PROVE  IInv'
  <1>1. /\ Running /\ chores = <<>> /\ chores' = todo
        /\ UNCHANGED <<queue, flush, blocks, crashes, faults, abandoned, cut>>
    BY DEF Begin
  <1>2. /\ reasons' \in [Docs -> SUBSET Why] /\ reasons'[d0] \subseteq reasons[d0]
        /\ \A d \in Docs \ {d0} : reasons'[d] = reasons[d]
    BY DEF Begin, IInv, TypeOK
  <1>3. DocsOf(chores) \subseteq {d0}
    BY <1>1, EmptyFacts
  <1> QED BY <1>1, <1>2, <1>3, ChangeOK

\* A document is written.
LEMMA WriteTreeOK ==
    ASSUME IInv, NEW d0 \in Docs, WriteTree(d0)
    PROVE  IInv'
  <1> DEFINE v == writes + 1
  <1>1. v \in Versions /\ writes' = v /\ writes' \in 0 .. MaxWrites
    BY BoundsAssumption DEF WriteTree, IInv, TypeOK, Versions
  <1>2. /\ tree' \in [Docs -> {0} \cup Versions] /\ tree'[d0] = v
        /\ \A d \in Docs \ {d0} : tree'[d] = tree[d]
    BY <1>1 DEF WriteTree, IInv, TypeOK
  <1>3. PICK op \in {Index(d0, v), Upsert(d0, v)} : Begin(d0, <<op>>)
    BY <1>1 DEF WriteTree
  <1> HIDE DEF v
  <1>4. op \in Operation /\ op.doc = d0 /\ op.tree = v /\ op.action \in TreeActions /\ v # 0
    <2>1. CASE op = Index(d0, v)
      BY <1>1, <2>1, OperationTypes DEF Index, TreeActions
    <2>2. CASE op = Upsert(d0, v)
      BY <1>1, <2>2, OperationTypes DEF Upsert, TreeActions
    <2> QED BY <1>3, <2>1, <2>2
  <1>5. <<op>> \in Seq(Operation \cup Write) /\ DocsOf(<<op>>) = {d0}
    BY <1>4, OneFacts
  <1>6. ToCome(<<op>>, d0)
    BY <1>4 DEF ToCome
  <1>7. ChoresOK'
    <2>1. chores' = <<op>> /\ Right(tree'[op.doc], op)
      BY <1>2, <1>3, <1>4 DEF Begin, Right
    <2> QED BY <1>4, <2>1 DEF ChoresOK
  <1> QED BY <1>1, <1>2, <1>3, <1>5, <1>6, <1>7, BeginOK

\* A document is removed.
LEMMA RemoveTreeOK ==
    ASSUME IInv, NEW d0 \in Docs, RemoveTree(d0)
    PROVE  IInv'
  <1>1. writes' \in 0 .. MaxWrites /\ tree[d0] \in Versions
    BY DEF RemoveTree, IInv, TypeOK
  <1>2. /\ tree' \in [Docs -> {0} \cup Versions] /\ tree'[d0] = 0
        /\ \A d \in Docs \ {d0} : tree'[d] = tree[d]
    BY DEF RemoveTree, IInv, TypeOK
  <1>3. PICK a \in DeleteActions : Begin(d0, <<Delete(a, d0)>>)
    BY DEF RemoveTree
  <1> DEFINE op == Delete(a, d0)
  <1>4. op \in Operation /\ op.doc = d0 /\ op.tree = 0 /\ op.action \notin TreeActions
    BY <1>1, <1>3, OperationTypes
  <1> HIDE DEF op
  <1>5. <<op>> \in Seq(Operation \cup Write) /\ DocsOf(<<op>>) = {d0}
    BY <1>4, OneFacts
  <1>6. ChoresOK'
    <2>1. chores' = <<op>> /\ Right(tree'[op.doc], op)
      BY <1>2, <1>3, <1>4 DEF Begin, Right, op
    <2> QED BY <1>4, <2>1 DEF ChoresOK
  <1> QED BY <1>1, <1>2, <1>3, <1>5, <1>6, BeginOK DEF op

\* A document is rolled back.
LEMMA RollbackOK ==
    ASSUME IInv, NEW d0 \in Docs, RollbackDocHistory(d0)
    PROVE  IInv'
  <1> DEFINE v == writes + 1
  <1>1. v \in Versions /\ writes' = v /\ writes' \in 0 .. MaxWrites
    BY BoundsAssumption DEF RollbackDocHistory, IInv, TypeOK, Versions
  <1>2. /\ tree' \in [Docs -> {0} \cup Versions] /\ tree'[d0] = 0
        /\ \A d \in Docs \ {d0} : tree'[d] = tree[d]
    BY DEF RollbackDocHistory, IInv, TypeOK
  <1>3. Begin(d0, Rollback(d0, v))
    BY <1>1 DEF RollbackDocHistory, Rollback
  <1> HIDE DEF v
  <1>4. Rollback(d0, v) \in Seq(Operation \cup Write) /\ DocsOf(Rollback(d0, v)) = {d0}
    BY <1>1, RestoringFacts
  <1>5. ChoresOK'
    <2>1. chores' = Rollback(d0, v)
      BY <1>3 DEF Begin
    <2> QED BY <1>1, <1>2, <2>1 DEF ChoresOK
  <1> QED BY <1>1, <1>2, <1>3, <1>4, <1>5, BeginOK

\* The restored version reaches the disk.
LEMMA WriteRestoredOK ==
    ASSUME IInv, WriteRestored
    PROVE  IInv'
  <1>0. chores # <<>> /\ Head(chores).action = "write" /\ ChoresOK /\ TypeOK
    BY DEF WriteRestored, IInv
  <1>1. PICK d0 \in Docs, v \in Versions : tree[d0] = 0 /\ chores = Restoring(d0, v)
    <2>1. ASSUME NEW op \in Operation, chores = <<op>> PROVE FALSE
      <3>1. Head(chores) = op
        BY <2>1, OneFacts
      <3> QED BY <1>0, <2>1, <3>1 DEF Operation, Actions, TreeActions, DeleteActions
    <2>2. ASSUME NEW d \in Docs, NEW v \in Versions, chores = Rollback(d, v) PROVE FALSE
      BY <1>0, <2>2, RestoringFacts DEF Delete
    <2> QED BY <1>0, <2>1, <2>2 DEF ChoresOK
  <1>2. /\ DocsOf(chores) = {d0} /\ Head(chores).doc = d0 /\ Head(chores).tree = v
        /\ Tail(chores) = <<Index(d0, v)>>
    BY <1>1, RestoringFacts
  <1>3. /\ tree' = [tree EXCEPT ![d0] = v] /\ chores' = <<Index(d0, v)>>
        /\ UNCHANGED <<writes, queue, flush, blocks, crashes, faults, abandoned, cut, reasons>>
        /\ Running
    BY <1>2 DEF WriteRestored
  <1>4. /\ tree' \in [Docs -> {0} \cup Versions] /\ tree'[d0] = v
        /\ \A d \in Docs \ {d0} : tree'[d] = tree[d]
    BY <1>0, <1>3 DEF TypeOK
  <1>5. Index(d0, v) \in Operation /\ Index(d0, v).doc = d0 /\ Index(d0, v).tree = v
        /\ Index(d0, v).action \in TreeActions /\ v # 0
    BY <1>1, OperationTypes DEF Index, TreeActions
  <1>6. chores' \in Seq(Operation \cup Write) /\ DocsOf(chores') = {d0}
    BY <1>3, <1>5, OneFacts
  <1>7. ToCome(chores', d0)
    BY <1>3, <1>5 DEF ToCome
  <1>8. ChoresOK'
    BY <1>3, <1>4, <1>5 DEF ChoresOK, Right
  <1>9. writes' \in 0 .. MaxWrites /\ reasons' \in [Docs -> SUBSET Why]
    BY <1>0, <1>3 DEF TypeOK
  <1> QED BY <1>2, <1>3, <1>4, <1>6, <1>7, <1>8, <1>9, ChangeOK

\* The next operation to queue is right for the document as it is, and whatever
\* remains to be done is about the same document.
LEMMA EnqueueTakes ==
    ASSUME TypeOK, ChoresOK, chores # <<>>, Head(chores).action # "write",
           chores' = Tail(chores), tree' = tree
    PROVE  /\ Head(chores) \in Operation
           /\ Right(tree[Head(chores).doc], Head(chores))
           /\ DocsOf(chores) = {Head(chores).doc}
           /\ DocsOf(chores') \subseteq {Head(chores).doc}
           /\ chores' \in Seq(Operation \cup Write) /\ ChoresOK'
           /\ \A d : ToCome(chores, d) =>
                 d = Head(chores).doc /\ Head(chores).action \in TreeActions
  <1>1. ASSUME NEW op \in Operation, chores = <<op>>, Right(tree[op.doc], op)
        PROVE  /\ Head(chores) = op /\ DocsOf(chores) = {op.doc} /\ chores' = <<>>
               /\ \A d : ToCome(chores, d) => d = op.doc /\ op.action \in TreeActions
    <2>1. Head(chores) = op /\ DocsOf(chores) = {op.doc} /\ chores' = <<>>
      BY <1>1, OneFacts
    <2>2. ASSUME NEW d, ToCome(chores, d) PROVE d = op.doc /\ op.action \in TreeActions
      <3>1. PICK x \in Operation : chores = <<x>> /\ x.doc = d /\ x.action \in TreeActions
        BY <2>2 DEF ToCome
      <3>2. x = op
        BY <1>1, <3>1
      <3> QED BY <3>1, <3>2
    <2> QED BY <2>1, <2>2
  <1>2. ASSUME NEW d \in Docs, NEW v \in Versions, tree[d] = 0, chores = Rollback(d, v)
        PROVE  /\ Head(chores) = Delete("delete_id", d) /\ DocsOf(chores) = {d}
               /\ chores' = Restoring(d, v) /\ DocsOf(chores') = {d}
               /\ chores' \in Seq(Operation \cup Write)
               /\ \A e : ~ToCome(chores, e)
    <2>1. /\ Head(chores) = Delete("delete_id", d) /\ DocsOf(chores) = {d}
          /\ chores' = Restoring(d, v) /\ DocsOf(chores') = {d}
          /\ chores' \in Seq(Operation \cup Write)
      <3>1. /\ Head(Rollback(d, v)) = Delete("delete_id", d) /\ DocsOf(Rollback(d, v)) = {d}
            /\ Tail(Rollback(d, v)) = Restoring(d, v)
        BY <1>2, RestoringFacts
      <3>2. DocsOf(Restoring(d, v)) = {d} /\ Restoring(d, v) \in Seq(Operation \cup Write)
        BY <1>2, RestoringFacts
      <3> QED BY <1>2, <3>1, <3>2
    <2>2. ASSUME NEW e, ToCome(chores, e) PROVE FALSE
      <3>1. PICK x \in Operation : chores = <<x>>
        BY <2>2 DEF ToCome
      <3>2. Tail(chores) = <<>>
        BY <3>1, OneFacts
      <3> QED BY <1>2, <2>1, <3>2, RestoringFacts
    <2> QED BY <2>1, <2>2
  <1>3. ASSUME NEW d \in Docs, NEW v \in Versions, chores = Restoring(d, v) PROVE FALSE
    BY <1>3, RestoringFacts
  <1>4. CASE \E op \in Operation : chores = <<op>> /\ Right(tree[op.doc], op)
    <2>1. PICK op \in Operation : chores = <<op>> /\ Right(tree[op.doc], op)
      BY <1>4
    <2>2. ChoresOK' /\ DocsOf(chores') = {} /\ chores' \in Seq(Operation \cup Write)
      BY <1>1, <2>1, EmptyFacts DEF ChoresOK
    <2> QED BY <1>1, <2>1, <2>2
  <1>5. CASE \E d \in Docs, v \in Versions : tree[d] = 0 /\ chores = Rollback(d, v)
    <2>1. PICK d \in Docs, v \in Versions : tree[d] = 0 /\ chores = Rollback(d, v)
      BY <1>5
    <2>2. /\ Delete("delete_id", d) \in Operation /\ Delete("delete_id", d).doc = d
          /\ Delete("delete_id", d).tree = 0
          /\ Delete("delete_id", d).action \notin TreeActions
      BY <2>1, OperationTypes DEF Delete, DeleteActions, TreeActions
    <2>3. ChoresOK'
      BY <1>2, <2>1 DEF ChoresOK
    <2>4. Right(tree[d], Delete("delete_id", d))
      BY <2>1, <2>2 DEF Right
    <2> QED BY <1>2, <2>1, <2>2, <2>3, <2>4
  <1> QED BY <1>3, <1>4, <1>5 DEF ChoresOK

\* An operation and its journal entry.
LEMMA EntryFacts ==
    ASSUME NEW op \in Operation
    PROVE  /\ Entry(op) \in JournalEntry /\ Entry(op).doc = op.doc
           /\ Entry(op).action = op.action /\ op.doc \in Docs
BY DEF Entry, JournalEntry, Operation

\* What the rest of the world does not see of an operation being queued.
LEMMA EnqueueFrame ==
    ASSUME IInv, Enqueue
    PROVE  LET op == Head(chores) IN
           /\ op \in Operation /\ op.doc \in Docs /\ Right(tree[op.doc], op)
           /\ stage \in Stages \ {"down", "recover", "rewrite"}
           /\ UNCHANGED <<tree, writes, flush, blocks, crashes, abandoned>>
           /\ chores' \in Seq(Operation \cup Write) /\ ChoresOK'
           /\ DocsOf(chores) = {op.doc} /\ DocsOf(chores') \subseteq {op.doc}
           /\ \A d \in Docs : d # op.doc =>
                 ~ToCome(chores, d) /\ d \notin DocsOf(chores) /\ d \notin DocsOf(chores')
           /\ ToCome(chores, op.doc) => op.action \in TreeActions
           /\ Live = After(indexQueue, snapshot) /\ Journal = indexQueue
           /\ snapshot \in Nat /\ snapshot <= Len(indexQueue) /\ Len(indexQueue) \in Nat
  <1>0. /\ chores # <<>> /\ Head(chores).action # "write" /\ chores' = Tail(chores)
        /\ tree' = tree /\ TypeOK /\ ChoresOK /\ Shape
        /\ UNCHANGED <<tree, writes, flush, blocks, crashes, abandoned>>
        /\ Running /\ JournalFree
    BY DEF Enqueue, IInv
  <1>1. stage \in Stages \ {"down", "recover", "rewrite"}
    BY <1>0 DEF Running, JournalFree, TypeOK
  <1>2. Live = After(indexQueue, snapshot) /\ Journal = indexQueue
    BY <1>1 DEF Live, Journal
  <1>3. snapshot \in Nat /\ snapshot <= Len(indexQueue) /\ Len(indexQueue) \in Nat
    BY <1>0 DEF TypeOK, Shape
  <1>4. Head(chores) \in Operation /\ Head(chores).doc \in Docs
    BY <1>0, EnqueueTakes, EntryFacts
  <1> QED BY <1>0, <1>1, <1>2, <1>3, <1>4, EnqueueTakes

\* An operation joins the queue and, unless the write fails, the journal.
LEMMA AppendOK ==
    ASSUME IInv, Enqueue, AppendOperation(Head(chores))
    PROVE  IInv'
  <1> DEFINE op == Head(chores)
             d0 == op.doc
             S == Stages \ {"down", "recover", "rewrite"}
  <1>1. /\ op \in Operation /\ d0 \in Docs /\ Right(tree[d0], op)
        /\ stage \in S
        /\ UNCHANGED <<tree, writes, flush, blocks, crashes, abandoned>>
        /\ chores' \in Seq(Operation \cup Write) /\ ChoresOK'
        /\ \A d \in Docs : d # d0 =>
                 ~ToCome(chores, d) /\ d \notin DocsOf(chores) /\ d \notin DocsOf(chores')
        /\ Live = After(indexQueue, snapshot) /\ Journal = indexQueue
        /\ snapshot \in Nat /\ snapshot <= Len(indexQueue) /\ Len(indexQueue) \in Nat
    BY EnqueueFrame
  <1>2. /\ operationQueue' = Append(operationQueue, op) /\ reasons' = reasons
        /\ \/ /\ indexQueue' = Append(indexQueue, Entry(op))
              /\ UNCHANGED <<faults, cut>>
           \/ /\ faults' = faults + 1 /\ cut' = cut \cup {d0} /\ UNCHANGED indexQueue
    BY DEF AppendOperation
  <1> HIDE DEF op
  <1>3. /\ TypeOK /\ operationQueue \in Seq(Operation) /\ indexQueue \in Seq(JournalEntry)
        /\ Entry(op) \in JournalEntry /\ Entry(op).doc = d0 /\ Entry(op).action = op.action
    BY <1>1, EntryFacts DEF IInv, TypeOK
  <1>4. /\ operationQueue' \in Seq(Operation)
        /\ Range(operationQueue') = Range(operationQueue) \cup {op}
        /\ DocsOf(operationQueue') = DocsOf(operationQueue) \cup {d0}
        /\ \A d, e : Final(operationQueue', d, e) <=>
              (d0 = d /\ e = op) \/ (d0 # d /\ Final(operationQueue, d, e))
    BY <1>1, <1>2, <1>3, AppendFacts
  <1>5. stage' = stage /\ S \subseteq Stages \ {"down", "recover", "rewrite"}
        /\ snapshot' = snapshot /\ ops' = ops /\ entries' = entries /\ preserved' = preserved
    BY <1>1 DEF flush
  <1>6. Journal' = indexQueue' /\ Live' = After(indexQueue', snapshot)
    BY <1>1, <1>5 DEF Journal, Live
  <1>7. \A d \in Docs : d # d0 => (Excused(d)' <=> Excused(d))
    BY <1>1, <1>2 DEF Excused
  <1>8. MemInv'
    <2> SUFFICES ASSUME NEW d \in Docs PROVE Excused(d)' \/ InMemory(d)'
      BY <1>1, <1>5 DEF MemInv, Running
    <2>1. CASE d = d0
      BY <1>1, <1>4, <2>1 DEF InMemory, LastRight
    <2>2. CASE d # d0
      <3>1. Excused(d) \/ InMemory(d)
        BY <1>1 DEF IInv, MemInv
      <3>2. LastRight(tree[d], operationQueue, d) => LastRight(tree[d], operationQueue', d)
        BY <1>3, <1>4, <2>2, RangeOf DEF LastRight
      <3> QED BY <1>1, <1>4, <1>5, <1>7, <2>2, <3>1, <3>2 DEF InMemory
    <2> QED BY <2>1, <2>2
  <1>9. CASE indexQueue' = Append(indexQueue, Entry(op)) /\ faults' = faults /\ cut' = cut
    <2>1. /\ indexQueue' \in Seq(JournalEntry) /\ Len(indexQueue') = Len(indexQueue) + 1
          /\ Range(indexQueue') = Range(indexQueue) \cup {Entry(op)}
          /\ DocsOf(indexQueue') = DocsOf(indexQueue) \cup {d0}
          /\ \A d, e : Final(indexQueue', d, e) <=>
                (d0 = d /\ e = Entry(op)) \/ (d0 # d /\ Final(indexQueue, d, e))
      BY <1>3, <1>9, AppendFacts
    <2>2. Live' = Append(Live, Entry(op)) /\ Live \in Seq(JournalEntry)
      <3>1. After(Append(indexQueue, Entry(op)), snapshot)
                = Append(After(indexQueue, snapshot), Entry(op))
        BY <1>1, <1>3, AfterAppend
      <3>2. After(indexQueue, snapshot) \in Seq(JournalEntry)
        BY <1>1, <1>3, AfterFacts
      <3> QED BY <1>1, <1>6, <1>9, <3>1, <3>2
    <2>3. /\ Range(Live') = Range(Live) \cup {Entry(op)}
          /\ DocsOf(Live') = DocsOf(Live) \cup {d0}
          /\ \A d, e : Final(Live', d, e) <=>
                (d0 = d /\ e = Entry(op)) \/ (d0 # d /\ Final(Live, d, e))
      BY <1>3, <2>2, AppendFacts
    <2>4. TypeOK'
      BY <1>1, <1>2, <1>3, <1>4, <1>5, <1>9, <2>1 DEF TypeOK
    <2>5. Shape'
      BY <1>1, <1>2, <1>5, <2>1, <1>9 DEF IInv, Shape, Running
    <2>6. Journalled'
      BY <1>4, <1>9, <2>3 DEF IInv, Journalled
    <2>7. KeptQueued'
      BY <1>4, <1>5, <2>3 DEF IInv, KeptQueued
    <2>8. Linked'
      <3> SUFFICES ASSUME NEW d \in Docs
                   PROVE  d \in cut \/ LinkOK(operationQueue', Live', tree[d], chores', d)
        BY <1>1, <1>9 DEF Linked
      <3>1. CASE d = d0
        BY <1>4, <2>3, <3>1 DEF LinkOK, Mirrors
      <3>2. CASE d # d0
        <4>1. d \in cut \/ LinkOK(operationQueue, Live, tree[d], chores, d)
          BY <1>1 DEF IInv, Linked
        <4> QED BY <1>1, <1>4, <2>3, <3>2, <4>1 DEF LinkOK, Mirrors, OnlyDeletes
      <3> QED BY <3>1, <3>2
    <2>9. DiskInv'
      <3> SUFFICES ASSUME NEW d \in Docs
                   PROVE  \/ Excused(d)' \/ Owes(tree[d], indexQueue', d) \/ d \in cut
                          \/ /\ Shown(tree[d], blocks[d])
                             /\ tree[d] = 0 \/ d \notin DocsOf(indexQueue')
                             /\ d \notin DocsOf(ops) \cup DocsOf(operationQueue')
        BY <1>1, <1>5, <1>6, <1>9 DEF DiskInv
      <3>1. CASE d = d0
        BY <1>1, <1>3, <2>1, <3>1 DEF Owes, Right, Deletes
      <3>2. CASE d # d0
        <4>1. Excused(d)' <=> Excused(d)
          BY <1>7, <3>2
        <4>2. Owes(tree[d], indexQueue, d) => Owes(tree[d], indexQueue', d)
          BY <2>1, <3>2 DEF Owes, Deletes
        <4> QED BY <1>1, <1>4, <2>1, <3>2, <4>1, <4>2 DEF IInv, DiskInv
      <3> QED BY <3>1, <3>2
    <2>10. EntriesInv'
      BY <1>1, <1>5, <2>1 DEF IInv, EntriesInv
    <2>11. CutInv'
      BY <1>1, <1>3, <1>4, <1>5, <1>9, <1>7 DEF IInv, CutInv, TypeOK
    <2> QED BY <1>1, <2>4, <2>5, <2>6, <2>7, <2>8, <2>9, <2>10, <2>11, <1>8 DEF IInv
  <1>10. CASE faults' = faults + 1 /\ cut' = cut \cup {d0} /\ indexQueue' = indexQueue
    <2>1. Live' = Live
      BY <1>1, <1>6, <1>10
    <2>4. TypeOK'
      BY <1>1, <1>2, <1>3, <1>4, <1>5, <1>10 DEF TypeOK
    <2>5. Shape'
      BY <1>1, <1>2, <1>5, <1>10 DEF IInv, Shape, Running
    <2>6. Journalled'
      BY <1>4, <1>10, <2>1 DEF IInv, Journalled
    <2>7. KeptQueued'
      BY <1>4, <1>5, <2>1 DEF IInv, KeptQueued
    <2>8. Linked'
      <3> SUFFICES ASSUME NEW d \in Docs, d # d0
                   PROVE  d \in cut \/ LinkOK(operationQueue', Live, tree[d], chores', d)
        BY <1>1, <1>10, <2>1 DEF Linked
      <3>1. d \in cut \/ LinkOK(operationQueue, Live, tree[d], chores, d)
        BY <1>1 DEF IInv, Linked
      <3> QED BY <1>1, <1>4, <3>1 DEF LinkOK, Mirrors, OnlyDeletes
    <2>9. DiskInv'
      <3> SUFFICES ASSUME NEW d \in Docs, d # d0
                   PROVE  \/ Excused(d)' \/ Owes(tree[d], indexQueue, d) \/ d \in cut
                          \/ /\ Shown(tree[d], blocks[d])
                             /\ tree[d] = 0 \/ d \notin DocsOf(indexQueue)
                             /\ d \notin DocsOf(ops) \cup DocsOf(operationQueue')
        BY <1>1, <1>5, <1>6, <1>10 DEF DiskInv
      <3>1. Excused(d)' <=> Excused(d)
        BY <1>7
      <3> QED BY <1>1, <1>4, <3>1 DEF IInv, DiskInv
    <2>10. EntriesInv'
      BY <1>1, <1>5, <1>10 DEF IInv, EntriesInv
    <2>11. CutInv'
      BY <1>1, <1>3, <1>4, <1>5, <1>10, <1>7 DEF IInv, CutInv, TypeOK
    <2> QED BY <1>1, <2>4, <2>5, <2>6, <2>7, <2>8, <2>9, <2>10, <2>11, <1>8 DEF IInv
  <1> QED BY <1>2, <1>9, <1>10

\* An operation takes the place of its twin: the one it replaces is in the journal, and
\* either it was the last on the document or the document is excused.
LEMMA CoalesceOK ==
    ASSUME IInv, Enqueue, Coalesce(Head(chores))
    PROVE  IInv'
  <1> DEFINE op == Head(chores)
             d0 == op.doc
  <1>1. /\ op \in Operation /\ d0 \in Docs /\ Right(tree[d0], op)
        /\ stage \in Stages \ {"down", "recover", "rewrite"}
        /\ UNCHANGED <<tree, writes, flush, blocks, crashes, abandoned>>
        /\ chores' \in Seq(Operation \cup Write) /\ ChoresOK'
        /\ DocsOf(chores) = {d0}
        /\ \A d \in Docs : d # d0 =>
                 ~ToCome(chores, d) /\ d \notin DocsOf(chores) /\ d \notin DocsOf(chores')
        /\ ToCome(chores, d0) => op.action \in TreeActions
        /\ Live = After(indexQueue, snapshot) /\ Journal = indexQueue
        /\ snapshot \in Nat /\ snapshot <= Len(indexQueue) /\ Len(indexQueue) \in Nat
    BY EnqueueFrame
  <1>2. PICK i \in Twins(op) :
           /\ operationQueue' = [operationQueue EXCEPT ![i] = op]
           /\ Excuse({d \in {d0} : \E j \in DOMAIN operationQueue :
                                j > i /\ operationQueue[j].doc = d}, "reordered")
           /\ UNCHANGED <<indexQueue, faults, cut>>
    BY DEF Coalesce
  <1> HIDE DEF op
  <1> DEFINE old == operationQueue[i]
             overtaken == \E j \in DOMAIN operationQueue : j > i /\ operationQueue[j].doc = d0
  <1>3. /\ TypeOK /\ operationQueue \in Seq(Operation) /\ indexQueue \in Seq(JournalEntry)
        /\ i \in DOMAIN operationQueue /\ Entry(old) = Entry(op) /\ old \in Range(operationQueue)
    BY <1>2 DEF Twins, IInv, TypeOK, Range
  <1>4. old \in Operation /\ old.doc = d0 /\ old.action = op.action
    BY <1>1, <1>3, EntryFacts, RangeOf
  <1>5. /\ operationQueue' \in Seq(Operation) /\ DocsOf(operationQueue') = DocsOf(operationQueue)
        /\ \A e \in Range(operationQueue') : e = op \/ e \in Range(operationQueue)
        /\ op \in Range(operationQueue')
        /\ \A d, e : d # d0 => (Final(operationQueue', d, e) <=> Final(operationQueue, d, e))
        /\ \A e : Final(operationQueue, d0, e) =>
              (e = old /\ Final(operationQueue', d0, op)) \/ Final(operationQueue', d0, e)
        /\ ~overtaken => Final(operationQueue', d0, op) /\ Final(operationQueue, d0, old)
    <2>1. operationQueue[i].doc = op.doc
      BY <1>4
    <2> DEFINE t == [operationQueue EXCEPT ![i] = op]
    <2>2. /\ t \in Seq(Operation) /\ DocsOf(t) = DocsOf(operationQueue)
      BY <1>1, <1>3, <2>1, ReplaceFacts
    <2>6. (\A e \in Range(t) : e = op \/ e \in Range(operationQueue)) /\ op \in Range(t)
      BY <1>1, <1>3, <2>1, ReplaceFacts
    <2>7. \A d, e : d # op.doc => (Final(t, d, e) <=> Final(operationQueue, d, e))
      BY <1>1, <1>3, <2>1, ReplaceFacts
    <2>3. \A e : Final(operationQueue, op.doc, e) =>
               \/ e = operationQueue[i] /\ Final(t, op.doc, op)
               \/ Final(t, op.doc, e)
      BY <1>1, <1>3, <2>1, ReplaceFacts
    <2>4. (\A j \in DOMAIN operationQueue : j > i => operationQueue[j].doc # op.doc)
             => Final(t, op.doc, op) /\ Final(operationQueue, op.doc, operationQueue[i])
      BY <1>1, <1>3, <2>1, ReplaceFacts
    <2>5. operationQueue' = t
      BY <1>2
    <2> HIDE DEF t
    <2> QED BY <2>2, <2>3, <2>4, <2>5, <2>6, <2>7
  <1>6. d0 \in DocsOf(operationQueue)
    BY <1>3, <1>4, RangeOf
  <1>7. /\ reasons' \in [Docs -> SUBSET Why]
        /\ \A d \in Docs : d # d0 => reasons'[d] = reasons[d]
        /\ \A d \in Docs : reasons'[d] \subseteq reasons[d] \cup {"reordered"}
        /\ overtaken => reasons'[d0] # {}
    BY <1>1, <1>2, <1>3 DEF Excuse, TypeOK, Why, Unstopped
  <1> HIDE DEF old, overtaken, d0
  <1>8. \A d \in Docs : d # d0 => (Excused(d)' <=> Excused(d))
    BY <1>1, <1>7 DEF Excused
  <1>9. /\ stage' = stage /\ snapshot' = snapshot /\ ops' = ops /\ entries' = entries
        /\ preserved' = preserved /\ indexQueue' = indexQueue /\ cut' = cut /\ faults' = faults
    BY <1>1, <1>2 DEF flush
  <1>10. Live' = Live /\ Journal' = Journal
    BY <1>9 DEF Live, Journal
  <1>11. TypeOK'
    BY <1>1, <1>3, <1>5, <1>7, <1>9 DEF TypeOK
  <1>12. Shape'
    BY <1>1, <1>7, <1>9 DEF IInv, Shape, Running, Unstopped
  <1>13. Journalled'
    BY <1>3, <1>4, <1>5, <1>9, <1>10 DEF IInv, Journalled, d0
  <1>14. KeptQueued'
    BY <1>5, <1>9, <1>10 DEF IInv, KeptQueued
  <1>15. d0 \in cut \/ LinkOK(operationQueue, Live, tree[d0], chores, d0)
    BY <1>1 DEF IInv, Linked
  <1>16. ASSUME OnlyDeletes(operationQueue, d0) PROVE op.action \notin TreeActions
    BY <1>3, <1>4, <1>16 DEF OnlyDeletes
  <1>17. Linked'
    <2> SUFFICES ASSUME NEW d \in Docs
                 PROVE  d \in cut \/ LinkOK(operationQueue', Live, tree[d], chores', d)
      BY <1>1, <1>9, <1>10 DEF Linked
    <2>1. CASE d # d0
      <3>1. d \in cut \/ LinkOK(operationQueue, Live, tree[d], chores, d)
        BY <1>1 DEF IInv, Linked
      <3>2. Mirrors(operationQueue, Live, d) => Mirrors(operationQueue', Live, d)
        BY <1>5, <2>1, RangeOf DEF Mirrors
      <3>3. OnlyDeletes(operationQueue, d) => OnlyDeletes(operationQueue', d)
        BY <1>5, <2>1 DEF OnlyDeletes, d0
      <3> QED BY <1>1, <1>5, <2>1, <3>1, <3>2, <3>3 DEF LinkOK
    <2>2. CASE d = d0
      <3>1. Mirrors(operationQueue, Live, d0) => Mirrors(operationQueue', Live, d0)
        <4> SUFFICES ASSUME NEW x \in Range(operationQueue), Final(operationQueue, d0, x),
                            Final(Live, d0, Entry(x))
                     PROVE  Mirrors(operationQueue', Live, d0)
          BY DEF Mirrors
        <4>1. CASE x = old /\ Final(operationQueue', d0, op)
          BY <1>3, <1>5, <4>1 DEF Mirrors
        <4>2. CASE Final(operationQueue', d0, x)
          BY <1>5, <4>2, RangeOf DEF Mirrors
        <4> QED BY <1>5, <4>1, <4>2
      <3>2. OnlyDeletes(operationQueue, d0) => OnlyDeletes(operationQueue', d0)
        BY <1>5, <1>16 DEF OnlyDeletes
      <3>3. OnlyDeletes(operationQueue, d0) => tree[d0] = 0
        BY <1>1, <1>16 DEF Right
      <3> QED BY <1>15, <1>6, <2>2, <3>1, <3>2, <3>3 DEF LinkOK
    <2> QED BY <2>1, <2>2
  <1>18. MemInv'
    <2> SUFFICES ASSUME NEW d \in Docs PROVE Excused(d)' \/ InMemory(d)'
      BY <1>1, <1>9 DEF MemInv, Running
    <2>1. CASE d # d0
      <3>1. Excused(d) \/ InMemory(d)
        BY <1>1 DEF IInv, MemInv
      <3>2. LastRight(tree[d], operationQueue, d) => LastRight(tree[d], operationQueue', d)
        BY <1>3, <1>5, <2>1, RangeOf DEF LastRight
      <3> QED BY <1>1, <1>5, <1>8, <1>9, <2>1, <3>1, <3>2 DEF InMemory
    <2>2. CASE d = d0 /\ overtaken
      BY <1>7, <2>2 DEF Excused
    <2>3. CASE d = d0 /\ ~overtaken
      <3>1. \A e : Final(operationQueue', d0, e) => e = op
        BY <1>5, <2>3, FinalUnique
      <3>2. LastRight(tree[d0], operationQueue', d0)
        BY <1>1, <3>1 DEF LastRight, d0
      <3> QED BY <1>1, <1>5, <1>6, <2>3, <3>2 DEF InMemory
    <2> QED BY <2>1, <2>2, <2>3
  <1>19. DiskInv'
    <2> SUFFICES ASSUME NEW d \in Docs
                 PROVE  \/ Excused(d)' \/ Owes(tree[d], indexQueue, d) \/ d \in cut
                        \/ /\ Shown(tree[d], blocks[d])
                           /\ tree[d] = 0 \/ d \notin DocsOf(indexQueue)
                           /\ d \notin DocsOf(ops) \cup DocsOf(operationQueue')
      BY <1>1, <1>9, <1>10 DEF DiskInv
    <2>1. CASE d # d0
      BY <1>1, <1>5, <1>8, <2>1 DEF IInv, DiskInv
    <2>2. CASE d = d0 /\ overtaken
      BY <1>7, <2>2 DEF Excused
    <2>3. ASSUME d = d0, ~overtaken, d0 \notin cut PROVE Owes(tree[d0], indexQueue, d0)
      <3>1. Final(operationQueue, d0, old)
        BY <1>5, <2>3
      <3>2. /\ Range(Live) \subseteq Range(indexQueue)
            /\ \A e : Final(Live, d0, e) => Final(indexQueue, d0, e)
        BY <1>1, <1>3, AfterFacts
      <3>3. Entry(op).doc = d0 /\ Entry(op).action = op.action
        BY <1>1, EntryFacts DEF d0
      <3>4. CASE Mirrors(operationQueue, Live, d0)
        <4>1. PICK x \in Range(operationQueue) : Final(operationQueue, d0, x) /\ Final(Live, d0, Entry(x))
          BY <3>4 DEF Mirrors
        <4>2. x = old
          BY <1>3, <3>1, <4>1, FinalUnique
        <4>3. Final(indexQueue, d0, Entry(op))
          BY <1>3, <3>2, <4>1, <4>2
        <4>4. Entry(op) \in Range(indexQueue)
          BY <1>3, <4>3, RangeOf
        <4> QED BY <1>1, <3>3, <4>3, <4>4 DEF Owes, Deletes, Right, d0
      <3>5. CASE OnlyDeletes(operationQueue, d0)
        <4>1. op.action \notin TreeActions /\ tree[d0] = 0
          BY <1>1, <1>16, <3>5 DEF Right, d0
        <4>2. Entry(op) \in Range(Live)
          BY <1>3, <1>4, <2>3 DEF IInv, Journalled
        <4> QED BY <3>2, <3>3, <4>1, <4>2 DEF Owes, Deletes
      <3> QED BY <1>6, <1>15, <2>3, <3>4, <3>5 DEF LinkOK
    <2> QED BY <2>1, <2>2, <2>3
  <1>20. CutInv'
    BY <1>1, <1>3, <1>5, <1>6, <1>8, <1>9 DEF IInv, CutInv, TypeOK
  <1>21. EntriesInv'
    BY <1>1, <1>9 DEF IInv, EntriesInv
  <1> QED BY <1>1, <1>11, <1>12, <1>13, <1>14, <1>17, <1>18, <1>19, <1>20, <1>21 DEF IInv

\* Queueing keeps the invariant.
LEMMA EnqueueOK ==
    ASSUME IInv, Enqueue
    PROVE  IInv'
BY AppendOK, CoalesceOK DEF Enqueue

-----------------------------------------------------------------------------
(* The flush.                                                              *)

\* The flush changes no document: what is left to do about them stays.
LEMMA ChoresStay ==
    ASSUME ChoresOK, tree' = tree, chores' = chores
    PROVE  ChoresOK'
BY DEF ChoresOK

\* The entries that the flush under way will keep.
LEMMA LiveFacts ==
    ASSUME TypeOK, Shape
    PROVE  /\ Live \in Seq(JournalEntry)
           /\ stage # "rewrite" =>
                 /\ Live = After(indexQueue, snapshot) /\ Journal = indexQueue
                 /\ Range(Live) \subseteq Range(indexQueue)
                 /\ DocsOf(Live) \subseteq DocsOf(indexQueue)
                 /\ \A d, e : Final(Live, d, e) => Final(indexQueue, d, e)
           /\ stage \notin {"batch", "rewrite"} => Live = indexQueue
           /\ stage = "rewrite" => Live = preserved /\ Journal = preserved
  <1>1. /\ indexQueue \in Seq(JournalEntry) /\ preserved \in Seq(JournalEntry)
        /\ snapshot \in Nat /\ (stage # "batch" => snapshot = 0)
    BY DEF TypeOK, Shape
  <1> QED BY <1>1, AfterFacts DEF Live, Journal

\* The queue becomes the batch, and no entry is newer than it.
LEMMA GetOperationsOK ==
    ASSUME IInv, GetOperations
    PROVE  IInv'
  <1>1. /\ TypeOK /\ Shape /\ ChoresOK /\ Running /\ stage = "idle" /\ ops = <<>> /\ snapshot = 0
        /\ preserved = <<>> /\ entries = <<>>
        /\ tree' = tree /\ writes' = writes /\ chores' = chores
        /\ UNCHANGED <<indexQueue, preserved, entries, blocks, crashes, faults, abandoned, cut,
                       reasons>>
    BY DEF GetOperations, IInv, Shape, world, Running
  <1>2. \A d \in Docs : Excused(d)' <=> Excused(d)
    BY <1>1 DEF Excused
  <1>3. ChoresOK'
    BY <1>1, ChoresStay
  <1>4. Live = indexQueue /\ Journal = indexQueue
    BY <1>1, LiveFacts
  <1>5. CASE operationQueue = <<>> /\ stage' = "load" /\ UNCHANGED <<ops, snapshot, operationQueue>>
    <2>1. TypeOK' /\ Shape'
      BY <1>1, <1>5 DEF TypeOK, Shape, Stages, Running
    <2>2. Live' = Live /\ Journal' = Journal
      BY <1>1, <1>5 DEF Live, Journal
    <2>3. Journalled' /\ KeptQueued' /\ Linked'
      BY <1>1, <1>5, <2>2 DEF IInv, Journalled, KeptQueued, Linked
    <2>4. MemInv'
      BY <1>1, <1>2, <1>5 DEF IInv, MemInv, InMemory, Running
    <2>5. DiskInv' /\ CutInv' /\ EntriesInv'
      BY <1>1, <1>2, <1>5, <2>2 DEF IInv, DiskInv, CutInv, EntriesInv, TypeOK
    <2> QED BY <1>3, <2>1, <2>3, <2>4, <2>5 DEF IInv
  <1>6. CASE /\ stage' = "batch" /\ ops' = operationQueue /\ operationQueue' = <<>>
             /\ snapshot' = Len(indexQueue)
    <2>1. TypeOK' /\ Shape'
      BY <1>1, <1>6 DEF TypeOK, Shape, Stages, Running
    <2>2. Live' = <<>> /\ Journal' = Journal
      BY <1>1, <1>6, AfterFacts DEF Live, Journal, TypeOK
    <2>3. Journalled' /\ KeptQueued' /\ Linked'
      BY <1>1, <1>6, <2>2, EmptyFacts DEF Journalled, KeptQueued, Linked, LinkOK
    <2>4. MemInv'
      BY <1>1, <1>2, <1>6, EmptyFacts DEF IInv, MemInv, InMemory, Running
    <2>5. DiskInv'
      BY <1>1, <1>2, <1>6, <2>2, EmptyFacts DEF IInv, DiskInv
    <2>6. CutInv' /\ EntriesInv'
      BY <1>1, <1>2, <1>6 DEF IInv, CutInv, EntriesInv, TypeOK
    <2> QED BY <1>3, <2>1, <2>3, <2>4, <2>5, <2>6 DEF IInv
  <1> QED BY <1>5, <1>6 DEF GetOperations

\* Running an operation makes the rows fit the tree it was run with.
LEMMA ExecOpFacts ==
    ASSUME TypeOK, NEW op, NEW v, op.doc \in Docs, op.action \in Actions, ExecOp(op, v),
           v \in {0} \cup Versions, v = 0 <=> op.action \notin TreeActions
    PROVE  /\ blocks' \in [Docs -> [Versions -> 0 .. 2]]
           /\ \A d \in Docs \ {op.doc} : blocks'[d] = blocks[d]
           /\ Shown(v, blocks'[op.doc])
  <1>1. blocks \in [Docs -> [Versions -> 0 .. 2]] /\ blocks[op.doc] \in [Versions -> 0 .. 2]
    BY DEF TypeOK
  <1>2. NoRows \in [Versions -> 0 .. 2] /\ 0 \notin Versions
    BY BoundsAssumption DEF NoRows, Versions
  <1>3. v \in Versions => Only(v) \in [Versions -> 0 .. 2] /\ Only(v)[v] > 0
    BY <1>2 DEF Only
  <1>4. PICK rows \in CASE op.action = "index" -> IndexTree(blocks[op.doc], v)
                        [] op.action = "upsert" -> UpsertTree(blocks[op.doc], v)
                        [] OTHER -> {NoRows} :
           blocks' = [blocks EXCEPT ![op.doc] = rows]
    BY DEF ExecOp
  <1>5. rows \in [Versions -> 0 .. 2] /\ Shown(v, rows)
    <2>1. CASE op.action = "index"
      <3>1. v \in Versions /\ v # 0 /\ rows \in IndexTree(blocks[op.doc], v)
        BY <1>2, <1>4, <2>1 DEF TreeActions
      <3>2. rows = [blocks[op.doc] EXCEPT ![v] = IF @ = 0 THEN 1 ELSE 2]
        BY <3>1 DEF IndexTree
      <3>3. rows \in [Versions -> 0 .. 2] /\ rows[v] > 0
        BY <1>1, <3>1, <3>2
      <3> QED BY <3>1, <3>3 DEF Shown
    <2>2. CASE op.action = "upsert"
      <3>1. v \in Versions /\ v # 0 /\ rows \in UpsertTree(blocks[op.doc], v)
        BY <1>2, <1>4, <2>2 DEF TreeActions
      <3>2. rows \in [Versions -> 0 .. 2] /\ rows[v] > 0
        BY <1>1, <1>3, <3>1 DEF UpsertTree
      <3> QED BY <3>1, <3>2 DEF Shown
    <2>3. CASE op.action \notin TreeActions
      <3>1. rows = NoRows
        BY <1>4, <2>3 DEF TreeActions
      <3> QED BY <1>2, <2>3, <3>1 DEF Shown
    <2> QED BY <2>1, <2>2, <2>3 DEF TreeActions
  <1> QED BY <1>1, <1>4, <1>5

\* A reason noted stays noted.
LEMMA ExcuseFacts ==
    ASSUME TypeOK, Shape, NEW docs, NEW why \in Unstopped, Excuse(docs, why)
    PROVE  /\ reasons' \in [Docs -> SUBSET Why]
           /\ \A d \in Docs : reasons[d] \subseteq reasons'[d]
           /\ \A d \in docs \cap Docs : reasons'[d] # {}
           /\ crashes = 0 => \A d \in Docs : reasons'[d] \subseteq Unstopped
  <1>1. /\ \A d \in Docs : reasons'[d] = IF d \in docs THEN reasons[d] \cup {why} ELSE reasons[d]
        /\ DOMAIN reasons' = Docs /\ reasons' = [d \in Docs |-> reasons'[d]]
    BY DEF Excuse
  <1>2. reasons \in [Docs -> SUBSET Why] /\ why \in Why
    BY DEF TypeOK, Why
  <1>3. crashes = 0 => \A d \in Docs : reasons[d] \subseteq Unstopped
    BY DEF Shape
  <1> QED BY <1>1, <1>2, <1>3

\* The last operation of the batch on a document fits its tree, so running it makes the
\* document findable.
LEMMA ExecNextOK ==
    ASSUME IInv, ExecNext
    PROVE  IInv'
  <1> DEFINE op == Head(ops)
             d0 == op.doc
  <1>1. /\ TypeOK /\ Shape /\ ChoresOK /\ Running /\ stage = "batch" /\ ops # <<>>
        /\ ops \in Seq(Operation) /\ ops' = Tail(ops)
        /\ abandoned' = abandoned \ (DocsOf(ops) \ DocsOf(ops'))
        /\ tree' = tree /\ writes' = writes /\ chores' = chores
        /\ operationQueue' = operationQueue /\ indexQueue' = indexQueue
        /\ UNCHANGED <<stage, snapshot, preserved, entries, crashes, cut>>
    BY DEF ExecNext, IInv, Running, TypeOK, world, queue
  <1>2. /\ op \in Operation /\ ops' \in Seq(Operation)
        /\ DocsOf(ops) = {d0} \cup DocsOf(ops')
        /\ \A d, e : Final(ops, d, e) <=>
              Final(ops', d, e) \/ (e = op /\ d0 = d /\ d \notin DocsOf(ops'))
        /\ op \in Range(ops) /\ \A e \in Range(ops') : e \in Range(ops)
    <2>1. /\ op \in Operation /\ ops' \in Seq(Operation)
          /\ DocsOf(ops) = {d0} \cup DocsOf(ops')
          /\ Range(ops) = {op} \cup Range(ops')
      BY <1>1, TailFacts
    <2>2. \A d, e : Final(ops, d, e) <=>
              Final(ops', d, e) \/ (e = op /\ d0 = d /\ d \notin DocsOf(ops'))
      BY <1>1, TailFacts
    <2> QED BY <2>1, <2>2
  <1>3. \/ ExecOp(op, op.tree) /\ UNCHANGED <<faults, reasons>>
        \/ /\ faults' = faults + 1 /\ Excuse({d \in {d0} : op.tree = tree[d]}, "failed")
           /\ UNCHANGED blocks
    BY DEF ExecNext, ExecFails, Fault
  <1>4. d0 \in Docs /\ op.action \in Actions /\ op.tree \in {0} \cup Versions
        /\ (op.tree = 0 <=> op.action \notin TreeActions)
    BY <1>2 DEF Operation
  <1> HIDE DEF op
  <1>5. /\ faults' \in Nat /\ reasons' \in [Docs -> SUBSET Why]
        /\ blocks' \in [Docs -> [Versions -> 0 .. 2]]
        /\ \A d \in Docs \ {d0} : blocks'[d] = blocks[d]
        /\ \A d \in Docs : reasons[d] \subseteq reasons'[d]
        /\ op.tree = tree[d0] => Shown(op.tree, blocks'[d0]) \/ reasons'[d0] # {}
        /\ crashes = 0 => \A d \in Docs : reasons'[d] \subseteq Unstopped
    <2>1. CASE ExecOp(op, op.tree) /\ UNCHANGED <<faults, reasons>>
      BY <1>1, <1>4, <2>1, ExecOpFacts DEF TypeOK, Shape
    <2>2. CASE /\ faults' = faults + 1 /\ Excuse({d \in {d0} : op.tree = tree[d]}, "failed")
               /\ UNCHANGED blocks
      <3> DEFINE docs == {d \in {d0} : op.tree = tree[d]}
      <3>1. "failed" \in Unstopped /\ (op.tree = tree[d0] => d0 \in docs \cap Docs)
        BY <1>4 DEF Unstopped
      <3>2. faults' \in Nat /\ blocks' = blocks /\ blocks \in [Docs -> [Versions -> 0 .. 2]]
        BY <1>1, <2>2 DEF TypeOK
      <3>3. Excuse(docs, "failed")
        BY <2>2
      <3> HIDE DEF docs
      <3> QED BY <1>1, <3>1, <3>2, <3>3, ExcuseFacts
    <2> QED BY <1>3, <2>1, <2>2
  <1>6. \A d \in Docs : Excused(d) => Excused(d)'
    BY <1>1, <1>5 DEF Excused
  <1>7. ChoresOK'
    BY <1>1, ChoresStay
  <1>8. Live' = Live /\ Journal' = Journal
    BY <1>1 DEF Live, Journal
  <1>9. TypeOK' /\ Shape'
    BY <1>1, <1>2, <1>5 DEF TypeOK, Shape, Running
  <1>10. Journalled' /\ KeptQueued' /\ Linked'
    BY <1>1, <1>8 DEF IInv, Journalled, KeptQueued, Linked
  <1>11. MemInv'
    <2> SUFFICES ASSUME NEW d \in Docs, ~Excused(d)' PROVE InMemory(d)'
      BY <1>1 DEF MemInv, Running
    <2>1. InMemory(d)
      BY <1>1, <1>6 DEF IInv, MemInv
    <2>2. CASE d \in DocsOf(operationQueue)
      BY <1>1, <2>1, <2>2 DEF InMemory
    <2>3. CASE d \notin DocsOf(operationQueue) /\ d \in DocsOf(ops')
      BY <1>1, <1>2, <2>1, <2>3 DEF InMemory, LastRight
    <2>4. CASE d \notin DocsOf(operationQueue) /\ d \notin DocsOf(ops') /\ d # d0
      BY <1>1, <1>2, <1>5, <2>1, <2>4 DEF InMemory
    <2>5. CASE d \notin DocsOf(operationQueue) /\ d \notin DocsOf(ops') /\ d = d0
      <3>1. Right(tree[d0], op)
        BY <1>2, <2>1, <2>5 DEF InMemory, LastRight
      <3>2. Shown(tree[d0], blocks'[d0])
        BY <1>5, <2>5, <3>1 DEF Right, Excused
      <3> QED BY <1>1, <2>5, <3>2 DEF InMemory
    <2> QED BY <2>2, <2>3, <2>4, <2>5
  <1>12. DiskInv'
    BY <1>1, <1>2, <1>5, <1>6, <1>8 DEF IInv, DiskInv
  <1>13. CutInv'
    BY <1>1, <1>2, <1>6 DEF IInv, CutInv, TypeOK
  <1>14. EntriesInv'
    BY <1>1 DEF IInv, EntriesInv
  <1> QED BY <1>7, <1>9, <1>10, <1>11, <1>12, <1>13, <1>14 DEF IInv

\* A batch given up is left to the journal.
LEMMA AbandonBatchOK ==
    ASSUME IInv, AbandonBatch
    PROVE  IInv'
  <1>1. /\ TypeOK /\ Shape /\ ChoresOK /\ Running /\ stage = "batch" /\ stage' = "idle"
        /\ ops' = <<>> /\ snapshot' = 0 /\ faults' = faults + 1
        /\ abandoned' = abandoned \cup DocsOf(ops)
        /\ Excuse(cut \ DocsOf(operationQueue), "abandoned")
        /\ tree' = tree /\ writes' = writes /\ chores' = chores
        /\ operationQueue' = operationQueue /\ indexQueue' = indexQueue
        /\ UNCHANGED <<preserved, entries, blocks, crashes, cut>>
    BY DEF AbandonBatch, Fault, IInv, Running, TypeOK, world, queue
  <1>2. /\ reasons' \in [Docs -> SUBSET Why]
        /\ \A d \in Docs : reasons[d] \subseteq reasons'[d]
        /\ \A d \in cut \ DocsOf(operationQueue) : d \in Docs /\ reasons'[d] # {}
        /\ crashes = 0 => \A d \in Docs : reasons'[d] \subseteq Unstopped
    BY <1>1, ExcuseFacts DEF Unstopped, TypeOK
  <1>3. \A d \in Docs : Excused(d) => Excused(d)'
    BY <1>1, <1>2 DEF Excused
  <1>4. ChoresOK'
    BY <1>1, ChoresStay
  <1>5. DocsOf(ops) \subseteq Docs
    BY <1>1 DEF TypeOK, DocsOf, Operation
  <1>6. TypeOK' /\ Shape'
    BY <1>1, <1>2, <1>5 DEF TypeOK, Shape, Running, Stages
  <1>7. /\ Live' = indexQueue /\ Journal' = indexQueue /\ Journal = indexQueue
        /\ Range(Live) \subseteq Range(indexQueue)
        /\ \A d, e : Final(Live, d, e) => Final(indexQueue, d, e)
    BY <1>1, <1>6, LiveFacts, AfterFacts DEF Live, Journal, TypeOK
  <1>8. Journalled' /\ KeptQueued'
    BY <1>1, <1>7 DEF IInv, Journalled, KeptQueued
  <1>9. Linked'
    <2>1. \A d : Mirrors(operationQueue, Live, d) => Mirrors(operationQueue, indexQueue, d)
      BY <1>7 DEF Mirrors
    <2> QED BY <1>1, <1>7, <2>1 DEF IInv, Linked, LinkOK
  <1>10. MemInv'
    BY <1>1, <1>3, EmptyFacts DEF IInv, MemInv, InMemory, Running
  <1>11. DiskInv'
    BY <1>1, <1>3, <1>7, EmptyFacts DEF IInv, DiskInv
  <1>12. CutInv' /\ EntriesInv'
    BY <1>1, <1>2 DEF IInv, CutInv, EntriesInv, Excused
  <1> QED BY <1>4, <1>6, <1>8, <1>9, <1>10, <1>11, <1>12 DEF IInv

\* The entries before the snapshot go: whatever is still queued is among those kept.
LEMMA ClearOK ==
    ASSUME IInv, ClearIndexQueue
    PROVE  IInv'
  <1>1. /\ TypeOK /\ Shape /\ ChoresOK /\ Running /\ stage = "batch" /\ stage' = "rewrite"
        /\ ops = <<>> /\ ops' = <<>> /\ snapshot' = 0 /\ preserved' = Kept
        /\ indexQueue' = <<>> /\ Excuse(abandoned, "abandoned") /\ abandoned' = {}
        /\ cut' = cut \cap DocsOf(operationQueue)
        /\ tree' = tree /\ writes' = writes /\ chores' = chores
        /\ operationQueue' = operationQueue
        /\ UNCHANGED <<entries, blocks, crashes, faults>>
    BY DEF ClearIndexQueue, IInv, Running, world
  <1>2. /\ reasons' \in [Docs -> SUBSET Why]
        /\ \A d \in Docs : reasons[d] \subseteq reasons'[d]
        /\ \A d \in abandoned : d \in Docs /\ reasons'[d] # {}
        /\ crashes = 0 => \A d \in Docs : reasons'[d] \subseteq Unstopped
    BY <1>1, ExcuseFacts DEF Unstopped, TypeOK
  <1>3. \A d \in Docs : Excused(d) => Excused(d)'
    BY <1>1, <1>2 DEF Excused
  <1>4. ChoresOK'
    BY <1>1, ChoresStay
  <1>5. /\ Kept = Live /\ Live \in Seq(JournalEntry) /\ Journal' = Live /\ Live' = Live
        /\ Range(Live) \subseteq Range(indexQueue) /\ Journal = indexQueue
    BY <1>1, LiveFacts DEF Kept, After, Live, Journal
  <1>6. TypeOK' /\ Shape'
    BY <1>1, <1>2, <1>5 DEF TypeOK, Shape, Running, Stages
  <1>7. Journalled' /\ KeptQueued'
    BY <1>1, <1>5, RangeOf DEF IInv, Journalled, KeptQueued, TypeOK
  <1>8. Linked'
    BY <1>1, <1>5 DEF IInv, Linked, LinkOK
  <1>9. MemInv'
    BY <1>1, <1>2, <1>3, EmptyFacts DEF IInv, MemInv, InMemory, Running, Excused
  <1>10. DiskInv'
    <2> SUFFICES ASSUME NEW d \in Docs, ~Excused(d)', d \notin cut \/ d \notin DocsOf(operationQueue)
                 PROVE  \/ Owes(tree[d], Live, d)
                        \/ /\ Shown(tree[d], blocks[d]) /\ (tree[d] = 0 \/ d \notin DocsOf(Live))
                           /\ d \notin DocsOf(operationQueue)
      BY <1>1, <1>5, EmptyFacts DEF DiskInv
    <2>1. InMemory(d) /\ ~Excused(d) /\ d \notin abandoned
      BY <1>1, <1>2, <1>3 DEF IInv, MemInv, Excused
    <2>2. CASE d \notin DocsOf(operationQueue)
      BY <1>1, <2>1, <2>2, EmptyFacts DEF InMemory, IInv, KeptQueued
    <2>3. CASE d \in DocsOf(operationQueue)
      <3>1. LastRight(tree[d], operationQueue, d) /\ d \notin cut
        BY <2>1, <2>3 DEF InMemory
      <3>2. LinkOK(operationQueue, Live, tree[d], chores, d)
        BY <1>1, <3>1 DEF IInv, Linked
      <3>3. \A x \in Range(operationQueue) : Entry(x) \in JournalEntry
                 /\ Entry(x).doc = x.doc /\ Entry(x).action = x.action
        BY <1>1, EntryFacts, RangeOf DEF TypeOK
      <3>4. CASE Mirrors(operationQueue, Live, d)
        <4>1. PICK x \in Range(operationQueue) : Final(operationQueue, d, x) /\ Final(Live, d, Entry(x))
          BY <3>4 DEF Mirrors
        <4>2. Right(tree[d], x) /\ Entry(x) \in Range(Live) /\ x.doc = d
          BY <1>1, <1>5, <3>1, <4>1, RangeOf DEF LastRight, TypeOK
        <4> QED BY <3>3, <4>1, <4>2 DEF Owes, Deletes, Right
      <3>5. CASE OnlyDeletes(operationQueue, d) /\ tree[d] = 0
        <4>1. PICK x \in Range(operationQueue) : x.doc = d
          BY <1>1, <2>3, RangeOf DEF TypeOK
        <4>2. Entry(x) \in Range(Live) /\ x.action \notin TreeActions
          BY <3>1, <3>5, <4>1 DEF IInv, Journalled, OnlyDeletes
        <4> QED BY <3>3, <3>5, <4>1, <4>2 DEF Owes, Deletes
      <3>6. ~ToCome(chores, d)
        <4> SUFFICES ASSUME NEW x \in Operation, chores = <<x>>, x.doc = d PROVE FALSE
          BY DEF ToCome
        <4>1. DocsOf(chores) = {d}
          BY OneFacts
        <4> QED BY <2>1, <4>1 DEF Excused
      <3> QED BY <2>3, <3>2, <3>4, <3>5, <3>6 DEF LinkOK
    <2> QED BY <2>2, <2>3
  <1>11. CutInv' /\ EntriesInv'
    BY <1>1 DEF CutInv, EntriesInv
  <1> QED BY <1>4, <1>6, <1>7, <1>8, <1>9, <1>10, <1>11 DEF IInv

\* The kept entries come back.
LEMMA RewriteOK ==
    ASSUME IInv, RewriteIndexQueue
    PROVE  IInv'
  <1>1. /\ TypeOK /\ Shape /\ ChoresOK /\ Running /\ stage = "rewrite" /\ stage' = "load"
        /\ snapshot = 0 /\ ops = <<>>
        /\ indexQueue' = preserved /\ preserved' = <<>>
        /\ tree' = tree /\ writes' = writes /\ chores' = chores
        /\ UNCHANGED <<operationQueue, ops, snapshot, entries, blocks,
                       crashes, faults, abandoned, cut, reasons>>
    BY DEF RewriteIndexQueue, IInv, Running, world, Shape
  <1>2. \A d \in Docs : Excused(d)' <=> Excused(d)
    BY <1>1 DEF Excused
  <1>3. ChoresOK'
    BY <1>1, ChoresStay
  <1>4. Live' = Live /\ Journal' = Journal
    BY <1>1, AfterFacts DEF Live, Journal, TypeOK
  <1>5. TypeOK' /\ Shape'
    BY <1>1 DEF TypeOK, Shape, Running, Stages
  <1>6. Journalled' /\ KeptQueued' /\ Linked'
    BY <1>1, <1>4 DEF IInv, Journalled, KeptQueued, Linked
  <1>7. MemInv'
    BY <1>1, <1>2 DEF IInv, MemInv, InMemory, Running
  <1>8. DiskInv' /\ CutInv' /\ EntriesInv'
    BY <1>1, <1>2, <1>4 DEF IInv, DiskInv, CutInv, EntriesInv, TypeOK
  <1> QED BY <1>3, <1>5, <1>6, <1>7, <1>8 DEF IInv

\* Replaying what the journal holds leaves every document right.
LEMMA LoadOK ==
    ASSUME IInv, LoadIndexQueue
    PROVE  IInv'
  <1>1. /\ TypeOK /\ Shape /\ ChoresOK /\ Running /\ stage = "load"
        /\ stage' = (IF indexQueue = <<>> THEN "idle" ELSE "replay")
        /\ snapshot = 0 /\ ops = <<>> /\ entries' = indexQueue
        /\ tree' = tree /\ writes' = writes /\ chores' = chores
        /\ operationQueue' = operationQueue /\ indexQueue' = indexQueue
        /\ UNCHANGED <<ops, snapshot, preserved, blocks, crashes, faults, abandoned, cut, reasons>>
    BY DEF LoadIndexQueue, IInv, Running, world, Shape, queue
  <1>2. \A d \in Docs : Excused(d)' <=> Excused(d)
    BY <1>1 DEF Excused
  <1>3. ChoresOK'
    BY <1>1, ChoresStay
  <1>4. Live' = Live /\ Journal' = Journal /\ Journal = indexQueue
    BY <1>1 DEF Live, Journal
  <1>5. TypeOK' /\ Shape'
    BY <1>1 DEF TypeOK, Shape, Running, Stages
  <1>6. Journalled' /\ KeptQueued' /\ Linked'
    BY <1>1, <1>4 DEF IInv, Journalled, KeptQueued, Linked
  <1>7. MemInv'
    <2> SUFFICES ASSUME NEW d \in Docs, ~Excused(d) PROVE InMemory(d)'
      BY <1>1, <1>2 DEF MemInv, Running
    <2>1. InMemory(d)
      BY <1>1 DEF IInv, MemInv
    <2>2. CASE d \in DocsOf(operationQueue)
      BY <1>1, <2>1, <2>2 DEF InMemory
    <2>3. CASE d \notin DocsOf(operationQueue)
      <3>1. d \notin cut
        BY <1>1, <2>3 DEF IInv, CutInv
      <3>2. Replayable(tree[d], blocks[d], indexQueue, d)
        BY <1>4, <3>1 DEF IInv, DiskInv, Replayable
      <3> QED BY <1>1, <2>1, <2>3, <3>2, EmptyFacts DEF InMemory
    <2> QED BY <2>2, <2>3
  <1>8. DiskInv' /\ CutInv' /\ EntriesInv'
    BY <1>1, <1>2, <1>4 DEF IInv, DiskInv, CutInv, EntriesInv, TypeOK
  <1> QED BY <1>3, <1>5, <1>6, <1>7, <1>8 DEF IInv

\* A replay that runs its next entry still leaves the document right in the end.
LEMMA ReplayStep ==
    ASSUME NEW s \in Seq(JournalEntry), s # <<>>, NEW t, NEW rows, NEW new, NEW d \in Docs,
           Replayable(t, rows, s, d),
           d # Head(s).doc => new = rows,
           d = Head(s).doc =>
               IF Head(s).action \in TreeActions /\ t = 0 THEN new = rows ELSE Shown(t, new)
    PROVE  Replayable(t, new, Tail(s), d)
  <1> DEFINE e == Head(s)
  <1>1. /\ e \in JournalEntry /\ Tail(s) \in Seq(JournalEntry)
        /\ Range(s) = {e} \cup Range(Tail(s)) /\ DocsOf(s) = {e.doc} \cup DocsOf(Tail(s))
    BY TailFacts
  <1>2. \A x : Final(s, d, x) <=>
            Final(Tail(s), d, x) \/ (x = e /\ e.doc = d /\ d \notin DocsOf(Tail(s)))
    BY TailFacts
  <1>3. \A x : Final(Tail(s), d, x) => x \in Range(Tail(s)) /\ d \in DocsOf(Tail(s))
    <2> SUFFICES ASSUME NEW x, Final(Tail(s), d, x)
                 PROVE  x \in Range(Tail(s)) /\ d \in DocsOf(Tail(s))
      OBVIOUS
    <2>1. x \in Range(Tail(s)) /\ x.doc = d
      BY <1>1, RangeOf
    <2>2. x.doc \in DocsOf(Tail(s))
      BY <1>1, <2>1, RangeOf
    <2> QED BY <2>1, <2>2
  <1>4. (d # e.doc => new = rows) /\ (d = e.doc =>
            IF e.action \in TreeActions /\ t = 0 THEN new = rows ELSE Shown(t, new))
    OBVIOUS
  <1> HIDE DEF e
  <1>5. CASE d # e.doc
    <2>1. Owes(t, s, d) => Owes(t, Tail(s), d)
      BY <1>1, <1>2, <1>3, <1>5 DEF Owes, Deletes
    <2> QED BY <1>1, <1>4, <1>5, <2>1 DEF Replayable
  <1>6. CASE d = e.doc /\ t = 0 /\ e.action \in TreeActions
    BY <1>1, <1>4, <1>6 DEF Replayable, Owes, Deletes
  <1>7. CASE d = e.doc /\ t = 0 /\ e.action \notin TreeActions
    BY <1>4, <1>7 DEF Replayable
  <1>8. CASE d = e.doc /\ t # 0
    <2>1. Owes(t, s, d) /\ Shown(t, new)
      BY <1>1, <1>4, <1>8 DEF Replayable
    <2>2. PICK f \in Range(s) : Final(s, d, f) /\ f.action \in TreeActions
      BY <1>8, <2>1 DEF Owes
    <2>3. CASE d \in DocsOf(Tail(s))
      BY <1>2, <1>3, <1>8, <2>2, <2>3 DEF Replayable, Owes
    <2>4. CASE d \notin DocsOf(Tail(s))
      BY <2>1, <2>4 DEF Replayable
    <2> QED BY <2>3, <2>4
  <1> QED BY <1>5, <1>6, <1>7, <1>8

\* The replay of an entry.
LEMMA ReplayNextOK ==
    ASSUME IInv, ReplayNext
    PROVE  IInv'
  <1> DEFINE e == Head(entries)
             d0 == e.doc
  <1>1. /\ TypeOK /\ Shape /\ ChoresOK /\ Running /\ stage = "replay" /\ entries # <<>>
        /\ entries \in Seq(JournalEntry) /\ entries' = Tail(entries)
        /\ abandoned' = abandoned \ (DocsOf(entries) \ DocsOf(entries'))
        /\ tree' = tree /\ writes' = writes /\ chores' = chores
        /\ operationQueue' = operationQueue /\ indexQueue' = indexQueue
        /\ UNCHANGED <<stage, ops, snapshot, preserved, crashes, cut>>
        /\ ops = <<>> /\ snapshot = 0
    BY DEF ReplayNext, IInv, Running, TypeOK, Shape, world, queue
  <1>2. /\ e \in JournalEntry /\ entries' \in Seq(JournalEntry)
        /\ Range(entries) = {e} \cup Range(entries')
        /\ DocsOf(entries) = {d0} \cup DocsOf(entries')
    BY <1>1, TailFacts
  <1>3. \/ IsNil(e) /\ UNCHANGED <<blocks, faults, reasons>>
        \/ ~IsNil(e) /\ ExecOp(e, TreeOf(e)) /\ UNCHANGED <<faults, reasons>>
        \/ /\ ~IsNil(e) /\ faults' = faults + 1
           /\ Excuse({d \in {d0} : TreeOf(e) = tree[d]}, "failed")
           /\ UNCHANGED blocks
    BY DEF ReplayNext, ExecFails, Fault
  <1>4. d0 \in Docs /\ e.action \in Actions /\ tree[d0] \in {0} \cup Versions
    BY <1>1, <1>2 DEF JournalEntry, TypeOK
  <1>5. /\ IsNil(e) <=> e.action \in TreeActions /\ tree[d0] = 0
        /\ TreeOf(e) \in {0} \cup Versions
        /\ ~IsNil(e) => (TreeOf(e) = 0 <=> e.action \notin TreeActions)
        /\ e.action \notin TreeActions => TreeOf(e) = 0
        /\ e.action \in TreeActions => TreeOf(e) = tree[d0]
    BY <1>4 DEF IsNil, TreeOf
  <1> HIDE DEF e
  <1>6. /\ faults' \in Nat /\ reasons' \in [Docs -> SUBSET Why]
        /\ blocks' \in [Docs -> [Versions -> 0 .. 2]]
        /\ \A d \in Docs \ {d0} : blocks'[d] = blocks[d]
        /\ \A d \in Docs : reasons[d] \subseteq reasons'[d]
        /\ crashes = 0 => \A d \in Docs : reasons'[d] \subseteq Unstopped
        /\ IF IsNil(e) THEN blocks' = blocks
           ELSE TreeOf(e) = tree[d0] => Shown(tree[d0], blocks'[d0]) \/ reasons'[d0] # {}
        /\ blocks' = blocks \/ Shown(TreeOf(e), blocks'[d0])
    <2>1. CASE IsNil(e) /\ UNCHANGED <<blocks, faults, reasons>>
      BY <1>1, <2>1 DEF TypeOK, Shape
    <2>2. CASE ~IsNil(e) /\ ExecOp(e, TreeOf(e)) /\ UNCHANGED <<faults, reasons>>
      <3>1. /\ blocks' \in [Docs -> [Versions -> 0 .. 2]]
            /\ \A d \in Docs \ {d0} : blocks'[d] = blocks[d]
            /\ Shown(TreeOf(e), blocks'[d0])
        BY <1>1, <1>4, <1>5, <2>2, ExecOpFacts
      <3> QED BY <1>1, <2>2, <3>1 DEF TypeOK, Shape
    <2>3. CASE /\ ~IsNil(e) /\ faults' = faults + 1
               /\ Excuse({d \in {d0} : TreeOf(e) = tree[d]}, "failed")
               /\ UNCHANGED blocks
      <3> DEFINE docs == {d \in {d0} : TreeOf(e) = tree[d]}
      <3>1. "failed" \in Unstopped /\ (TreeOf(e) = tree[d0] => d0 \in docs \cap Docs)
        BY <1>4 DEF Unstopped
      <3>2. faults' \in Nat /\ blocks' = blocks /\ blocks \in [Docs -> [Versions -> 0 .. 2]]
        BY <1>1, <2>3 DEF TypeOK
      <3>3. Excuse(docs, "failed")
        BY <2>3
      <3> HIDE DEF docs
      <3> QED BY <1>1, <2>3, <3>1, <3>2, <3>3, ExcuseFacts
    <2> QED BY <1>3, <2>1, <2>2, <2>3
  <1>7. \A d \in Docs : Excused(d) => Excused(d)'
    BY <1>1, <1>6 DEF Excused
  <1>8. ChoresOK'
    BY <1>1, ChoresStay
  <1>9. Live' = Live /\ Journal' = Journal /\ Journal = indexQueue
    BY <1>1 DEF Live, Journal
  <1>10. TypeOK' /\ Shape'
    BY <1>1, <1>2, <1>6 DEF TypeOK, Shape, Running
  <1>11. Journalled' /\ KeptQueued' /\ Linked'
    BY <1>1, <1>9 DEF IInv, Journalled, KeptQueued, Linked
  <1>12. MemInv'
    <2> SUFFICES ASSUME NEW d \in Docs, ~Excused(d)' PROVE InMemory(d)'
      BY <1>1 DEF MemInv, Running
    <2>1. InMemory(d)
      BY <1>1, <1>7 DEF IInv, MemInv
    <2>2. CASE d \in DocsOf(operationQueue)
      BY <1>1, <2>1, <2>2 DEF InMemory
    <2>3. CASE d \notin DocsOf(operationQueue)
      <3>1. Replayable(tree[d], blocks[d], entries, d)
        BY <1>1, <2>1, <2>3, EmptyFacts DEF InMemory
      <3>2. d = d0 => IF e.action \in TreeActions /\ tree[d] = 0 THEN blocks'[d] = blocks[d]
                      ELSE \/ Shown(tree[d], blocks'[d])
                           \/ e.action \notin TreeActions /\ tree[d] # 0
        <4>1. reasons'[d] = {}
          BY DEF Excused
        <4> QED BY <1>5, <1>6, <4>1
      <3>3. CASE ~(d = d0 /\ e.action \notin TreeActions /\ tree[d] # 0)
        <4>1. Replayable(tree[d], blocks'[d], entries', d)
          BY <1>1, <1>6, <3>1, <3>2, <3>3, ReplayStep DEF e
        <4> QED BY <1>1, <2>3, <4>1, EmptyFacts DEF InMemory
      <3>4. CASE d = d0 /\ e.action \notin TreeActions /\ tree[d] # 0
        <4>1. PICK f \in Range(entries) : Final(entries, d, f) /\ f.action \in TreeActions
          BY <1>2, <3>1, <3>4 DEF Replayable, Owes
        <4>2. Final(entries', d, f)
          BY <1>1, <3>4, <4>1, TailFacts DEF e
        <4>3. f \in Range(entries')
          BY <1>2, <4>2, RangeOf
        <4>4. Owes(tree[d], entries', d)
          BY <3>4, <4>1, <4>2, <4>3 DEF Owes
        <4> QED BY <1>1, <2>3, <4>4, EmptyFacts DEF InMemory, Replayable
      <3> QED BY <3>3, <3>4
    <2> QED BY <2>2, <2>3
  <1>13. DiskInv'
    <2>1. d0 \in DocsOf(indexQueue)
      <3>1. e \in Range(indexQueue)
        BY <1>1, <1>2 DEF IInv, EntriesInv
      <3> QED BY <1>1, <3>1, RangeOf DEF TypeOK
    <2> SUFFICES ASSUME NEW d \in Docs, ~Excused(d)', Shown(tree[d], blocks[d]),
                        tree[d] = 0 \/ d \notin DocsOf(indexQueue)
                 PROVE  Shown(tree[d], blocks'[d])
      BY <1>1, <1>7, <1>9 DEF IInv, DiskInv
    <2>2. CASE d = d0
      <3>1. tree[d0] = 0
        BY <2>1, <2>2
      <3> QED BY <1>5, <1>6, <2>2, <3>1
    <2>3. CASE d # d0
      BY <1>6, <2>3
    <2> QED BY <2>2, <2>3
  <1>14. CutInv' /\ EntriesInv'
    BY <1>1, <1>2, <1>7 DEF IInv, CutInv, EntriesInv, TypeOK
  <1> QED BY <1>8, <1>10, <1>11, <1>12, <1>13, <1>14 DEF IInv

\* A replay given up: its documents count as abandoned.
LEMMA AbandonReplayOK ==
    ASSUME IInv, AbandonReplay
    PROVE  IInv'
  <1>1. /\ TypeOK /\ Shape /\ ChoresOK /\ Running /\ stage = "replay" /\ stage' = "idle"
        /\ entries' = <<>> /\ faults' = faults + 1
        /\ abandoned' = abandoned \cup DocsOf(entries)
        /\ tree' = tree /\ writes' = writes /\ chores' = chores
        /\ operationQueue' = operationQueue /\ indexQueue' = indexQueue
        /\ UNCHANGED <<ops, snapshot, preserved, blocks, crashes, cut, reasons>>
        /\ ops = <<>>
    BY DEF AbandonReplay, Fault, IInv, Running, world, queue, Shape
  <1>2. \A d \in Docs : Excused(d)' <=> Excused(d)
    BY <1>1 DEF Excused
  <1>3. ChoresOK'
    BY <1>1, ChoresStay
  <1>4. Live' = Live /\ Journal' = Journal
    BY <1>1 DEF Live, Journal
  <1>5. entries \in Seq(JournalEntry) /\ DocsOf(entries) \subseteq Docs
    <2>1. entries \in Seq(JournalEntry)
      BY <1>1 DEF TypeOK
    <2>2. \A i \in DOMAIN entries : entries[i].doc \in Docs
      <3> SUFFICES ASSUME NEW i \in DOMAIN entries PROVE entries[i].doc \in Docs
        OBVIOUS
      <3>1. entries[i] \in JournalEntry
        BY <2>1
      <3> QED BY <3>1 DEF JournalEntry
    <2> QED BY <2>1, <2>2 DEF DocsOf
  <1>6. TypeOK' /\ Shape'
    BY <1>1, <1>5 DEF TypeOK, Shape, Running, Stages
  <1>7. Journalled' /\ KeptQueued' /\ Linked'
    BY <1>1, <1>4 DEF IInv, Journalled, KeptQueued, Linked
  <1>8. MemInv'
    <2> SUFFICES ASSUME NEW d \in Docs, ~Excused(d) PROVE InMemory(d)'
      BY <1>1, <1>2 DEF MemInv, Running
    <2>1. InMemory(d)
      BY <1>1 DEF IInv, MemInv
    <2>2. Owes(tree[d], entries, d) => d \in DocsOf(entries)
      BY <1>5, RangeOf DEF Owes, Deletes
    <2> QED BY <1>1, <2>1, <2>2, EmptyFacts DEF InMemory, Replayable
  <1>9. DiskInv' /\ CutInv' /\ EntriesInv'
    BY <1>1, <1>2, <1>4 DEF IInv, DiskInv, CutInv, EntriesInv, TypeOK
  <1> QED BY <1>3, <1>6, <1>7, <1>8, <1>9 DEF IInv

\* A finished replay empties the journal, and everything replayed is right.
LEMMA TruncateOK ==
    ASSUME IInv, TruncateIndexQueue
    PROVE  IInv'
  <1>1. /\ TypeOK /\ Shape /\ ChoresOK /\ Running /\ stage = "replay" /\ stage' = "idle"
        /\ entries = <<>> /\ indexQueue' = <<>> /\ cut' = cut \cup DocsOf(operationQueue)
        /\ tree' = tree /\ writes' = writes /\ chores' = chores
        /\ operationQueue' = operationQueue
        /\ UNCHANGED <<ops, snapshot, preserved, entries, blocks, crashes, faults, abandoned, reasons>>
        /\ ops = <<>> /\ snapshot = 0
    BY DEF TruncateIndexQueue, IInv, Running, world, Shape
  <1>2. \A d \in Docs : Excused(d)' <=> Excused(d)
    BY <1>1 DEF Excused
  <1>3. ChoresOK'
    BY <1>1, ChoresStay
  <1>4. DocsOf(operationQueue) \subseteq Docs
    BY <1>1 DEF TypeOK, DocsOf, Operation
  <1>5. TypeOK' /\ Shape'
    BY <1>1, <1>4 DEF TypeOK, Shape, Running, Stages
  <1>6. Journal' = <<>>
    BY <1>1 DEF Journal
  <1>7. Journalled' /\ KeptQueued' /\ Linked'
    BY <1>1, RangeOf DEF Journalled, KeptQueued, Linked, LinkOK, TypeOK
  <1>8. \A d \in Docs : Replayable(tree[d], blocks[d], <<>>, d) => Shown(tree[d], blocks[d])
    BY EmptyFacts DEF Replayable, Owes, Deletes
  <1>9. MemInv'
    BY <1>1, <1>2, <1>8, EmptyFacts DEF IInv, MemInv, InMemory, Running
  <1>10. DiskInv'
    BY <1>1, <1>2, <1>6, <1>8, EmptyFacts DEF IInv, MemInv, InMemory, Running, DiskInv
  <1>11. CutInv' /\ EntriesInv'
    BY <1>1, <1>2, <1>4 DEF IInv, CutInv, EntriesInv, TypeOK
  <1> QED BY <1>3, <1>5, <1>7, <1>9, <1>10, <1>11 DEF IInv

-----------------------------------------------------------------------------
(* A stop and the recovery; the theorems.                                  *)

\* Entries that owe something of a document name it.
LEMMA OwingNamed ==
    ASSUME NEW s \in Seq(JournalEntry), NEW t, NEW d, Owes(t, s, d)
    PROVE  d \in DocsOf(s)
BY RangeOf DEF Owes, Deletes

\* A stop: the journal alone makes up for what was in memory.
LEMMA CrashOK ==
    ASSUME IInv, Crash
    PROVE  IInv'
  <1>1. /\ TypeOK /\ Shape /\ ChoresOK /\ stage' = "down" /\ crashes' = crashes + 1
        /\ reasons' = [d \in Docs |-> reasons[d]
                      \cup (IF d \in cut THEN {"cut"} ELSE {})
                      \cup (IF d \in DocsOf(chores) THEN {"unqueued"} ELSE {})
                      \cup (IF d \in DocsOf(preserved) THEN {"clearing"} ELSE {})]
        /\ chores' = <<>> /\ operationQueue' = <<>> /\ ops' = <<>> /\ snapshot' = 0
        /\ preserved' = <<>> /\ entries' = <<>> /\ abandoned' = {} /\ cut' = {}
        /\ UNCHANGED <<tree, writes, indexQueue, blocks, faults>>
    BY DEF Crash, IInv
  <1>2. reasons' \in [Docs -> SUBSET Why]
    <2>1. reasons \in [Docs -> SUBSET Why] /\ {"cut", "unqueued", "clearing"} \subseteq Why
      BY <1>1 DEF TypeOK, Why
    <2> QED BY <1>1, <2>1
  <1>3. TypeOK'
    BY <1>1, <1>2 DEF TypeOK, Stages
  <1>4. crashes' # 0
    BY <1>1 DEF TypeOK
  <1>5. Shape' /\ ChoresOK'
    BY <1>1, <1>4 DEF Shape, ChoresOK, Running
  <1>6. Journalled' /\ KeptQueued' /\ Linked' /\ MemInv' /\ CutInv' /\ EntriesInv'
    BY <1>1, EmptyFacts DEF Journalled, KeptQueued, Linked, LinkOK, MemInv, CutInv, EntriesInv
  <1>7. DiskInv'
    <2> SUFFICES ASSUME NEW d \in Docs, ~Excused(d)'
                 PROVE  \/ Owes(tree[d], indexQueue, d)
                        \/ Shown(tree[d], blocks[d]) /\ (tree[d] = 0 \/ d \notin DocsOf(indexQueue))
      BY <1>1, EmptyFacts DEF DiskInv, Journal
    <2>1. reasons'[d] = {}
      BY DEF Excused
    <2>2. reasons[d] = {} /\ d \notin cut /\ d \notin DocsOf(chores) /\ d \notin DocsOf(preserved)
      BY <1>1, <2>1
    <2>3. \/ Owes(tree[d], Journal, d)
          \/ Shown(tree[d], blocks[d]) /\ (tree[d] = 0 \/ d \notin DocsOf(Journal))
      BY <2>2 DEF IInv, DiskInv, Excused
    <2>4. CASE stage = "rewrite"
      <3>1. Journal = preserved /\ indexQueue = <<>> /\ preserved \in Seq(JournalEntry)
        BY <1>1, <2>4 DEF Journal, Shape, TypeOK
      <3>2. ~Owes(tree[d], preserved, d)
        BY <2>2, <3>1, RangeOf DEF Owes, Deletes
      <3> QED BY <2>3, <3>1, <3>2, EmptyFacts
    <2>5. CASE stage # "rewrite"
      BY <2>3, <2>5 DEF Journal
    <2> QED BY <2>4, <2>5
  <1> QED BY <1>3, <1>5, <1>6, <1>7 DEF IInv

\* The next start reads the journal.
LEMMA ReadOK ==
    ASSUME IInv, ReadIndexQueue
    PROVE  IInv'
  <1>1. /\ TypeOK /\ Shape /\ ChoresOK /\ ~Running /\ stage = "down" /\ stage' = "recover"
        /\ entries' = indexQueue /\ chores = <<>> /\ abandoned = {} /\ cut = {}
        /\ operationQueue = <<>> /\ ops = <<>> /\ snapshot = 0
        /\ tree' = tree /\ writes' = writes /\ chores' = chores
        /\ operationQueue' = operationQueue /\ indexQueue' = indexQueue
        /\ UNCHANGED <<ops, snapshot, preserved, blocks, crashes, faults, abandoned, cut, reasons>>
    BY DEF ReadIndexQueue, IInv, Running, world, queue, Shape
  <1>2. \A d \in Docs : Excused(d)' <=> Excused(d)
    BY <1>1 DEF Excused
  <1>3. ChoresOK'
    BY <1>1, ChoresStay
  <1>4. Live' = Live /\ Journal' = Journal /\ Journal = indexQueue
    BY <1>1 DEF Live, Journal
  <1>5. TypeOK' /\ Shape'
    BY <1>1 DEF TypeOK, Shape, Running, Stages
  <1>6. Journalled' /\ KeptQueued' /\ Linked'
    BY <1>1, EmptyFacts DEF Journalled, KeptQueued, Linked, LinkOK
  <1>7. MemInv'
    <2> SUFFICES ASSUME NEW d \in Docs, ~Excused(d)
                 PROVE  RecoverOK(tree[d], blocks[d], indexQueue, <<>>, d)
      BY <1>1, <1>2 DEF MemInv
    <2>1. Replayable(tree[d], blocks[d], indexQueue, d)
      BY <1>1, <1>4 DEF IInv, DiskInv, Replayable
    <2>2. OnlyDeletes(<<>>, d)
      BY EmptyFacts DEF OnlyDeletes
    <2>3. tree[d] # 0 => (d \in DocsOf(indexQueue) <=> Owes(tree[d], indexQueue, d))
                         /\ (d \in DocsOf(indexQueue) \/ Shown(tree[d], blocks[d]))
      <3>1. Owes(tree[d], indexQueue, d) => d \in DocsOf(indexQueue)
        BY <1>1, OwingNamed DEF TypeOK
      <3> QED BY <2>1, <3>1 DEF Replayable
    <2> QED BY <2>1, <2>2, <2>3, EmptyFacts DEF RecoverOK
  <1>8. DiskInv' /\ CutInv'
    BY <1>1, <1>2, <1>4 DEF IInv, DiskInv, CutInv
  <1>9. EntriesInv'
    BY <1>1, EmptyFacts DEF EntriesInv
  <1> QED BY <1>3, <1>5, <1>6, <1>7, <1>8, <1>9 DEF IInv

\* The operation an entry turns into.
LEMMA RecoverOperationFacts ==
    ASSUME TypeOK, NEW e \in JournalEntry, ~IsNil(e)
    PROVE  LET op == RecoverOperation(e) IN
           /\ op \in Operation /\ op.doc = e.doc /\ op.action = e.action /\ Entry(op) = e
           /\ op.tree = TreeOf(e) /\ e.doc \in Docs
           /\ e.action \in TreeActions => op.tree = tree[e.doc] /\ op.tree # 0
  <1>1. e.doc \in Docs /\ e.action \in Actions /\ tree[e.doc] \in {0} \cup Versions
        /\ e = [action |-> e.action, doc |-> e.doc]
    BY DEF JournalEntry, TypeOK
  <1>2. /\ TreeOf(e) \in {0} \cup Versions /\ (TreeOf(e) = 0 <=> e.action \notin TreeActions)
        /\ (e.action \in TreeActions => TreeOf(e) = tree[e.doc])
    BY <1>1 DEF TreeOf, IsNil
  <1> QED BY <1>1, <1>2 DEF RecoverOperation, Operation, Entry

\* Recovering the next entry.
LEMMA RecoverNextOK ==
    ASSUME IInv, RecoverNext
    PROVE  IInv'
  <1> DEFINE e == Head(entries)
             d0 == e.doc
             op == RecoverOperation(e)
  <1>1. /\ TypeOK /\ Shape /\ ChoresOK /\ ~Running /\ stage = "recover" /\ stage' = "recover"
        /\ entries # <<>> /\ entries \in Seq(JournalEntry) /\ entries' = Tail(entries)
        /\ chores = <<>> /\ abandoned = {} /\ cut = {} /\ snapshot = 0 /\ ops = <<>>
        /\ operationQueue \in Seq(Operation) /\ indexQueue \in Seq(JournalEntry)
        /\ operationQueue' = (IF IsNil(e) THEN operationQueue ELSE Append(operationQueue, op))
        /\ tree' = tree /\ writes' = writes /\ chores' = chores
        /\ UNCHANGED <<indexQueue, ops, snapshot, preserved, blocks, crashes, faults,
                       abandoned, cut, reasons>>
    BY DEF RecoverNext, IInv, Running, TypeOK, Shape, world
  <1>2. /\ e \in JournalEntry /\ entries' \in Seq(JournalEntry)
        /\ Range(entries) = {e} \cup Range(entries')
        /\ DocsOf(entries) = {d0} \cup DocsOf(entries')
    BY <1>1, TailFacts
  <1>3. \A d, x : Final(entries, d, x) <=>
            Final(entries', d, x) \/ (x = e /\ d0 = d /\ d \notin DocsOf(entries'))
    BY <1>1, TailFacts
  <1>4. \A d, x : Final(entries', d, x) => x \in Range(entries')
    BY <1>2, RangeOf
  <1>5. /\ d0 \in Docs /\ (IsNil(e) <=> e.action \in TreeActions /\ tree[d0] = 0)
        /\ ~IsNil(e) =>
              /\ op \in Operation /\ op.doc = d0 /\ op.action = e.action /\ Entry(op) = e
              /\ e.action \in TreeActions => op.tree = tree[d0]
    BY <1>1, <1>2, RecoverOperationFacts DEF IsNil, JournalEntry
  <1>6. ~IsNil(e) =>
           /\ operationQueue' \in Seq(Operation)
           /\ Range(operationQueue') = Range(operationQueue) \cup {op}
           /\ DocsOf(operationQueue') = DocsOf(operationQueue) \cup {d0}
           /\ \A d, x : Final(operationQueue', d, x) <=>
                 (d0 = d /\ x = op) \/ (d0 # d /\ Final(operationQueue, d, x))
    <2> SUFFICES ASSUME ~IsNil(e)
                 PROVE  /\ operationQueue' \in Seq(Operation)
                        /\ Range(operationQueue') = Range(operationQueue) \cup {op}
                        /\ DocsOf(operationQueue') = DocsOf(operationQueue) \cup {d0}
                        /\ \A d, x : Final(operationQueue', d, x) <=>
                              (d0 = d /\ x = op) \/ (d0 # d /\ Final(operationQueue, d, x))
      OBVIOUS
    <2>1. operationQueue' = Append(operationQueue, op) /\ op \in Operation /\ op.doc = d0
      BY <1>1, <1>5
    <2> HIDE DEF op, d0
    <2> QED BY <1>1, <2>1, AppendFacts
  <1>7. IsNil(e) => operationQueue' = operationQueue
    BY <1>1
  <1> HIDE DEF e, op
  <1>8. \A d \in Docs : Excused(d)' <=> Excused(d)
    BY <1>1 DEF Excused
  <1>9. ChoresOK'
    BY <1>1, ChoresStay
  <1>10. Live' = indexQueue /\ Live = indexQueue /\ Journal' = indexQueue /\ Journal = indexQueue
    BY <1>1, LiveFacts, AfterFacts DEF Live, Journal
  <1>11. operationQueue' \in Seq(Operation)
    BY <1>1, <1>6, <1>7
  <1>12. TypeOK' /\ Shape'
    BY <1>1, <1>2, <1>11 DEF TypeOK, Shape, Running
  <1>13. e \in Range(indexQueue) /\ d0 \in DocsOf(indexQueue)
    <2>1. e \in Range(indexQueue)
      BY <1>1, <1>2 DEF IInv, EntriesInv
    <2> QED BY <1>1, <2>1, RangeOf
  <1>14. Journalled' /\ KeptQueued'
    BY <1>1, <1>5, <1>6, <1>7, <1>10, <1>13 DEF IInv, Journalled, KeptQueued
  <1>15. EntriesInv'
    <2>1. Range(entries') \subseteq Range(indexQueue)
      BY <1>1, <1>2 DEF IInv, EntriesInv
    <2>2. \A d \in Docs, x \in Range(entries') : Final(entries', d, x) => Final(indexQueue, d, x)
      BY <1>1, <1>2, <1>3 DEF IInv, EntriesInv
    <2>3. \A x \in Range(operationQueue) : ~IsNil(Entry(x))
      BY <1>1 DEF IInv, EntriesInv
    <2>4. \A x \in Range(operationQueue') : ~IsNil(Entry(x))
      BY <1>5, <1>6, <1>7, <2>3
    <2>5. \A x \in Range(operationQueue') : ~IsNil(Entry(x))'
      BY <1>1, <2>4 DEF IsNil
    <2> QED BY <1>1, <2>1, <2>2, <2>5 DEF EntriesInv
  <1>16. Linked'
    <2> SUFFICES ASSUME NEW d \in Docs, d \notin DocsOf(entries')
                 PROVE  LinkOK(operationQueue', indexQueue, tree[d], chores, d)
      BY <1>1, <1>10 DEF Linked
    <2>1. CASE d # d0
      <3>1. LinkOK(operationQueue, indexQueue, tree[d], chores, d)
        BY <1>1, <1>2, <1>10, <2>1 DEF IInv, Linked
      <3> QED BY <1>5, <1>6, <1>7, <2>1, <3>1 DEF LinkOK, Mirrors, OnlyDeletes
    <2>2. CASE d = d0 /\ ~IsNil(e)
      <3>1. Final(indexQueue, d0, e)
        BY <1>1, <1>2, <1>3, <2>2 DEF IInv, EntriesInv
      <3> QED BY <1>5, <1>6, <2>2, <3>1 DEF LinkOK, Mirrors
    <2>3. CASE d = d0 /\ IsNil(e)
      <3>1. \A x \in Range(operationQueue) : x.doc = d0 => x.action \notin TreeActions
        <4> SUFFICES ASSUME NEW x \in Range(operationQueue), x.doc = d0, x.action \in TreeActions
                     PROVE  FALSE
          OBVIOUS
        <4>1. Entry(x).doc = d0 /\ Entry(x).action = x.action
          BY <1>1, EntryFacts, RangeOf
        <4>2. IsNil(Entry(x))
          BY <1>5, <2>3, <4>1 DEF IsNil
        <4> QED BY <1>1, <4>2 DEF IInv, EntriesInv
      <3> QED BY <1>5, <1>7, <2>3, <3>1 DEF LinkOK, OnlyDeletes
    <2> QED BY <2>1, <2>2, <2>3
  <1>17. MemInv'
    <2> SUFFICES ASSUME NEW d \in Docs, ~Excused(d)
                 PROVE  RecoverOK(tree[d], blocks[d], entries', operationQueue', d)
      BY <1>1, <1>8 DEF MemInv
    <2>1. RecoverOK(tree[d], blocks[d], entries, operationQueue, d)
      BY <1>1 DEF IInv, MemInv, Running
    <2>2. CASE d # d0 /\ tree[d] = 0
      <3>1. OnlyDeletes(operationQueue', d) /\ (Deletes(operationQueue, d) => Deletes(operationQueue', d))
        BY <1>5, <1>6, <1>7, <2>1, <2>2 DEF RecoverOK, OnlyDeletes, Deletes
      <3>2. Replayable(tree[d], blocks[d], entries, d) => Replayable(tree[d], blocks[d], entries', d)
        BY <1>2, <2>2 DEF Replayable, Owes, Deletes
      <3> QED BY <2>1, <2>2, <3>1, <3>2 DEF RecoverOK
    <2>3. CASE d # d0 /\ tree[d] # 0
      <3>1. LastRight(tree[d], operationQueue, d) => LastRight(tree[d], operationQueue', d)
        BY <1>1, <1>5, <1>6, <1>7, <2>3, RangeOf DEF LastRight
      <3>2. Owes(tree[d], entries, d) => Owes(tree[d], entries', d)
        BY <1>3, <1>4, <2>3 DEF Owes
      <3>3. (d \in DocsOf(operationQueue') <=> d \in DocsOf(operationQueue))
            /\ (d \in DocsOf(entries') <=> d \in DocsOf(entries))
        BY <1>2, <1>6, <1>7, <2>3
      <3> QED BY <2>1, <2>3, <3>1, <3>2, <3>3 DEF RecoverOK
    <2>4. CASE d = d0 /\ tree[d] = 0
      <3>1. OnlyDeletes(operationQueue', d)
        BY <1>5, <1>6, <1>7, <2>1, <2>4 DEF RecoverOK, OnlyDeletes
      <3>2. CASE IsNil(e)
        <4>1. Deletes(entries, d) => Deletes(entries', d)
          BY <1>2, <1>5, <2>4, <3>2 DEF Deletes
        <4> QED BY <1>7, <2>1, <2>4, <3>1, <3>2, <4>1 DEF RecoverOK, Replayable, Owes
      <3>3. CASE ~IsNil(e)
        <4>1. Deletes(operationQueue', d)
          BY <1>5, <1>6, <2>4, <3>3 DEF Deletes
        <4> QED BY <2>4, <3>1, <4>1 DEF RecoverOK
      <3> QED BY <3>2, <3>3
    <2>5. CASE d = d0 /\ tree[d] # 0
      <3>1. PICK f \in Range(entries) : Final(entries, d, f) /\ f.action \in TreeActions
        BY <1>2, <2>1, <2>5 DEF RecoverOK, Owes
      <3>2. CASE d \in DocsOf(entries')
        BY <1>3, <1>4, <2>5, <3>1, <3>2 DEF RecoverOK, Owes
      <3>3. CASE d \notin DocsOf(entries')
        <4>1. f = e
          <5>1. ~Final(entries', d, f)
            BY <1>2, <3>3, RangeOf
          <5> QED BY <1>3, <3>1, <5>1
        <4>2. ~IsNil(e) /\ op.tree = tree[d] /\ op.action \in TreeActions
          BY <1>5, <2>5, <3>1, <4>1
        <4>3. LastRight(tree[d], operationQueue', d) /\ d \in DocsOf(operationQueue')
          BY <1>6, <2>5, <4>2 DEF LastRight, Right
        <4> QED BY <2>5, <3>3, <4>3 DEF RecoverOK
      <3> QED BY <3>2, <3>3
    <2> QED BY <2>2, <2>3, <2>4, <2>5
  <1>18. DiskInv'
    <2> SUFFICES ASSUME NEW d \in Docs, ~Excused(d), ~Owes(tree[d], indexQueue, d)
                 PROVE  /\ Shown(tree[d], blocks[d]) /\ (tree[d] = 0 \/ d \notin DocsOf(indexQueue))
                        /\ d \notin DocsOf(ops) \cup DocsOf(operationQueue')
      BY <1>1, <1>8, <1>10 DEF DiskInv
    <2>1. /\ Shown(tree[d], blocks[d]) /\ (tree[d] = 0 \/ d \notin DocsOf(indexQueue))
          /\ d \notin DocsOf(ops) \cup DocsOf(operationQueue)
      BY <1>1, <1>10 DEF IInv, DiskInv
    <2>2. d = d0 => IsNil(e)
      BY <1>5, <1>13, <2>1 DEF Owes, Deletes
    <2> QED BY <1>6, <1>7, <2>1, <2>2
  <1>19. CutInv'
    BY <1>1 DEF CutInv
  <1> QED BY <1>9, <1>12, <1>14, <1>15, <1>16, <1>17, <1>18, <1>19 DEF IInv

\* The queue recovered holds what the journal owes.
LEMMA RecoveredOK ==
    ASSUME IInv, Recovered
    PROVE  IInv'
  <1>1. /\ TypeOK /\ Shape /\ ChoresOK /\ ~Running /\ stage = "recover" /\ stage' = "idle"
        /\ entries = <<>> /\ chores = <<>> /\ abandoned = {} /\ cut = {}
        /\ ops = <<>> /\ snapshot = 0 /\ operationQueue \in Seq(Operation)
        /\ tree' = tree /\ writes' = writes /\ chores' = chores
        /\ operationQueue' = operationQueue /\ indexQueue' = indexQueue
        /\ UNCHANGED <<ops, snapshot, preserved, entries, blocks, crashes, faults,
                       abandoned, cut, reasons>>
    BY DEF Recovered, IInv, Running, world, queue, Shape, TypeOK
  <1>2. \A d \in Docs : Excused(d)' <=> Excused(d)
    BY <1>1 DEF Excused
  <1>3. ChoresOK'
    BY <1>1, ChoresStay
  <1>4. Live' = Live /\ Journal' = Journal
    BY <1>1 DEF Live, Journal
  <1>5. TypeOK' /\ Shape'
    BY <1>1 DEF TypeOK, Shape, Running, Stages
  <1>6. Journalled' /\ KeptQueued' /\ Linked'
    BY <1>1, <1>4, EmptyFacts DEF IInv, Journalled, KeptQueued, Linked
  <1>7. MemInv'
    <2> SUFFICES ASSUME NEW d \in Docs, ~Excused(d) PROVE InMemory(d)'
      BY <1>1, <1>2 DEF MemInv, Running
    <2>1. RecoverOK(tree[d], blocks[d], <<>>, operationQueue, d)
      BY <1>1 DEF IInv, MemInv, Running
    <2>2. CASE tree[d] # 0
      BY <1>1, <2>1, <2>2, EmptyFacts DEF RecoverOK, InMemory
    <2>3. CASE tree[d] = 0 /\ d \in DocsOf(operationQueue)
      <3>1. \A x \in Range(operationQueue) : x \in Operation
        BY <1>1, RangeOf
      <3>2. LastRight(tree[d], operationQueue, d)
        BY <1>1, <2>1, <2>3, <3>1, RangeOf DEF RecoverOK, OnlyDeletes, LastRight, Right, Operation
      <3> QED BY <1>1, <2>3, <3>2 DEF InMemory
    <2>4. CASE tree[d] = 0 /\ d \notin DocsOf(operationQueue)
      <3>1. ~Deletes(operationQueue, d)
        BY <1>1, <2>4, RangeOf DEF Deletes
      <3>2. Shown(tree[d], blocks[d])
        BY <2>1, <2>4, <3>1, EmptyFacts DEF RecoverOK, Replayable, Owes, Deletes
      <3> QED BY <1>1, <2>4, <3>2, EmptyFacts DEF InMemory
    <2> QED BY <2>2, <2>3, <2>4
  <1>8. DiskInv' /\ CutInv' /\ EntriesInv'
    BY <1>1, <1>2, <1>4 DEF IInv, DiskInv, CutInv, EntriesInv
  <1> QED BY <1>3, <1>5, <1>6, <1>7, <1>8 DEF IInv

\* Every step keeps the invariant.
LEMMA NextOK == IInv /\ [Next]_vars => IInv'
  <1> SUFFICES ASSUME IInv, [Next]_vars PROVE IInv'
    OBVIOUS
  <1>1. ASSUME NEW d \in Docs, WriteTree(d) PROVE IInv'
    BY <1>1, WriteTreeOK
  <1>2. ASSUME NEW d \in Docs, RemoveTree(d) PROVE IInv'
    BY <1>2, RemoveTreeOK
  <1>3. ASSUME NEW d \in Docs, RollbackDocHistory(d) PROVE IInv'
    BY <1>3, RollbackOK
  <1>4. CASE WriteRestored
    BY <1>4, WriteRestoredOK
  <1>5. CASE Enqueue
    BY <1>5, EnqueueOK
  <1>6. CASE Flush
    BY <1>6, GetOperationsOK, ExecNextOK, AbandonBatchOK, ClearOK, RewriteOK, LoadOK,
       ReplayNextOK, AbandonReplayOK, TruncateOK DEF Flush
  <1>7. CASE Crash
    BY <1>7, CrashOK
  <1>8. CASE RecoverIndexQueue
    BY <1>8, ReadOK, RecoverNextOK, RecoveredOK DEF RecoverIndexQueue
  <1>9. CASE UNCHANGED vars
    BY <1>9, StutterOK
  <1> QED BY <1>1, <1>2, <1>3, <1>4, <1>5, <1>6, <1>7, <1>8, <1>9 DEF Next

\* The invariant of the queue, its journal and the index: type correctness, and for
\* every document either an excuse or both accounts, in memory and on disk.
THEOREM Invariant == Spec => []IInv
  <1>1. Init => IInv
    BY InitOK
  <1>2. IInv /\ [Next]_vars => IInv'
    BY NextOK
  <1> QED BY <1>1, <1>2, PTL DEF Spec

\* Findable is Shown of the document.
LEMMA FindableIsShown == \A d : Findable(d) <=> Shown(tree[d], blocks[d])
BY DEF Findable, Shown

\* A document the index lacks is named somewhere.
LEMMA MissingIsOwedOK == IInv => MissingIsOwed
  <1> SUFFICES ASSUME IInv, NEW d \in Docs, ~Shown(tree[d], blocks[d]), reasons[d] = {},
                      d \notin abandoned, d \notin DocsOf(chores), d \notin DocsOf(operationQueue),
                      d \notin DocsOf(ops)
               PROVE  d \in DocsOf(indexQueue) \cup DocsOf(preserved) \cup DocsOf(entries)
    BY FindableIsShown DEF MissingIsOwed
  <1>1. /\ TypeOK /\ Shape /\ ~Excused(d)
        /\ entries \in Seq(JournalEntry) /\ indexQueue \in Seq(JournalEntry)
        /\ operationQueue \in Seq(Operation)
    BY DEF IInv, TypeOK, Excused
  <1>2. CASE stage = "down"
    <2>1. Owes(tree[d], indexQueue, d)
      BY <1>1, <1>2 DEF IInv, DiskInv, Journal, Shape, Running
    <2> QED BY <1>1, <2>1, OwingNamed
  <1>3. CASE stage = "recover"
    <2>1. RecoverOK(tree[d], blocks[d], entries, operationQueue, d)
      BY <1>1, <1>3 DEF IInv, MemInv, Running
    <2>2. ~Deletes(operationQueue, d)
      BY <1>1, RangeOf DEF Deletes
    <2> QED BY <1>1, <2>1, <2>2, OwingNamed DEF RecoverOK, Replayable
  <1>4. CASE Running
    <2>1. InMemory(d)
      BY <1>1, <1>4 DEF IInv, MemInv, Running
    <2> QED BY <1>1, <2>1, OwingNamed DEF InMemory, Replayable
  <1> QED BY <1>2, <1>3, <1>4 DEF Running

\* The queue in memory is in the journal.
LEMMA QueuedIsJournalledOK == IInv => QueuedIsJournalled
  <1> SUFFICES ASSUME IInv, NEW i \in DOMAIN operationQueue, operationQueue[i].doc \notin cut
               PROVE  Entry(operationQueue[i]) \in Range(indexQueue \o preserved)
    BY DEF QueuedIsJournalled
  <1>1. TypeOK /\ Shape /\ indexQueue \in Seq(JournalEntry) /\ preserved \in Seq(JournalEntry)
    BY DEF IInv, TypeOK
  <1>2. Entry(operationQueue[i]) \in Range(Live)
    BY DEF IInv, Journalled, Range
  <1>3. Range(Live) \subseteq Range(indexQueue) \cup Range(preserved)
    BY <1>1, LiveFacts
  <1>4. Range(indexQueue) \cup Range(preserved) \subseteq Range(indexQueue \o preserved)
    BY <1>1, RangeConcatenation
  <1> QED BY <1>2, <1>3, <1>4

\* A flush never loses an operation: a document the index lacks is named by an operation
\* or an entry somewhere unless a reason is known, and what waits in memory waits in the
\* journal too unless its entry was cut.
THEOREM NothingIsForgotten == Spec => []NothingForgotten
  <1>1. IInv => NothingForgotten
    BY MissingIsOwedOK, QueuedIsJournalledOK DEF NothingForgotten
  <1> QED BY <1>1, Invariant, PTL

\* The list of reasons is complete: whatever is written, removed, rolled back, failed,
\* given up or stopped, once nothing waits a document is findable or one of the six
\* reasons was met since its last change.
THEOREM WrongIndexHasAReason == Spec => []WrongIndexIsExplained
  <1>1. IInv => WrongIndexIsExplained
    <2> SUFFICES ASSUME IInv, AtRest, NEW d \in Docs, ~Shown(tree[d], blocks[d])
                 PROVE  \/ reasons[d] \cap {"reordered", "failed", "abandoned"} # {}
                        \/ crashes > 0 /\ reasons[d] # {}
      BY FindableIsShown DEF WrongIndexIsExplained
    <2>1. /\ Running /\ chores = <<>> /\ operationQueue = <<>> /\ indexQueue = <<>>
          /\ ops = <<>> /\ preserved = <<>> /\ entries = <<>>
          /\ stage # "down" /\ stage # "recover"
      BY DEF AtRest, Running
    <2>2. ~Owes(tree[d], <<>>, d)
      BY EmptyFacts DEF Owes, Deletes
    <2>3. Excused(d)
      <3> SUFFICES ASSUME ~Excused(d) PROVE FALSE
        OBVIOUS
      <3>1. InMemory(d)
        BY <2>1 DEF IInv, MemInv
      <3>2. stage # "replay" /\ d \in abandoned
        BY <2>1, <2>2, <3>1, EmptyFacts DEF InMemory, Replayable
      <3>3. d \in cut
        BY <2>1, <2>2 DEF IInv, DiskInv, Journal
      <3> QED BY <2>1, <3>2, <3>3, EmptyFacts DEF IInv, CutInv
    <2>4. reasons[d] # {}
      BY <2>1, <2>3, EmptyFacts DEF Excused
    <2>5. crashes \in Nat /\ (crashes = 0 => reasons[d] \subseteq Unstopped)
      BY DEF IInv, TypeOK, Shape
    <2> QED BY <2>4, <2>5 DEF Unstopped
  <1> QED BY <1>1, Invariant, PTL
=============================================================================
