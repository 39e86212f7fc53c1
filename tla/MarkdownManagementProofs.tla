----------------------- MODULE MarkdownManagementProofs -----------------------
(***************************************************************************)
(* Proofs about MarkdownManagement, for any number of windows, editors,    *)
(* edits and operations under way:                                         *)
(*   - an editor left behind by a move has a notice of it to come;         *)
(*   - no edit disappears but by the steps that EditsStay names;           *)
(*   - a clean editor shows what its revision is of, but for three causes; *)
(*   - refusals and leases are left behind for one cause each.             *)
(* TypeInv and PathInv carry the first, TextInv the second and the last,   *)
(* TitleInv the third: an editor clean and up to date when a rename is     *)
(* committed to it shows the text renamed only if the new title is in the  *)
(* revision committed, which takes the whole way from saving the title.    *)
(***************************************************************************)
EXTENDS MarkdownManagement, SequenceTheorems, FiniteSetTheorems, WellFoundedInduction, TLAPS
-----------------------------------------------------------------------------
(* What is in the variables.                                               *)
Texts == SUBSET (Edits \cup {Title})
Paths == {"old", "new"}
Changes == {"rename", "move", "remove"}
Kinds == Saves \cup Changes
Target(kind) == IF kind = "remove" THEN "gone" ELSE "new"

Disks == [content : Texts, path : Paths \cup {"gone"}]
Eds == [view : Texts, rev : Texts, path : Paths, dirty : BOOLEAN,
        last : {"saved", "none", "ok", "conflict", "error"}, timer : BOOLEAN, flushing : BOOLEAN,
        dialog : BOOLEAN, open : BOOLEAN]
Reloads == [doc : Texts, got : Texts, path : Paths, on : BOOLEAN]
Ops == [owner : Editors \cup {"tree"}, kind : Kinds,
        phase : {"none", "prepare", "load", "get", "request", "answer", "commit", "over"},
        nested : BOOLEAN, from : Paths, rev : Texts, body : Texts,
        result : {"none", "ok", "conflict", "error"}, withheld : BOOLEAN]
\* A pending operation with an answer that matched knows the revisions of those editors,
\* and a window is busy only with editors of its own.
Pendings == {p \in [phase : {"none", "prepare", "commit"}, left : SUBSET Windows, ok : BOOLEAN,
                    revs : SUBSET Texts, matches : BOOLEAN] : p.matches => p.revs # {}}
Guests == {g \in [at : {"none", "prepare", "busy", "commit"}, matched : SUBSET Editors,
                  waiting : SUBSET Editors, refused : BOOLEAN] : g.at = "busy" => g.matched # {}}
Events == [kind : {"save", "rename", "remove"}, from : Paths, op : 0..MaxOps]

EdsOK == ed \in [Editors -> Eds]
OpsOK == op \in [Ids -> Ops]
PendingOK == pending \in [Ids -> Pendings]
GuestOK == guest \in [Ids -> [Windows -> Guests]]
EventsOK == events \in [Windows -> Seq(Events)]
RestOK == /\ disk \in Disks /\ typed \in SUBSET Edits
          /\ reload \in [Editors -> Reloads] /\ leases \in SUBSET Ids
          /\ jobs \in SUBSET (Kinds \ {"save"}) /\ original \in Texts
          /\ alive \in SUBSET Windows

TypeInv == EdsOK /\ OpsOK /\ PendingOK /\ GuestOK /\ EventsOK /\ RestOK
-----------------------------------------------------------------------------
OpenAlive == \A e \in Editors : Open(e) => WindowOf[e] \in alive
EdPaths == \A e \in Editors : ed[e].path = "new" => disk.path = "new"
TreeOps == \A i \in Ids : op[i].kind \in Changes => op[i].owner = "tree" /\ op[i].from = "old" /\ ~op[i].nested
Withholds == \A i \in Ids : op[i].withheld =>
                 op[i].phase # "none" /\ op[i].kind \in Changes /\ disk.path = Target(op[i].kind)
EventsTrue ==
    \A w \in Windows : \A n \in DOMAIN events[w] :
        events[w][n].kind # "save" =>
            LET i == events[w][n].op
            IN /\ i \in Ids /\ op[i].kind \in Changes
               /\ events[w][n].kind = "remove" <=> op[i].kind = "remove"
               /\ events[w][n].from = "old" /\ disk.path = Target(op[i].kind)
\* A change that the kernel made, and the windows that have not followed it.
Granted == \A i \in Ids : op[i].kind \in Changes /\ op[i].result = "ok" =>
               disk.path = Target(op[i].kind) /\ op[i].phase \in {"answer", "commit", "over", "none"}
GuestsTrue == \A i \in Ids, w \in Windows : guest[i][w].at = "commit" /\ op[i].kind \in Changes =>
                  disk.path = Target(op[i].kind)
Delivered == \A i \in Ids : op[i].kind \in Changes /\ op[i].result = "ok"
                             /\ op[i].phase \in {"commit", "over", "none"} =>
                 \A e \in Editors : Open(e) /\ ed[e].path = "old" =>
                     guest[i][WindowOf[e]].at = "commit"
\* The coordinator waits for an operation only in the phase it is in, and has not granted it.
Pairs == \A i \in Ids : pending[i].phase # "none" =>
             op[i].phase = pending[i].phase /\ i \notin leases
RemoveAlone == "remove" \in jobs => /\ jobs = {"remove"} /\ disk.path = "old"
                                    /\ \A i \in Ids : op[i].kind = "save"
Behind(e) ==
    LET w == WindowOf[e]
    IN \/ \E n \in DOMAIN events[w] : events[w][n].kind # "save"
       \/ w = TreeWindow /\ \E i \in Ids : op[i].withheld
       \/ \E i \in Ids : guest[i][w].at = "commit" /\ op[i].kind \in Changes
Follows == \A e \in Editors : Open(e) /\ ed[e].path # disk.path => Behind(e)

PathInv == /\ OpenAlive /\ EdPaths /\ TreeOps /\ Withholds /\ EventsTrue /\ Granted
           /\ GuestsTrue /\ Delivered /\ Pairs /\ RemoveAlone /\ Follows
-----------------------------------------------------------------------------
\* Setting one editor, or one operation, leaves the rest of their types.
LEMMA OneEd == ASSUME EdsOK, NEW e \in Editors, NEW r \in Eds, ed' = [ed EXCEPT ![e] = r]
               PROVE EdsOK'
  BY DEF EdsOK

\* One operation changed.
LEMMA OneOp == ASSUME OpsOK, NEW i \in Ids, NEW r \in Ops, op' = [op EXCEPT ![i] = r]
               PROVE OpsOK'
  BY DEF OpsOK

\* What the code makes of an editor is an editor.
LEMMA FlushedEd == ASSUME NEW r \in Eds PROVE Flushed(r) \in Eds
  BY DEF Flushed, Eds

\* The same for closing one.
LEMMA ClosedEd == ASSUME NEW r \in Eds PROVE Closed(r) \in Eds
  BY DEF Closed, Eds

\* The same for renaming one.
LEMMA RenamedEd == ASSUME NEW r \in Eds, NEW v \in Texts PROVE [Renamed(r) EXCEPT !.rev = v] \in Eds
<1>1. r.view \cup {Title} \in Texts
  BY DEF Eds, Texts
<1>2. QED
  BY <1>1 DEF Renamed, Eds, Paths

\* What is kept of an operation that ended is an operation.
LEMMA SpentOp == ASSUME OpsOK, NEW i \in Ids PROVE Spent(i) \in Ops
<1>1. op[i] \in Ops /\ {} \in Texts
  BY DEF OpsOK, Texts
<1>2. Free \in Ops
  BY <1>1 DEF Free, Ops, Kinds, Saves, Paths
<1>3. \A r \in Ops, v \in {"none", "ok", "conflict", "error"}, t \in Texts :
          [r EXCEPT !.phase = "none", !.nested = FALSE, !.withheld = FALSE, !.body = {},
                    !.result = v, !.rev = t] \in Ops
  BY <1>1 DEF Ops
<1>4. op[i].result \in {"none", "ok", "conflict", "error"} /\ op[i].rev \in Texts
  BY <1>1 DEF Ops
<1>5. QED
  BY <1>1, <1>2, <1>3, <1>4 DEF Spent

\* The end of a flush leaves the windows' parts well formed.
LEMMA ReleasedGuests == ASSUME GuestOK, NEW e \in Editors, NEW ok \in BOOLEAN
                        PROVE Released(e, ok) \in [Ids -> [Windows -> Guests]]
<1>1. \A g \in Guests : [g EXCEPT !.waiting = @ \ {e}, !.refused = @ \/ ~ok] \in Guests
  BY DEF Guests
<1>2. QED
  BY <1>1 DEF GuestOK, Released

\* The records that stand for nothing to do.
LEMMA AwayQuiet == Away \in Guests /\ Quiet \in Pendings /\ Nothing \in Reloads
  BY DEF Away, Quiet, Nothing, Guests, Pendings, Reloads, Texts, Paths

\* Beginning an operation keeps the types.
LEMMA AskingTypes ==
    ASSUME TypeInv, NEW i \in Ids, NEW r \in Ops, Asking(i, r)
    PROVE OpsOK' /\ PendingOK' /\ GuestOK'
<1>1. OpsOK'
  BY OneOp DEF Asking, TypeInv
<1>2. PendingOK'
  <2>1. \A v \in SUBSET Texts : [Quiet EXCEPT !.phase = "prepare", !.left = alive, !.revs = v] \in Pendings
    BY AwayQuiet DEF Quiet, Pendings, TypeInv, RestOK
  <2>2. (IF r.owner = "tree" THEN {} ELSE {r.rev}) \in SUBSET Texts
    BY DEF Ops
  <2>3. QED
    BY <2>1, <2>2 DEF Asking, TypeInv, PendingOK
<1>3. GuestOK'
  <2>1. [Away EXCEPT !.at = "prepare"] \in Guests
    BY AwayQuiet DEF Away, Guests
  <2>2. QED
    BY <2>1, AwayQuiet DEF Asking, TypeInv, GuestOK
<1>4. QED
  BY <1>1, <1>2, <1>3

\* The coordinator, with all answers, keeps them.
LEMMA FinishTypes ==
    ASSUME TypeInv, NEW i \in Ids, NEW p \in Pendings, Finish(i, p)
    PROVE OpsOK' /\ PendingOK' /\ leases' \in SUBSET Ids
<1>1. op[i] \in Ops
  BY DEF TypeInv, OpsOK
<1>2. PendingOK'
  BY AwayQuiet DEF Finish, TypeInv, PendingOK
<1>3. leases' \in SUBSET Ids
  BY DEF Finish, TypeInv, RestOK
<1>4. OpsOK'
  <2>1. CASE p.left # {}
    BY <2>1 DEF Finish, TypeInv, OpsOK
  <2>2. CASE p.left = {} /\ UNCHANGED leases /\ op' = [op EXCEPT ![i].phase = "over", ![i].result = "error"]
    BY <1>1, <2>2, OneOp DEF TypeInv, OpsOK, Ops
  <2>3. CASE /\ p.left = {}
             /\ op' = [op EXCEPT ![i].phase = IF op[i].owner # "tree" THEN "request"
                                                  ELSE IF ~p.matches THEN "load"
                                                  ELSE IF op[i].kind = "title" THEN "get"
                                                  ELSE "request",
                                     ![i].rev = IF p.matches
                                                THEN CHOOSE r \in p.revs : TRUE
                                                ELSE op[i].rev]
    <3> DEFINE v == IF p.matches THEN CHOOSE r \in p.revs : TRUE ELSE op[i].rev
    <3>1. v \in Texts
      <4>1. p.matches => p.revs # {} /\ p.revs \in SUBSET Texts
        BY DEF Pendings
      <4>2. p.matches => (CHOOSE r \in p.revs : TRUE) \in p.revs
        BY <4>1
      <4>3. QED
        BY <4>1, <4>2, <1>1 DEF Ops
    <3>2. PICK ph \in {"request", "get", "load"} : op' = [op EXCEPT ![i].phase = ph, ![i].rev = v]
      BY <2>3
    <3> HIDE DEF v
    <3>3. [op[i] EXCEPT !.phase = ph, !.rev = v] \in Ops
      BY <1>1, <3>1 DEF Ops
    <3>4. op' = [op EXCEPT ![i] = [op[i] EXCEPT !.phase = ph, !.rev = v]]
      BY <1>1, <3>2 DEF TypeInv, OpsOK, Ops
    <3>5. QED
      BY <3>3, <3>4, OneOp DEF TypeInv
  <2>4. QED
    BY <2>1, <2>2, <2>3 DEF Finish
<1>5. QED
  BY <1>2, <1>3, <1>4

\* The coordinator, with one more answer, keeps them.
LEMMA AnsweredTypes ==
    ASSUME TypeInv, NEW i \in Ids, NEW w \in Windows, NEW ok \in BOOLEAN, NEW revs \in SUBSET Texts,
           NEW matches \in BOOLEAN, matches => revs # {}, Answered(i, w, ok, revs, matches)
    PROVE OpsOK' /\ PendingOK' /\ leases' \in SUBSET Ids
<1> DEFINE p == [pending[i] EXCEPT !.left = @ \ {w}, !.ok = @ /\ ok,
                                   !.revs = @ \cup revs, !.matches = @ \/ matches]
<1>1. pending[i] \in Pendings
  BY DEF TypeInv, PendingOK
<1>2. p \in Pendings
  BY <1>1 DEF Pendings
<1>3. CASE Finish(i, p)
  BY <1>2, <1>3, FinishTypes
<1>4. CASE UNCHANGED <<pending, leases, op>>
  BY <1>4 DEF TypeInv, OpsOK, PendingOK, RestOK
<1>5. QED
  BY <1>3, <1>4 DEF Answered

\* Telling the windows keeps them.
LEMMA TellTypes ==
    ASSUME TypeInv, NEW i \in Ids, NEW kind \in {"save", "rename", "remove"}, Tell(kind, i)
    PROVE EventsOK'
<1> DEFINE event == [kind |-> kind, from |-> op[i].from, op |-> IF kind = "save" THEN 0 ELSE i]
<1>1. event \in Events
  BY BoundsAssumption DEF TypeInv, OpsOK, Ops, Events, Ids
<1>2. \A q \in Seq(Events) : Heard(q, event) \in Seq(Events)
  BY <1>1 DEF Heard
<1>3. <<>> \in Seq(Events)
  OBVIOUS
<1> HIDE DEF event
<1>4. events' = [w \in Windows |-> IF w \notin alive THEN <<>> ELSE Heard(events[w], event)]
  BY DEF Tell, event
<1>5. QED
  BY <1>2, <1>3, <1>4 DEF TypeInv, EventsOK

\* What the kernel carries out keeps them.
LEMMA PerformTypes == ASSUME TypeInv, NEW i \in Ids, Perform(i) PROVE EventsOK' /\ disk' \in Disks
<1>1. EventsOK'
  BY TellTypes DEF Perform
<1>2. op[i].body \in Texts /\ disk \in Disks
  BY DEF TypeInv, OpsOK, Ops, RestOK
<1>3. QED
  BY <1>1, <1>2 DEF Perform, Disks, Paths
-----------------------------------------------------------------------------
\* The actions keep the types.
LEMMA TypesEditing ==
    ASSUME TypeInv, NEW e \in Editors,
           \/ \E x \in Edits : Type(e, x)
           \/ TimerFires(e) \/ Refresh(e) \/ Dismiss(e) \/ CloseTab(e) \/ ApplyReload(e)
    PROVE TypeInv'
<1> USE DEF TypeInv
<1>1. ed[e] \in Eds /\ disk.content \in Texts /\ reload[e] \in Reloads
  BY DEF EdsOK, RestOK, Disks
<1>2. ASSUME NEW x \in Edits, Type(e, x) PROVE TypeInv'
  <2>1. ed[e].view \cup {x} \in Texts
    BY <1>1 DEF Eds, Texts
  <2>2. [ed[e] EXCEPT !.view = @ \cup {x}, !.dirty = TRUE, !.timer = TRUE] \in Eds
    BY <1>1, <2>1 DEF Eds
  <2>3. ed' = [ed EXCEPT ![e] = [ed[e] EXCEPT !.view = @ \cup {x}, !.dirty = TRUE, !.timer = TRUE]]
    BY <1>2 DEF Type, EdsOK, Eds
  <2>4. EdsOK'
    BY <2>2, <2>3, OneEd
  <2>5. QED
    BY <1>2, <2>4 DEF Type, OpsOK, PendingOK, GuestOK, EventsOK, RestOK, coordinator, tree
<1>3. CASE TimerFires(e)
  BY <1>1, <1>3, FlushedEd, OneEd
     DEF TimerFires, OpsOK, PendingOK, GuestOK, EventsOK, RestOK, coordinator, tree, budget
<1>4. CASE Refresh(e)
  <2>1. EdsOK'
    BY <1>1, <1>4 DEF Refresh, EdsOK, Eds
  <2>2. QED
    BY <1>4, <2>1
       DEF Refresh, OpsOK, PendingOK, GuestOK, EventsOK, RestOK, coordinator, tree, budget
<1>5. CASE Dismiss(e)
  <2>1. EdsOK'
    BY <1>1, <1>5 DEF Dismiss, EdsOK, Eds
  <2>2. QED
    BY <1>5, <2>1
       DEF Dismiss, OpsOK, PendingOK, GuestOK, EventsOK, RestOK, coordinator, tree, budget
<1>6. CASE CloseTab(e)
  BY <1>1, <1>6, ClosedEd, OneEd
     DEF CloseTab, OpsOK, PendingOK, GuestOK, EventsOK, RestOK, coordinator, tree
<1>7. CASE ApplyReload(e)
  <2>1. reload[e].got \in Texts
    BY <1>1 DEF Reloads
  <2>2. EdsOK'
    BY <1>1, <1>7, <2>1 DEF ApplyReload, EdsOK, Eds
  <2>3. reload' \in [Editors -> Reloads]
    BY <1>7, AwayQuiet DEF ApplyReload, RestOK
  <2>4. QED
    BY <1>7, <2>2, <2>3
       DEF ApplyReload, OpsOK, PendingOK, GuestOK, EventsOK, RestOK, coordinator, tree, budget
<1>8. QED
  BY <1>2, <1>3, <1>4, <1>5, <1>6, <1>7

\* The least of the free numbers is one of them.
LEMMA MinFree == ASSUME FreeIds # {} PROVE Min(FreeIds) \in FreeIds
<1> DEFINE R == OpToRel(<, Nat)
<1>1. FreeIds \subseteq Nat
  BY BoundsAssumption DEF FreeIds, Ids
<1>2. IsWellFoundedOn(R, Nat)
  BY NatLessThanWellFounded
<1> HIDE DEF R
<1>3. PICK i \in FreeIds : \A j \in FreeIds : <<j, i>> \notin R
  <2>1. QED
    BY <1>1, <1>2, WFMin
<1>4. ASSUME NEW j \in FreeIds PROVE i <= j
  <2>1. i \in Nat /\ j \in Nat
    BY <1>1
  <2>2. ~(j < i)
    BY <1>3, <2>1 DEF R, OpToRel
  <2>3. QED
    BY <2>1, <2>2
<1>5. QED
  BY <1>4 DEF Min

\* SaveOnce keeps the types.
LEMMA TypesSaveOnce == ASSUME TypeInv, NEW e \in Editors, SaveOnce(e) PROVE TypeInv'
<1> DEFINE nested == PrepareActive(WindowOf[e])
           r == [Free EXCEPT !.owner = e, !.nested = nested, !.from = ed[e].path,
                             !.phase = IF nested THEN "request" ELSE "prepare",
                             !.rev = ed[e].rev, !.body = ed[e].view]
<1>1. nested \in BOOLEAN
  BY DEF PrepareActive
<1>2. ed[e].path \in Paths /\ ed[e].rev \in Texts /\ ed[e].view \in Texts
  BY DEF TypeInv, EdsOK, Eds
<1>3. Asking(Min(FreeIds), r) /\ Min(FreeIds) \in Ids
  BY MinFree DEF SaveOnce, FreeIds
<1> HIDE DEF nested
<1>4. r \in Ops
  BY <1>1, <1>2 DEF Free, Ops, Kinds, Saves
<1> HIDE DEF r
<1>5. OpsOK' /\ PendingOK' /\ GuestOK'
  BY <1>3, <1>4, AskingTypes
<1>6. QED
  BY <1>5 DEF SaveOnce, TypeInv, EdsOK, EventsOK, RestOK, tree, budget

\* SaveEnds keeps the types.
LEMMA TypesSaveEnds == ASSUME TypeInv, NEW i \in Ids, SaveEnds(i) PROVE TypeInv'
<1> DEFINE e == op[i].owner
<1>1. e \in Editors /\ ed[e] \in Eds /\ op[i] \in Ops
  BY DEF SaveEnds, TypeInv, EdsOK, OpsOK
<1>2. OpsOK'
  BY SpentOp, OneOp DEF SaveEnds, TypeInv
<1>3. op[i].body \in Texts /\ op[i].result \in {"none", "ok", "conflict", "error"}
  BY <1>1 DEF Ops
<1>4. ASSUME SaveSucceeds(i) PROVE EdsOK' /\ GuestOK'
  <2>1. EdsOK'
    <3> DEFINE dirty == ed[e].view # op[i].body
    <3>1. dirty \in BOOLEAN
      OBVIOUS
    <3>2. ed' = [ed EXCEPT ![e].rev = op[i].body, ![e].dirty = dirty,
                           ![e].last = "saved", ![e].flushing = dirty]
      BY <1>4 DEF SaveSucceeds
    <3> HIDE DEF dirty
    <3>3. QED
      BY <1>1, <1>3, <3>1, <3>2 DEF TypeInv, EdsOK, Eds
  <2>2. GuestOK'
    BY <1>1, <1>4, ReleasedGuests DEF SaveSucceeds, TypeInv, GuestOK
  <2>3. QED
    BY <2>1, <2>2
<1>5. ASSUME SaveFails(i) PROVE EdsOK' /\ GuestOK'
  <2>1. EdsOK'
    <3> DEFINE dialog == ed[e].dialog \/ (op[i].result = "conflict" /\ Open(e))
    <3>1. dialog \in BOOLEAN
      OBVIOUS
    <3>2. ed' = [ed EXCEPT ![e] = [@ EXCEPT !.last = op[i].result, !.flushing = FALSE,
                                            !.dialog = dialog]]
      BY <1>1, <1>5 DEF SaveFails, TypeInv, EdsOK, Eds
    <3> HIDE DEF dialog
    <3>3. QED
      BY <1>1, <1>3, <3>1, <3>2 DEF TypeInv, EdsOK, Eds
  <2>2. GuestOK'
    BY <1>1, <1>5, ReleasedGuests DEF SaveFails, TypeInv, GuestOK
  <2>3. QED
    BY <2>1, <2>2
<1>6. EdsOK' /\ GuestOK'
  BY <1>4, <1>5 DEF SaveEnds, TypeInv, EdsOK, GuestOK
<1>7. QED
  BY <1>2, <1>6 DEF SaveEnds, TypeInv, PendingOK, EventsOK, RestOK, coordinator, tree, budget

\* PrepareAt keeps the types.
LEMMA TypesPrepareAt ==
    ASSUME TypeInv, NEW i \in Ids, NEW w \in Windows, PrepareAt(i, w) PROVE TypeInv'
<1> DEFINE matched == At(w, op[i].from) \ {op[i].owner}
           slow == {e \in matched : ed[e].dirty \/ ed[e].flushing}
           refused == \E e \in matched \ slow : ed[e].last # "saved"
           busy == [at |-> "busy", matched |-> matched, waiting |-> slow, refused |-> refused]
<1>1. matched \in SUBSET Editors /\ slow \in SUBSET Editors /\ refused \in BOOLEAN
  BY DEF At
<1>2. CASE matched = {}
  <2>1. UNCHANGED ed /\ guest' = [guest EXCEPT ![i][w] = Away] /\ Answered(i, w, TRUE, {}, FALSE)
    BY <1>2 DEF PrepareAt
  <2>2. OpsOK' /\ PendingOK' /\ leases' \in SUBSET Ids
    BY <2>1, AnsweredTypes
  <2>3. GuestOK'
    BY <2>1, AwayQuiet DEF TypeInv, GuestOK
  <2>4. QED
    BY <2>1, <2>2, <2>3 DEF PrepareAt, TypeInv, EdsOK, EventsOK, RestOK, tree, budget
<1>3. CASE matched # {}
  <2>1. /\ ed' = [e \in Editors |-> IF e \in matched THEN Flushed(ed[e]) ELSE ed[e]]
        /\ guest' = [guest EXCEPT ![i][w] = busy] /\ UNCHANGED <<pending, leases, op>>
    BY <1>3 DEF PrepareAt
  <2>2. EdsOK'
    BY <2>1, FlushedEd DEF TypeInv, EdsOK
  <2> HIDE DEF matched, slow, refused
  <2>3. busy \in Guests
    BY <1>1, <1>3 DEF Guests
  <2>4. GuestOK'
    BY <2>1, <2>3 DEF TypeInv, GuestOK
  <2>5. QED
    BY <2>1, <2>2, <2>4 DEF PrepareAt, TypeInv, OpsOK, PendingOK, EventsOK, RestOK, tree, budget
<1>4. QED
  BY <1>2, <1>3

\* PreparedAt keeps the types.
LEMMA TypesPreparedAt ==
    ASSUME TypeInv, NEW i \in Ids, NEW w \in Windows, PreparedAt(i, w) PROVE TypeInv'
<1> DEFINE g == guest[i][w]
           revs == {ed[e].rev : e \in g.matched}
           ok == ~g.refused /\ Cardinality(revs) = 1
<1>1. g \in Guests /\ g.at = "busy"
  BY DEF PreparedAt, TypeInv, GuestOK
<1>2. revs \in SUBSET Texts /\ revs # {} /\ ok \in BOOLEAN
  BY <1>1 DEF Guests, TypeInv, EdsOK, Eds
<1>3. Answered(i, w, ok, revs, TRUE)
  BY DEF PreparedAt
<1> HIDE DEF revs, ok
<1>4. OpsOK' /\ PendingOK' /\ leases' \in SUBSET Ids
  BY <1>2, <1>3, AnsweredTypes
<1>5. GuestOK'
  BY AwayQuiet DEF PreparedAt, TypeInv, GuestOK
<1>6. QED
  BY <1>4, <1>5 DEF PreparedAt, TypeInv, EdsOK, EventsOK, RestOK, tree, budget

\* Giving an operation up keeps the types.
LEMMA TypesGivenUp == ASSUME TypeInv, NEW i \in Ids, GivenUp(i) PROVE OpsOK' /\ PendingOK'
<1>1. op[i] \in Ops
  BY DEF TypeInv, OpsOK
<1>2. OpsOK'
  BY <1>1 DEF GivenUp, TypeInv, OpsOK, Ops
<1>3. QED
  BY <1>2, AwayQuiet DEF GivenUp, TypeInv, PendingOK

\* Giving all up keeps the types.
LEMMA TypesUpset == ASSUME TypeInv, Upset PROVE OpsOK' /\ PendingOK' /\ leases' \in SUBSET Ids
<1>1. \A i \in Ids : [op[i] EXCEPT !.phase = "over", !.result = "error"] \in Ops /\ op[i] \in Ops
  BY DEF TypeInv, OpsOK, Ops
<1>2. OpsOK'
  BY <1>1 DEF Upset, OpsOK
<1>3. QED
  BY <1>2, AwayQuiet DEF Upset, PendingOK

\* Timeout keeps the types.
LEMMA TypesTimeout == ASSUME TypeInv, NEW i \in Ids, Timeout(i) PROVE TypeInv'
  BY TypesGivenUp DEF Timeout, TypeInv, EdsOK, GuestOK, EventsOK, RestOK, tree

\* OtherWindow keeps the types.
LEMMA TypesOtherWindow == ASSUME TypeInv, OtherWindow PROVE TypeInv'
  BY TypesUpset DEF OtherWindow, TypeInv, EdsOK, GuestOK, EventsOK, RestOK, tree

\* Crash keeps the types.
LEMMA TypesCrash == ASSUME TypeInv, NEW w \in Windows, Crash(w) PROVE TypeInv'
<1>1. OpsOK' /\ PendingOK' /\ leases' \in SUBSET Ids
  BY TypesUpset DEF Crash
<1>2. EdsOK'
  <2>1. \A e \in Editors : [ed[e] EXCEPT !.open = FALSE, !.timer = FALSE, !.dialog = FALSE,
                                         !.flushing = FALSE] \in Eds /\ ed[e] \in Eds
    BY DEF TypeInv, EdsOK, Eds
  <2>2. QED
    BY <2>1 DEF Crash, EdsOK
<1>3. GuestOK'
  <2>1. \A i \in Ids : [guest[i] EXCEPT ![w] = Away] \in [Windows -> Guests]
    BY AwayQuiet DEF TypeInv, GuestOK
  <2>2. QED
    BY <2>1 DEF Crash, GuestOK
<1>4. EventsOK'
  <2>1. <<>> \in Seq(Events)
    OBVIOUS
  <2>2. QED
    BY <2>1 DEF Crash, TypeInv, EventsOK
<1>5. reload' \in [Editors -> Reloads] /\ jobs' \in SUBSET (Kinds \ {"save"}) /\ alive' \in SUBSET Windows
  BY AwayQuiet DEF Crash, TypeInv, RestOK
<1>6. QED
  BY <1>1, <1>2, <1>3, <1>4, <1>5 DEF Crash, TypeInv, RestOK

\* Request and RequestLost keep the types.
LEMMA TypesRequest ==
    ASSUME TypeInv, NEW i \in Ids, Request(i) \/ RequestLost(i) PROVE TypeInv'
<1>1. op[i] \in Ops /\ Verdict(i) \in {"ok", "conflict", "error"}
  BY DEF TypeInv, OpsOK, Verdict
<1>2. OpsOK'
  BY <1>1 DEF Request, RequestLost, TypeInv, OpsOK, Ops
<1>3. Perform(i) \/ UNCHANGED <<disk, events>>
  BY DEF Request, RequestLost
<1>4. EventsOK' /\ disk' \in Disks
  BY <1>3, PerformTypes DEF TypeInv, EventsOK, RestOK
<1>5. QED
  BY <1>2, <1>4
     DEF Request, RequestLost, TypeInv, EdsOK, PendingOK, GuestOK, RestOK, coordinator, tree, budget

\* Answer keeps the types.
LEMMA TypesAnswer == ASSUME TypeInv, NEW i \in Ids, Answer(i) PROVE TypeInv'
<1>1. op[i] \in Ops
  BY DEF TypeInv, OpsOK
<1>2. leases' \in SUBSET Ids
  BY DEF Answer, TypeInv, RestOK
<1>3. OpsOK'
  <2>1. op[i].result \in {"none", "ok", "conflict", "error"}
    BY <1>1 DEF Ops
  <2>2. PICK v \in {"none", "ok", "conflict", "error"} :
            \/ op' = [op EXCEPT ![i].phase = "commit"]
            \/ op' = [op EXCEPT ![i].phase = "over", ![i].result = v]
    BY <1>1, <2>1 DEF Answer, Ops, TypeInv, OpsOK
  <2>3. QED
    BY <1>1, <2>2 DEF TypeInv, OpsOK, Ops
<1>4. PendingOK'
  <2>1. [Quiet EXCEPT !.phase = "commit", !.left = alive] \in Pendings
    BY AwayQuiet DEF Quiet, Pendings, TypeInv, RestOK
  <2>2. QED
    BY <2>1 DEF Answer, TypeInv, PendingOK
<1>5. GuestOK'
  <2>1. [Away EXCEPT !.at = "commit"] \in Guests
    BY AwayQuiet DEF Away, Guests
  <2>2. QED
    BY <2>1, AwayQuiet DEF Answer, TypeInv, GuestOK
<1>6. QED
  BY <1>2, <1>3, <1>4, <1>5 DEF Answer, TypeInv, EdsOK, EventsOK, RestOK, tree, budget

\* A reload that begins is a reload.
LEMMA ReloadedType ==
    ASSUME TypeInv, NEW e \in Editors, NEW path \in Paths PROVE Reloaded(e, path) \in Reloads
  BY AwayQuiet DEF Reloaded, TypeInv, EdsOK, Eds, RestOK, Disks, Reloads

\* CommitAt keeps the types.
LEMMA TypesCommitAt ==
    ASSUME TypeInv, NEW i \in Ids, NEW w \in Windows, CommitAt(i, w) PROVE TypeInv'
<1>1. op[i] \in Ops
  BY DEF TypeInv, OpsOK
<1>2. GuestOK'
  BY AwayQuiet DEF CommitAt, TypeInv, GuestOK
<1>3. EdsOK'
  <2>1. op[i].rev \in Texts
    BY <1>1 DEF Ops
  <2>2. \A e \in Editors :
            /\ ed[e] \in Eds /\ Closed(ed[e]) \in Eds
            /\ [Renamed(ed[e]) EXCEPT !.rev = op[i].rev] \in Eds
    BY <2>1, ClosedEd, RenamedEd DEF TypeInv, EdsOK
  <2>3. \A e \in Editors : [ed[e] EXCEPT !.path = "new", !.rev = op[i].rev] \in Eds
    BY <2>1 DEF TypeInv, EdsOK, Eds, Paths
  <2>4. QED
    BY <2>2, <2>3 DEF CommitAt, EdsOK
<1>4. reload' \in [Editors -> Reloads]
  <2>1. op[i].from \in Paths
    BY <1>1 DEF Ops
  <2>2. QED
    BY <2>1, ReloadedType DEF CommitAt, TypeInv, RestOK
<1>5. OpsOK' /\ PendingOK'
  <2>1. [op[i] EXCEPT !.phase = "over"] \in Ops
    BY <1>1 DEF Ops
  <2>2. \A left \in SUBSET Windows : [pending[i] EXCEPT !.left = left] \in Pendings
    BY DEF TypeInv, PendingOK, Pendings
  <2>3. pending[i].left \ {w} \in SUBSET Windows
    BY DEF TypeInv, PendingOK, Pendings
  <2>4. QED
    BY <2>1, <2>2, <2>3, AwayQuiet DEF CommitAt, TypeInv, OpsOK, PendingOK
<1>6. QED
  BY <1>2, <1>3, <1>4, <1>5 DEF CommitAt, TypeInv, EventsOK, RestOK, tree, budget

\* TreeStarts keeps the types.
LEMMA TypesTreeStarts == ASSUME TypeInv, TreeStarts PROVE TypeInv'
<1>1. PICK job \in NextJobs :
          /\ job = "remove" => disk.path # "gone"
          /\ jobs' = jobs \ {job}
          /\ Asking(Min(FreeIds),
                    [Free EXCEPT !.owner = "tree", !.kind = job, !.phase = "prepare",
                                 !.from = IF job = "remove" THEN disk.path ELSE "old",
                                 !.body = IF job = "restore" THEN original ELSE {}])
  BY DEF TreeStarts
<1> DEFINE from == IF job = "remove" THEN disk.path ELSE "old"
           body == IF job = "restore" THEN original ELSE {}
           r == [Free EXCEPT !.owner = "tree", !.kind = job, !.phase = "prepare",
                             !.from = from, !.body = body]
<1>2. job \in Kinds /\ from \in Paths /\ body \in Texts
  BY <1>1 DEF NextJobs, TypeInv, RestOK, Disks, Texts, Paths
<1>3. Asking(Min(FreeIds), r) /\ Min(FreeIds) \in Ids
  BY <1>1, MinFree DEF TreeStarts, FreeIds
<1> HIDE DEF from, body
<1>4. r \in Ops
  BY <1>2 DEF Free, Ops, Texts
<1> HIDE DEF r
<1>5. OpsOK' /\ PendingOK' /\ GuestOK'
  BY <1>3, <1>4, AskingTypes
<1>6. QED
  BY <1>1, <1>5 DEF TreeStarts, TypeInv, EdsOK, EventsOK, RestOK, budget

\* LoadRevision keeps the types.
LEMMA TypesLoadRevision == ASSUME TypeInv, NEW i \in Ids, LoadRevision(i) PROVE TypeInv'
<1>1. op[i] \in Ops /\ disk.content \in Texts
  BY DEF TypeInv, OpsOK, RestOK, Disks
<1>2. PICK ph \in {"get", "request"} :
          op' = [op EXCEPT ![i] = IF disk.path = op[i].from
                                  THEN [@ EXCEPT !.rev = disk.content, !.phase = ph]
                                  ELSE [@ EXCEPT !.phase = "over", !.result = "error"]]
  BY DEF LoadRevision
<1>3. OpsOK'
  BY <1>1, <1>2 DEF TypeInv, OpsOK, Ops
<1>4. QED
  BY <1>3
     DEF LoadRevision, TypeInv, EdsOK, PendingOK, GuestOK, EventsOK, RestOK, coordinator, tree, budget

\* GetContent keeps the types.
LEMMA TypesGetContent == ASSUME TypeInv, NEW i \in Ids, GetContent(i) PROVE TypeInv'
<1>1. op[i] \in Ops /\ disk.content \in Texts /\ disk.content \cup {Title} \in Texts
  BY DEF TypeInv, OpsOK, RestOK, Disks, Texts
<1>2. OpsOK'
  BY <1>1 DEF GetContent, TypeInv, OpsOK, Ops
<1>3. original' \in Texts /\ leases' \in SUBSET Ids
  BY <1>1 DEF GetContent, TypeInv, RestOK
<1>4. QED
  BY <1>2, <1>3
     DEF GetContent, TypeInv, EdsOK, PendingOK, GuestOK, EventsOK, RestOK, budget

\* What an event makes of the editors are editors.
LEMMA FollowedTypes == ASSUME TypeInv, NEW w \in Windows, NEW event PROVE
                         Followed(w, event) \in [Editors -> Eds]
<1>1. \A e \in Editors : ed[e] \in Eds /\ Closed(ed[e]) \in Eds /\ [ed[e] EXCEPT !.path = "new"] \in Eds
  BY ClosedEd DEF TypeInv, EdsOK, Eds, Paths
<1>2. QED
  BY <1>1 DEF Followed

\* TreeEnds keeps the types.
LEMMA TypesTreeEnds == ASSUME TypeInv, NEW i \in Ids, TreeEnds(i) PROVE TypeInv'
<1>1. OpsOK'
  BY SpentOp, OneOp DEF TreeEnds, TypeInv
<1>2. EdsOK'
  BY FollowedTypes, WindowAssumption DEF TreeEnds, TypeInv, EdsOK
<1>3. jobs' \in SUBSET (Kinds \ {"save"})
  BY DEF TreeEnds, TypeInv, RestOK, Kinds, Saves, Changes
<1>4. QED
  BY <1>1, <1>2, <1>3
     DEF TreeEnds, TypeInv, PendingOK, GuestOK, EventsOK, RestOK, coordinator, budget

\* EventAt keeps the types.
LEMMA TypesEventAt == ASSUME TypeInv, NEW w \in Windows, EventAt(w) PROVE TypeInv'
<1> DEFINE event == Head(events[w])
<1>1. events[w] \in Seq(Events) /\ events[w] # <<>>
  BY DEF EventAt, TypeInv, EventsOK
<1>2. event \in Events /\ Tail(events[w]) \in Seq(Events)
  BY <1>1
<1>3. EventsOK'
  BY <1>2 DEF EventAt, TypeInv, EventsOK
<1>4. EdsOK'
  BY FollowedTypes DEF EventAt, TypeInv, EdsOK
<1>5. reload' \in [Editors -> Reloads]
  <2>1. event.from \in Paths
    BY <1>2 DEF Events
  <2>2. QED
    BY <2>1, ReloadedType DEF EventAt, TypeInv, RestOK
<1>6. OpsOK'
  <2>1. CASE UNCHANGED op
    BY <2>1 DEF TypeInv, OpsOK
  <2>2. CASE op' = [op EXCEPT ![event.op].withheld = TRUE]
    <3>1. \A j \in Ids : [op[j] EXCEPT !.withheld = TRUE] \in Ops /\ op[j] \in Ops
      BY DEF TypeInv, OpsOK, Ops
    <3>2. op' = [j \in Ids |-> IF j = event.op THEN [op[j] EXCEPT !.withheld = TRUE] ELSE op[j]]
      BY <2>2 DEF TypeInv, OpsOK
    <3>3. QED
      BY <3>1, <3>2 DEF OpsOK
  <2>3. QED
    BY <2>1, <2>2 DEF EventAt
<1>7. QED
  BY <1>3, <1>4, <1>5, <1>6 DEF EventAt, TypeInv, PendingOK, GuestOK, RestOK, coordinator, tree, budget

\* The types hold at first.
LEMMA TypesInit == Init => TypeInv
<1> SUFFICES ASSUME Init PROVE TypeInv
  OBVIOUS
<1>1. EdsOK
  BY DEF Init, EdsOK, Eds, Texts, Paths
<1>2. OpsOK
  BY DEF Init, OpsOK, Ops, Free, Texts, Paths, Kinds, Saves
<1>3. PendingOK /\ GuestOK /\ reload \in [Editors -> Reloads]
  BY AwayQuiet DEF Init, PendingOK, GuestOK
<1>4. EventsOK
  <2>1. <<>> \in Seq(Events)
    OBVIOUS
  <2>2. QED
    BY <2>1 DEF Init, EventsOK
<1>5. RestOK
  BY <1>3, JobsAssumption DEF Init, RestOK, Disks, Texts, Paths, Kinds, Saves, Changes
<1>6. QED
  BY <1>1, <1>2, <1>3, <1>4, <1>5 DEF TypeInv

\* Every step keeps the types.
LEMMA TypesNext == TypeInv /\ [Next]_vars => TypeInv'
<1> SUFFICES ASSUME TypeInv, [Next]_vars PROVE TypeInv'
  OBVIOUS
<1>1. CASE External
  BY <1>1, TypesEditing, TypesRequest, TypesCrash, TypesOtherWindow, TypesTreeStarts DEF External
<1>2. CASE Progress
  BY <1>2, TypesEditing, TypesSaveOnce, TypesSaveEnds, TypesTimeout, TypesRequest, TypesAnswer,
     TypesLoadRevision, TypesGetContent, TypesTreeEnds, TypesPrepareAt, TypesPreparedAt,
     TypesCommitAt, TypesEventAt DEF Progress
<1>3. CASE UNCHANGED vars
  BY <1>3 DEF vars, TypeInv, EdsOK, OpsOK, PendingOK, GuestOK, EventsOK, RestOK, coordinator, tree, budget
<1>4. QED
  BY <1>1, <1>2, <1>3 DEF Next
-----------------------------------------------------------------------------
\* What a step leaves an operation that it does not begin or end.
Goes(i) ==
    /\ op'[i].kind = op[i].kind /\ op'[i].owner = op[i].owner /\ op'[i].from = op[i].from
    /\ op'[i].nested = op[i].nested
    /\ (op'[i].withheld <=> op[i].withheld) /\ (op[i].withheld => op'[i].phase # "none")
    /\ op[i].kind \in Changes /\ op'[i].result = "ok" =>
          /\ op[i].result = "ok"
          /\ op'[i].phase = op[i].phase \/ (op[i].phase = "commit" /\ op'[i].phase = "over")

\* A step by which no editor moves, no window hears of a move, and no operation begins or ends.
LEMMA PathFrame ==
    ASSUME TypeInv, PathInv,
           \A e \in Editors : Open(e)' => Open(e), \A e \in Editors : ed'[e].path = ed[e].path,
           disk'.path = disk.path, \A i \in Ids : Goes(i),
           \A i \in Ids, w \in Windows : guest'[i][w].at = "commit" <=> guest[i][w].at = "commit",
           UNCHANGED <<events, jobs, alive>>, Pairs'
    PROVE PathInv'
<1> USE DEF PathInv
<1>1. OpenAlive' /\ EdPaths' /\ RemoveAlone'
  BY DEF OpenAlive, EdPaths, RemoveAlone, Goes
<1>2. TreeOps' /\ Withholds' /\ Granted'
  BY DEF TreeOps, Withholds, Granted, Goes
<1>3. EventsTrue'
  BY DEF EventsTrue, Goes
<1>4. GuestsTrue' /\ Delivered'
  BY WindowAssumption DEF GuestsTrue, Delivered, Goes
<1>5. Follows'
  BY WindowAssumption DEF Follows, Behind, Goes
<1>6. QED
  BY <1>1, <1>2, <1>3, <1>4, <1>5

\* Editing, flushing and reloading keep PathInv.
LEMMA PathEditing ==
    ASSUME TypeInv, PathInv, NEW e \in Editors,
           \/ \E x \in Edits : Type(e, x)
           \/ TimerFires(e) \/ Refresh(e) \/ Dismiss(e) \/ CloseTab(e) \/ ApplyReload(e)
    PROVE PathInv'
<1>1. \A f \in Editors : (Open(f)' => Open(f)) /\ ed'[f].path = ed[f].path
  <2> USE DEF TypeInv, EdsOK, Eds, Open
  <2>1. ASSUME NEW x \in Edits, Type(e, x) PROVE \A f \in Editors : (Open(f)' => Open(f)) /\ ed'[f].path = ed[f].path
    BY <2>1 DEF Type
  <2>2. CASE TimerFires(e)
    BY <2>2 DEF TimerFires, Flushed
  <2>3. CASE Refresh(e) \/ Dismiss(e)
    BY <2>3 DEF Refresh, Dismiss
  <2>4. CASE CloseTab(e)
    BY <2>4 DEF CloseTab, Closed
  <2>5. CASE ApplyReload(e)
    BY <2>5 DEF ApplyReload
  <2>6. QED
    BY <2>1, <2>2, <2>3, <2>4, <2>5
<1>2. UNCHANGED <<disk, op, coordinator, guest, events, jobs, alive>>
  BY DEF Type, TimerFires, Refresh, Dismiss, CloseTab, ApplyReload, tree
<1>3. Pairs'
  BY <1>2 DEF PathInv, Pairs, coordinator
<1>4. \A i \in Ids : Goes(i)
  BY <1>2 DEF Goes, PathInv, Withholds
<1>5. QED
  BY <1>1, <1>2, <1>3, <1>4, PathFrame

\* Beginning an operation under a free number.
LEMMA AskingFacts ==
    ASSUME TypeInv, PathInv, NEW i \in FreeIds, NEW r \in Ops, r.result = "none", ~r.withheld,
           r.phase = IF r.nested THEN "request" ELSE "prepare",
           r.kind \in Changes => r.owner = "tree" /\ r.from = "old" /\ ~r.nested,
           "remove" \in jobs => r.kind = "save" \/ "remove" \notin jobs',
           jobs' \subseteq jobs, Asking(i, r), UNCHANGED <<disk, ed, leases, events, alive>>
    PROVE PathInv'
<1> USE DEF PathInv
<1>1. /\ i \in Ids /\ op[i].phase = "none" /\ i \notin leases /\ ~Told(i)
      /\ guest[i] = [w \in Windows |-> Away]
  BY DEF FreeIds
<1>2. op'[i] = r /\ \A j \in Ids : j # i => op'[j] = op[j]
  BY <1>1 DEF Asking, TypeInv, OpsOK
<1>3. \A j \in Ids, w \in Windows : guest'[j][w].at = "commit" <=> guest[j][w].at = "commit"
  BY <1>1 DEF Asking, TypeInv, GuestOK, Away
<1>4. \A w \in Windows : guest[i][w].at # "commit"
  BY <1>1 DEF Away
<1>5. ~op[i].withheld
  BY <1>1 DEF Withholds
<1>6. OpenAlive' /\ EdPaths' /\ TreeOps' /\ Withholds' /\ Granted'
  BY <1>2 DEF OpenAlive, EdPaths, TreeOps, Withholds, Granted, Open
<1>7. EventsTrue'
  BY <1>1, <1>2 DEF EventsTrue, Told
<1>8. GuestsTrue' /\ Delivered'
  BY <1>2, <1>3, <1>4, WindowAssumption DEF GuestsTrue, Delivered, Open
<1>9. Pairs'
  <2>1. pending[i].phase = "none"
    BY <1>1 DEF Pairs
  <2>2. \A j \in Ids : j # i => pending'[j] = pending[j]
    BY DEF Asking, TypeInv, PendingOK
  <2>3. pending'[i].phase = IF r.nested THEN "none" ELSE "prepare"
    BY <1>1, <2>1 DEF Asking, TypeInv, PendingOK, Quiet
  <2>4. QED
    BY <1>1, <1>2, <2>2, <2>3 DEF Pairs
<1>10. RemoveAlone'
  BY <1>2 DEF RemoveAlone
<1>11. Follows'
  BY <1>2, <1>3, <1>4, <1>5, WindowAssumption DEF Follows, Behind, Open
<1>12. QED
  BY <1>6, <1>7, <1>8, <1>9, <1>10, <1>11

\* SaveOnce keeps PathInv.
LEMMA PathSaveOnce == ASSUME TypeInv, PathInv, NEW e \in Editors, SaveOnce(e) PROVE PathInv'
<1> DEFINE nested == PrepareActive(WindowOf[e])
           r == [Free EXCEPT !.owner = e, !.nested = nested, !.from = ed[e].path,
                             !.phase = IF nested THEN "request" ELSE "prepare",
                             !.rev = ed[e].rev, !.body = ed[e].view]
<1>1. nested \in BOOLEAN
  BY DEF PrepareActive
<1>2. ed[e].path \in Paths /\ ed[e].rev \in Texts /\ ed[e].view \in Texts
  BY DEF TypeInv, EdsOK, Eds
<1>3. Asking(Min(FreeIds), r) /\ Min(FreeIds) \in FreeIds
  BY MinFree DEF SaveOnce
<1>4. UNCHANGED <<disk, ed, leases, events, alive, jobs>>
  BY DEF SaveOnce, tree
<1> HIDE DEF nested
<1>5. /\ r \in Ops /\ r.result = "none" /\ ~r.withheld /\ r.kind = "save"
      /\ r.phase = IF r.nested THEN "request" ELSE "prepare"
  BY <1>1, <1>2 DEF Free, Ops, Kinds, Saves
<1>6. r.kind \notin Changes
  BY <1>5 DEF Changes
<1> HIDE DEF r
<1>7. QED
  BY <1>3, <1>4, <1>5, <1>6, AskingFacts

\* TreeStarts keeps PathInv.
LEMMA PathTreeStarts == ASSUME TypeInv, PathInv, TreeStarts PROVE PathInv'
<1>1. PICK job \in NextJobs :
          /\ jobs' = jobs \ {job}
          /\ Asking(Min(FreeIds),
                    [Free EXCEPT !.owner = "tree", !.kind = job, !.phase = "prepare",
                                 !.from = IF job = "remove" THEN disk.path ELSE "old",
                                 !.body = IF job = "restore" THEN original ELSE {}])
  BY DEF TreeStarts
<1> DEFINE from == IF job = "remove" THEN disk.path ELSE "old"
           body == IF job = "restore" THEN original ELSE {}
           r == [Free EXCEPT !.owner = "tree", !.kind = job, !.phase = "prepare",
                             !.from = from, !.body = body]
<1>2. job \in jobs /\ job \in Kinds /\ body \in Texts
  BY DEF NextJobs, TypeInv, RestOK, Texts
<1>3. from = "old"
  BY <1>2 DEF PathInv, RemoveAlone
<1>4. Asking(Min(FreeIds), r) /\ Min(FreeIds) \in FreeIds
  BY <1>1, MinFree DEF TreeStarts
<1>5. UNCHANGED <<disk, ed, leases, events, alive>>
  BY DEF TreeStarts
<1>6. "remove" \in jobs => "remove" \notin jobs'
  BY <1>1, <1>2 DEF PathInv, RemoveAlone
<1> HIDE DEF from, body
<1>7. /\ r \in Ops /\ r.result = "none" /\ ~r.withheld /\ r.owner = "tree" /\ r.from = "old"
      /\ ~r.nested /\ r.phase = "prepare"
  BY <1>2, <1>3 DEF Free, Ops, Texts, Paths
<1> HIDE DEF r
<1>8. QED
  BY <1>1, <1>4, <1>5, <1>6, <1>7, AskingFacts
\* What an operation that ended is kept as: Free, unless a window has still to hear of it.
LEMMA SpentFacts ==
    ASSUME TypeInv, NEW i \in Ids, op' = [op EXCEPT ![i] = Spent(i)]
    PROVE /\ op'[i].phase = "none" /\ ~op'[i].withheld /\ ~op'[i].nested
          /\ op'[i].result \in {"none", op[i].result}
          /\ op'[i] = Free \/ ( /\ op'[i].kind = op[i].kind /\ op'[i].owner = op[i].owner
                                /\ op'[i].from = op[i].from)
          /\ Told(i) \/ (\E w \in Windows : guest[i][w].at # "none") =>
                op'[i].kind = op[i].kind /\ op'[i].owner = op[i].owner /\ op'[i].from = op[i].from
          /\ Told(i) => op'[i].result = op[i].result
          /\ ~Told(i) => op'[i].result = "none"
          /\ \A j \in Ids : j # i => op'[j] = op[j]
<1>1. op[i] \in Ops
  BY DEF TypeInv, OpsOK
<1>2. op'[i] = Spent(i) /\ \A j \in Ids : j # i => op'[j] = op[j]
  BY DEF TypeInv, OpsOK
<1>3. Free.phase = "none" /\ ~Free.withheld /\ ~Free.nested /\ Free.result = "none"
  BY DEF Free
<1>4. CASE Told(i) \/ \E w \in Windows : guest[i][w].at # "none"
  <2> DEFINE v == IF Told(i) THEN op[i].result ELSE "none"
             t == IF \E w \in Windows : guest[i][w].at = "commit" THEN op[i].rev ELSE {}
  <2>1. op'[i] = [op[i] EXCEPT !.phase = "none", !.nested = FALSE, !.withheld = FALSE,
                               !.body = {}, !.result = v, !.rev = t]
    BY <1>2, <1>4 DEF Spent
  <2>2. v \in {"none", op[i].result} /\ (Told(i) => v = op[i].result) /\ (~Told(i) => v = "none")
    OBVIOUS
  <2> HIDE DEF v, t
  <2>3. QED
    <3>1. /\ op'[i].phase = "none" /\ ~op'[i].withheld /\ ~op'[i].nested /\ op'[i].result = v
          /\ op'[i].kind = op[i].kind /\ op'[i].owner = op[i].owner /\ op'[i].from = op[i].from
      <4>1. PICK r \in Ops : r = op[i]
        BY <1>1
      <4>0. PICK q : q = op'[i]
        OBVIOUS
      <4>2. PICK a, b : a = v /\ b = t
        OBVIOUS
      <4>3. q = [r EXCEPT !.phase = "none", !.nested = FALSE, !.withheld = FALSE,
                          !.body = {}, !.result = a, !.rev = b]
        BY <2>1, <4>0, <4>1, <4>2
      <4>4. /\ q.phase = "none" /\ ~q.withheld /\ ~q.nested /\ q.result = a
            /\ q.kind = r.kind /\ q.owner = r.owner /\ q.from = r.from
        BY <4>3 DEF Ops
      <4>5. QED
        BY <4>0, <4>1, <4>2, <4>4
    <3>2. QED
      BY <1>2, <2>2, <3>1
<1>5. CASE ~(Told(i) \/ \E w \in Windows : guest[i][w].at # "none")
  BY <1>2, <1>3, <1>5 DEF Spent
<1>6. QED
  BY <1>4, <1>5

\* An operation ends whose editors follow nothing by that: it withheld nothing, or every
\* window that has not followed it has its commit to come, or its editors follow it now.
LEMMA PathEnds ==
    ASSUME TypeInv, PathInv, NEW i \in Ids, op[i].phase = "over", op' = [op EXCEPT ![i] = Spent(i)],
           \A e \in Editors : Open(e)' => Open(e),
           \A e \in Editors : \/ ed'[e].path = ed[e].path
                              \/ ed'[e].path = "new" /\ disk.path = "new",
           op[i].withheld => \/ op[i].result = "ok"
                             \/ \A e \in Editors : WindowOf[e] = TreeWindow /\ Open(e)'
                                                    => ed'[e].path = "new",
           \A j \in Ids, w \in Windows : guest'[j][w].at = "commit" <=> guest[j][w].at = "commit",
           UNCHANGED <<disk, events, pending, leases, alive>>, RemoveAlone'
    PROVE PathInv'
<1> USE DEF PathInv
<1>1. /\ op'[i].phase = "none" /\ ~op'[i].withheld /\ ~op'[i].nested
      /\ op'[i].result \in {"none", op[i].result}
      /\ op'[i].kind \in Changes =>
            op'[i].kind = op[i].kind /\ op'[i].owner = op[i].owner /\ op'[i].from = op[i].from
      /\ Told(i) \/ (\E w \in Windows : guest[i][w].at # "none") => op'[i].kind = op[i].kind
      /\ \A j \in Ids : j # i => op'[j] = op[j]
  <2>1. Free.kind \notin Changes
    BY DEF Free, Changes
  <2>2. QED
    BY <2>1, SpentFacts
<1>2. OpenAlive' /\ EdPaths' /\ TreeOps' /\ Withholds' /\ Granted'
  BY <1>1 DEF OpenAlive, EdPaths, TreeOps, Withholds, Granted
<1>3. EventsTrue'
  <2> SUFFICES ASSUME NEW w \in Windows, NEW n \in DOMAIN events[w], events[w][n].kind # "save"
               PROVE  LET j == events[w][n].op
                      IN /\ j \in Ids /\ op'[j].kind \in Changes
                         /\ events[w][n].kind = "remove" <=> op'[j].kind = "remove"
                         /\ events[w][n].from = "old" /\ disk.path = Target(op'[j].kind)
    BY DEF EventsTrue
  <2>1. events[w][n].op = i => op'[i].kind = op[i].kind
    BY <1>1 DEF Told
  <2>2. QED
    BY <1>1, <2>1 DEF EventsTrue
<1>4. GuestsTrue' /\ Delivered'
  <2>1. GuestsTrue'
    BY <1>1 DEF GuestsTrue
  <2>2. ASSUME NEW j \in Ids, op'[j].kind \in Changes, op'[j].result = "ok",
               op'[j].phase \in {"commit", "over", "none"},
               NEW e \in Editors, Open(e)', ed'[e].path = "old"
        PROVE  guest'[j][WindowOf[e]].at = "commit"
    <3>1. Open(e) /\ ed[e].path = "old"
      BY <2>2
    <3>2. op[j].kind \in Changes /\ op[j].result = "ok" /\ op[j].phase \in {"commit", "over", "none"}
      BY <1>1, <2>2
    <3>3. QED
      BY <3>1, <3>2, WindowAssumption DEF Delivered
  <2>3. QED
    BY <2>1, <2>2 DEF Delivered
<1>5. Pairs'
  BY <1>1 DEF Pairs, TypeInv, PendingOK, Pendings
<1>6. Follows'
  <2> SUFFICES ASSUME NEW e \in Editors, Open(e)', ed'[e].path # disk.path PROVE Behind(e)'
    BY DEF Follows
  <2>1. Open(e) /\ ed[e].path # disk.path /\ Behind(e)
    BY DEF Follows
  <2>2. CASE \E n \in DOMAIN events[WindowOf[e]] : events[WindowOf[e]][n].kind # "save"
    BY <2>2 DEF Behind
  <2>3. CASE \E j \in Ids : guest[j][WindowOf[e]].at = "commit" /\ op[j].kind \in Changes
    BY <1>1, <2>3, WindowAssumption DEF Behind
  <2>4. CASE WindowOf[e] = TreeWindow /\ \E j \in Ids : op[j].withheld
    <3>1. CASE \E j \in Ids : j # i /\ op[j].withheld
      BY <1>1, <2>4, <3>1 DEF Behind
    <3>2. CASE op[i].withheld
      <4>1. op[i].kind \in Changes /\ disk.path = Target(op[i].kind)
        BY <3>2 DEF Withholds
      <4>2. ed'[e].path = "old" /\ ed[e].path = "old"
        BY DEF EdPaths, TypeInv, EdsOK, Eds, Paths, Target
      <4>3. op[i].result = "ok"
        BY <2>4, <3>2, <4>2
      <4>4. guest[i][WindowOf[e]].at = "commit"
        BY <2>1, <4>1, <4>2, <4>3 DEF Delivered
      <4>5. QED
        BY <1>1, <4>1, <4>4, WindowAssumption DEF Behind
    <3>3. QED
      BY <2>4, <3>1, <3>2
  <2>5. QED
    BY <2>1, <2>2, <2>3, <2>4 DEF Behind
<1>7. QED
  BY <1>2, <1>3, <1>4, <1>5, <1>6
\* The flush of an editor that ends changes no window's part in a commit.
LEMMA ReleasedAt == ASSUME TypeInv, NEW e, NEW ok \in BOOLEAN, guest' = Released(e, ok) \/ guest' = guest
                    PROVE \A i \in Ids, w \in Windows : guest'[i][w].at = guest[i][w].at
<1>1. \A i \in Ids, w \in Windows : guest[i][w] \in Guests
  BY DEF TypeInv, GuestOK
<1>2. CASE guest' = Released(e, ok)
  <2> SUFFICES ASSUME NEW i \in Ids, NEW w \in Windows PROVE guest'[i][w].at = guest[i][w].at
    OBVIOUS
  <2> DEFINE refused == guest[i][w].refused \/ ~ok
  <2>1. \/ guest'[i][w] = guest[i][w]
        \/ guest'[i][w] = [guest[i][w] EXCEPT !.waiting = @ \ {e}, !.refused = refused]
    BY <1>1, <1>2 DEF Released, Guests
  <2> HIDE DEF refused
  <2>2. QED
    BY <1>1, <2>1 DEF Guests
<1>3. QED
  BY <1>2

\* SaveEnds keeps PathInv.
LEMMA PathSaveEnds == ASSUME TypeInv, PathInv, NEW i \in Ids, SaveEnds(i) PROVE PathInv'
<1> DEFINE e == op[i].owner
<1>1. e \in Editors /\ op[i].phase = "over" /\ op' = [op EXCEPT ![i] = Spent(i)]
  BY DEF SaveEnds
<1>2. ~op[i].withheld
  BY <1>1, OwnersAssumption DEF PathInv, Withholds, TreeOps
<1>3. \A f \in Editors : (Open(f)' => Open(f)) /\ ed'[f].path = ed[f].path
  <2>1. \A b, l, t : \A r \in Eds :
            /\ [r EXCEPT !.rev = t, !.dirty = b, !.last = l, !.flushing = b].open = r.open
            /\ [r EXCEPT !.rev = t, !.dirty = b, !.last = l, !.flushing = b].path = r.path
            /\ [r EXCEPT !.last = l, !.flushing = FALSE, !.dialog = b].open = r.open
            /\ [r EXCEPT !.last = l, !.flushing = FALSE, !.dialog = b].path = r.path
    BY DEF Eds
  <2>2. \/ ed' = ed
        \/ \E b, l, t : ed' = [ed EXCEPT ![e] = [@ EXCEPT !.rev = t, !.dirty = b, !.last = l, !.flushing = b]]
        \/ \E b, l : ed' = [ed EXCEPT ![e] = [@ EXCEPT !.last = l, !.flushing = FALSE, !.dialog = b]]
    <3>1. CASE SaveSucceeds(i)
      <4> DEFINE dirty == ed[e].view # op[i].body
      <4>1. ed' = [ed EXCEPT ![e] = [@ EXCEPT !.rev = op[i].body, !.dirty = dirty,
                                              !.last = "saved", !.flushing = dirty]]
        BY <1>1, <3>1 DEF SaveSucceeds, TypeInv, EdsOK, Eds
      <4> HIDE DEF dirty
      <4>2. QED
        BY <4>1
    <3>2. CASE SaveFails(i)
      <4> DEFINE dialog == ed[e].dialog \/ (op[i].result = "conflict" /\ Open(e))
      <4>1. ed' = [ed EXCEPT ![e] = [@ EXCEPT !.last = op[i].result, !.flushing = FALSE,
                                              !.dialog = dialog]]
        BY <1>1, <3>2 DEF SaveFails, TypeInv, EdsOK, Eds
      <4> HIDE DEF dialog
      <4>2. QED
        BY <4>1
    <3>3. QED
      BY <3>1, <3>2 DEF SaveEnds
  <2>3. QED
    <3>1. ed[e] \in Eds /\ ed \in [Editors -> Eds]
      BY <1>1 DEF TypeInv, EdsOK
    <3>2. ASSUME NEW b, NEW l, NEW t,
                 ed' = [ed EXCEPT ![e] = [@ EXCEPT !.rev = t, !.dirty = b, !.last = l, !.flushing = b]]
          PROVE \A f \in Editors : ed'[f].open = ed[f].open /\ ed'[f].path = ed[f].path
      <4>1. ed'[e] = [ed[e] EXCEPT !.rev = t, !.dirty = b, !.last = l, !.flushing = b]
        BY <1>1, <3>1, <3>2
      <4>2. QED
        BY <1>1, <2>1, <3>1, <3>2, <4>1
    <3>3. ASSUME NEW b, NEW l,
                 ed' = [ed EXCEPT ![e] = [@ EXCEPT !.last = l, !.flushing = FALSE, !.dialog = b]]
          PROVE \A f \in Editors : ed'[f].open = ed[f].open /\ ed'[f].path = ed[f].path
      <4>1. ed'[e] = [ed[e] EXCEPT !.last = l, !.flushing = FALSE, !.dialog = b]
        BY <1>1, <3>1, <3>3
      <4>2. QED
        BY <1>1, <2>1, <3>1, <3>3, <4>1
    <3>4. QED
      BY <2>2, <3>2, <3>3 DEF Open
<1>4. \A j \in Ids, w \in Windows : guest'[j][w].at = guest[j][w].at
  BY ReleasedAt DEF SaveEnds, SaveSucceeds, SaveFails
<1>5. RemoveAlone'
  <2>1. op[i].kind = "save" => op'[i].kind = "save"
    <3>1. Free.kind = "save"
      BY DEF Free
    <3>2. QED
      BY <1>1, <3>1, SpentFacts
  <2>2. \A j \in Ids : j # i => op'[j] = op[j]
    BY <1>1, SpentFacts
  <2>3. QED
    BY <2>1, <2>2 DEF PathInv, RemoveAlone, SaveEnds, tree
<1>6. QED
  BY <1>1, <1>2, <1>3, <1>4, <1>5, PathEnds DEF SaveEnds, coordinator

\* TreeEnds keeps PathInv: what it withheld it applies.
LEMMA PathTreeEnds == ASSUME TypeInv, PathInv, NEW i \in Ids, TreeEnds(i) PROVE PathInv'
<1>1. op[i].phase = "over" /\ op' = [op EXCEPT ![i] = Spent(i)]
  BY DEF TreeEnds
<1>2. RemoveAlone'
  <2> SUFFICES ASSUME "remove" \in jobs'
               PROVE  jobs' = {"remove"} /\ disk'.path = "old" /\ \A j \in Ids : op'[j].kind = "save"
    BY DEF RemoveAlone
  <2>1. "remove" \in jobs
    BY DEF TreeEnds
  <2>2. jobs = {"remove"} /\ disk.path = "old" /\ \A j \in Ids : op[j].kind = "save"
    BY <2>1 DEF PathInv, RemoveAlone
  <2>3. op'[i].kind = "save" /\ \A j \in Ids : j # i => op'[j] = op[j]
    <3>1. Free.kind = "save"
      BY DEF Free
    <3>2. QED
      BY <1>1, <2>2, <3>1, SpentFacts
  <2>4. QED
    BY <2>2, <2>3 DEF TreeEnds
<1> DEFINE event == [kind |-> IF op[i].kind = "remove" THEN "remove" ELSE "rename",
                     from |-> op[i].from]
           told == op[i].withheld /\ op[i].result # "ok" /\ TreeWindow \in alive
<1>3. ed' = IF told THEN Followed(TreeWindow, event) ELSE ed
  BY DEF TreeEnds
<1>4. CASE told
  <2>1. op[i].kind \in Changes /\ disk.path = Target(op[i].kind) /\ op[i].from = "old"
    BY <1>4 DEF PathInv, Withholds, TreeOps
  <2>2. \A e \in Editors : Open(e)' => Open(e)
    BY <1>3, <1>4 DEF Followed, Closed, Open, TypeInv, EdsOK, Eds
  <2>3. \A e \in Editors : ed'[e].path = ed[e].path \/ (ed'[e].path = "new" /\ disk.path = "new")
    BY <1>3, <1>4, <2>1 DEF Followed, Closed, TypeInv, EdsOK, Eds, Target
  <2>4. \A e \in Editors : WindowOf[e] = TreeWindow /\ Open(e)' => ed'[e].path = "new"
    BY <1>3, <1>4, <2>1 DEF Followed, Closed, At, Open, TypeInv, EdsOK, Eds, Paths
  <2>5. QED
    BY <1>1, <1>2, <2>2, <2>3, <2>4, PathEnds DEF TreeEnds, coordinator
<1>5. CASE ~told
  <2>1. op[i].withheld => \/ op[i].result = "ok"
                          \/ \A e \in Editors : WindowOf[e] = TreeWindow /\ Open(e)' => ed'[e].path = "new"
    BY <1>3, <1>5 DEF PathInv, OpenAlive, Open
  <2>2. QED
    BY <1>1, <1>2, <1>3, <1>5, <2>1, PathEnds DEF TreeEnds, coordinator, Open
<1>6. QED
  BY <1>4, <1>5

\* The coordinator gives an operation up, or goes on with it.
LEMMA PathFinish ==
    ASSUME TypeInv, PathInv, NEW i \in Ids, pending[i].phase = "prepare",
           NEW p \in Pendings, p.phase = "prepare", Finish(i, p)
    PROVE (\A j \in Ids : Goes(j)) /\ Pairs'
<1>1. op[i].phase = "prepare" /\ i \notin leases /\ op[i] \in Ops
  BY DEF PathInv, Pairs, TypeInv, OpsOK
<1>2. op[i].kind \in Changes => op[i].result # "ok"
  BY <1>1 DEF PathInv, Granted
<1>3. \A j \in Ids : Withholds /\ (j # i => op'[j] = op[j])
  BY DEF Finish, TypeInv, OpsOK, PathInv
<1>4. CASE p.left # {}
  <2>1. UNCHANGED <<leases, op>> /\ \A j \in Ids : pending'[j].phase = pending[j].phase
    BY <1>4 DEF Finish, TypeInv, PendingOK
  <2>2. QED
    BY <1>3, <2>1 DEF Goes, PathInv, Pairs, Withholds
<1>5. CASE p.left = {}
  <2>1. \A j \in Ids : pending'[j].phase = IF j = i THEN "none" ELSE pending[j].phase
    BY <1>5 DEF Finish, TypeInv, PendingOK, Quiet
  <2>2. leases' \subseteq leases \cup {i}
    BY <1>5 DEF Finish
  <2>3. /\ op'[i].kind = op[i].kind /\ op'[i].owner = op[i].owner /\ op'[i].from = op[i].from
        /\ op'[i].nested = op[i].nested /\ op'[i].withheld = op[i].withheld
        /\ op'[i].phase \in {"over", "request", "get", "load"}
        /\ op'[i].result \in {"error", op[i].result}
    BY <1>1, <1>5 DEF Finish, TypeInv, OpsOK, Ops
  <2>4. Goes(i) /\ \A j \in Ids : j # i => Goes(j)
    BY <1>2, <1>3, <2>3 DEF Goes, Withholds
  <2>5. Pairs'
    BY <1>3, <2>1, <2>2 DEF PathInv, Pairs
  <2>6. QED
    BY <2>4, <2>5
<1>6. QED
  BY <1>4, <1>5

\* One more answer moves no editor and ends no commit.
LEMMA PathAnswered ==
    ASSUME TypeInv, PathInv, NEW i \in Ids, NEW w \in Windows, NEW ok \in BOOLEAN,
           NEW revs \in SUBSET Texts, NEW matches \in BOOLEAN, matches => revs # {},
           Answered(i, w, ok, revs, matches)
    PROVE (\A j \in Ids : Goes(j)) /\ Pairs'
<1> DEFINE p == [pending[i] EXCEPT !.left = @ \ {w}, !.ok = @ /\ ok,
                                   !.revs = @ \cup revs, !.matches = @ \/ matches]
<1>1. pending[i] \in Pendings
  BY DEF TypeInv, PendingOK
<1>2. p \in Pendings /\ p.phase = pending[i].phase
  BY <1>1 DEF Pendings
<1>3. CASE pending[i].phase = "prepare" /\ Finish(i, p)
  BY <1>2, <1>3, PathFinish
<1>4. CASE UNCHANGED <<pending, leases, op>>
  BY <1>4 DEF Goes, PathInv, Pairs, Withholds
<1>5. QED
  BY <1>3, <1>4 DEF Answered

\* PrepareAt keeps PathInv.
LEMMA PathPrepareAt ==
    ASSUME TypeInv, PathInv, NEW i \in Ids, NEW w \in Windows, PrepareAt(i, w) PROVE PathInv'
<1> DEFINE matched == At(w, op[i].from) \ {op[i].owner}
           slow == {e \in matched : ed[e].dirty \/ ed[e].flushing}
           busy == [at |-> "busy", matched |-> matched, waiting |-> slow,
                    refused |-> \E e \in matched \ slow : ed[e].last # "saved"]
<1>1. \A e \in Editors : (Open(e)' => Open(e)) /\ ed'[e].path = ed[e].path
  <2>1. \A e \in Editors : Flushed(ed[e]).open = ed[e].open /\ Flushed(ed[e]).path = ed[e].path
    BY DEF Flushed, TypeInv, EdsOK, Eds
  <2>2. QED
    BY <2>1 DEF PrepareAt, Open
<1>2. PICK g : g.at # "commit" /\ guest' = [guest EXCEPT ![i][w] = g]
  <2>1. Away.at # "commit" /\ busy.at # "commit"
    BY DEF Away
  <2>2. guest' = [guest EXCEPT ![i][w] = Away] \/ guest' = [guest EXCEPT ![i][w] = busy]
    BY DEF PrepareAt
  <2> HIDE DEF busy
  <2>3. QED
    BY <2>1, <2>2
<1>3. \A j \in Ids, v \in Windows : guest'[j][v].at = "commit" <=> guest[j][v].at = "commit"
  BY <1>2 DEF PrepareAt, TypeInv, GuestOK
<1>4. (\A j \in Ids : Goes(j)) /\ Pairs'
  <2>1. CASE Answered(i, w, TRUE, {}, FALSE)
    BY <2>1, PathAnswered
  <2>2. CASE UNCHANGED <<pending, leases, op>>
    BY <2>2 DEF Goes, PathInv, Pairs, Withholds
  <2>3. QED
    BY <2>1, <2>2 DEF PrepareAt
<1>5. QED
  BY <1>1, <1>3, <1>4, PathFrame DEF PrepareAt, tree

\* PreparedAt keeps PathInv.
LEMMA PathPreparedAt ==
    ASSUME TypeInv, PathInv, NEW i \in Ids, NEW w \in Windows, PreparedAt(i, w) PROVE PathInv'
<1> DEFINE g == guest[i][w]
           revs == {ed[e].rev : e \in g.matched}
           ok == ~g.refused /\ Cardinality(revs) = 1
<1>1. g \in Guests /\ g.at = "busy"
  BY DEF PreparedAt, TypeInv, GuestOK
<1>2. revs \in SUBSET Texts /\ revs # {} /\ ok \in BOOLEAN
  BY <1>1 DEF Guests, TypeInv, EdsOK, Eds
<1>3. Answered(i, w, ok, revs, TRUE)
  BY DEF PreparedAt
<1> HIDE DEF revs, ok
<1>4. (\A j \in Ids : Goes(j)) /\ Pairs'
  BY <1>2, <1>3, PathAnswered
<1>5. \A j \in Ids, v \in Windows : guest'[j][v].at = "commit" <=> guest[j][v].at = "commit"
  BY <1>1 DEF PreparedAt, TypeInv, GuestOK, Away
<1>6. QED
  BY <1>4, <1>5, PathFrame DEF PreparedAt, tree, Open
\* A step that changes the phase and the result of one operation before its commit.
LEMMA OneGoes ==
    ASSUME TypeInv, PathInv, NEW i \in Ids, NEW r, op' = [op EXCEPT ![i] = r],
           r.kind = op[i].kind, r.owner = op[i].owner, r.from = op[i].from,
           r.nested = op[i].nested, r.withheld = op[i].withheld, r.phase # "none",
           r.result = "ok" => op[i].result = "ok" /\ r.phase = op[i].phase
    PROVE \A j \in Ids : Goes(j)
<1>1. op'[i] = r /\ \A j \in Ids : j # i => op'[j] = op[j]
  BY DEF TypeInv, OpsOK
<1>2. QED
  BY <1>1 DEF Goes, PathInv, Withholds

\* Timeout keeps PathInv.
LEMMA PathTimeout == ASSUME TypeInv, PathInv, NEW i \in Ids, Timeout(i) PROVE PathInv'
<1>1. op[i] \in Ops
  BY DEF TypeInv, OpsOK
<1> DEFINE r == [op[i] EXCEPT !.phase = "over", !.result = "error"]
<1>2. op' = [op EXCEPT ![i] = r]
  BY <1>1 DEF Timeout, GivenUp, TypeInv, OpsOK, Ops
<1>3. /\ r.kind = op[i].kind /\ r.owner = op[i].owner /\ r.from = op[i].from
      /\ r.nested = op[i].nested /\ r.withheld = op[i].withheld
      /\ r.phase = "over" /\ r.result = "error"
  BY <1>1 DEF Ops
<1> HIDE DEF r
<1>4. \A j \in Ids : Goes(j)
  BY <1>2, <1>3, OneGoes
<1>5. Pairs'
  BY <1>2 DEF Timeout, GivenUp, Quiet, PathInv, Pairs, TypeInv, OpsOK, PendingOK
<1>6. QED
  BY <1>4, <1>5, PathFrame DEF Timeout, tree, Open

\* Giving all up ends no commit.
LEMMA PathUpset == ASSUME TypeInv, PathInv, Upset PROVE (\A j \in Ids : Goes(j)) /\ Pairs'
<1>1. ASSUME NEW j \in Ids PROVE Goes(j)
  <2>1. op[j] \in Ops
    BY DEF TypeInv, OpsOK
  <2>2. CASE op'[j] = op[j]
    BY <2>2 DEF Goes, PathInv, Withholds
  <2>3. CASE op'[j] = [op[j] EXCEPT !.phase = "over", !.result = "error"]
    <3>1. /\ op'[j].kind = op[j].kind /\ op'[j].owner = op[j].owner /\ op'[j].from = op[j].from
          /\ op'[j].nested = op[j].nested /\ op'[j].withheld = op[j].withheld
          /\ op'[j].phase = "over" /\ op'[j].result = "error"
      BY <2>1, <2>3 DEF Ops
    <3>2. QED
      BY <3>1 DEF Goes
  <2>4. QED
    BY <2>2, <2>3 DEF Upset
<1>2. Pairs'
  BY DEF Upset, Quiet, Pairs
<1>3. QED
  BY <1>1, <1>2

\* OtherWindow keeps PathInv.
LEMMA PathOtherWindow == ASSUME TypeInv, PathInv, OtherWindow PROVE PathInv'
  BY PathUpset, PathFrame DEF OtherWindow, tree, Open

\* Crash keeps PathInv: the editors it leaves behind are gone.
LEMMA PathCrash == ASSUME TypeInv, PathInv, NEW w \in Windows, Crash(w) PROVE PathInv'
<1> USE DEF PathInv
<1>1. (\A j \in Ids : Goes(j)) /\ Pairs'
  BY PathUpset DEF Crash
<1>2. \A e \in Editors :
          /\ Open(e)' => Open(e) /\ WindowOf[e] # w
          /\ ed'[e].path = ed[e].path
  BY DEF Crash, Open, TypeInv, EdsOK, Eds
<1>3. /\ \A i \in Ids, v \in Windows : v # w => guest'[i][v] = guest[i][v]
      /\ \A i \in Ids, v \in Windows : guest'[i][v].at = "commit" => guest[i][v].at = "commit"
  BY DEF Crash, Away, TypeInv, GuestOK
<1>4. \A v \in Windows : events'[v] = IF v = w THEN <<>> ELSE events[v]
  BY DEF Crash, TypeInv, EventsOK
<1>5. disk' = disk /\ alive' = alive \ {w} /\ jobs' \subseteq jobs
  BY DEF Crash
<1>6. OpenAlive' /\ EdPaths'
  BY <1>2, <1>5, WindowAssumption DEF OpenAlive, EdPaths
<1>7. TreeOps' /\ Withholds' /\ Granted'
  BY <1>1, <1>5 DEF TreeOps, Withholds, Granted, Goes
<1>8. EventsTrue'
  BY <1>1, <1>4, <1>5 DEF EventsTrue, Goes
<1>9. GuestsTrue' /\ Delivered'
  BY <1>1, <1>2, <1>3, <1>5, WindowAssumption DEF GuestsTrue, Delivered, Goes
<1>10. RemoveAlone'
  BY <1>1, <1>5 DEF RemoveAlone, Goes
<1>11. Follows'
  BY <1>1, <1>2, <1>3, <1>4, <1>5, WindowAssumption DEF Follows, Behind, Goes
<1>12. QED
  BY <1>1, <1>6, <1>7, <1>8, <1>9, <1>10, <1>11

\* LoadRevision keeps PathInv.
LEMMA PathLoadRevision == ASSUME TypeInv, PathInv, NEW i \in Ids, LoadRevision(i) PROVE PathInv'
<1>1. op[i] \in Ops /\ op[i].phase = "load"
  BY DEF LoadRevision, TypeInv, OpsOK
<1>2. pending[i].phase = "none"
  BY <1>1 DEF PathInv, Pairs, TypeInv, PendingOK, Pendings
<1>3. op[i].kind \in Changes => op[i].result # "ok"
  BY <1>1 DEF PathInv, Granted
<1>4. /\ op'[i].kind = op[i].kind /\ op'[i].owner = op[i].owner /\ op'[i].from = op[i].from
      /\ op'[i].nested = op[i].nested /\ op'[i].withheld = op[i].withheld
      /\ op'[i].phase # "none" /\ op'[i].result \in {"error", op[i].result}
  BY <1>1 DEF LoadRevision, TypeInv, OpsOK, Ops
<1>5. \A j \in Ids : j # i => op'[j] = op[j]
  BY DEF LoadRevision, TypeInv, OpsOK
<1>6. \A j \in Ids : Goes(j)
  BY <1>3, <1>4, <1>5 DEF Goes, PathInv, Withholds
<1>7. Pairs'
  BY <1>2, <1>5 DEF LoadRevision, coordinator, PathInv, Pairs
<1>8. QED
  BY <1>6, <1>7, PathFrame DEF LoadRevision, coordinator, tree, Open

\* GetContent keeps PathInv.
LEMMA PathGetContent == ASSUME TypeInv, PathInv, NEW i \in Ids, GetContent(i) PROVE PathInv'
<1>1. op[i] \in Ops /\ op[i].phase = "get"
  BY DEF GetContent, TypeInv, OpsOK
<1>2. pending[i].phase = "none"
  BY <1>1 DEF PathInv, Pairs, TypeInv, PendingOK, Pendings
<1>3. op[i].kind \in Changes => op[i].result # "ok"
  BY <1>1 DEF PathInv, Granted
<1>4. /\ op'[i].kind = op[i].kind /\ op'[i].owner = op[i].owner /\ op'[i].from = op[i].from
      /\ op'[i].nested = op[i].nested /\ op'[i].withheld = op[i].withheld
      /\ op'[i].phase # "none" /\ op'[i].result \in {"error", op[i].result}
  BY <1>1 DEF GetContent, TypeInv, OpsOK, Ops
<1>5. \A j \in Ids : j # i => op'[j] = op[j]
  BY DEF GetContent, TypeInv, OpsOK
<1>6. \A j \in Ids : Goes(j)
  BY <1>3, <1>4, <1>5 DEF Goes, PathInv, Withholds
<1>7. Pairs'
  BY <1>2, <1>5 DEF GetContent, PathInv, Pairs
<1>8. QED
  BY <1>6, <1>7, PathFrame DEF GetContent, Open

\* An event told to every window is in each living window's queue.
LEMMA HeardFacts ==
    ASSUME NEW q \in Seq(Events), NEW event \in Events
    PROVE  LET h == Heard(q, event)
           IN /\ \E n \in DOMAIN h : h[n] = event
              /\ \A n \in DOMAIN h : h[n] = event \/ \E m \in DOMAIN q : h[n] = q[m]
              /\ \A m \in DOMAIN q : \E n \in DOMAIN h : h[n] = q[m]
<1>1. CASE q # <<>> /\ Last(q) = event
  BY <1>1 DEF Heard, Last
<1>2. CASE ~(q # <<>> /\ Last(q) = event)
  <2>1. Heard(q, event) = Append(q, event)
    BY <1>2 DEF Heard
  <2>2. /\ DOMAIN Append(q, event) = 1..(Len(q) + 1) /\ DOMAIN q = 1..Len(q) /\ Len(q) \in Nat
        /\ Append(q, event)[Len(q) + 1] = event
        /\ \A m \in 1..Len(q) : Append(q, event)[m] = q[m]
    OBVIOUS
  <2>3. Len(q) + 1 \in 1..(Len(q) + 1) /\ \A m \in 1..Len(q) : m \in 1..(Len(q) + 1)
    BY <2>2
  <2>4. \A n \in 1..(Len(q) + 1) : n = Len(q) + 1 \/ n \in 1..Len(q)
    BY <2>2
  <2>5. QED
    BY <2>1, <2>2, <2>3, <2>4
<1>3. QED
  BY <1>1, <1>2

\* What the windows are told, each at the end of its queue.
LEMMA TellFacts ==
    ASSUME TypeInv, NEW i \in Ids, NEW kind \in {"save", "rename", "remove"}, Tell(kind, i),
           NEW event,
           event = [kind |-> kind, from |-> op[i].from, op |-> IF kind = "save" THEN 0 ELSE i]
    PROVE  \A w \in Windows :
                /\ w \in alive => \E n \in DOMAIN events'[w] : events'[w][n] = event
                /\ \A n \in DOMAIN events'[w] :
                      events'[w][n] = event \/ \E m \in DOMAIN events[w] : events'[w][n] = events[w][m]
                /\ w \in alive => \A m \in DOMAIN events[w] :
                                     \E n \in DOMAIN events'[w] : events'[w][n] = events[w][m]
<1>1. event \in Events
  BY BoundsAssumption DEF TypeInv, OpsOK, Ops, Events, Ids
<1>2. \A w \in Windows : events[w] \in Seq(Events)
  BY DEF TypeInv, EventsOK
<1>3. \A w \in Windows : events'[w] = IF w \in alive THEN Heard(events[w], event) ELSE <<>>
  BY DEF Tell
<1>4. SUFFICES ASSUME NEW w \in Windows
               PROVE  /\ w \in alive => \E n \in DOMAIN events'[w] : events'[w][n] = event
                      /\ \A n \in DOMAIN events'[w] :
                            events'[w][n] = event \/ \E m \in DOMAIN events[w] : events'[w][n] = events[w][m]
                      /\ w \in alive => \A m \in DOMAIN events[w] :
                                           \E n \in DOMAIN events'[w] : events'[w][n] = events[w][m]
  OBVIOUS
<1>5. CASE w \in alive
  BY <1>1, <1>2, <1>3, <1>5, HeardFacts
<1>6. CASE w \notin alive
  BY <1>3, <1>6
<1>7. QED
  BY <1>5, <1>6

\* Request keeps PathInv: whom the kernel leaves behind it tells.
LEMMA PathRequest ==
    ASSUME TypeInv, PathInv, NEW i \in Ids, Request(i) \/ RequestLost(i) PROVE PathInv'
<1> USE DEF PathInv
<1>1. op[i] \in Ops /\ op[i].phase = "request" /\ pending[i].phase = "none"
  BY DEF Request, RequestLost, TypeInv, OpsOK, PendingOK, Pendings, Pairs
<1>2. PICK v \in {"ok", "error", "conflict"} :
          /\ op' = [op EXCEPT ![i].phase = "answer", ![i].result = v]
          /\ v = "ok" => Verdict(i) = "ok" /\ Perform(i)
          /\ UNCHANGED <<disk, events>> \/ (Verdict(i) = "ok" /\ Perform(i))
  BY DEF Request, RequestLost, Verdict
<1>3. /\ op'[i].kind = op[i].kind /\ op'[i].owner = op[i].owner /\ op'[i].from = op[i].from
      /\ op'[i].nested = op[i].nested /\ op'[i].withheld = op[i].withheld
      /\ op'[i].phase = "answer" /\ op'[i].result = v
      /\ \A j \in Ids : j # i => op'[j] = op[j]
  BY <1>1, <1>2 DEF TypeInv, OpsOK, Ops
<1>4. UNCHANGED <<ed, reload, coordinator, guest, tree, alive>>
  BY DEF Request, RequestLost, budget
<1>5. OpenAlive' /\ TreeOps' /\ Pairs'
  BY <1>1, <1>3, <1>4 DEF OpenAlive, TreeOps, Pairs, Open, coordinator
<1>6. CASE UNCHANGED <<disk, events>> /\ v # "ok"
  <2>1. \A j \in Ids : Goes(j)
    BY <1>3, <1>6 DEF Goes, Withholds
  <2>2. QED
    BY <1>4, <1>5, <1>6, <2>1, PathFrame DEF tree, Open
<1>7. CASE Verdict(i) = "ok" /\ Perform(i) /\ op[i].kind \in Saves
  <2>1. op[i].kind \notin Changes
    BY <1>7 DEF Saves, Changes
  <2>2. disk'.path = disk.path
    BY <1>7 DEF Perform, TypeInv, RestOK, Disks
  <2>3. \A j \in Ids : /\ op'[j].kind = op[j].kind /\ (op'[j].withheld <=> op[j].withheld)
                       /\ op[j].kind \in Changes \/ op[j].withheld => op'[j] = op[j]
    BY <1>3, <2>1 DEF Withholds
  <2>4. /\ \A w \in Windows : \A n \in DOMAIN events'[w] : events'[w][n].kind # "save" =>
              \E m \in DOMAIN events[w] : events'[w][n] = events[w][m]
        /\ \A w \in alive : \A m \in DOMAIN events[w] :
              \E n \in DOMAIN events'[w] : events'[w][n] = events[w][m]
    <3>1. Tell("save", i)
      BY <1>7 DEF Perform
    <3>2. PICK event :
              event = [kind |-> "save", from |-> op[i].from, op |-> IF "save" = "save" THEN 0 ELSE i]
      OBVIOUS
    <3>3. \A w \in Windows :
              /\ \A n \in DOMAIN events'[w] :
                    events'[w][n] = event \/ \E m \in DOMAIN events[w] : events'[w][n] = events[w][m]
              /\ w \in alive => \A m \in DOMAIN events[w] :
                                   \E n \in DOMAIN events'[w] : events'[w][n] = events[w][m]
      BY <3>1, <3>2, TellFacts
    <3>4. event.kind = "save"
      BY <3>2
    <3>5. QED
      BY <3>3, <3>4 DEF TypeInv, RestOK
  <2>5. EdPaths' /\ Withholds' /\ Granted'
    BY <1>4, <2>2, <2>3 DEF EdPaths, Withholds, Granted
  <2>6. EventsTrue'
    BY <2>2, <2>3, <2>4 DEF EventsTrue
  <2>7. GuestsTrue' /\ Delivered'
    BY <1>4, <2>2, <2>3 DEF GuestsTrue, Delivered, Open
  <2>8. RemoveAlone'
    BY <1>4, <2>2, <2>3 DEF RemoveAlone, tree
  <2>9. Follows'
    BY <1>4, <2>2, <2>3, <2>4 DEF Follows, Behind, Open, OpenAlive
  <2>10. QED
    BY <1>5, <2>5, <2>6, <2>7, <2>8, <2>9
<1>8. CASE Verdict(i) = "ok" /\ Perform(i) /\ op[i].kind \notin Saves
  <2>1. op[i].kind \in Changes /\ op[i].from = "old" /\ disk.path = "old"
    BY <1>1, <1>8 DEF Ops, Kinds, TreeOps, Verdict
  <2>2. disk'.path = Target(op[i].kind) /\ disk'.path # "old"
    BY <1>8 DEF Perform, Target, TypeInv, RestOK, Disks
  <2> DEFINE kind == IF op[i].kind = "remove" THEN "remove" ELSE "rename"
  <2> DEFINE event == [kind |-> kind, from |-> op[i].from, op |-> i]
  <2>3. \A w \in Windows :
            /\ w \in alive => \E n \in DOMAIN events'[w] : events'[w][n] = event
            /\ \A n \in DOMAIN events'[w] :
                  events'[w][n] = event \/ \E m \in DOMAIN events[w] : events'[w][n] = events[w][m]
    <3>1. PICK k \in {"rename", "remove"} : k = kind
      OBVIOUS
    <3>2. Tell(k, i)
      BY <1>8, <3>1 DEF Perform
    <3>3. PICK told : told = [kind |-> k, from |-> op[i].from, op |-> IF k = "save" THEN 0 ELSE i]
      OBVIOUS
    <3>4. \A w \in Windows :
              /\ w \in alive => \E n \in DOMAIN events'[w] : events'[w][n] = told
              /\ \A n \in DOMAIN events'[w] :
                    events'[w][n] = told \/ \E m \in DOMAIN events[w] : events'[w][n] = events[w][m]
      BY <3>2, <3>3, TellFacts
    <3>5. told = event
      BY <3>1, <3>3
    <3> HIDE DEF event
    <3>6. QED
      BY <3>4, <3>5
  <2>4. \A e \in Editors : ed[e].path = "old"
    BY <2>1 DEF EdPaths, TypeInv, EdsOK, Eds, Paths
  <2>5. \A w \in Windows : \A n \in DOMAIN events[w] : events[w][n].kind = "save"
    BY <2>1 DEF EventsTrue, Target
  <2>6. \A j \in Ids : /\ ~op[j].withheld
                       /\ op[j].kind \in Changes => op[j].result # "ok"
                       /\ \A w \in Windows : guest[j][w].at = "commit" => op[j].kind \notin Changes
    BY <2>1 DEF Withholds, Granted, GuestsTrue, Target
  <2>7. \A j \in Ids : op'[j].kind = op[j].kind
    BY <1>3
  <2>8. EdPaths' /\ Withholds' /\ Granted'
    BY <1>3, <1>4, <2>2, <2>4, <2>6 DEF EdPaths, Withholds, Granted
  <2>9. EventsTrue'
    <3>1. \A w \in Windows : \A n \in DOMAIN events'[w] : events'[w][n].kind # "save" =>
              events'[w][n] = event
      BY <2>3, <2>5
    <3>2. QED
      BY <2>1, <2>2, <2>7, <3>1 DEF EventsTrue
  <2>10. GuestsTrue' /\ Delivered'
    BY <1>3, <1>4, <2>6 DEF GuestsTrue, Delivered
  <2>11. RemoveAlone'
    BY <1>4, <2>1 DEF RemoveAlone, tree, Changes
  <2>12. Follows'
    <3>1. \A w \in alive : \E n \in DOMAIN events'[w] : events'[w][n].kind # "save"
      BY <2>3 DEF TypeInv, RestOK
    <3>2. QED
      BY <1>4, <3>1 DEF Follows, Behind, OpenAlive, Open
  <2>13. QED
    BY <1>5, <2>8, <2>9, <2>10, <2>11, <2>12
<1>9. QED
  BY <1>2, <1>6, <1>7, <1>8

\* Answer keeps PathInv: every window gets the commit.
LEMMA PathAnswer == ASSUME TypeInv, PathInv, NEW i \in Ids, Answer(i) PROVE PathInv'
<1> USE DEF PathInv
<1>1. op[i] \in Ops /\ op[i].phase = "answer" /\ pending[i].phase = "none"
  BY DEF Answer, TypeInv, OpsOK, PendingOK, Pendings, Pairs
<1>2. UNCHANGED <<disk, ed, events, jobs, alive>> /\ leases' = leases \ {i}
  BY DEF Answer, tree
<1>3. CASE /\ op[i].result = "ok"
           /\ op' = [op EXCEPT ![i].phase = "commit"]
           /\ pending' = [pending EXCEPT ![i] = [Quiet EXCEPT !.phase = "commit", !.left = alive]]
           /\ guest' = [guest EXCEPT ![i] = [w \in Windows |->
                            IF w \in alive THEN [Away EXCEPT !.at = "commit"] ELSE Away]]
  <2>1. /\ op'[i].kind = op[i].kind /\ op'[i].owner = op[i].owner /\ op'[i].from = op[i].from
        /\ op'[i].nested = op[i].nested /\ op'[i].withheld = op[i].withheld
        /\ op'[i].phase = "commit" /\ op'[i].result = "ok"
        /\ \A j \in Ids : j # i => op'[j] = op[j]
    BY <1>1, <1>3 DEF TypeInv, OpsOK, Ops
  <2>2. \A w \in Windows : guest'[i][w].at = IF w \in alive THEN "commit" ELSE "none"
    BY <1>3 DEF TypeInv, GuestOK, Away
  <2>3. \A j \in Ids : j # i => guest'[j] = guest[j]
    BY <1>3 DEF TypeInv, GuestOK
  <2>4. OpenAlive' /\ EdPaths' /\ TreeOps' /\ Withholds' /\ Granted'
    <3>1. OpenAlive' /\ EdPaths'
      BY <1>2 DEF OpenAlive, EdPaths, Open
    <3>2. TreeOps'
      BY <2>1 DEF TreeOps
    <3>3. Withholds'
      BY <1>2, <2>1 DEF Withholds
    <3>4. Granted'
      BY <1>2, <1>3, <2>1 DEF Granted
    <3>5. QED
      BY <3>1, <3>2, <3>3, <3>4
  <2>5. EventsTrue' /\ RemoveAlone'
    BY <1>2, <2>1 DEF EventsTrue, RemoveAlone
  <2>6. GuestsTrue'
    BY <1>2, <1>3, <2>1, <2>2, <2>3 DEF GuestsTrue, Granted
  <2>7. Delivered'
    BY <1>2, <2>1, <2>2, <2>3, WindowAssumption DEF Delivered, OpenAlive, Open
  <2>8. Pairs'
    BY <1>2, <1>3, <2>1 DEF Pairs, TypeInv, PendingOK, Quiet
  <2>9. Follows'
    <3> SUFFICES ASSUME NEW e \in Editors, Open(e)', ed'[e].path # disk'.path PROVE Behind(e)'
      BY DEF Follows
    <3>1. Open(e) /\ Behind(e) /\ WindowOf[e] \in alive /\ WindowOf[e] \in Windows
      BY <1>2, WindowAssumption DEF Follows, Open, OpenAlive
    <3>2. QED
      BY <1>2, <2>1, <2>2, <2>3, <3>1 DEF Behind
  <2>10. QED
    BY <2>4, <2>5, <2>6, <2>7, <2>8, <2>9
<1>4. CASE /\ op' = [op EXCEPT ![i].phase = "over",
                         ![i].result = IF @ = "ok" /\ ~op[i].nested THEN "error" ELSE @]
           /\ UNCHANGED <<pending, guest>>
  <2>1. /\ op'[i].kind = op[i].kind /\ op'[i].owner = op[i].owner /\ op'[i].from = op[i].from
        /\ op'[i].nested = op[i].nested /\ op'[i].withheld = op[i].withheld
        /\ op'[i].phase = "over" /\ (op'[i].result = "ok" => op[i].nested)
        /\ \A j \in Ids : j # i => op'[j] = op[j]
    BY <1>1, <1>4 DEF TypeInv, OpsOK, Ops
  <2>2. \A j \in Ids : Goes(j)
    BY <2>1 DEF Goes, Withholds, TreeOps
  <2>3. Pairs'
    BY <1>1, <1>2, <1>4, <2>1 DEF Pairs
  <2>4. QED
    BY <1>2, <1>4, <2>2, <2>3, PathFrame DEF Open
<1>5. QED
  BY <1>3, <1>4 DEF Answer

\* What a commit does to an editor.
LEMMA CommittedEd ==
    ASSUME TypeInv, NEW i \in Ids, NEW w \in Windows, CommitAt(i, w), NEW e \in Editors
    PROVE /\ Open(e)' => Open(e)
          /\ e \notin At(w, op[i].from) => ed'[e] = ed[e]
          /\ op[i].kind \notin Changes => ed'[e].path = ed[e].path
          /\ e \in At(w, op[i].from) /\ op[i].kind = "remove" => ~Open(e)' /\ ed'[e].path = ed[e].path
          /\ e \in At(w, op[i].from) /\ op[i].kind \in {"rename", "move"} => ed'[e].path = "new"
<1>1. ed[e] \in Eds
  BY DEF TypeInv, EdsOK
<1>2. \A v : [Renamed(ed[e]) EXCEPT !.rev = v].open = ed[e].open /\ [Renamed(ed[e]) EXCEPT !.rev = v].path = "new"
  BY <1>1 DEF Renamed, Eds
<1>3. \A v : [ed[e] EXCEPT !.path = "new", !.rev = v].open = ed[e].open /\ [ed[e] EXCEPT !.path = "new", !.rev = v].path = "new"
  BY <1>1 DEF Eds
<1>4. ~Closed(ed[e]).open /\ Closed(ed[e]).path = ed[e].path
  BY <1>1 DEF Closed, Eds
<1>5. CASE e \notin At(w, op[i].from)
  <2>1. ed'[e] = ed[e]
    BY <1>5 DEF CommitAt
  <2>2. QED
    BY <1>5, <2>1 DEF Open
<1>6. CASE e \in At(w, op[i].from)
  <2>1. ed'[e] = CASE op[i].kind = "rename" -> [Renamed(ed[e]) EXCEPT !.rev = op[i].rev]
                   [] op[i].kind = "move"   -> [ed[e] EXCEPT !.path = "new", !.rev = op[i].rev]
                   [] op[i].kind = "remove" -> Closed(ed[e])
                   [] OTHER -> ed[e]
    BY <1>6 DEF CommitAt
  <2>2. CASE op[i].kind = "rename"
    BY <1>2, <1>6, <2>1, <2>2 DEF Open, Changes
  <2>3. CASE op[i].kind = "move"
    BY <1>3, <1>6, <2>1, <2>3 DEF Open, Changes
  <2>4. CASE op[i].kind = "remove"
    BY <1>4, <1>6, <2>1, <2>4 DEF Open, Changes
  <2>5. CASE op[i].kind \notin Changes
    BY <1>6, <2>1, <2>5 DEF Open, Changes
  <2>6. QED
    BY <2>2, <2>3, <2>4, <2>5 DEF Changes
<1>7. QED
  BY <1>5, <1>6

\* CommitAt keeps PathInv: the window that used its commit has followed.
LEMMA PathCommitAt ==
    ASSUME TypeInv, PathInv, NEW i \in Ids, NEW w \in Windows, CommitAt(i, w) PROVE PathInv'
<1> USE DEF PathInv
<1>1. /\ op[i] \in Ops /\ guest[i][w].at = "commit"
      /\ op[i].kind \in Changes => op[i].from = "old" /\ disk.path = Target(op[i].kind)
  BY DEF CommitAt, TypeInv, OpsOK, GuestsTrue, TreeOps
<1>2. /\ guest'[i][w].at = "none"
      /\ \A j \in Ids, v \in Windows : j # i \/ v # w => guest'[j][v] = guest[j][v]
  BY DEF CommitAt, TypeInv, GuestOK, Away
<1>3. UNCHANGED <<disk, leases, events, jobs, alive>>
  BY DEF CommitAt, tree
<1>4. op' = op \/ (pending[i].phase = "commit" /\ op' = [op EXCEPT ![i].phase = "over"])
  BY DEF CommitAt
<1>5. /\ op'[i].kind = op[i].kind /\ op'[i].owner = op[i].owner /\ op'[i].from = op[i].from
      /\ op'[i].nested = op[i].nested /\ op'[i].withheld = op[i].withheld
      /\ op'[i].result = op[i].result
      /\ op'[i].phase = op[i].phase \/ (op[i].phase = "commit" /\ op'[i].phase = "over")
      /\ \A j \in Ids : j # i => op'[j] = op[j]
  BY <1>1, <1>4 DEF TypeInv, OpsOK, Ops, Pairs
<1>6. \A e \in Editors :
          /\ Open(e)' => Open(e)
          /\ ed'[e].path = ed[e].path \/ (ed'[e].path = "new" /\ disk.path = "new")
          /\ WindowOf[e] = w /\ op[i].kind \in Changes /\ Open(e)' => ed'[e].path = "new"
          /\ ed'[e].path = ed[e].path \/ op[i].kind \in Changes
  <2> SUFFICES ASSUME NEW e \in Editors
               PROVE  /\ Open(e)' => Open(e)
                      /\ ed'[e].path = ed[e].path \/ (ed'[e].path = "new" /\ disk.path = "new")
                      /\ WindowOf[e] = w /\ op[i].kind \in Changes /\ Open(e)' => ed'[e].path = "new"
                      /\ ed'[e].path = ed[e].path \/ op[i].kind \in Changes
    OBVIOUS
  <2>1. ed[e].path \in Paths
    BY DEF TypeInv, EdsOK, Eds
  <2>2. CASE e \notin At(w, op[i].from)
    BY <1>1, <2>1, <2>2, CommittedEd DEF At, Paths, Open
  <2>3. CASE e \in At(w, op[i].from)
    BY <1>1, <2>1, <2>3, CommittedEd DEF Changes, Target
  <2>4. QED
    BY <2>2, <2>3
<1>7. OpenAlive' /\ EdPaths' /\ TreeOps' /\ Withholds' /\ Granted'
  BY <1>3, <1>5, <1>6 DEF OpenAlive, EdPaths, TreeOps, Withholds, Granted
<1>8. EventsTrue' /\ RemoveAlone'
  BY <1>3, <1>5 DEF EventsTrue, RemoveAlone
<1>9. GuestsTrue'
  BY <1>2, <1>3, <1>5 DEF GuestsTrue
<1>10. Delivered'
  <2> SUFFICES ASSUME NEW j \in Ids, op'[j].kind \in Changes, op'[j].result = "ok",
                      op'[j].phase \in {"commit", "over", "none"},
                      NEW e \in Editors, Open(e)', ed'[e].path = "old"
               PROVE  guest'[j][WindowOf[e]].at = "commit"
    BY DEF Delivered
  <2>1. Open(e) /\ ed[e].path = "old" /\ WindowOf[e] \in Windows
    BY <1>6, WindowAssumption
  <2>2. guest[j][WindowOf[e]].at = "commit"
    BY <1>5, <2>1 DEF Delivered
  <2>3. j # i \/ WindowOf[e] # w
    BY <1>5, <1>6
  <2>4. QED
    BY <1>2, <2>1, <2>2, <2>3
<1>11. Pairs'
  <2>1. CASE pending[i].phase = "commit"
    <3>1. op[i].phase = "commit" /\ i \notin leases
      BY <2>1 DEF Pairs
    <3>2. CASE pending[i].left = {w}
      <4>1. pending' = [pending EXCEPT ![i] = Quiet]
        BY <2>1, <3>2 DEF CommitAt
      <4>2. \A j \in Ids : pending'[j].phase = IF j = i THEN "none" ELSE pending[j].phase
        BY <4>1 DEF TypeInv, PendingOK, Quiet
      <4>3. QED
        BY <1>3, <1>5, <4>2 DEF Pairs
    <3>3. CASE pending[i].left # {w}
      <4>1. op' = op /\ \A j \in Ids : pending'[j].phase = pending[j].phase
        BY <2>1, <3>3 DEF CommitAt, TypeInv, PendingOK, Pendings
      <4>2. QED
        BY <1>3, <4>1 DEF Pairs
    <3>4. QED
      BY <3>2, <3>3
  <2>2. CASE pending[i].phase # "commit"
    BY <1>3, <2>2 DEF CommitAt, Pairs
  <2>3. QED
    BY <2>1, <2>2
<1>12. Follows'
  <2> SUFFICES ASSUME NEW e \in Editors, Open(e)', ed'[e].path # disk'.path PROVE Behind(e)'
    BY DEF Follows
  <2>1. Open(e) /\ ed[e].path # disk.path /\ Behind(e) /\ WindowOf[e] \in Windows
    BY <1>3, <1>6, WindowAssumption DEF Follows
  <2>2. op[i].kind \notin Changes \/ WindowOf[e] # w
    BY <1>1, <1>3, <1>6, <2>1 DEF Target, EdPaths, Changes
  <2>3. QED
    BY <1>2, <1>3, <1>5, <2>1, <2>2 DEF Behind
<1>13. QED
  BY <1>7, <1>8, <1>9, <1>10, <1>11, <1>12
\* The queue of a window without its first event.
LEMMA TailFacts ==
    ASSUME TypeInv, NEW w \in Windows, EventAt(w)
    PROVE  /\ Head(events[w]) \in Events /\ 1 \in DOMAIN events[w] /\ Head(events[w]) = events[w][1]
           /\ \A n \in DOMAIN events'[w] : n + 1 \in DOMAIN events[w] /\ events'[w][n] = events[w][n + 1]
           /\ \A n \in DOMAIN events[w] : n # 1 => n - 1 \in DOMAIN events'[w]
                                                  /\ events'[w][n - 1] = events[w][n]
           /\ \A v \in Windows : v # w => events'[v] = events[v]
<1>1. events[w] \in Seq(Events) /\ events[w] # <<>>
  BY DEF EventAt, TypeInv, EventsOK
<1>2. events'[w] = Tail(events[w]) /\ \A v \in Windows : v # w => events'[v] = events[v]
  BY DEF EventAt, TypeInv, EventsOK
<1>3. PICK q \in Seq(Events) : q = events[w]
  BY <1>1
<1>4. q # <<>>
  BY <1>1, <1>3
<1>5. /\ Head(q) \in Events /\ 1 \in DOMAIN q /\ Head(q) = q[1]
      /\ DOMAIN Tail(q) = 1..(Len(q) - 1) /\ DOMAIN q = 1..Len(q) /\ Len(q) \in Nat
      /\ \A n \in 1..(Len(q) - 1) : Tail(q)[n] = q[n + 1]
  BY <1>4
<1>6. \A n \in 1..(Len(q) - 1) : n + 1 \in 1..Len(q)
  BY <1>5
<1>7. \A n \in 1..Len(q) : n # 1 => n - 1 \in 1..(Len(q) - 1) /\ (n - 1) + 1 = n
  BY <1>5
<1>8. QED
  BY <1>2, <1>3, <1>5, <1>6, <1>7

\* What an event does to the path of an editor.
LEMMA FollowedEd ==
    ASSUME TypeInv, NEW w \in Windows, NEW event, NEW e \in Editors
    PROVE  LET f == Followed(w, event)[e]
           IN /\ f.open => ed[e].open
              /\ f.path = ed[e].path \/ (f.path = "new" /\ event.kind # "remove" /\ e \in At(w, event.from))
              /\ e \in At(w, event.from) /\ f.open => f.path = "new"
<1>1. ed[e] \in Eds
  BY DEF TypeInv, EdsOK
<1>2. ~Closed(ed[e]).open /\ Closed(ed[e]).path = ed[e].path
  BY <1>1 DEF Closed, Eds
<1>3. [ed[e] EXCEPT !.path = "new"].open = ed[e].open /\ [ed[e] EXCEPT !.path = "new"].path = "new"
  BY <1>1 DEF Eds
<1>4. QED
  BY <1>2, <1>3 DEF Followed

\* EventAt keeps PathInv: an event is applied, withheld, or told already by the commit.
LEMMA PathEventAt == ASSUME TypeInv, PathInv, NEW w \in Windows, EventAt(w) PROVE PathInv'
<1> USE DEF PathInv
<1> DEFINE event == Head(events[w])
           i == event.op
           own == w = TreeWindow /\ event.kind # "save"
<1>1. UNCHANGED <<disk, coordinator, guest, tree, alive>>
  BY DEF EventAt
<1>2. /\ event \in Events /\ 1 \in DOMAIN events[w] /\ event = events[w][1]
      /\ \A n \in DOMAIN events'[w] : n + 1 \in DOMAIN events[w] /\ events'[w][n] = events[w][n + 1]
      /\ \A n \in DOMAIN events[w] : n # 1 => n - 1 \in DOMAIN events'[w]
                                             /\ events'[w][n - 1] = events[w][n]
      /\ \A v \in Windows : v # w => events'[v] = events[v]
  BY TailFacts
<1>3. event.kind # "save" =>
          /\ i \in Ids /\ op[i].kind \in Changes /\ (event.kind = "remove" <=> op[i].kind = "remove")
          /\ event.from = "old" /\ disk.path = Target(op[i].kind)
  BY <1>2 DEF EventsTrue
<1>4. \/ event.kind = "save" /\ UNCHANGED <<ed, op>>
      \/ event.kind # "save" /\ own /\ op[i].phase # "none"
            /\ op' = [op EXCEPT ![i].withheld = TRUE] /\ UNCHANGED ed
      \/ event.kind # "save" /\ own /\ op[i].phase = "none" /\ op[i].result = "ok" /\ UNCHANGED <<ed, op>>
      \/ event.kind # "save" /\ ed' = Followed(w, event) /\ UNCHANGED op
  BY DEF EventAt
<1> HIDE DEF event, i, own
<1>5. \A j \in Ids : /\ op'[j].kind = op[j].kind /\ op'[j].owner = op[j].owner /\ op'[j].from = op[j].from
                     /\ op'[j].nested = op[j].nested /\ op'[j].phase = op[j].phase
                     /\ op'[j].result = op[j].result
                     /\ op'[j].withheld => op[j].withheld \/ (j = i /\ event.kind # "save" /\ op[j].phase # "none")
                     /\ op[j].withheld => op'[j].withheld
  <2>1. CASE op' = op
    BY <2>1
  <2>2. CASE event.kind # "save" /\ op[i].phase # "none" /\ op' = [op EXCEPT ![i].withheld = TRUE]
    BY <1>3, <2>2 DEF TypeInv, OpsOK, Ops
  <2>3. QED
    BY <1>4, <2>1, <2>2
<1>6. \A e \in Editors :
          /\ Open(e)' => Open(e)
          /\ ed'[e].path = ed[e].path \/ (ed'[e].path = "new" /\ disk.path = "new")
  <2>1. CASE ed' = ed
    BY <2>1 DEF Open
  <2>2. CASE event.kind # "save" /\ ed' = Followed(w, event)
    BY <1>3, <2>2, FollowedEd DEF Open, Target
  <2>3. QED
    BY <1>4, <2>1, <2>2
<1>7. OpenAlive' /\ EdPaths' /\ TreeOps' /\ Granted' /\ RemoveAlone' /\ Pairs'
  BY <1>1, <1>5, <1>6 DEF OpenAlive, EdPaths, TreeOps, Granted, RemoveAlone, Pairs, coordinator, tree
<1>8. Withholds'
  BY <1>1, <1>3, <1>5 DEF Withholds
<1>9. EventsTrue'
  <2> SUFFICES ASSUME NEW v \in Windows, NEW n \in DOMAIN events'[v], events'[v][n].kind # "save"
               PROVE  LET j == events'[v][n].op
                      IN /\ j \in Ids /\ op'[j].kind \in Changes
                         /\ events'[v][n].kind = "remove" <=> op'[j].kind = "remove"
                         /\ events'[v][n].from = "old" /\ disk'.path = Target(op'[j].kind)
    BY DEF EventsTrue
  <2>1. PICK m \in DOMAIN events[v] : events'[v][n] = events[v][m]
    BY <1>2
  <2>2. QED
    BY <1>1, <1>5, <2>1 DEF EventsTrue
<1>10. GuestsTrue'
  BY <1>1, <1>5 DEF GuestsTrue
<1>11. Delivered'
  BY <1>1, <1>5, <1>6, WindowAssumption DEF Delivered
<1>12. Follows'
  <2> SUFFICES ASSUME NEW e \in Editors, Open(e)', ed'[e].path # disk'.path PROVE Behind(e)'
    BY DEF Follows
  <2>1. Open(e) /\ ed[e].path # disk.path /\ Behind(e) /\ WindowOf[e] \in Windows
    BY <1>1, <1>6, WindowAssumption DEF Follows
  <2>2. ed'[e].path = "old" /\ ed[e].path = "old"
    BY <1>1, <1>6, <2>1 DEF EdPaths, TypeInv, EdsOK, Eds, Paths
  <2>3. CASE WindowOf[e] = TreeWindow /\ \E j \in Ids : op[j].withheld
    BY <1>5, <2>3 DEF Behind
  <2>4. CASE \E j \in Ids : guest[j][WindowOf[e]].at = "commit" /\ op[j].kind \in Changes
    BY <1>1, <1>5, <2>4 DEF Behind
  <2>5. CASE \E n \in DOMAIN events[WindowOf[e]] : events[WindowOf[e]][n].kind # "save"
    <3>1. PICK n \in DOMAIN events[WindowOf[e]] : events[WindowOf[e]][n].kind # "save"
      BY <2>5
    <3>2. CASE WindowOf[e] # w \/ n # 1
      BY <1>2, <2>1, <3>1, <3>2 DEF Behind
    <3>3. CASE WindowOf[e] = w /\ n = 1
      <4>1. event.kind # "save"
        BY <1>2, <3>1, <3>3
      <4>2. CASE own /\ op' = [op EXCEPT ![i].withheld = TRUE]
        BY <1>3, <3>3, <4>1, <4>2 DEF Behind, own, TypeInv, OpsOK, Ops
      <4>3. CASE op[i].phase = "none" /\ op[i].result = "ok" /\ UNCHANGED <<ed, op>>
        <5>1. guest[i][WindowOf[e]].at = "commit"
          BY <1>3, <2>1, <2>2, <4>1, <4>3 DEF Delivered
        <5>2. QED
          BY <1>1, <1>3, <4>1, <4>3, <5>1 DEF Behind
      <4>4. CASE ed' = Followed(w, event)
        <5>1. e \in At(w, event.from)
          BY <1>3, <2>1, <2>2, <3>3, <4>1 DEF At
        <5>2. QED
          BY <2>2, <4>4, <5>1, FollowedEd DEF Open
      <4>5. QED
        BY <1>4, <4>1, <4>2, <4>3, <4>4
    <3>4. QED
      BY <3>2, <3>3
  <2>6. QED
    BY <2>1, <2>3, <2>4, <2>5 DEF Behind
<1>13. QED
  BY <1>7, <1>8, <1>9, <1>10, <1>11, <1>12

\* PathInv holds at first.
LEMMA PathInit == Init => PathInv
<1> SUFFICES ASSUME Init PROVE PathInv
  OBVIOUS
<1>1. OpenAlive /\ EdPaths /\ Follows
  BY WindowAssumption DEF Init, OpenAlive, EdPaths, Follows, Open
<1>2. \A i \in Ids : /\ op[i].kind = "save" /\ ~op[i].withheld /\ pending[i].phase = "none"
  BY DEF Init, Free, Quiet
<1>3. TreeOps /\ Withholds /\ Granted /\ GuestsTrue /\ Delivered /\ Pairs
  BY <1>2 DEF TreeOps, Withholds, Granted, GuestsTrue, Delivered, Pairs, Changes
<1>4. EventsTrue
  BY DEF Init, EventsTrue
<1>5. RemoveAlone
  BY <1>2 DEF Init, RemoveAlone
<1>6. QED
  BY <1>1, <1>3, <1>4, <1>5 DEF PathInv

\* Every step keeps PathInv.
LEMMA PathNext == TypeInv /\ PathInv /\ [Next]_vars => PathInv'
<1> SUFFICES ASSUME TypeInv, PathInv, [Next]_vars PROVE PathInv'
  OBVIOUS
<1>1. CASE External
  BY <1>1, PathEditing, PathRequest, PathCrash, PathOtherWindow, PathTreeStarts DEF External
<1>2. CASE Progress
  BY <1>2, PathEditing, PathSaveOnce, PathSaveEnds, PathTimeout, PathRequest, PathAnswer,
     PathLoadRevision, PathGetContent, PathTreeEnds, PathPrepareAt, PathPreparedAt,
     PathCommitAt, PathEventAt DEF Progress
<1>3. CASE UNCHANGED vars
  <2>1. UNCHANGED <<disk, ed, op, coordinator, guest, events, jobs, alive>>
    BY <1>3 DEF vars, tree
  <2>2. Pairs'
    BY <2>1 DEF PathInv, Pairs, coordinator
  <2>3. \A i \in Ids : Goes(i)
    BY <2>1 DEF Goes, PathInv, Withholds
  <2>4. QED
    BY <2>1, <2>2, <2>3, PathFrame DEF Open
<1>4. QED
  BY <1>1, <1>2, <1>3 DEF Next

\* The types, and what relates the paths, hold always.
THEOREM InvHolds == Spec => [](TypeInv /\ PathInv)
<1>1. Init => TypeInv /\ PathInv
  BY TypesInit, PathInit
<1>2. TypeInv /\ PathInv /\ [Next]_vars => (TypeInv /\ PathInv)'
  BY TypesNext, PathNext
<1>3. QED
  BY <1>1, <1>2, PTL DEF Spec

\* An open editor whose path is not the document's has a notice of the move to come
\* (documentManagement.ts, applyMarkdownManagementEvent; handleMarkdownManagementCommit).
THEOREM PathFollowedHolds == Spec => []PathFollowed
<1>1. TypeInv /\ PathInv => PathFollowed
  <2> SUFFICES ASSUME TypeInv, PathInv, NEW e \in Editors, Open(e), ed[e].path # disk.path
               PROVE  LET w == WindowOf[e]
                      IN \/ \E n \in DOMAIN events[w] : /\ events[w][n].kind # "save"
                                                        /\ events[w][n].from = ed[e].path
                         \/ w = TreeWindow /\ \E i \in Ids : op[i].withheld
                         \/ \E i \in Ids : guest[i][w].at = "commit"
    BY DEF PathFollowed
  <2>1. ed[e].path = "old" /\ WindowOf[e] \in Windows
    BY WindowAssumption DEF PathInv, EdPaths, TypeInv, EdsOK, Eds, Paths
  <2>2. QED
    BY <2>1 DEF PathInv, Follows, Behind, EventsTrue
<1>2. QED
  BY <1>1, InvHolds, PTL
-----------------------------------------------------------------------------
(* What the texts are made of, for EditsStay and ContentMatchesRevision.   *)

Active(i) == op[i].phase # "none"
Typed == typed \cup {Title}

\* Every text is made of edits that were made.
AllTyped == /\ disk.content \subseteq Typed /\ original \subseteq Typed
            /\ \A e \in Editors : ed[e].view \subseteq Typed /\ reload[e].got \subseteq Typed
            /\ \A i \in Ids : op[i].body \subseteq Typed
\* Editors save, the file tree does the rest, and each has one operation at most.
Owners == \A i \in Ids : Active(i) =>
              /\ op[i].kind = "save" <=> op[i].owner \in Editors
              /\ op[i].phase \in {"load", "get"} => op[i].owner = "tree"
OneEach == \A i, j \in Ids : Active(i) /\ Active(j) /\ op[i].owner = op[j].owner => i = j
\* What an editor saves it shows.
BodyShown == \A i \in Ids : Active(i) /\ op[i].owner \in Editors =>
                 op[i].body \subseteq ed[op[i].owner].view
\* The new title is added to the text that is expected to be there.
TitleAdded == \A i \in Ids : op[i].phase = "request" /\ op[i].kind = "title" =>
                  op[i].body = op[i].rev \cup {Title}

TextInv == AllTyped /\ Owners /\ OneEach /\ BodyShown /\ TitleAdded

\* A job waits for the one before it.
OneJob == /\ \A i \in Ids : Active(i) /\ op[i].owner = "tree" => jobs = {}
          /\ \A j, k \in jobs : j = k
\* An editor that waits to save has its own revision among those compared.
OwnRevision == \A i \in Ids : pending[i].phase = "prepare" =>
                   /\ IsFiniteSet(pending[i].revs)
                   /\ op[i].owner \in Editors => op[i].rev \in pending[i].revs
\* Until the document has moved an editor shows what its revision is of.
Shows == disk.path # "new" =>
             /\ \A e \in Editors : ed[e].rev \subseteq ed[e].view
             /\ \A i \in Ids : Active(i) /\ op[i].owner \in Editors => op[i].rev \subseteq op[i].body
\* Between the saving of the title and the renaming.
TitleSaved ==
    \/ "rename" \in jobs
    \/ \E i \in Ids : op[i].kind = "rename" /\ op[i].phase \in {"prepare", "load", "get", "request"}
    \/ \E i \in Ids : /\ op[i].kind = "title" /\ op[i].result = "ok"
                      /\ op[i].phase \in {"answer", "commit", "over"}
TitleStays == disk.path = "old" /\ TitleSaved => Title \in disk.content
Commits(i) == \E w \in Windows : guest[i][w].at = "commit"
CommitsLate == \A i \in Ids : Commits(i) => op[i].phase \in {"commit", "over", "none"}
RenamedTitle == \A i \in Ids :
    /\ op[i].kind = "rename"
    /\ Commits(i) \/ (op[i].result = "ok" /\ op[i].phase \in {"answer", "commit", "over"})
    => Title \in op[i].rev

TitleInv == OneJob /\ OwnRevision /\ Shows /\ TitleStays /\ CommitsLate /\ RenamedTitle
-----------------------------------------------------------------------------
(* What a step does to the operations.                                     *)

Early == {"prepare", "load", "get", "request"}
Late == {"answer", "commit", "over"}

\* An operation that neither begins nor ends, nor is answered by the kernel.
GoesOn(i) ==
    /\ op'[i].owner = op[i].owner /\ op'[i].kind = op[i].kind /\ (Active(i)' <=> Active(i))
    /\ op'[i].phase \in Early => op[i].phase \in Early
    /\ op'[i].phase \in {"load", "get"} => op[i].phase \in {"load", "get"} \/ op[i].owner = "tree"
    /\ op'[i].result = "ok" => op[i].result = "ok" /\ (op'[i].phase \in Late => op[i].phase \in Late)
    /\ op'[i].body = op[i].body \/ (op[i].phase = "get" /\ op'[i].body = disk.content \cup {Title})
    /\ op'[i].rev = op[i].rev \/ op[i].phase \in {"prepare", "load"}
    /\ op'[i].phase = "request" /\ op[i].kind = "title" =>
          \/ op[i].phase = "request" /\ op'[i].body = op[i].body /\ op'[i].rev = op[i].rev
          \/ op'[i].body = op'[i].rev \cup {Title}

\* An operation that stays as it is, but for what it withholds.
LEMMA SameGoesOn ==
    ASSUME TypeInv, NEW i \in Ids,
           op'[i] = op[i] \/ op'[i] = [op[i] EXCEPT !.withheld = TRUE]
    PROVE  GoesOn(i)
<1>1. op[i] \in Ops
  BY DEF TypeInv, OpsOK
<1>2. /\ op'[i].owner = op[i].owner /\ op'[i].kind = op[i].kind /\ op'[i].phase = op[i].phase
      /\ op'[i].result = op[i].result /\ op'[i].body = op[i].body /\ op'[i].rev = op[i].rev
  BY <1>1 DEF Ops
<1>3. QED
  BY <1>2 DEF GoesOn, Active

\* An operation that is given up in the middle.
LEMMA ErrorGoesOn ==
    ASSUME TypeInv, NEW i \in Ids, Active(i),
           op'[i] = [op[i] EXCEPT !.phase = "over", !.result = "error"]
    PROVE  GoesOn(i)
<1>1. op[i] \in Ops
  BY DEF TypeInv, OpsOK
<1>2. /\ op'[i].owner = op[i].owner /\ op'[i].kind = op[i].kind /\ op'[i].phase = "over"
      /\ op'[i].result = "error" /\ op'[i].body = op[i].body /\ op'[i].rev = op[i].rev
  BY <1>1 DEF Ops
<1>3. QED
  BY <1>2 DEF GoesOn, Active, Early

\* The coordinator has collected the answers of all windows.
LEMMA FinishGoesOn ==
    ASSUME TypeInv, PathInv, TextInv, NEW i \in Ids, pending[i].phase = "prepare", NEW p, Finish(i, p)
    PROVE  \A j \in Ids : GoesOn(j)
<1>1. op[i] \in Ops /\ op[i].phase = "prepare"
  BY DEF TypeInv, OpsOK, PathInv, Pairs
<1>2. CASE UNCHANGED op
  BY <1>2, SameGoesOn
<1>3. CASE op' = [op EXCEPT ![i].phase = "over", ![i].result = "error"]
  <2>1. op'[i] = [op[i] EXCEPT !.phase = "over", !.result = "error"] /\ \A j \in Ids : j # i => op'[j] = op[j]
    BY <1>1, <1>3 DEF TypeInv, OpsOK, Ops
  <2>2. QED
    BY <1>1, <2>1, SameGoesOn, ErrorGoesOn DEF Active
<1>4. ASSUME NEW r, op' = [op EXCEPT ![i].phase = IF op[i].owner # "tree" THEN "request"
                                                  ELSE IF ~p.matches THEN "load"
                                                  ELSE IF op[i].kind = "title" THEN "get"
                                                  ELSE "request",
                                     ![i].rev = r]
      PROVE \A j \in Ids : GoesOn(j)
  <2>1. \A j \in Ids : j # i => op'[j] = op[j]
    BY <1>4 DEF TypeInv, OpsOK
  <2>2. /\ op'[i].owner = op[i].owner /\ op'[i].kind = op[i].kind /\ op'[i].body = op[i].body
        /\ op'[i].result = op[i].result
        /\ op'[i].phase \in {"request", "load", "get"}
        /\ op'[i].phase \in {"load", "get"} => op[i].owner = "tree"
        /\ op'[i].phase = "request" => op[i].owner # "tree" \/ op[i].kind # "title"
    BY <1>1, <1>4 DEF TypeInv, OpsOK, Ops
  <2>3. op[i].kind = "title" => op[i].owner = "tree"
    BY <1>1 DEF TextInv, Owners, Active, TypeInv, OpsOK, Ops
  <2>4. op'[i].rev = op[i].rev \/ op[i].phase \in {"prepare", "load"}
    BY <1>1
  <2>5. GoesOn(i)
    BY <1>1, <2>2, <2>3, <2>4 DEF GoesOn, Active, Early, Late
  <2>6. QED
    BY <2>1, <2>5, SameGoesOn
<1>5. QED
  BY <1>2, <1>3, <1>4 DEF Finish

\* One more answer.
LEMMA AnsweredGoesOn ==
    ASSUME TypeInv, PathInv, TextInv, NEW i \in Ids, NEW w, NEW ok, NEW revs, NEW matches,
           Answered(i, w, ok, revs, matches)
    PROVE  \A j \in Ids : GoesOn(j)
<1>1. CASE UNCHANGED op
  BY <1>1, SameGoesOn
<1>2. ASSUME pending[i].phase = "prepare", NEW p, Finish(i, p) PROVE \A j \in Ids : GoesOn(j)
  BY <1>2, FinishGoesOn
<1>3. QED
  BY <1>1, <1>2 DEF Answered

\* All that is under way is given up.
LEMMA UpsetGoesOn == ASSUME TypeInv, PathInv, Upset PROVE \A j \in Ids : GoesOn(j)
<1> SUFFICES ASSUME NEW j \in Ids PROVE GoesOn(j)
  OBVIOUS
<1>1. CASE pending[j].phase = "none"
  BY <1>1, SameGoesOn DEF Upset
<1>2. CASE pending[j].phase # "none"
  <2>1. Active(j)
    BY <1>2 DEF PathInv, Pairs, Active
  <2>2. op'[j] = [op[j] EXCEPT !.phase = "over", !.result = "error"]
    BY <1>2 DEF Upset
  <2>3. QED
    BY <2>1, <2>2, ErrorGoesOn
<1>3. QED
  BY <1>1, <1>2

\* One operation is given up.
LEMMA TimeoutGoesOn == ASSUME TypeInv, PathInv, NEW i \in Ids, Timeout(i) PROVE \A j \in Ids : GoesOn(j)
<1>1. Active(i)
  BY DEF Timeout, PathInv, Pairs, Active
<1>2. op' = [op EXCEPT ![i] = [op[i] EXCEPT !.phase = "over", !.result = "error"]]
  BY DEF Timeout, GivenUp, TypeInv, OpsOK, Ops
<1>3. op'[i] = [op[i] EXCEPT !.phase = "over", !.result = "error"] /\ \A j \in Ids : j # i => op'[j] = op[j]
  BY <1>2 DEF TypeInv, OpsOK
<1>4. QED
  BY <1>1, <1>3, SameGoesOn, ErrorGoesOn

\* The answer of the kernel is handled: commit or abort.
LEMMA AnswerGoesOn == ASSUME TypeInv, NEW i \in Ids, Answer(i) PROVE \A j \in Ids : GoesOn(j)
<1>1. op[i] \in Ops /\ op[i].phase = "answer" /\ \A j \in Ids : j # i => op'[j] = op[j]
  BY DEF Answer, TypeInv, OpsOK
<1>2. /\ op'[i].owner = op[i].owner /\ op'[i].kind = op[i].kind /\ op'[i].body = op[i].body
      /\ op'[i].rev = op[i].rev /\ op'[i].phase \in {"commit", "over"}
      /\ op'[i].result \in {op[i].result, "error"}
  BY <1>1 DEF Answer, TypeInv, OpsOK, Ops
<1>3. GoesOn(i)
  BY <1>1, <1>2 DEF GoesOn, Active, Early, Late
<1>4. QED
  BY <1>1, <1>3, SameGoesOn

\* A window commits, the last one perhaps.
LEMMA CommitGoesOn ==
    ASSUME TypeInv, PathInv, NEW i \in Ids, NEW w \in Windows, CommitAt(i, w)
    PROVE  \A j \in Ids : GoesOn(j)
<1>1. CASE UNCHANGED op
  BY <1>1, SameGoesOn
<1>2. CASE pending[i].phase = "commit" /\ op' = [op EXCEPT ![i].phase = "over"]
  <2>1. op[i] \in Ops /\ op[i].phase = "commit" /\ \A j \in Ids : j # i => op'[j] = op[j]
    BY <1>2 DEF TypeInv, OpsOK, PathInv, Pairs
  <2>2. /\ op'[i].owner = op[i].owner /\ op'[i].kind = op[i].kind /\ op'[i].body = op[i].body
        /\ op'[i].rev = op[i].rev /\ op'[i].phase = "over" /\ op'[i].result = op[i].result
    BY <1>2, <2>1 DEF TypeInv, OpsOK, Ops
  <2>3. GoesOn(i)
    BY <2>1, <2>2 DEF GoesOn, Active, Early, Late
  <2>4. QED
    BY <2>1, <2>3, SameGoesOn
<1>3. QED
  BY <1>1, <1>2 DEF CommitAt

\* The revision is read from the kernel.
LEMMA LoadGoesOn ==
    ASSUME TypeInv, TextInv, NEW i \in Ids, LoadRevision(i) PROVE \A j \in Ids : GoesOn(j)
<1>1. op[i] \in Ops /\ op[i].phase = "load" /\ \A j \in Ids : j # i => op'[j] = op[j]
  BY DEF LoadRevision, TypeInv, OpsOK
<1>2. /\ op'[i].owner = op[i].owner /\ op'[i].kind = op[i].kind /\ op'[i].body = op[i].body
      /\ op'[i].phase \in {"get", "request", "over"}
      /\ op'[i].result \in {op[i].result, "error"}
      /\ op'[i].phase = "over" => op'[i].result = "error"
      /\ op[i].kind = "title" => op'[i].phase # "request"
  BY <1>1 DEF LoadRevision, TypeInv, OpsOK, Ops
<1>3. op[i].owner = "tree"
  BY <1>1, OwnersAssumption DEF TextInv, Owners, Active
<1>4. GoesOn(i)
  BY <1>1, <1>2, <1>3 DEF GoesOn, Active, Early, Late
<1>5. QED
  BY <1>1, <1>4, SameGoesOn

\* The text to put the title in is read.
LEMMA GetGoesOn == ASSUME TypeInv, NEW i \in Ids, GetContent(i) PROVE \A j \in Ids : GoesOn(j)
<1>1. op[i] \in Ops /\ op[i].phase = "get" /\ \A j \in Ids : j # i => op'[j] = op[j]
  BY DEF GetContent, TypeInv, OpsOK
<1>2. CASE /\ Verdict(i) = "ok"
           /\ op' = [op EXCEPT ![i].phase = "request", ![i].body = disk.content \cup {Title}]
  <2>1. /\ op'[i].owner = op[i].owner /\ op'[i].kind = op[i].kind
        /\ op'[i].body = disk.content \cup {Title}
        /\ op'[i].rev = op[i].rev /\ op'[i].phase = "request" /\ op'[i].result = op[i].result
    BY <1>1, <1>2 DEF TypeInv, OpsOK, Ops
  <2>2. disk.content = op[i].rev
    BY <1>2 DEF Verdict
  <2>3. GoesOn(i)
    BY <1>1, <2>1, <2>2 DEF GoesOn, Active, Early, Late
  <2>4. QED
    BY <1>1, <2>3, SameGoesOn
<1>3. CASE op' = [op EXCEPT ![i].phase = "over", ![i].result = "error"]
  <2>1. op'[i] = [op[i] EXCEPT !.phase = "over", !.result = "error"]
    BY <1>1, <1>3 DEF TypeInv, OpsOK, Ops
  <2>2. QED
    BY <1>1, <2>1, SameGoesOn, ErrorGoesOn DEF Active
<1>4. QED
  BY <1>2, <1>3 DEF GetContent

\* An event may be withheld.
LEMMA EventGoesOn ==
    ASSUME TypeInv, PathInv, NEW w \in Windows, EventAt(w) PROVE \A j \in Ids : GoesOn(j)
<1>1. CASE UNCHANGED op
  BY <1>1, SameGoesOn
<1>2. ASSUME NEW i, op' = [op EXCEPT ![i].withheld = TRUE] PROVE \A j \in Ids : GoesOn(j)
  <2>1. \A j \in Ids : op'[j] = op[j] \/ op'[j] = [op[j] EXCEPT !.withheld = TRUE]
    BY <1>2 DEF TypeInv, OpsOK
  <2>2. QED
    BY <2>1, SameGoesOn
<1>3. QED
  BY <1>1, <1>2 DEF EventAt
-----------------------------------------------------------------------------
(* What a step does to the editors.                                        *)

\* An editor that is told to save, closed or moved, but whose text stays as it was.
Undisturbed(e) ==
    /\ ed'[e].view = ed[e].view /\ ed'[e].rev = ed[e].rev
    /\ ed'[e].dirty = ed[e].dirty /\ ed'[e].last = ed[e].last
    /\ ed'[e].open => ed[e].open
    /\ ed[e].dirty /\ (ed[e].open \/ ed[e].flushing) => ed'[e].open \/ ed'[e].flushing

\* What leaves the text of an editor as it is.
LEMMA UndisturbedForms ==
    ASSUME TypeInv, NEW e \in Editors,
           ed'[e] \in {ed[e], Flushed(ed[e]), Closed(ed[e]), [ed[e] EXCEPT !.path = "new"],
                       [ed[e] EXCEPT !.dialog = FALSE]}
    PROVE  Undisturbed(e)
<1>1. PICK r \in Eds : r = ed[e]
  BY DEF TypeInv, EdsOK
<1> DEFINE Calm(s) == /\ s.view = r.view /\ s.rev = r.rev /\ s.dirty = r.dirty /\ s.last = r.last
                      /\ s.open => r.open
                      /\ r.dirty /\ (r.open \/ r.flushing) => s.open \/ s.flushing
<1>2. Calm(r)
  OBVIOUS
<1>3. Calm(Flushed(r))
  <2>1. PICK f : f = (r.flushing \/ r.dirty)
    OBVIOUS
  <2>2. Flushed(r) = [r EXCEPT !.timer = FALSE, !.flushing = f]
    BY <2>1 DEF Flushed, Eds
  <2>3. /\ Flushed(r).view = r.view /\ Flushed(r).rev = r.rev /\ Flushed(r).dirty = r.dirty
        /\ Flushed(r).last = r.last /\ Flushed(r).open = r.open /\ Flushed(r).flushing = f
    BY <2>2 DEF Eds
  <2>4. QED
    BY <2>1, <2>3
<1>4. Calm(Closed(r))
  <2>1. PICK f : f = (r.flushing \/ r.dirty)
    OBVIOUS
  <2>2. Closed(r) = [r EXCEPT !.open = FALSE, !.timer = FALSE, !.dialog = FALSE, !.flushing = f]
    BY <2>1 DEF Closed, Eds
  <2>3. /\ Closed(r).view = r.view /\ Closed(r).rev = r.rev /\ Closed(r).dirty = r.dirty
        /\ Closed(r).last = r.last /\ Closed(r).open = FALSE /\ Closed(r).flushing = f
    BY <2>2 DEF Eds
  <2>4. QED
    BY <2>1, <2>3
<1>5. Calm([r EXCEPT !.path = "new"]) /\ Calm([r EXCEPT !.dialog = FALSE])
  BY DEF Eds
<1> HIDE DEF Calm
<1>6. Calm(ed'[e])
  BY <1>1, <1>2, <1>3, <1>4, <1>5
<1>7. QED
  BY <1>1, <1>6 DEF Calm, Undisturbed

\* An event of a move or a removal.
LEMMA FollowedUndisturbed ==
    ASSUME TypeInv, NEW w \in Windows, NEW event, ed' = ed \/ ed' = Followed(w, event)
    PROVE  \A e \in Editors : Undisturbed(e)
<1> SUFFICES ASSUME NEW e \in Editors PROVE Undisturbed(e)
  OBVIOUS
<1>1. CASE ed' = ed
  BY <1>1, UndisturbedForms
<1>2. CASE ed' = Followed(w, event)
  <2>1. ed'[e] \in {ed[e], Closed(ed[e]), [ed[e] EXCEPT !.path = "new"]}
    BY <1>2 DEF Followed
  <2>2. QED
    BY <2>1, UndisturbedForms
<1>3. QED
  BY <1>1, <1>2

\* A window asked to prepare flushes.
LEMMA PrepareUndisturbed ==
    ASSUME TypeInv, NEW i \in Ids, NEW w \in Windows, PrepareAt(i, w)
    PROVE  \A e \in Editors : Undisturbed(e)
<1>1. \A e \in Editors : ed'[e] \in {ed[e], Flushed(ed[e])}
  BY DEF PrepareAt
<1>2. QED
  BY <1>1, UndisturbedForms

\* The timer, the dialog dismissed, the tab closed.
LEMMA EditingUndisturbed ==
    ASSUME TypeInv, NEW f \in Editors, TimerFires(f) \/ Dismiss(f) \/ CloseTab(f)
    PROVE  \A e \in Editors : Undisturbed(e)
<1> SUFFICES ASSUME NEW e \in Editors PROVE Undisturbed(e)
  OBVIOUS
<1>1. CASE e # f
  <2>1. ed'[e] = ed[e]
    BY <1>1 DEF TypeInv, EdsOK, TimerFires, Dismiss, CloseTab
  <2>2. QED
    BY <2>1, UndisturbedForms
<1>2. CASE e = f
  <2>1. ed'[e] \in {Flushed(ed[e]), Closed(ed[e]), [ed[e] EXCEPT !.dialog = FALSE]}
    BY <1>2 DEF TypeInv, EdsOK, TimerFires, Dismiss, CloseTab
  <2>2. QED
    BY <2>1, UndisturbedForms
<1>3. QED
  BY <1>1, <1>2

\* A commit disturbs the text of an editor only when it is that of a rename or of a move.
LEMMA CommitUndisturbed ==
    ASSUME TypeInv, NEW i \in Ids, NEW w \in Windows, CommitAt(i, w), NEW e \in Editors,
           e \notin At(w, op[i].from) \/ op[i].kind \notin {"rename", "move"}
    PROVE  Undisturbed(e)
<1>1. CASE e \notin At(w, op[i].from)
  <2>1. ed'[e] = ed[e]
    BY <1>1 DEF CommitAt
  <2>2. QED
    BY <2>1, UndisturbedForms
<1>2. CASE e \in At(w, op[i].from) /\ op[i].kind \notin {"rename", "move"}
  <2>1. ed'[e] = CASE op[i].kind = "rename" -> [Renamed(ed[e]) EXCEPT !.rev = op[i].rev]
                   [] op[i].kind = "move"   -> [ed[e] EXCEPT !.path = "new", !.rev = op[i].rev]
                   [] op[i].kind = "remove" -> Closed(ed[e])
                   [] OTHER -> ed[e]
    BY <1>2 DEF CommitAt
  <2>2. ed'[e] \in {ed[e], Closed(ed[e])}
    BY <1>2, <2>1
  <2>3. QED
    BY <2>2, UndisturbedForms
<1>3. QED
  BY <1>1, <1>2

\* What a rename or a move does to the editors it is committed to.
LEMMA CommittedTexts ==
    ASSUME TypeInv, NEW i \in Ids, NEW w \in Windows, CommitAt(i, w), NEW e \in Editors,
           e \in At(w, op[i].from)
    PROVE  /\ op[i].kind = "rename" =>
                  /\ ed'[e].view = ed[e].view \cup {Title} /\ ed'[e].rev = op[i].rev
                  /\ ~ed'[e].dirty /\ ed'[e].last = "saved" /\ ed'[e].open = ed[e].open
           /\ op[i].kind = "move" =>
                  /\ ed'[e].view = ed[e].view /\ ed'[e].rev = op[i].rev /\ ed'[e].dirty = ed[e].dirty
                  /\ ed'[e].last = ed[e].last /\ ed'[e].open = ed[e].open
                  /\ ed'[e].flushing = ed[e].flushing
<1>1. PICK r \in Eds : r = ed[e]
  BY DEF TypeInv, EdsOK
<1>2. PICK v : v = op[i].rev
  OBVIOUS
<1>3. ed'[e] = CASE op[i].kind = "rename" -> [Renamed(r) EXCEPT !.rev = v]
                 [] op[i].kind = "move"   -> [r EXCEPT !.path = "new", !.rev = v]
                 [] op[i].kind = "remove" -> Closed(r)
                 [] OTHER -> r
  BY <1>1, <1>2 DEF CommitAt
<1>4. CASE op[i].kind = "rename"
  <2>1. ed'[e] = [Renamed(r) EXCEPT !.rev = v]
    BY <1>3, <1>4
  <2>2. QED
    BY <1>1, <1>2, <1>4, <2>1 DEF Renamed, Eds
<1>5. CASE op[i].kind = "move"
  <2>1. ed'[e] = [r EXCEPT !.path = "new", !.rev = v]
    BY <1>3, <1>5
  <2>2. QED
    BY <1>1, <1>2, <1>5, <2>1 DEF Eds
<1>6. QED
  BY <1>4, <1>5

\* The end of a save, for the editor that saved and for the others.
LEMMA SavedTexts ==
    ASSUME TypeInv, NEW i \in Ids, SaveEnds(i), NEW e \in Editors, e = op[i].owner
    PROVE  /\ \A f \in Editors : f # e => ed'[f] = ed[f]
           /\ ed'[e].view = ed[e].view /\ ed'[e].open = ed[e].open
           /\ \/ WindowOf[e] \notin alive /\ ed'[e] = ed[e]
              \/ /\ op[i].result = "ok" /\ ed'[e].rev = op[i].body /\ ed'[e].last = "saved"
                 /\ ed'[e].dirty = (ed[e].view # op[i].body)
                 /\ ed'[e].flushing = (ed[e].view # op[i].body)
              \/ /\ op[i].result # "ok" /\ ed'[e].rev = ed[e].rev /\ ed'[e].dirty = ed[e].dirty
<1>1. PICK r \in Eds : r = ed[e]
  BY DEF TypeInv, EdsOK
<1>2. CASE ed' = ed /\ WindowOf[e] \notin alive
  BY <1>2
<1>3. CASE op[i].result = "ok" /\ SaveSucceeds(i)
  <2>1. PICK d, b : d = (ed[e].view # op[i].body) /\ b = op[i].body
    OBVIOUS
  <2>2. ed' = [ed EXCEPT ![e] = [r EXCEPT !.rev = b, !.dirty = d, !.last = "saved", !.flushing = d]]
    BY <1>1, <1>3, <2>1 DEF SaveSucceeds, TypeInv, EdsOK, Eds
  <2>3. /\ ed'[e] = [r EXCEPT !.rev = b, !.dirty = d, !.last = "saved", !.flushing = d]
        /\ \A f \in Editors : f # e => ed'[f] = ed[f]
    BY <2>2 DEF TypeInv, EdsOK
  <2>4. /\ ed'[e].view = r.view /\ ed'[e].open = r.open /\ ed'[e].rev = b /\ ed'[e].last = "saved"
        /\ ed'[e].dirty = d /\ ed'[e].flushing = d
    BY <2>3 DEF Eds
  <2>5. QED
    BY <1>1, <1>3, <2>1, <2>3, <2>4
<1>4. CASE op[i].result # "ok" /\ SaveFails(i)
  <2>1. PICK d, b : d = (r.dialog \/ (op[i].result = "conflict" /\ Open(e))) /\ b = op[i].result
    OBVIOUS
  <2>2. ed' = [ed EXCEPT ![e] = [r EXCEPT !.last = b, !.flushing = FALSE, !.dialog = d]]
    BY <1>1, <1>4, <2>1 DEF SaveFails, TypeInv, EdsOK, Eds
  <2>3. /\ ed'[e] = [r EXCEPT !.last = b, !.flushing = FALSE, !.dialog = d]
        /\ \A f \in Editors : f # e => ed'[f] = ed[f]
    BY <2>2 DEF TypeInv, EdsOK
  <2>4. /\ ed'[e].view = r.view /\ ed'[e].open = r.open /\ ed'[e].rev = r.rev
        /\ ed'[e].dirty = r.dirty
    BY <2>3 DEF Eds
  <2>5. QED
    BY <1>1, <1>4, <2>1, <2>3, <2>4
<1>5. QED
  BY <1>2, <1>3, <1>4 DEF SaveEnds

\* What typing does to the texts.
LEMMA TypedTexts ==
    ASSUME TypeInv, NEW e \in Editors, NEW x \in Edits, Type(e, x)
    PROVE  /\ \A f \in Editors : f # e => ed'[f] = ed[f]
           /\ ed'[e].view = ed[e].view \cup {x} /\ ed'[e].rev = ed[e].rev
           /\ ed'[e].dirty /\ ed'[e].open = ed[e].open /\ ed[e].open
BY DEF Type, Open, TypeInv, EdsOK, Eds

\* What a refresh does to them.
LEMMA RefreshedTexts ==
    ASSUME TypeInv, NEW e \in Editors, Refresh(e)
    PROVE  /\ \A f \in Editors : f # e => ed'[f] = ed[f]
           /\ ed'[e].view = disk.content /\ ed'[e].rev = disk.content
           /\ ed'[e].open = ed[e].open /\ ~Saving(e)
BY DEF Refresh, Open, TypeInv, EdsOK, Eds

\* A reload that is applied gives an editor with nothing to save the text it read.
LEMMA ReloadedTexts ==
    ASSUME TypeInv, NEW e \in Editors, ApplyReload(e)
    PROVE  /\ \A f \in Editors : f # e => ed'[f] = ed[f]
           /\ ed'[e].open = ed[e].open /\ ed'[e].dirty = ed[e].dirty
           /\ ed'[e].flushing = ed[e].flushing
           /\ \/ ed'[e].view = ed[e].view /\ ed'[e].rev = ed[e].rev /\ (ed[e].dirty \/ ed'[e] = ed[e])
              \/ /\ ~ed[e].dirty /\ ~Saving(e) /\ ed'[e].last = "saved"
                 /\ ed'[e].view = reload[e].got /\ ed'[e].rev = reload[e].got
<1>1. ed[e] \in Eds /\ \A f \in Editors : f # e => ed'[f] = ed[f]
  BY DEF ApplyReload, TypeInv, EdsOK
<1>2. \/ ed' = ed
      \/ ed[e].dirty /\ ed' = [ed EXCEPT ![e].last = "conflict"]
      \/ /\ ~ed[e].dirty /\ ~Saving(e)
         /\ ed' = [ed EXCEPT ![e].view = reload[e].got, ![e].rev = reload[e].got, ![e].last = "saved"]
  BY DEF ApplyReload
<1>3. QED
  BY <1>1, <1>2 DEF TypeInv, EdsOK, Eds

\* What a crash does to them.
LEMMA CrashedTexts ==
    ASSUME TypeInv, NEW w \in Windows, Crash(w), NEW e \in Editors
    PROVE  /\ ed'[e].view = ed[e].view /\ ed'[e].rev = ed[e].rev /\ ed'[e].dirty = ed[e].dirty
           /\ ed'[e].last = ed[e].last /\ (ed'[e].open => ed[e].open)
<1>1. ed[e] \in Eds
  BY DEF TypeInv, EdsOK
<1>2. ed'[e] \in {ed[e], [ed[e] EXCEPT !.open = FALSE, !.timer = FALSE, !.dialog = FALSE, !.flushing = FALSE]}
  BY DEF Crash
<1>3. QED
  BY <1>1, <1>2 DEF Eds
-----------------------------------------------------------------------------
(* What a step keeps of the saves under way.                               *)

Held(e, x) == /\ x \in ed[e].view /\ ed[e].dirty
              /\ Open(e) \/ ed[e].flushing
              /\ ~SavedBy(e, x)
Carried(x) == \E i \in Ids : /\ op[i].owner \in Editors /\ x \in op[i].body
                             /\ op[i].phase # "none" /\ op[i].result # "ok"

\* No save ends, and none is answered by the kernel.
Retains ==
    /\ \A e \in Editors : Saving(e) => Saving(e)'
    /\ \A e \in Editors : \A x : SavedBy(e, x)' => SavedBy(e, x)
    /\ \A x : Carried(x) => Carried(x)'

\* Operations that go on.
LEMMA GoesOnRetains == ASSUME TextInv, \A i \in Ids : GoesOn(i) PROVE Retains
<1>1. \A i \in Ids : op[i].phase = "get" => op[i].owner \notin Editors
  BY OwnersAssumption DEF TextInv, Owners, Active
<1>2. \A e \in Editors : Saving(e) => Saving(e)'
  BY DEF Saving, GoesOn, Active
<1>3. ASSUME NEW e \in Editors, NEW x, SavedBy(e, x)' PROVE SavedBy(e, x)
  <2>1. PICK i \in Ids : /\ op'[i].owner = e /\ x \in op'[i].body
                         /\ op'[i].phase \in {"answer", "commit", "over"} /\ op'[i].result = "ok"
    BY <1>3 DEF SavedBy
  <2>2. /\ op[i].owner = e /\ x \in op[i].body
        /\ op[i].phase \in {"answer", "commit", "over"} /\ op[i].result = "ok"
    BY <1>1, <2>1 DEF GoesOn, Late
  <2>3. QED
    BY <2>2 DEF SavedBy
<1>4. ASSUME NEW x, Carried(x) PROVE Carried(x)'
  <2>1. PICK i \in Ids : /\ op[i].owner \in Editors /\ x \in op[i].body
                         /\ op[i].phase # "none" /\ op[i].result # "ok"
    BY <1>4 DEF Carried
  <2>2. /\ op'[i].owner \in Editors /\ x \in op'[i].body
        /\ op'[i].phase # "none" /\ op'[i].result # "ok"
    BY <1>1, <2>1 DEF GoesOn, Active
  <2>3. QED
    BY <2>2 DEF Carried
<1>5. QED
  BY <1>2, <1>3, <1>4 DEF Retains

\* An operation begins under a free number.
LEMMA AskingBegins ==
    ASSUME TypeInv, NEW i \in FreeIds, NEW r, Asking(i, r)
    PROVE  /\ i \in Ids /\ op[i].phase = "none" /\ i \notin leases
           /\ guest[i] = [w \in Windows |-> Away]
           /\ op'[i] = r /\ \A j \in Ids : j # i => op'[j] = op[j]
BY DEF FreeIds, Asking, TypeInv, OpsOK

\* An operation that begins.
LEMMA BeginsRetains ==
    ASSUME NEW i \in Ids, op[i].phase = "none", op'[i].phase \in {"prepare", "request"},
           \A j \in Ids : j # i => op'[j] = op[j]
    PROVE  Retains
<1>1. \A e \in Editors : Saving(e) => Saving(e)'
  BY DEF Saving
<1>2. \A e \in Editors : \A x : SavedBy(e, x)' => SavedBy(e, x)
  <2> SUFFICES ASSUME NEW e \in Editors, NEW x, SavedBy(e, x)' PROVE SavedBy(e, x)
    OBVIOUS
  <2>1. PICK j \in Ids : /\ op'[j].owner = e /\ x \in op'[j].body
                         /\ op'[j].phase \in {"answer", "commit", "over"} /\ op'[j].result = "ok"
    BY DEF SavedBy
  <2>2. j # i
    BY <2>1
  <2>3. QED
    BY <2>1, <2>2 DEF SavedBy
<1>3. \A x : Carried(x) => Carried(x)'
  BY DEF Carried
<1>4. QED
  BY <1>1, <1>2, <1>3 DEF Retains

\* An operation of the file tree's that ends.
LEMMA TreeEndRetains ==
    ASSUME TypeInv, NEW i \in Ids, TreeEnds(i)
    PROVE  Retains
<1>1. op'[i].phase = "none" /\ op[i].owner \notin Editors /\ \A j \in Ids : j # i => op'[j] = op[j]
  BY SpentFacts, OwnersAssumption DEF TreeEnds
<1>2. \A e \in Editors : Saving(e) => Saving(e)'
  BY <1>1 DEF Saving
<1>3. \A e \in Editors : \A x : SavedBy(e, x)' => SavedBy(e, x)
  <2> SUFFICES ASSUME NEW e \in Editors, NEW x, SavedBy(e, x)' PROVE SavedBy(e, x)
    OBVIOUS
  <2>1. PICK j \in Ids : /\ op'[j].owner = e /\ x \in op'[j].body
                         /\ op'[j].phase \in {"answer", "commit", "over"} /\ op'[j].result = "ok"
    BY DEF SavedBy
  <2>2. j # i
    BY <1>1, <2>1
  <2>3. QED
    BY <1>1, <2>1, <2>2 DEF SavedBy
<1>4. \A x : Carried(x) => Carried(x)'
  BY <1>1 DEF Carried
<1>5. QED
  BY <1>2, <1>3, <1>4 DEF Retains

\* What the kernel answers is an operation's only change.
LEMMA RequestFacts ==
    ASSUME TypeInv, NEW i \in Ids, Request(i) \/ RequestLost(i)
    PROVE  /\ op[i].phase = "request" /\ op'[i].phase = "answer"
           /\ op'[i].owner = op[i].owner /\ op'[i].kind = op[i].kind
           /\ op'[i].body = op[i].body /\ op'[i].rev = op[i].rev
           /\ op'[i].result \in {"ok", "conflict", "error"}
           /\ \A j \in Ids : j # i => op'[j] = op[j]
           /\ op'[i].result = "ok" => Verdict(i) = "ok" /\ Perform(i)
           /\ disk' = disk \/ (Verdict(i) = "ok" /\ Perform(i))
<1>1. op[i] \in Ops /\ op[i].phase = "request"
  BY DEF TypeInv, OpsOK, Request, RequestLost
<1>2. PICK v \in {"ok", "conflict", "error"} : /\ op' = [op EXCEPT ![i].phase = "answer", ![i].result = v]
                                               /\ v = "ok" => Verdict(i) = "ok" /\ Perform(i)
  BY DEF Request, RequestLost, Verdict
<1>3. op'[i] = [op[i] EXCEPT !.phase = "answer", !.result = v] /\ \A j \in Ids : j # i => op'[j] = op[j]
  BY <1>1, <1>2 DEF TypeInv, OpsOK, Ops
<1>4. disk' = disk \/ (Verdict(i) = "ok" /\ Perform(i))
  BY DEF Request, RequestLost
<1>5. /\ op'[i].phase = "answer" /\ op'[i].owner = op[i].owner /\ op'[i].kind = op[i].kind
      /\ op'[i].body = op[i].body /\ op'[i].rev = op[i].rev /\ op'[i].result = v
  BY <1>1, <1>3 DEF Ops
<1>6. QED
  BY <1>1, <1>2, <1>3, <1>4, <1>5

\* Who saved, saves on while the kernel answers.
LEMMA RequestSaving ==
    ASSUME TypeInv, NEW i \in Ids, Request(i) \/ RequestLost(i)
    PROVE  \A e \in Editors : Saving(e) => Saving(e)'
BY RequestFacts DEF Saving

\* The steps that only let operations begin or go on, or the file tree's end, and those
\* that disturb no editor.
QuietOps ==
    \/ \E e \in Editors : SaveOnce(e)
    \/ \E i \in Ids : Timeout(i) \/ Answer(i) \/ LoadRevision(i) \/ GetContent(i) \/ TreeEnds(i)
    \/ \E i \in Ids, w \in Windows : PrepareAt(i, w) \/ PreparedAt(i, w) \/ CommitAt(i, w)
    \/ \E w \in Windows : EventAt(w) \/ Crash(w)
    \/ OtherWindow \/ TreeStarts
    \/ UNCHANGED op

\* These steps retain what is being saved.
LEMMA QuietRetains == ASSUME TypeInv, PathInv, TextInv, QuietOps PROVE Retains
<1>1. ASSUME NEW e \in Editors, SaveOnce(e) PROVE Retains
  <2>1. PICK nested : nested = PrepareActive(WindowOf[e])
    OBVIOUS
  <2>2. PICK r : r = [Free EXCEPT !.owner = e, !.nested = nested, !.from = ed[e].path,
                              !.phase = IF nested THEN "request" ELSE "prepare",
                              !.rev = ed[e].rev, !.body = ed[e].view]
    OBVIOUS
  <2>3. Asking(Min(FreeIds), r) /\ Min(FreeIds) \in FreeIds
    BY <1>1, <2>1, <2>2, MinFree DEF SaveOnce
  <2>4. r.phase \in {"prepare", "request"}
    BY <2>2 DEF Free
  <2>5. QED
    BY <2>3, <2>4, AskingBegins, BeginsRetains
<1>2. CASE TreeStarts
  <2>1. PICK r : Asking(Min(FreeIds), r) /\ r.phase = "prepare"
    <3>1. PICK job \in NextJobs :
            Asking(Min(FreeIds),
                   [Free EXCEPT !.owner = "tree", !.kind = job, !.phase = "prepare",
                                !.from = IF job = "remove" THEN disk.path ELSE "old",
                                !.body = IF job = "restore" THEN original ELSE {}])
      BY <1>2 DEF TreeStarts
    <3>2. PICK r : r = [Free EXCEPT !.owner = "tree", !.kind = job, !.phase = "prepare",
                                !.from = IF job = "remove" THEN disk.path ELSE "old",
                                !.body = IF job = "restore" THEN original ELSE {}]
      OBVIOUS
    <3>3. r.phase = "prepare"
      BY <3>2 DEF Free
    <3>4. QED
      BY <3>1, <3>2, <3>3
  <2>2. Min(FreeIds) \in FreeIds
    BY <1>2, MinFree DEF TreeStarts
  <2>3. QED
    BY <2>1, <2>2, AskingBegins, BeginsRetains
<1>3. ASSUME NEW i \in Ids, TreeEnds(i) PROVE Retains
  BY <1>3, TreeEndRetains
<1>4. ASSUME NEW i \in Ids, Timeout(i) \/ Answer(i) \/ LoadRevision(i) \/ GetContent(i) PROVE Retains
  BY <1>4, TimeoutGoesOn, AnswerGoesOn, LoadGoesOn, GetGoesOn, GoesOnRetains
<1>5. ASSUME NEW i \in Ids, NEW w \in Windows, PrepareAt(i, w) PROVE Retains
  <2>1. Answered(i, w, TRUE, {}, FALSE) \/ UNCHANGED op
    BY <1>5 DEF PrepareAt
  <2>2. QED
    BY <2>1, AnsweredGoesOn, SameGoesOn, GoesOnRetains
<1>6. ASSUME NEW i \in Ids, NEW w \in Windows, PreparedAt(i, w) PROVE Retains
  <2>1. PICK ok, revs : Answered(i, w, ok, revs, TRUE)
    BY <1>6 DEF PreparedAt
  <2>2. QED
    BY <2>1, AnsweredGoesOn, GoesOnRetains
<1>7. ASSUME NEW i \in Ids, NEW w \in Windows, CommitAt(i, w) PROVE Retains
  BY <1>7, CommitGoesOn, GoesOnRetains
<1>8. ASSUME NEW w \in Windows, EventAt(w) \/ Crash(w) PROVE Retains
  BY <1>8, EventGoesOn, UpsetGoesOn, GoesOnRetains DEF Crash
<1>9. CASE OtherWindow
  BY <1>9, UpsetGoesOn, GoesOnRetains DEF OtherWindow
<1>10. CASE UNCHANGED op
  BY <1>10, SameGoesOn, GoesOnRetains
<1>11. QED
  BY <1>1, <1>2, <1>3, <1>4, <1>5, <1>6, <1>7, <1>8, <1>9, <1>10 DEF QuietOps
-----------------------------------------------------------------------------
(* Nothing is left behind that would refuse later changes.                 *)

\* Who is not disturbed does not begin to refuse.
LEMMA CalmNoRefusal ==
    ASSUME NEW e \in Editors, Saving(e) => Saving(e)', Undisturbed(e)
    PROVE  ~RefusesAnew(e)
BY DEF RefusesAnew, CleanYetRefusing, Open, Undisturbed

\* Who is saved, has something to save, or is closed does not refuse.
LEMMA SavedNoRefusal ==
    ASSUME NEW e \in Editors, ed'[e].last = "saved" \/ ed'[e].dirty \/ ~ed'[e].open
    PROVE  ~RefusesAnew(e)
BY DEF RefusesAnew, CleanYetRefusing, Open

\* The steps that disturb no editor.
QuietEds ==
    \/ \E e \in Editors : TimerFires(e) \/ Dismiss(e) \/ CloseTab(e)
    \/ \E i \in Ids : TreeEnds(i)
    \/ \E i \in Ids, w \in Windows : PrepareAt(i, w)
    \/ \E w \in Windows : EventAt(w)
    \/ UNCHANGED ed

\* These steps disturb no editor.
LEMMA QuietUndisturbed == ASSUME TypeInv, QuietEds PROVE \A e \in Editors : Undisturbed(e)
<1>1. ASSUME NEW i \in Ids, TreeEnds(i) PROVE \A e \in Editors : Undisturbed(e)
  <2>1. TreeWindow \in Windows
    BY WindowAssumption
  <2>2. PICK event : ed' = ed \/ ed' = Followed(TreeWindow, event)
    BY <1>1 DEF TreeEnds
  <2>3. QED
    BY <2>1, <2>2, FollowedUndisturbed
<1>2. ASSUME NEW w \in Windows, EventAt(w) PROVE \A e \in Editors : Undisturbed(e)
  <2>1. PICK event : ed' = ed \/ ed' = Followed(w, event)
    BY <1>2 DEF EventAt
  <2>2. QED
    BY <2>1, FollowedUndisturbed
<1>3. CASE UNCHANGED ed
  BY <1>3, UndisturbedForms
<1>4. QED
  BY <1>1, <1>2, <1>3, EditingUndisturbed, PrepareUndisturbed DEF QuietEds

\* Every step is of one of these kinds.
LEMMA StepKinds ==
    ASSUME [Next]_vars
    PROVE  \/ QuietOps /\ QuietEds /\ UNCHANGED <<disk, typed>>
           \/ \E e \in Editors, x \in Edits : Type(e, x)
           \/ \E e \in Editors : Refresh(e) \/ ApplyReload(e)
           \/ \E i \in Ids : SaveEnds(i) \/ Request(i) \/ RequestLost(i)
           \/ \E i \in Ids, w \in Windows : CommitAt(i, w)
           \/ \E w \in Windows : Crash(w)
<1> DEFINE Quiet0 == QuietOps /\ QuietEds /\ UNCHANGED <<disk, typed>>
<1>1. ASSUME NEW f \in Editors, CloseTab(f) \/ TimerFires(f) \/ Dismiss(f) PROVE Quiet0
  BY <1>1 DEF QuietOps, QuietEds, CloseTab, TimerFires, Dismiss, budget
<1>2. CASE OtherWindow \/ TreeStarts
  BY <1>2 DEF QuietOps, QuietEds, OtherWindow, TreeStarts, budget
<1>3. ASSUME NEW f \in Editors, SaveOnce(f) PROVE Quiet0
  BY <1>3 DEF QuietOps, QuietEds, SaveOnce, budget
<1>4. ASSUME NEW i \in Ids, Timeout(i) \/ Answer(i) \/ LoadRevision(i) \/ GetContent(i) PROVE Quiet0
  BY <1>4 DEF QuietOps, QuietEds, Timeout, Answer, LoadRevision, GetContent, budget
<1>5. ASSUME NEW i \in Ids, TreeEnds(i) PROVE Quiet0
  BY <1>5 DEF QuietOps, QuietEds, TreeEnds, budget
<1>6. ASSUME NEW i \in Ids, NEW w \in Windows, PrepareAt(i, w) PROVE Quiet0
  BY <1>6 DEF QuietOps, QuietEds, PrepareAt, budget
<1>7. ASSUME NEW i \in Ids, NEW w \in Windows, PreparedAt(i, w) PROVE Quiet0
  BY <1>7 DEF QuietOps, QuietEds, PreparedAt, budget
<1>8. ASSUME NEW w \in Windows, EventAt(w) PROVE Quiet0
  BY <1>8 DEF QuietOps, QuietEds, EventAt, budget
<1>9. CASE UNCHANGED vars
  BY <1>9 DEF vars, QuietOps, QuietEds, budget
<1> HIDE DEF Quiet0
<1>10. QED
  <2>1. CASE External
    BY <1>1, <1>2, <2>1 DEF External, Quiet0
  <2>2. CASE Progress
    BY <1>1, <1>3, <1>4, <1>5, <1>6, <1>7, <1>8, <2>2 DEF Progress, Quiet0
  <2>3. QED
    BY <1>9, <2>1, <2>2 DEF Next, Quiet0

\* An editor with nothing to save begins to refuse only by a refresh or by a save that
\* fails in vain.
LEMMA RefusesOnly ==
    ASSUME TypeInv, PathInv, TextInv, [Next]_vars, NEW e \in Editors, RefusesAnew(e)
    PROVE  Refresh(e) \/ SaveInVain
<1>1. ~(Undisturbed(e) /\ (Saving(e) => Saving(e)'))
  BY CalmNoRefusal
<1>2. ~(QuietOps /\ QuietEds)
  BY <1>1, QuietRetains, QuietUndisturbed DEF Retains
<1>3. ASSUME NEW f \in Editors, NEW x \in Edits, Type(f, x) PROVE FALSE
  <2>1. UNCHANGED op
    BY <1>3 DEF Type
  <2>2. Saving(e) => Saving(e)'
    BY <2>1, QuietRetains DEF QuietOps, Retains
  <2>3. CASE e = f
    BY <1>3, <2>3, TypedTexts, SavedNoRefusal
  <2>4. CASE e # f
    BY <1>1, <1>3, <2>2, <2>4, TypedTexts, UndisturbedForms
  <2>5. QED
    BY <2>3, <2>4
<1>4. ASSUME NEW f \in Editors, Refresh(f) PROVE Refresh(e)
  <2>1. UNCHANGED op
    BY <1>4 DEF Refresh
  <2>2. Saving(e) => Saving(e)'
    BY <2>1, QuietRetains DEF QuietOps, Retains
  <2>3. CASE e # f
    BY <1>1, <1>4, <2>2, <2>3, RefreshedTexts, UndisturbedForms
  <2>4. QED
    BY <1>4, <2>3
<1>5. ASSUME NEW f \in Editors, ApplyReload(f) PROVE FALSE
  <2>1. UNCHANGED op
    BY <1>5 DEF ApplyReload
  <2>2. Saving(e) => Saving(e)'
    BY <2>1, QuietRetains DEF QuietOps, Retains
  <2>3. CASE e # f
    BY <1>1, <1>5, <2>2, <2>3, ReloadedTexts, UndisturbedForms
  <2>4. CASE e = f
    <3>1. ed'[e] = ed[e] \/ ed'[e].dirty \/ ed'[e].last = "saved"
      BY <1>5, <2>4, ReloadedTexts
    <3>2. QED
      BY <1>1, <2>2, <3>1, SavedNoRefusal, UndisturbedForms
  <2>5. QED
    BY <2>3, <2>4
<1>6. ASSUME NEW i \in Ids, SaveEnds(i) PROVE SaveInVain
  <2>1. op[i].owner \in Editors
    BY <1>6 DEF SaveEnds
  <2>2. CASE e # op[i].owner
    <3>1. \A j \in Ids : j # i => op'[j] = op[j]
      BY <1>6, SpentFacts DEF SaveEnds
    <3>2. Saving(e) => Saving(e)'
      BY <2>2, <3>1 DEF Saving
    <3>3. ed'[e] = ed[e]
      BY <1>6, <2>1, <2>2, SavedTexts
    <3>4. QED
      BY <1>1, <3>2, <3>3, UndisturbedForms
  <2>3. CASE e = op[i].owner
    <3>1. Open(e) /\ ~ed'[e].dirty /\ ed'[e].last # "saved"
      BY <1>6, <2>1, <2>3, SavedTexts DEF RefusesAnew, CleanYetRefusing, Open
    <3>2. WindowOf[e] \in alive
      BY <3>1 DEF PathInv, OpenAlive
    <3>3. op[i].result # "ok" /\ ~ed[e].dirty
      BY <1>6, <2>3, <3>1, <3>2, SavedTexts
    <3>4. QED
      BY <1>6, <2>1, <2>3, <3>3 DEF SaveInVain
  <2>4. QED
    BY <2>2, <2>3
<1>7. ASSUME NEW i \in Ids, NEW w \in Windows, CommitAt(i, w) PROVE FALSE
  <2>1. Saving(e) => Saving(e)'
    BY <1>7, QuietRetains DEF QuietOps, Retains
  <2>2. e \in At(w, op[i].from) /\ op[i].kind \in {"rename", "move"}
    BY <1>1, <1>7, <2>1, CommitUndisturbed
  <2>3. QED
    BY <1>7, <2>1, <2>2, CommittedTexts DEF RefusesAnew, CleanYetRefusing, Open
<1>8. ASSUME NEW w \in Windows, Crash(w) PROVE FALSE
  <2>1. Saving(e) => Saving(e)'
    BY <1>8, QuietRetains DEF QuietOps, Retains
  <2>2. QED
    BY <1>8, <2>1, CrashedTexts DEF RefusesAnew, CleanYetRefusing, Open
<1>9. ASSUME NEW i \in Ids, Request(i) \/ RequestLost(i) PROVE FALSE
  <2>1. UNCHANGED ed
    BY <1>9 DEF Request, RequestLost
  <2>2. QED
    BY <1>1, <1>9, <2>1, RequestSaving, QuietUndisturbed DEF QuietEds
<1>10. QED
  BY <1>2, <1>3, <1>4, <1>5, <1>6, <1>7, <1>8, <1>9, StepKinds

\* A lease that is left over was granted for an operation that is not at work.
AtWork == {"load", "get", "request", "answer"}

\* No lease is left over when none is granted and no operation stops working.
LEMMA NoLeak ==
    ASSUME leases' \subseteq leases,
           \A j \in Ids : op[j].phase \in AtWork /\ j \in leases' => op'[j].phase \in AtWork
    PROVE  TypeInv => Leaked' \subseteq Leaked
BY DEF Leaked, AtWork, TypeInv, RestOK

\* The coordinator grants a lease to an operation that goes to work at once.
LEMMA AnsweredNoLeak ==
    ASSUME TypeInv, PathInv, NEW i \in Ids, NEW w, NEW ok, NEW revs, NEW matches,
           Answered(i, w, ok, revs, matches)
    PROVE  Leaked' \subseteq Leaked
<1>1. CASE UNCHANGED <<leases, op>>
  BY <1>1, NoLeak
<1>2. ASSUME pending[i].phase = "prepare", NEW p, Finish(i, p) PROVE Leaked' \subseteq Leaked
  <2>1. op[i] \in Ops /\ op[i].phase = "prepare" /\ i \notin leases
    BY <1>2 DEF TypeInv, OpsOK, PathInv, Pairs
  <2>2. CASE UNCHANGED <<leases, op>>
    BY <2>2, NoLeak
  <2>3. CASE op' = [op EXCEPT ![i].phase = "over", ![i].result = "error"] /\ UNCHANGED leases
    <3>1. \A j \in Ids : j # i => op'[j] = op[j]
      BY <2>3 DEF TypeInv, OpsOK
    <3>2. QED
      BY <2>1, <2>3, <3>1, NoLeak
  <2>4. ASSUME NEW r, leases' = leases \cup {i},
               op' = [op EXCEPT ![i].phase = IF op[i].owner # "tree" THEN "request"
                                                  ELSE IF ~p.matches THEN "load"
                                                  ELSE IF op[i].kind = "title" THEN "get"
                                                  ELSE "request",
                                     ![i].rev = r]
        PROVE Leaked' \subseteq Leaked
    <3>1. /\ \A j \in Ids : j # i => op'[j] = op[j]
          /\ op'[i].phase \in {"request", "load", "get"}
      BY <2>1, <2>4 DEF TypeInv, OpsOK, Ops
    <3>2. QED
      BY <2>4, <3>1 DEF Leaked, TypeInv, RestOK
  <2>5. QED
    BY <1>2, <2>2, <2>3, <2>4 DEF Finish
<1>3. QED
  BY <1>1, <1>2 DEF Answered

\* A lease outlives its operation only when loadRevision finds nothing.
LEMMA LeaksOnly ==
    ASSUME TypeInv, PathInv, [Next]_vars, NEW i \in Leaked', i \notin Leaked
    PROVE  LoadRevision(i)
<1>1. ~UNCHANGED <<leases, op>>
  BY NoLeak
<1>2. ASSUME NEW e \in Editors, SaveOnce(e) PROVE FALSE
  <2>1. PICK r : Asking(Min(FreeIds), r) /\ Min(FreeIds) \in FreeIds
    BY <1>2, MinFree DEF SaveOnce
  <2>2. PICK j \in FreeIds : j = Min(FreeIds)
    BY <2>1
  <2>3. UNCHANGED leases
    BY <1>2 DEF SaveOnce
  <2>4. QED
    BY <2>1, <2>2, <2>3, AskingBegins, NoLeak
<1>3. CASE TreeStarts
  <2>1. PICK r : Asking(Min(FreeIds), r) /\ Min(FreeIds) \in FreeIds
    BY <1>3, MinFree DEF TreeStarts
  <2>2. PICK j \in FreeIds : j = Min(FreeIds)
    BY <2>1
  <2>3. UNCHANGED leases
    BY <1>3 DEF TreeStarts
  <2>4. QED
    BY <2>1, <2>2, <2>3, AskingBegins, NoLeak
<1>4. ASSUME NEW j \in Ids, SaveEnds(j) \/ TreeEnds(j) PROVE FALSE
  <2>1. op[j].phase = "over" /\ \A k \in Ids : k # j => op'[k] = op[k]
    BY <1>4, SpentFacts DEF SaveEnds, TreeEnds
  <2>2. UNCHANGED leases
    BY <1>4 DEF SaveEnds, TreeEnds, coordinator
  <2>3. QED
    BY <2>1, <2>2, NoLeak DEF AtWork
<1>5. ASSUME NEW j \in Ids, Timeout(j) PROVE FALSE
  <2>1. j \notin leases /\ \A k \in Ids : k # j => op'[k] = op[k]
    BY <1>5 DEF Timeout, GivenUp, PathInv, Pairs, TypeInv, OpsOK
  <2>2. UNCHANGED leases
    BY <1>5 DEF Timeout
  <2>3. QED
    BY <2>1, <2>2, NoLeak
<1>6. ASSUME NEW j \in Ids, Answer(j) \/ GetContent(j) PROVE FALSE
  <2>1. \A k \in Ids : k # j => op'[k] = op[k]
    BY <1>6 DEF Answer, GetContent, TypeInv, OpsOK
  <2>2. leases' \subseteq leases /\ (j \in leases' => op'[j].phase = "request")
    BY <1>6 DEF Answer, GetContent, TypeInv, OpsOK, Ops
  <2>3. QED
    BY <2>1, <2>2, NoLeak DEF AtWork
<1>7. ASSUME NEW j \in Ids, LoadRevision(j) PROVE LoadRevision(i)
  <2>1. op' = [op EXCEPT ![j] = op'[j]] /\ leases' = leases
    BY <1>7 DEF LoadRevision, coordinator, TypeInv, OpsOK
  <2>2. \A k \in Ids : k # j => op'[k] = op[k]
    BY <2>1 DEF TypeInv, OpsOK
  <2>3. i = j
    BY <2>1, <2>2 DEF Leaked, TypeInv, RestOK
  <2>4. QED
    BY <1>7, <2>3
<1>8. ASSUME NEW j \in Ids, Request(j) \/ RequestLost(j) PROVE FALSE
  <2>1. UNCHANGED leases
    BY <1>8 DEF Request, RequestLost, coordinator
  <2>2. QED
    BY <1>8, <2>1, RequestFacts, NoLeak DEF AtWork
<1>9. ASSUME NEW j \in Ids, NEW w \in Windows, PrepareAt(j, w) PROVE FALSE
  <2>1. Answered(j, w, TRUE, {}, FALSE) \/ UNCHANGED <<leases, op>>
    BY <1>9 DEF PrepareAt
  <2>2. QED
    BY <1>1, <2>1, AnsweredNoLeak, NoLeak
<1>10. ASSUME NEW j \in Ids, NEW w \in Windows, PreparedAt(j, w) PROVE FALSE
  <2>1. PICK ok, revs : Answered(j, w, ok, revs, TRUE)
    BY <1>10 DEF PreparedAt
  <2>2. QED
    BY <2>1, AnsweredNoLeak
<1>11. ASSUME NEW j \in Ids, NEW w \in Windows, CommitAt(j, w) PROVE FALSE
  <2>1. UNCHANGED leases
    BY <1>11 DEF CommitAt
  <2>2. op' = op \/ (pending[j].phase = "commit" /\ op' = [op EXCEPT ![j].phase = "over"])
    BY <1>11 DEF CommitAt
  <2>3. CASE op' = op
    BY <2>1, <2>3, NoLeak
  <2>4. CASE pending[j].phase = "commit" /\ op' = [op EXCEPT ![j].phase = "over"]
    <3>1. j \notin leases /\ \A k \in Ids : k # j => op'[k] = op[k]
      BY <2>4 DEF PathInv, Pairs, TypeInv, OpsOK
    <3>2. QED
      BY <2>1, <3>1, NoLeak
  <2>5. QED
    BY <2>2, <2>3, <2>4
<1>12. CASE Upset
  BY <1>12 DEF Upset, Leaked
<1>13. ASSUME NEW w \in Windows, EventAt(w) PROVE FALSE
  <2>1. UNCHANGED leases /\ \A k \in Ids : op'[k].phase = op[k].phase
    BY <1>13 DEF EventAt, coordinator, TypeInv, OpsOK, Ops
  <2>2. QED
    BY <2>1, NoLeak
<1>14. ASSUME NEW e \in Editors,
              \/ \E x \in Edits : Type(e, x)
              \/ TimerFires(e) \/ Refresh(e) \/ Dismiss(e) \/ CloseTab(e) \/ ApplyReload(e)
       PROVE  FALSE
  BY <1>1, <1>14 DEF Type, TimerFires, Refresh, Dismiss, CloseTab, ApplyReload, coordinator
<1>15. ~UNCHANGED vars
  BY <1>1 DEF vars, coordinator
<1>16. CASE External
  BY <1>3, <1>8, <1>12, <1>14, <1>16 DEF External, OtherWindow, Crash
<1>17. CASE Progress
  BY <1>2, <1>4, <1>5, <1>6, <1>7, <1>8, <1>9, <1>10, <1>11, <1>13, <1>14, <1>17 DEF Progress
<1>18. QED
  BY <1>15, <1>16, <1>17 DEF Next
-----------------------------------------------------------------------------
(* TextInv is an invariant.                                                *)

\* Operations that go on, texts made of edits that were made, and no editor that saves shows less.
LEMMA TextGoes ==
    ASSUME TextInv, \A i \in Ids : GoesOn(i), typed \subseteq typed',
           disk'.content \subseteq Typed', original' \subseteq Typed',
           \A e \in Editors : /\ ed'[e].view \subseteq Typed' /\ reload'[e].got \subseteq Typed'
                              /\ Saving(e) => ed[e].view \subseteq ed'[e].view
    PROVE  TextInv'
<1> USE DEF TextInv
<1>1. Typed \subseteq Typed'
  BY DEF Typed
<1>2. \A i \in Ids : op[i].phase = "get" => op[i].owner \notin Editors
  BY OwnersAssumption DEF Owners, Active
<1>3. AllTyped'
  <2>1. \A i \in Ids : op'[i].body \subseteq Typed'
    <3> SUFFICES ASSUME NEW i \in Ids PROVE op'[i].body \subseteq Typed'
      OBVIOUS
    <3>1. op[i].body \subseteq Typed' /\ disk.content \cup {Title} \subseteq Typed'
      BY <1>1 DEF AllTyped, Typed
    <3>2. QED
      BY <3>1 DEF GoesOn
  <2>2. QED
    BY <2>1 DEF AllTyped
<1>4. Owners'
  BY OwnersAssumption DEF Owners, GoesOn, Active
<1>5. OneEach'
  BY DEF OneEach, GoesOn
<1>6. BodyShown'
  <2> SUFFICES ASSUME NEW i \in Ids, Active(i)', op'[i].owner \in Editors
               PROVE  op'[i].body \subseteq ed'[op'[i].owner].view
    BY DEF BodyShown
  <2>1. Active(i) /\ op[i].owner = op'[i].owner /\ op'[i].body = op[i].body
    BY <1>2 DEF GoesOn
  <2>2. Saving(op[i].owner)
    BY <2>1 DEF Saving, Active
  <2>3. QED
    BY <2>1, <2>2 DEF BodyShown
<1>7. TitleAdded'
  BY DEF TitleAdded, GoesOn
<1>8. QED
  BY <1>3, <1>4, <1>5, <1>6, <1>7

\* The same for a step that changes no text.
LEMMA TextQuiet ==
    ASSUME TypeInv, TextInv, \A i \in Ids : GoesOn(i), UNCHANGED <<typed, disk, original>>,
           \A e \in Editors : /\ ed'[e].view = ed[e].view
                              /\ reload'[e].got \in {reload[e].got, {}, disk.content}
    PROVE  TextInv'
<1>1. Typed' = Typed
  BY DEF Typed
<1>2. \A e \in Editors : ed'[e].view \subseteq Typed' /\ reload'[e].got \subseteq Typed'
  BY <1>1 DEF TextInv, AllTyped
<1>3. QED
  BY <1>1, <1>2, TextGoes DEF TextInv, AllTyped

\* Editing, flushing and reloading keep TextInv.
LEMMA TextEditing ==
    ASSUME TypeInv, TextInv, NEW e \in Editors,
           \/ \E x \in Edits : Type(e, x)
           \/ TimerFires(e) \/ Refresh(e) \/ Dismiss(e) \/ CloseTab(e) \/ ApplyReload(e)
    PROVE TextInv'
<1>1. UNCHANGED <<op, disk, original>> /\ \A i \in Ids : GoesOn(i)
  BY SameGoesOn DEF Type, TimerFires, Refresh, Dismiss, CloseTab, ApplyReload, tree
<1>2. ASSUME NEW x \in Edits, Type(e, x) PROVE TextInv'
  <2>1. /\ ed'[e].view = ed[e].view \cup {x} /\ \A f \in Editors : f # e => ed'[f] = ed[f]
        /\ typed' = typed \cup {x} /\ reload' = reload
    BY <1>2, TypedTexts DEF Type
  <2>2. Typed' = Typed \cup {x}
    BY <2>1 DEF Typed
  <2>3. \A f \in Editors : /\ ed'[f].view \subseteq Typed' /\ reload'[f].got \subseteq Typed'
                           /\ ed[f].view \subseteq ed'[f].view
    BY <2>1, <2>2 DEF TextInv, AllTyped
  <2>4. disk'.content \subseteq Typed' /\ original' \subseteq Typed'
    BY <1>1, <2>2 DEF TextInv, AllTyped
  <2>5. QED
    BY <1>1, <2>1, <2>3, <2>4, TextGoes
<1>3. CASE TimerFires(e) \/ Dismiss(e) \/ CloseTab(e)
  <2>1. UNCHANGED <<typed, reload>> /\ \A f \in Editors : ed'[f].view = ed[f].view
    BY <1>3, EditingUndisturbed DEF Undisturbed, TimerFires, Dismiss, CloseTab, budget
  <2>2. QED
    BY <1>1, <2>1, TextQuiet
<1>4. CASE Refresh(e)
  <2>1. /\ UNCHANGED <<typed, reload>> /\ ~Saving(e)
        /\ ed'[e].view = disk.content /\ \A f \in Editors : f # e => ed'[f] = ed[f]
    BY <1>4, RefreshedTexts DEF Refresh, budget
  <2>2. Typed' = Typed
    BY <2>1 DEF Typed
  <2>3. \A f \in Editors : /\ ed'[f].view \subseteq Typed' /\ reload'[f].got \subseteq Typed'
                           /\ Saving(f) => ed[f].view \subseteq ed'[f].view
    BY <2>1, <2>2 DEF TextInv, AllTyped
  <2>4. QED
    BY <1>1, <2>1, <2>2, <2>3, TextGoes DEF TextInv, AllTyped
<1>5. CASE ApplyReload(e)
  <2>1. /\ typed' = typed
        /\ \A f \in Editors : reload'[f].got \in {reload[f].got, {}}
        /\ \A f \in Editors : \/ ed'[f].view = ed[f].view
                              \/ f = e /\ ~Saving(e) /\ ed'[f].view = reload[f].got
    BY <1>5, ReloadedTexts DEF ApplyReload, budget, Nothing, TypeInv, RestOK
  <2>2. Typed' = Typed
    BY <2>1 DEF Typed
  <2>3. \A f \in Editors : /\ ed'[f].view \subseteq Typed' /\ reload'[f].got \subseteq Typed'
                           /\ Saving(f) => ed[f].view \subseteq ed'[f].view
    BY <2>1, <2>2 DEF TextInv, AllTyped
  <2>4. QED
    BY <1>1, <2>1, <2>2, <2>3, TextGoes DEF TextInv, AllTyped
<1>6. QED
  BY <1>2, <1>3, <1>4, <1>5

\* An operation that begins: the text an editor shows, or what the file tree has to store.
LEMMA TextBegins ==
    ASSUME TextInv, NEW i \in Ids, op[i].phase = "none",
           \A j \in Ids : j # i => op'[j] = op[j],
           op'[i].phase \in {"prepare", "request"}, op'[i].kind = "save" <=> op'[i].owner \in Editors,
           op'[i].phase = "request" => op'[i].kind = "save",
           \A j \in Ids : Active(j) => op[j].owner # op'[i].owner,
           op'[i].body \subseteq Typed,
           op'[i].owner \in Editors => op'[i].body \subseteq ed[op'[i].owner].view,
           UNCHANGED <<ed, disk, original, reload, typed>>
    PROVE  TextInv'
<1> USE DEF TextInv
<1>1. Typed' = Typed
  BY DEF Typed
<1>2. AllTyped' /\ Owners'
  BY <1>1 DEF AllTyped, Owners, Active
<1>3. OneEach' /\ BodyShown' /\ TitleAdded'
  BY DEF OneEach, BodyShown, TitleAdded, Active
<1>4. QED
  BY <1>2, <1>3

\* SaveOnce keeps TextInv.
LEMMA TextSaveOnce == ASSUME TypeInv, TextInv, NEW e \in Editors, SaveOnce(e) PROVE TextInv'
<1>1. PICK nested : nested = PrepareActive(WindowOf[e])
  OBVIOUS
<1>2. PICK p, v, rv : p = ed[e].path /\ v = ed[e].view /\ rv = ed[e].rev
  OBVIOUS
<1>3. PICK r : r = [Free EXCEPT !.owner = e, !.nested = nested, !.from = p,
                            !.phase = IF nested THEN "request" ELSE "prepare",
                            !.rev = rv, !.body = v]
  OBVIOUS
<1>4. Asking(Min(FreeIds), r) /\ Min(FreeIds) \in FreeIds
  BY <1>1, <1>2, <1>3, MinFree DEF SaveOnce
<1>5. PICK i \in FreeIds : i = Min(FreeIds)
  BY <1>4
<1>6. r.phase \in {"prepare", "request"} /\ r.kind = "save" /\ r.owner = e /\ r.body = v
  BY <1>3 DEF Free
<1>7. i \in Ids /\ op[i].phase = "none" /\ op'[i] = r /\ \A j \in Ids : j # i => op'[j] = op[j]
  BY <1>4, <1>5, AskingBegins
<1>8. \A j \in Ids : Active(j) => op[j].owner # e
  BY DEF SaveOnce, Saving, Active
<1>9. v \subseteq Typed
  BY <1>2 DEF TextInv, AllTyped
<1>10. UNCHANGED <<ed, disk, original, reload, typed>>
  BY DEF SaveOnce, tree, budget
<1>11. QED
  BY <1>2, <1>6, <1>7, <1>8, <1>9, <1>10, TextBegins

\* TreeStarts keeps TextInv.
LEMMA TextTreeStarts == ASSUME TypeInv, TextInv, TreeStarts PROVE TextInv'
<1>1. PICK job \in NextJobs :
        Asking(Min(FreeIds),
               [Free EXCEPT !.owner = "tree", !.kind = job, !.phase = "prepare",
                            !.from = IF job = "remove" THEN disk.path ELSE "old",
                            !.body = IF job = "restore" THEN original ELSE {}])
  BY DEF TreeStarts
<1>2. job # "save"
  BY DEF NextJobs, TypeInv, RestOK
<1>3. PICK f, v : /\ f = (IF job = "remove" THEN disk.path ELSE "old")
                  /\ v = (IF job = "restore" THEN original ELSE {})
  OBVIOUS
<1>4. PICK r : r = [Free EXCEPT !.owner = "tree", !.kind = job, !.phase = "prepare", !.from = f, !.body = v]
  OBVIOUS
<1>5. Asking(Min(FreeIds), r) /\ Min(FreeIds) \in FreeIds
  BY <1>1, <1>3, <1>4, MinFree DEF TreeStarts
<1>6. PICK i \in FreeIds : i = Min(FreeIds)
  BY <1>5
<1>7. r.phase = "prepare" /\ r.kind # "save" /\ r.owner = "tree" /\ r.body = v
  BY <1>2, <1>4 DEF Free
<1>8. i \in Ids /\ op[i].phase = "none" /\ op'[i] = r /\ \A j \in Ids : j # i => op'[j] = op[j]
  BY <1>5, <1>6, AskingBegins
<1>9. \A j \in Ids : Active(j) => op[j].owner # "tree"
  BY DEF TreeStarts, TreeBusy, Active
<1>10. v \subseteq Typed
  BY <1>3 DEF TextInv, AllTyped
<1>11. UNCHANGED <<ed, disk, original, reload, typed>>
  BY DEF TreeStarts, budget
<1>12. QED
  BY <1>7, <1>8, <1>9, <1>10, <1>11, OwnersAssumption, TextBegins

\* An operation that ends leaves no text behind.
LEMMA TextEnds ==
    ASSUME TypeInv, TextInv, NEW i \in Ids, op' = [op EXCEPT ![i] = Spent(i)],
           UNCHANGED <<disk, original, reload, typed>>, \A e \in Editors : ed'[e].view = ed[e].view
    PROVE  TextInv'
<1> USE DEF TextInv
<1>1. op'[i].phase = "none" /\ \A j \in Ids : j # i => op'[j] = op[j]
  BY SpentFacts
<1>2. op'[i].body = {}
  <2>1. op[i] \in Ops
    BY DEF TypeInv, OpsOK
  <2>2. op'[i] = Spent(i)
    BY DEF TypeInv, OpsOK
  <2>3. PICK b, c : /\ b = (IF Told(i) THEN op[i].result ELSE "none")
                    /\ c = (IF \E w \in Windows : guest[i][w].at = "commit" THEN op[i].rev ELSE {})
    OBVIOUS
  <2>4. Spent(i) = Free \/ Spent(i) = [op[i] EXCEPT !.phase = "none", !.nested = FALSE, !.withheld = FALSE,
                                                    !.body = {}, !.result = b, !.rev = c]
    BY <2>1, <2>3 DEF Spent, Ops
  <2>5. PICK r \in Ops : r = op[i]
    BY <2>1
  <2>6. [r EXCEPT !.phase = "none", !.nested = FALSE, !.withheld = FALSE,
                  !.body = {}, !.result = b, !.rev = c].body = {}
    BY DEF Ops
  <2>7. Free.body = {}
    BY DEF Free
  <2>8. QED
    BY <2>2, <2>4, <2>5, <2>6, <2>7
<1>3. Typed' = Typed
  BY DEF Typed
<1>4. AllTyped' /\ Owners'
  BY <1>1, <1>2, <1>3 DEF AllTyped, Owners, Active
<1>5. OneEach' /\ BodyShown' /\ TitleAdded'
  BY <1>1 DEF OneEach, BodyShown, TitleAdded, Active
<1>6. QED
  BY <1>4, <1>5

\* What the kernel stores is the body of the operation.
LEMMA PerformFacts ==
    ASSUME TypeInv, NEW i \in Ids, Perform(i)
    PROVE  \/ op[i].kind \in Saves /\ disk'.content = op[i].body /\ disk'.path = disk.path
           \/ op[i].kind \notin Saves /\ disk'.content = disk.content /\ disk'.path = Target(op[i].kind)
BY DEF Perform, Target, TypeInv, RestOK, Disks

\* Request and RequestLost keep TextInv.
LEMMA TextRequest ==
    ASSUME TypeInv, TextInv, NEW i \in Ids, Request(i) \/ RequestLost(i) PROVE TextInv'
<1> USE DEF TextInv
<1>1. /\ op[i].phase = "request" /\ op'[i].phase = "answer"
      /\ op'[i].owner = op[i].owner /\ op'[i].kind = op[i].kind
      /\ op'[i].body = op[i].body /\ op'[i].rev = op[i].rev
      /\ \A j \in Ids : j # i => op'[j] = op[j]
      /\ disk' = disk \/ Perform(i)
  BY RequestFacts
<1>2. UNCHANGED <<ed, reload, original, typed>>
  BY DEF Request, RequestLost, tree, budget
<1>3. disk'.content \in {disk.content, op[i].body}
  BY <1>1, PerformFacts
<1>4. Typed' = Typed
  BY <1>2 DEF Typed
<1>5. AllTyped' /\ Owners'
  BY <1>1, <1>2, <1>3, <1>4 DEF AllTyped, Owners, Active
<1>6. OneEach' /\ BodyShown' /\ TitleAdded'
  BY <1>1, <1>2 DEF OneEach, BodyShown, TitleAdded, Active
<1>7. QED
  BY <1>5, <1>6

\* TextInv holds at first.
LEMMA TextInit == Init => TextInv
<1> SUFFICES ASSUME Init PROVE TextInv
  OBVIOUS
<1>1. \A i \in Ids : op[i].phase = "none" /\ op[i].body = {}
  BY DEF Init, Free
<1>2. \A e \in Editors : reload[e].got = {}
  BY DEF Init, Nothing
<1>3. AllTyped
  BY <1>1, <1>2 DEF Init, AllTyped
<1>4. QED
  BY <1>1, <1>3 DEF TextInv, Owners, OneEach, BodyShown, TitleAdded, Active

\* CommitAt keeps TextInv.
LEMMA TextCommitAt ==
    ASSUME TypeInv, PathInv, TextInv, NEW i \in Ids, NEW w \in Windows, CommitAt(i, w) PROVE TextInv'
<1>1. UNCHANGED <<disk, original, typed>>
  BY DEF CommitAt, tree, budget
<1>2. \A e \in Editors : ed'[e].view \in {ed[e].view, ed[e].view \cup {Title}}
  BY CommitUndisturbed, CommittedTexts DEF Undisturbed
<1>3. \A e \in Editors : reload'[e].got \in {reload[e].got, {}, disk.content}
  BY DEF CommitAt, Reloaded, Nothing
<1>4. Typed' = Typed
  BY <1>1 DEF Typed
<1>5. \A e \in Editors : /\ ed'[e].view \subseteq Typed' /\ reload'[e].got \subseteq Typed'
                         /\ ed[e].view \subseteq ed'[e].view
  BY <1>2, <1>3, <1>4 DEF TextInv, AllTyped, Typed
<1>6. QED
  BY <1>1, <1>4, <1>5, CommitGoesOn, TextGoes DEF TextInv, AllTyped

\* Every step keeps TextInv.
LEMMA TextNext == TypeInv /\ PathInv /\ TextInv /\ [Next]_vars => TextInv'
<1> SUFFICES ASSUME TypeInv, PathInv, TextInv, [Next]_vars PROVE TextInv'
  OBVIOUS
<1>1. ASSUME NEW i \in Ids, SaveEnds(i) PROVE TextInv'
  <2>1. \A e \in Editors : ed'[e].view = ed[e].view
    BY <1>1, SavedTexts DEF SaveEnds
  <2>2. QED
    BY <1>1, <2>1, TextEnds DEF SaveEnds, tree, budget
<1>2. ASSUME NEW i \in Ids, TreeEnds(i) PROVE TextInv'
  <2>1. \A e \in Editors : ed'[e].view = ed[e].view
    BY <1>2, QuietUndisturbed DEF QuietEds, Undisturbed
  <2>2. QED
    BY <1>2, <2>1, TextEnds DEF TreeEnds, budget
<1>3. ASSUME NEW i \in Ids, Timeout(i) \/ Answer(i) \/ LoadRevision(i) PROVE TextInv'
  <2>1. \A j \in Ids : GoesOn(j)
    BY <1>3, TimeoutGoesOn, AnswerGoesOn, LoadGoesOn
  <2>2. UNCHANGED <<typed, disk, original, ed, reload>>
    BY <1>3 DEF Timeout, Answer, LoadRevision, tree, budget
  <2>3. QED
    BY <2>1, <2>2, TextQuiet
<1>4. ASSUME NEW i \in Ids, GetContent(i) PROVE TextInv'
  <2>1. UNCHANGED <<typed, disk, ed, reload>> /\ original' \in {original, disk.content}
    BY <1>4 DEF GetContent, budget
  <2>2. Typed' = Typed
    BY <2>1 DEF Typed
  <2>3. QED
    BY <1>4, <2>1, <2>2, GetGoesOn, TextGoes DEF TextInv, AllTyped
<1>5. ASSUME NEW i \in Ids, NEW w \in Windows, PrepareAt(i, w) PROVE TextInv'
  <2>1. \A j \in Ids : GoesOn(j)
    <3>1. Answered(i, w, TRUE, {}, FALSE) \/ UNCHANGED op
      BY <1>5 DEF PrepareAt
    <3>2. QED
      BY <3>1, AnsweredGoesOn, SameGoesOn
  <2>2. \A e \in Editors : ed'[e].view = ed[e].view
    BY <1>5, PrepareUndisturbed DEF Undisturbed
  <2>3. UNCHANGED <<typed, disk, original, reload>>
    BY <1>5 DEF PrepareAt, tree, budget
  <2>4. QED
    BY <2>1, <2>2, <2>3, TextQuiet
<1>6. ASSUME NEW i \in Ids, NEW w \in Windows, PreparedAt(i, w) PROVE TextInv'
  <2>1. PICK ok, revs : Answered(i, w, ok, revs, TRUE)
    BY <1>6 DEF PreparedAt
  <2>2. UNCHANGED <<typed, disk, original, ed, reload>>
    BY <1>6 DEF PreparedAt, tree, budget
  <2>3. QED
    BY <2>1, <2>2, AnsweredGoesOn, TextQuiet
<1>7. ASSUME NEW w \in Windows, EventAt(w) PROVE TextInv'
  <2>1. \A e \in Editors : ed'[e].view = ed[e].view
    BY <1>7, QuietUndisturbed DEF QuietEds, Undisturbed
  <2>2. \A e \in Editors : reload'[e].got \in {reload[e].got, {}, disk.content}
    BY <1>7 DEF EventAt, Reloaded, Nothing
  <2>3. UNCHANGED <<typed, disk, original>>
    BY <1>7 DEF EventAt, tree, budget
  <2>4. QED
    BY <1>7, <2>1, <2>2, <2>3, EventGoesOn, TextQuiet
<1>8. ASSUME NEW w \in Windows, Crash(w) PROVE TextInv'
  <2>1. \A e \in Editors : ed'[e].view = ed[e].view
    BY <1>8, CrashedTexts
  <2>2. \A e \in Editors : reload'[e].got \in {reload[e].got, {}}
    BY <1>8 DEF Crash, Nothing
  <2>3. UNCHANGED <<typed, disk, original>>
    BY <1>8 DEF Crash
  <2>4. QED
    BY <1>8, <2>1, <2>2, <2>3, UpsetGoesOn, TextQuiet DEF Crash
<1>9. CASE OtherWindow
  BY <1>9, UpsetGoesOn, TextQuiet DEF OtherWindow, tree
<1>10. CASE UNCHANGED vars
  BY <1>10, SameGoesOn, TextQuiet DEF vars, tree, budget
<1>11. CASE External
  BY <1>8, <1>9, <1>11, TextEditing, TextRequest, TextTreeStarts DEF External
<1>12. CASE Progress
  BY <1>1, <1>2, <1>3, <1>4, <1>5, <1>6, <1>7, <1>12, TextEditing, TextSaveOnce, TextRequest,
     TextCommitAt DEF Progress
<1>13. QED
  BY <1>10, <1>11, <1>12 DEF Next
-----------------------------------------------------------------------------
(* No edit is lost but by the steps that EditsStay names.                  *)

\* An edit is kept by an editor or by a save.
LEMMA KeptForms == \A x : Kept(x) <=> (\E e \in Editors : Held(e, x)) \/ Carried(x)
BY DEF Kept, Held, Carried

\* An edit stays kept when no save ends and no editor gives it up.
LEMMA StaysKept ==
    ASSUME Retains, NEW x, Kept(x),
           \A e \in Editors : x \in ed[e].view /\ ed[e].dirty /\ (ed[e].open \/ ed[e].flushing) =>
               x \in ed'[e].view /\ ed'[e].dirty /\ (ed'[e].open \/ ed'[e].flushing)
    PROVE  Kept(x)'
<1>1. CASE Carried(x)
  BY <1>1, KeptForms DEF Retains, Kept, Held, Carried
<1>2. ASSUME NEW e \in Editors, Held(e, x) PROVE Kept(x)'
  <2>1. x \in ed'[e].view /\ ed'[e].dirty /\ (ed'[e].open \/ ed'[e].flushing)
    BY <1>2 DEF Held, Open
  <2>2. ~SavedBy(e, x)'
    BY <1>2 DEF Held, Retains
  <2>3. QED
    BY <2>1, <2>2 DEF Kept, Open
<1>3. QED
  BY <1>1, <1>2, KeptForms

\* The end of a save that is not in vain.
LEMMA SaveEndsKeeps ==
    ASSUME TypeInv, PathInv, TextInv, NEW i \in Ids, SaveEnds(i), ~SaveInVain, NEW x, Kept(x)
    PROVE  Kept(x)'
<1>1. op[i].owner \in Editors /\ op[i].phase = "over"
  BY DEF SaveEnds
<1>2. op'[i].phase = "none" /\ \A j \in Ids : j # i => op'[j] = op[j]
  BY SpentFacts DEF SaveEnds
<1>3. op[i].result # "ok" => Open(op[i].owner) /\ ed[op[i].owner].dirty
  BY <1>1 DEF SaveInVain
<1>4. \A e \in Editors : \A y : SavedBy(e, y)' => SavedBy(e, y)
  <2> SUFFICES ASSUME NEW e \in Editors, NEW y, SavedBy(e, y)' PROVE SavedBy(e, y)
    OBVIOUS
  <2>1. PICK j \in Ids : /\ op'[j].owner = e /\ y \in op'[j].body
                         /\ op'[j].phase \in {"answer", "commit", "over"} /\ op'[j].result = "ok"
    BY DEF SavedBy
  <2>2. j # i
    BY <1>2, <2>1
  <2>3. QED
    BY <1>2, <2>1, <2>2 DEF SavedBy
<1>5. ASSUME NEW e \in Editors, Held(e, x) PROVE Kept(x)'
  <2>1. CASE e # op[i].owner
    <3>1. ed'[e] = ed[e]
      BY <1>1, <2>1, SavedTexts
    <3>2. QED
      BY <1>4, <1>5, <3>1 DEF Held, Kept, Open
  <2>2. CASE e = op[i].owner
    <3>1. CASE op[i].result = "ok"
      <4>1. x \notin op[i].body
        BY <1>1, <1>5, <2>2, <3>1 DEF Held, SavedBy
      <4>2. x \in ed'[e].view /\ ed'[e].dirty /\ (ed'[e].open \/ ed'[e].flushing)
        BY <1>5, <2>2, <3>1, <4>1, SavedTexts DEF Held, Open
      <4>3. QED
        BY <1>4, <1>5, <4>2 DEF Held, Kept, Open
    <3>2. CASE op[i].result # "ok"
      <4>1. x \in ed'[e].view /\ ed'[e].dirty /\ ed'[e].open
        BY <1>3, <1>5, <2>2, <3>2, SavedTexts DEF Held, Open
      <4>2. QED
        BY <1>4, <1>5, <4>1 DEF Held, Kept, Open
    <3>3. QED
      BY <3>1, <3>2
  <2>3. QED
    BY <2>1, <2>2
<1>6. ASSUME NEW j \in Ids, op[j].owner \in Editors, x \in op[j].body, op[j].phase # "none", op[j].result # "ok"
      PROVE  Kept(x)'
  <2>1. CASE j # i
    BY <1>2, <1>6, <2>1 DEF Kept
  <2>2. CASE j = i
    <3>0. PICK e \in Editors : e = op[i].owner
      BY <1>1
    <3>1. x \in ed[e].view /\ Open(e) /\ ed[e].dirty
      BY <1>1, <1>3, <1>6, <2>2, <3>0 DEF TextInv, BodyShown, Active
    <3>2. x \in ed'[e].view /\ ed'[e].dirty /\ ed'[e].open
      BY <1>1, <1>6, <2>2, <3>0, <3>1, SavedTexts DEF Open
    <3>3. \A k \in Ids : op'[k].owner = e => op'[k].phase = "none"
      BY <1>1, <1>2, <3>0 DEF TextInv, OneEach, Active
    <3>4. ~SavedBy(e, x)'
      BY <3>3 DEF SavedBy
    <3>5. QED
      BY <3>2, <3>4 DEF Kept, Open
  <2>3. QED
    BY <2>1, <2>2
<1>7. QED
  BY <1>5, <1>6, KeptForms DEF Carried

\* What the kernel stores, it adds to what was stored: unless a restored text or a save
\* of a text that is not its revision's.
LEMMA StoredGrows ==
    ASSUME TypeInv, TextInv, NEW i \in Ids, Request(i) \/ RequestLost(i),
           ~RolledBack, ~OverwroteUnseen
    PROVE  disk.content \subseteq disk'.content /\ (disk.path = "gone" => disk'.path = "gone")
<1>1. op[i] \in Ops /\ disk.path \in Paths \cup {"gone"} /\ op[i].phase = "request"
  BY RequestFacts DEF TypeInv, OpsOK, RestOK, Disks
<1>2. CASE disk' = disk
  BY <1>2
<1>3. CASE Verdict(i) = "ok" /\ Perform(i)
  <2>1. disk.content = op[i].rev /\ disk.path = op[i].from /\ disk.path # "gone"
    BY <1>1, <1>3 DEF Verdict, Ops, Paths
  <2>2. CASE op[i].kind \notin Saves
    BY <1>3, <2>1, <2>2, PerformFacts
  <2>3. CASE op[i].kind \in Saves
    <3>1. op[i].kind # "restore"
      BY DEF RolledBack
    <3>2. op[i].rev \subseteq op[i].body
      <4>1. CASE op[i].kind = "save"
        <5>1. op[i].owner \in Editors
          BY <1>1, <4>1 DEF TextInv, Owners, Active
        <5>2. QED
          BY <5>1 DEF OverwroteUnseen
      <4>2. CASE op[i].kind = "title"
        BY <1>1, <4>2 DEF TextInv, TitleAdded
      <4>3. QED
        BY <2>3, <3>1, <4>1, <4>2 DEF Saves
    <3>3. QED
      BY <1>3, <2>1, <2>3, <3>2, PerformFacts
  <2>4. QED
    BY <2>2, <2>3
<1>4. QED
  BY <1>2, <1>3, RequestFacts

\* What the kernel did not store is kept as it was.
LEMMA RequestKeeps ==
    ASSUME TypeInv, TextInv, NEW i \in Ids, Request(i) \/ RequestLost(i), NEW x, Kept(x),
           x \notin disk'.content
    PROVE  Kept(x)'
<1>1. /\ op[i].phase = "request" /\ op'[i].phase = "answer"
      /\ op'[i].owner = op[i].owner /\ op'[i].body = op[i].body
      /\ \A j \in Ids : j # i => op'[j] = op[j]
      /\ op'[i].result = "ok" => Perform(i)
  BY RequestFacts
<1>2. op'[i].result = "ok" /\ op[i].owner \in Editors => x \notin op[i].body
  <2> SUFFICES ASSUME op'[i].result = "ok", op[i].owner \in Editors PROVE x \notin op[i].body
    OBVIOUS
  <2>1. op[i].kind = "save"
    BY <1>1 DEF TextInv, Owners, Active
  <2>2. disk'.content = op[i].body
    BY <1>1, <2>1, PerformFacts DEF Saves
  <2>3. QED
    BY <2>2
<1>3. ed' = ed
  BY DEF Request, RequestLost
<1>4. ASSUME NEW e \in Editors, Held(e, x) PROVE Kept(x)'
  <2>1. ~SavedBy(e, x)'
    <3> SUFFICES ASSUME NEW j \in Ids, op'[j].owner = e, x \in op'[j].body,
                        op'[j].phase \in {"answer", "commit", "over"}, op'[j].result = "ok"
                 PROVE  FALSE
      BY DEF SavedBy
    <3>1. j # i
      BY <1>1, <1>2
    <3>2. QED
      BY <1>1, <1>4, <3>1 DEF Held, SavedBy
  <2>2. QED
    BY <1>3, <1>4, <2>1 DEF Held, Kept, Open
<1>5. ASSUME NEW j \in Ids, op[j].owner \in Editors, x \in op[j].body, op[j].phase # "none", op[j].result # "ok"
      PROVE  Kept(x)'
  <2>1. /\ op'[j].owner \in Editors /\ x \in op'[j].body /\ op'[j].phase # "none"
        /\ op'[j].result # "ok"
    BY <1>1, <1>2, <1>5
  <2>2. QED
    BY <2>1 DEF Kept
<1>6. QED
  BY <1>4, <1>5, KeptForms DEF Carried

\* No edit is lost but by the steps that EditsStay names.
LEMMA NothingLost ==
    ASSUME TypeInv, PathInv, TextInv, [Next]_vars, ~RefreshChosen, ~Crashed, ~RenamedWhileTyping,
           ~RolledBack, ~SaveInVain, ~OverwroteUnseen
    PROVE  Lost' \subseteq Lost
<1> SUFFICES ASSUME NEW x, x \in typed', disk'.path # "gone", x \notin disk'.content, ~Kept(x)'
             PROVE  x \in typed /\ disk.path # "gone" /\ x \notin disk.content /\ ~Kept(x)
  BY DEF Lost
<1>1. CASE QuietOps /\ QuietEds /\ UNCHANGED <<disk, typed>>
  <2>1. Retains /\ \A e \in Editors : Undisturbed(e)
    BY <1>1, QuietRetains, QuietUndisturbed
  <2>2. Kept(x) => Kept(x)'
    BY <2>1, StaysKept DEF Undisturbed
  <2>3. QED
    BY <1>1, <2>2
<1>2. ASSUME NEW e \in Editors, NEW y \in Edits, Type(e, y)
      PROVE  x \in typed /\ disk.path # "gone" /\ x \notin disk.content /\ ~Kept(x)
  <2>1. UNCHANGED <<disk, op>> /\ typed' = typed \cup {y} /\ y \notin typed
    BY <1>2 DEF Type
  <2>2. Retains
    BY <2>1, QuietRetains DEF QuietOps
  <2>3. x \in typed
    <3> SUFFICES ASSUME x \notin typed PROVE FALSE
      OBVIOUS
    <3>1. x = y /\ x # Title
      BY <2>1, OwnersAssumption
    <3>2. \A i \in Ids : x \notin op'[i].body
      BY <2>1, <3>1 DEF TextInv, AllTyped, Typed
    <3>3. ~SavedBy(e, x)'
      BY <3>2 DEF SavedBy
    <3>4. QED
      BY <1>2, <3>1, <3>3, TypedTexts DEF Kept, Open
  <2>4. Kept(x) => Kept(x)'
    <3>1. \A f \in Editors : x \in ed[f].view /\ ed[f].dirty /\ (ed[f].open \/ ed[f].flushing) =>
              x \in ed'[f].view /\ ed'[f].dirty /\ (ed'[f].open \/ ed'[f].flushing)
      BY <1>2, TypedTexts
    <3>2. QED
      BY <2>2, <3>1, StaysKept
  <2>5. QED
    BY <2>1, <2>3, <2>4
<1>3. ASSUME NEW e \in Editors, ApplyReload(e)
      PROVE  x \in typed /\ disk.path # "gone" /\ x \notin disk.content /\ ~Kept(x)
  <2>1. UNCHANGED <<disk, op, typed>>
    BY <1>3 DEF ApplyReload, budget
  <2>2. Retains
    BY <2>1, QuietRetains DEF QuietOps
  <2>3. \A f \in Editors : x \in ed[f].view /\ ed[f].dirty /\ (ed[f].open \/ ed[f].flushing) =>
              x \in ed'[f].view /\ ed'[f].dirty /\ (ed'[f].open \/ ed'[f].flushing)
    BY <1>3, ReloadedTexts
  <2>4. QED
    BY <2>1, <2>2, <2>3, StaysKept
<1>4. ASSUME NEW i \in Ids, SaveEnds(i)
      PROVE  x \in typed /\ disk.path # "gone" /\ x \notin disk.content /\ ~Kept(x)
  <2>1. UNCHANGED <<disk, typed>>
    BY <1>4 DEF SaveEnds, budget
  <2>2. QED
    BY <1>4, <2>1, SaveEndsKeeps
<1>5. ASSUME NEW i \in Ids, Request(i) \/ RequestLost(i)
      PROVE  x \in typed /\ disk.path # "gone" /\ x \notin disk.content /\ ~Kept(x)
  <2>1. typed' = typed
    BY <1>5 DEF Request, RequestLost, budget
  <2>2. QED
    BY <1>5, <2>1, StoredGrows, RequestKeeps
<1>6. ASSUME NEW i \in Ids, NEW w \in Windows, CommitAt(i, w)
      PROVE  x \in typed /\ disk.path # "gone" /\ x \notin disk.content /\ ~Kept(x)
  <2>1. UNCHANGED <<disk, typed>>
    BY <1>6 DEF CommitAt, budget
  <2>2. Retains
    BY <1>6, QuietRetains DEF QuietOps
  <2>3. ASSUME NEW f \in Editors, x \in ed[f].view, ed[f].dirty, ed[f].open \/ ed[f].flushing
        PROVE  x \in ed'[f].view /\ ed'[f].dirty /\ (ed'[f].open \/ ed'[f].flushing)
    <3>1. f \in At(w, op[i].from) => op[i].kind # "rename"
      BY <1>6, <2>3 DEF RenamedWhileTyping
    <3>2. CASE f \in At(w, op[i].from) /\ op[i].kind = "move"
      BY <1>6, <2>3, <3>2, CommittedTexts
    <3>3. CASE f \notin At(w, op[i].from) \/ op[i].kind \notin {"rename", "move"}
      BY <1>6, <2>3, <3>3, CommitUndisturbed DEF Undisturbed
    <3>4. QED
      BY <3>1, <3>2, <3>3
  <2>4. QED
    BY <2>1, <2>2, <2>3, StaysKept
<1>7. QED
  BY <1>1, <1>2, <1>3, <1>4, <1>5, <1>6, StepKinds DEF RefreshChosen, Crashed
-----------------------------------------------------------------------------
(* TitleInv is an invariant.                                               *)

\* The kernel is asked nothing, the revision of a save stays, and only an operation that
\* the kernel has carried out comes to be committed.
Steady ==
    /\ \A i \in Ids : GoesOn(i)
    /\ \A i \in Ids : op'[i].phase = "answer" => op[i].phase = "answer"
    /\ \A i \in Ids : op[i].owner \in Editors => op'[i].rev = op[i].rev
    /\ \A i \in Ids : Commits(i)' =>
          Commits(i) \/ (op[i].phase = "answer" /\ op[i].result = "ok" /\ op'[i].phase = "commit")

\* The path of the document changes once, and "old" was it before.
LEMMA MovesOnce ==
    ASSUME TypeInv, PathInv, NEW i \in Ids, Request(i) \/ RequestLost(i)
    PROVE  disk' = disk \/ (disk'.path = disk.path) \/ (disk.path = "old" /\ disk'.path # "old")
<1>1. disk' = disk \/ (Verdict(i) = "ok" /\ Perform(i))
  BY RequestFacts
<1>2. CASE Verdict(i) = "ok" /\ Perform(i)
  <2>1. disk.path = op[i].from
    BY <1>2 DEF Verdict
  <2>2. op[i].kind \notin Saves => op[i].kind \in Changes /\ op[i].from = "old"
    BY DEF TypeInv, OpsOK, Ops, Kinds, PathInv, TreeOps
  <2>3. Target(op[i].kind) # "old"
    BY DEF Target
  <2>4. QED
    BY <1>2, <2>1, <2>2, <2>3, PerformFacts
<1>3. QED
  BY <1>1, <1>2

\* Operations that go on steadily, and the document as it was.
LEMMA TitleGoes ==
    ASSUME TypeInv, TypeInv', TextInv, TitleInv, Steady, jobs' \in {jobs, {}}, disk' = disk, OwnRevision',
           disk.path # "new" => \A e \in Editors : ed'[e].rev \subseteq ed'[e].view
    PROVE  TitleInv'
<1> USE DEF TitleInv
<1>1. \A i \in Ids : GoesOn(i) /\ op[i] \in Ops /\ op'[i] \in Ops
  BY DEF Steady, TypeInv, OpsOK
<1>2. OneJob'
  BY <1>1 DEF OneJob, GoesOn
<1>3. Shows'
  <2> SUFFICES ASSUME disk.path # "new", NEW i \in Ids, Active(i)', op'[i].owner \in Editors
               PROVE  op'[i].rev \subseteq op'[i].body
    BY DEF Shows
  <2>1. Active(i) /\ op[i].owner \in Editors /\ op[i].phase # "get"
    BY <1>1, OwnersAssumption DEF GoesOn, TextInv, Owners, Active
  <2>2. op'[i].rev = op[i].rev /\ op'[i].body = op[i].body
    BY <1>1, <2>1 DEF Steady, GoesOn
  <2>3. QED
    BY <2>1, <2>2 DEF Shows
<1>4. TitleStays'
  <2> SUFFICES ASSUME TitleSaved' PROVE TitleSaved
    BY DEF TitleStays
  <2>1. CASE "rename" \in jobs'
    BY <2>1 DEF TitleSaved
  <2>2. ASSUME NEW i \in Ids, op'[i].kind = "rename", op'[i].phase \in Early PROVE TitleSaved
    BY <1>1, <2>2 DEF GoesOn, TitleSaved, Early
  <2>3. ASSUME NEW i \in Ids, op'[i].kind = "title", op'[i].result = "ok", op'[i].phase \in Late
        PROVE TitleSaved
    BY <1>1, <2>3 DEF GoesOn, TitleSaved, Late
  <2>4. QED
    BY <2>1, <2>2, <2>3 DEF TitleSaved, Early, Late
<1>5. CommitsLate'
  <2> SUFFICES ASSUME NEW i \in Ids, Commits(i)' PROVE op'[i].phase \in {"commit", "over", "none"}
    BY DEF CommitsLate
  <2>1. CASE Commits(i)
    <3>1. op[i].phase \in {"commit", "over", "none"}
      BY <2>1 DEF CommitsLate
    <3>2. op'[i].phase \notin Early /\ op'[i].phase # "answer"
      BY <1>1, <3>1 DEF Steady, GoesOn, Early
    <3>3. QED
      BY <1>1, <3>2 DEF Ops, Early
  <2>2. QED
    BY <2>1 DEF Steady
<1>6. RenamedTitle'
  <2> SUFFICES ASSUME NEW i \in Ids, op'[i].kind = "rename",
                      Commits(i)' \/ (op'[i].result = "ok" /\ op'[i].phase \in Late)
               PROVE  Title \in op'[i].rev
    BY DEF RenamedTitle, Late
  <2>1. op[i].kind = "rename" /\ (Commits(i) \/ (op[i].result = "ok" /\ op[i].phase \in Late))
    BY <1>1 DEF Steady, GoesOn, Late
  <2>2. op[i].phase \notin {"prepare", "load"}
    BY <2>1 DEF CommitsLate, Late
  <2>3. op'[i].rev = op[i].rev
    BY <1>1, <2>2 DEF GoesOn
  <2>4. QED
    BY <2>1, <2>3 DEF RenamedTitle, Late
<1>7. QED
  BY <1>2, <1>3, <1>4, <1>5, <1>6

\* An operation begins.
LEMMA TitleBegins ==
    ASSUME TitleInv, NEW i \in Ids, op[i].phase = "none",
           \A j \in Ids : j # i => op'[j] = op[j],
           op'[i].phase \in {"prepare", "request"}, op'[i].result = "none",
           op'[i].owner \in Editors => op'[i].rev \subseteq op'[i].body \/ disk.path = "new",
           op'[i].kind = "rename" => "rename" \in jobs,
           jobs' \subseteq jobs, op'[i].owner = "tree" => jobs' = {}, OwnRevision',
           \A j \in Ids : Commits(j)' => Commits(j) /\ j # i,
           UNCHANGED <<ed, disk>>
    PROVE  TitleInv'
<1> USE DEF TitleInv
<1>1. OneJob'
  BY DEF OneJob, Active
<1>2. Shows'
  BY DEF Shows, Active
<1>3. TitleStays'
  <2> SUFFICES ASSUME TitleSaved' PROVE TitleSaved
    BY DEF TitleStays
  <2>1. QED
    BY DEF TitleSaved
<1>4. CommitsLate' /\ RenamedTitle'
  BY DEF CommitsLate, RenamedTitle
<1>5. QED
  BY <1>1, <1>2, <1>3, <1>4

\* An operation ends.
LEMMA SpentRev ==
    ASSUME TypeInv, NEW i \in Ids, op' = [op EXCEPT ![i] = Spent(i)], Commits(i)
    PROVE  op'[i].rev = op[i].rev
<1>1. PICK r \in Ops : r = op[i]
  BY DEF TypeInv, OpsOK
<1>2. PICK b, c : /\ b = (IF Told(i) THEN op[i].result ELSE "none")
                  /\ c = (IF \E w \in Windows : guest[i][w].at = "commit" THEN op[i].rev ELSE {})
  OBVIOUS
<1>3. c = r.rev /\ \E w \in Windows : guest[i][w].at # "none"
  BY <1>1, <1>2 DEF Commits
<1>4. Spent(i) = [r EXCEPT !.phase = "none", !.nested = FALSE, !.withheld = FALSE,
                           !.body = {}, !.result = b, !.rev = c]
  BY <1>1, <1>2, <1>3 DEF Spent, Ops
<1>5. op'[i] = Spent(i)
  BY DEF TypeInv, OpsOK
<1>6. [r EXCEPT !.phase = "none", !.nested = FALSE, !.withheld = FALSE,
                !.body = {}, !.result = b, !.rev = c].rev = c
  BY DEF Ops
<1>7. QED
  BY <1>1, <1>3, <1>4, <1>5, <1>6

\* The end of an operation, with the job it leads to.
LEMMA TitleEnds ==
    ASSUME TypeInv, PathInv, TextInv, TitleInv, NEW i \in Ids, op[i].phase = "over",
           op' = [op EXCEPT ![i] = Spent(i)],
           \/ jobs' = jobs
           \/ op[i].owner = "tree" /\ jobs' = jobs \cup {"restore"}
           \/ /\ op[i].owner = "tree" /\ op[i].kind = "title" /\ op[i].result = "ok"
              /\ jobs' = jobs \cup {"rename"},
           \A j \in Ids : Commits(j)' => Commits(j), UNCHANGED <<disk, pending>>,
           disk.path # "new" => \A e \in Editors : ed'[e].rev \subseteq ed'[e].view
    PROVE  TitleInv'
<1> USE DEF TitleInv
<1>1. /\ op'[i].phase = "none" /\ \A j \in Ids : j # i => op'[j] = op[j]
      /\ op'[i].kind = "rename" => op[i].kind = "rename"
  <2>1. Free.kind # "rename"
    BY DEF Free
  <2>2. QED
    BY <2>1, SpentFacts
<1>2. OneJob'
  BY <1>1 DEF OneJob, TextInv, OneEach, Active
<1>3. Shows'
  BY <1>1 DEF Shows, Active
<1>4. TitleStays'
  <2> SUFFICES ASSUME TitleSaved' PROVE TitleSaved
    BY DEF TitleStays
  <2>1. QED
    BY <1>1 DEF TitleSaved
<1>5. CommitsLate'
  BY <1>1 DEF CommitsLate
<1>6. RenamedTitle'
  <2> SUFFICES ASSUME NEW j \in Ids, op'[j].kind = "rename",
                      Commits(j)' \/ (op'[j].result = "ok" /\ op'[j].phase \in Late)
               PROVE  Title \in op'[j].rev
    BY DEF RenamedTitle, Late
  <2>1. CASE j # i
    BY <1>1, <2>1 DEF RenamedTitle, Late
  <2>2. CASE j = i
    BY <1>1, <2>2, SpentRev DEF RenamedTitle, Late
  <2>3. QED
    BY <2>1, <2>2
<1>7. OwnRevision'
  BY <1>1 DEF OwnRevision, PathInv, Pairs
<1>8. QED
  BY <1>2, <1>3, <1>4, <1>5, <1>6, <1>7

\* The kernel carries an operation out, or not.
LEMMA TitleRequest ==
    ASSUME TypeInv, PathInv, TextInv, TitleInv, NEW i \in Ids, Request(i) \/ RequestLost(i)
    PROVE  TitleInv'
<1> USE DEF TitleInv
<1>1. /\ op[i].phase = "request" /\ op'[i].phase = "answer"
      /\ op'[i].owner = op[i].owner /\ op'[i].kind = op[i].kind
      /\ op'[i].body = op[i].body /\ op'[i].rev = op[i].rev
      /\ \A j \in Ids : j # i => op'[j] = op[j]
      /\ op'[i].result = "ok" => Verdict(i) = "ok" /\ Perform(i)
      /\ disk' = disk \/ (Verdict(i) = "ok" /\ Perform(i))
  BY RequestFacts
<1>2. UNCHANGED <<ed, jobs, guest, pending>>
  BY DEF Request, RequestLost, tree, coordinator
<1>3. OneJob'
  BY <1>1, <1>2 DEF OneJob, Active
<1>4. disk'.path # "new" => disk.path # "new"
  BY MovesOnce
<1>5. disk'.path = "old" => disk.path = "old"
  BY MovesOnce
<1>6. Shows'
  BY <1>1, <1>2, <1>4 DEF Shows, Active
<1>7. TitleStays'
  <2> SUFFICES ASSUME disk'.path = "old", TitleSaved' PROVE Title \in disk'.content
    BY DEF TitleStays
  <2>1. TitleSaved \/ (op[i].kind = "title" /\ op'[i].result = "ok")
    BY <1>1, <1>2 DEF TitleSaved
  <2>2. CASE disk' = disk /\ TitleSaved
    BY <1>5, <2>2 DEF TitleStays
  <2>3. CASE Verdict(i) = "ok" /\ Perform(i)
    <3>1. disk.content = op[i].rev
      BY <2>3 DEF Verdict
    <3>2. CASE op[i].kind = "title"
      BY <1>1, <2>3, <3>2, PerformFacts DEF TextInv, TitleAdded, Saves
    <3>3. CASE op[i].kind # "title"
      <4>1. Title \in disk.content /\ TitleSaved
        BY <1>5, <2>1, <3>3 DEF TitleStays
      <4>2. CASE op[i].kind \notin Saves
        BY <2>3, <4>1, <4>2, PerformFacts
      <4>3. CASE op[i].kind = "save"
        <5>1. op[i].rev \subseteq op[i].body
          BY <1>1, <1>5, <4>3 DEF Shows, TextInv, Owners, Active
        <5>2. QED
          BY <2>3, <3>1, <4>1, <4>3, <5>1, PerformFacts DEF Saves
      <4>4. CASE op[i].kind = "restore"
        <5>1. op[i].owner = "tree" /\ jobs = {}
          BY <1>1, <4>4 DEF OneJob, TextInv, Owners, Active, TypeInv, OpsOK, Ops
        <5>2. \A j \in Ids : op[j].kind \in {"rename", "title"} /\ op[j].phase # "none" => FALSE
          <6> SUFFICES ASSUME NEW j \in Ids, op[j].kind \in {"rename", "title"}, op[j].phase # "none"
                       PROVE  FALSE
            OBVIOUS
          <6>1. op[j].owner = "tree"
            BY DEF TextInv, Owners, Active, TypeInv, OpsOK, Ops
          <6>2. j = i
            BY <1>1, <5>1, <6>1 DEF TextInv, OneEach, Active
          <6>3. QED
            BY <4>4, <6>2
        <5>3. QED
          BY <4>1, <5>1, <5>2 DEF TitleSaved
      <4>5. QED
        BY <3>3, <4>2, <4>3, <4>4 DEF Saves
    <3>4. QED
      BY <3>2, <3>3
  <2>4. QED
    BY <1>1, <2>1, <2>2, <2>3
<1>8. CommitsLate' /\ ~Commits(i)
  BY <1>1, <1>2 DEF CommitsLate, Commits
<1>9. RenamedTitle'
  <2> SUFFICES ASSUME NEW j \in Ids, op'[j].kind = "rename",
                      Commits(j)' \/ (op'[j].result = "ok" /\ op'[j].phase \in Late)
               PROVE  Title \in op'[j].rev
    BY DEF RenamedTitle, Late
  <2>1. Commits(j)' <=> Commits(j)
    BY <1>2 DEF Commits
  <2>2. CASE j # i
    BY <1>1, <2>1, <2>2 DEF RenamedTitle, Late
  <2>3. CASE j = i
    <3>1. op[i].kind = "rename" /\ Verdict(i) = "ok"
      BY <1>1, <1>8, <2>1, <2>3
    <3>2. disk.path = "old" /\ disk.content = op[i].rev
      BY <3>1 DEF Verdict, PathInv, TreeOps, Changes
    <3>3. TitleSaved
      BY <1>1, <3>1 DEF TitleSaved
    <3>4. QED
      BY <1>1, <2>3, <3>2, <3>3 DEF TitleStays
  <2>4. QED
    BY <2>2, <2>3
<1>10. OwnRevision'
  BY <1>1, <1>2 DEF OwnRevision, PathInv, Pairs
<1>11. QED
  BY <1>3, <1>6, <1>7, <1>8, <1>9, <1>10

\* What the coordinator compares for an operation stays as it was.
LEMMA OwnSame ==
    ASSUME OwnRevision,
           \A j \in Ids : pending'[j].phase = "prepare" =>
               /\ pending[j].phase = "prepare" /\ pending'[j].revs = pending[j].revs
               /\ op'[j].rev = op[j].rev /\ op'[j].owner = op[j].owner
    PROVE  OwnRevision'
BY DEF OwnRevision

\* The coordinator gives an editor's save no revision but its own.
LEMMA FinishOwn ==
    ASSUME TypeInv, PathInv, TextInv, TitleInv, NEW i \in Ids, pending[i].phase = "prepare",
           NEW p, p.phase = "prepare", IsFiniteSet(p.revs),
           op[i].owner \in Editors => op[i].rev \in p.revs, Finish(i, p)
    PROVE  /\ OwnRevision'
           /\ \A j \in Ids : /\ op'[j].phase = "answer" => op[j].phase = "answer"
                             /\ op[j].owner \in Editors => op'[j].rev = op[j].rev
<1> USE DEF TitleInv
<1>1. op[i] \in Ops /\ op[i].phase = "prepare"
  BY DEF TypeInv, OpsOK, PathInv, Pairs
<1>2. CASE pending' = [pending EXCEPT ![i] = p] /\ UNCHANGED op
  BY <1>2 DEF OwnRevision, TypeInv, PendingOK
<1>3. CASE /\ pending' = [pending EXCEPT ![i] = Quiet]
           /\ op' = [op EXCEPT ![i].phase = "over", ![i].result = "error"]
  <2>1. op'[i].phase = "over" /\ op'[i].rev = op[i].rev /\ \A j \in Ids : j # i => op'[j] = op[j]
    BY <1>1, <1>3 DEF TypeInv, OpsOK, Ops
  <2>2. pending'[i].phase = "none" /\ \A j \in Ids : j # i => pending'[j] = pending[j]
    BY <1>3 DEF Quiet, TypeInv, PendingOK
  <2>3. QED
    BY <2>1, <2>2, OwnSame
<1>4. CASE /\ pending' = [pending EXCEPT ![i] = Quiet]
           /\ ~(p.matches /\ Cardinality(p.revs) # 1)
           /\ op' = [op EXCEPT ![i].phase = IF op[i].owner # "tree" THEN "request"
                                            ELSE IF ~p.matches THEN "load"
                                            ELSE IF op[i].kind = "title" THEN "get"
                                            ELSE "request",
                               ![i].rev = IF p.matches
                                          THEN CHOOSE r \in p.revs : TRUE
                                          ELSE op[i].rev]
  <2>1. PICK r : r = IF p.matches THEN CHOOSE z \in p.revs : TRUE ELSE op[i].rev
    OBVIOUS
  <2>2. op[i].owner \in Editors => r = op[i].rev
    <3> SUFFICES ASSUME op[i].owner \in Editors, p.matches PROVE r = op[i].rev
      BY <2>1
    <3>1. PICK x : p.revs = {x}
      BY <1>4, FS_Singleton
    <3>2. op[i].rev = x /\ r \in p.revs
      BY <2>1, <3>1
    <3>3. QED
      BY <3>1, <3>2
  <2>3. op'[i].phase \in {"request", "load", "get"} /\ op'[i].rev = r
        /\ \A j \in Ids : j # i => op'[j] = op[j]
    BY <1>1, <1>4, <2>1 DEF TypeInv, OpsOK, Ops
  <2>4. pending'[i].phase = "none" /\ \A j \in Ids : j # i => pending'[j] = pending[j]
    BY <1>4 DEF Quiet, TypeInv, PendingOK
  <2>5. QED
    BY <2>2, <2>3, <2>4, OwnSame
<1>5. QED
  BY <1>2, <1>3, <1>4 DEF Finish

\* The same, for one more answer.
LEMMA AnsweredOwn ==
    ASSUME TypeInv, PathInv, TextInv, TitleInv, NEW i \in Ids, NEW w, NEW ok, NEW revs, NEW matches,
           IsFiniteSet(revs), Answered(i, w, ok, revs, matches)
    PROVE  /\ OwnRevision'
           /\ \A j \in Ids : /\ op'[j].phase = "answer" => op[j].phase = "answer"
                             /\ op[j].owner \in Editors => op'[j].rev = op[j].rev
<1>1. CASE UNCHANGED <<pending, op>>
  BY <1>1 DEF TitleInv, OwnRevision
<1>2. CASE pending[i].phase = "prepare" /\ UNCHANGED <<pending, op>>
  BY <1>1, <1>2
<1>3. ASSUME pending[i].phase = "prepare",
             Finish(i, [pending[i] EXCEPT !.left = @ \ {w}, !.ok = @ /\ ok,
                                          !.revs = @ \cup revs, !.matches = @ \/ matches])
      PROVE  /\ OwnRevision'
             /\ \A j \in Ids : /\ op'[j].phase = "answer" => op[j].phase = "answer"
                               /\ op[j].owner \in Editors => op'[j].rev = op[j].rev
  <2>1. PICK q \in Pendings : q = pending[i]
    BY DEF TypeInv, PendingOK
  <2>2. PICK a, b, c : a = (q.ok /\ ok) /\ b = q.revs \cup revs /\ c = (q.matches \/ matches)
    OBVIOUS
  <2>3. PICK p : p = [q EXCEPT !.left = @ \ {w}, !.ok = a, !.revs = b, !.matches = c]
    OBVIOUS
  <2>4. Finish(i, p)
    BY <1>3, <2>1, <2>2, <2>3 DEF Pendings
  <2>5. p.phase = q.phase /\ p.revs = b
    BY <2>3 DEF Pendings
  <2>6. IsFiniteSet(q.revs) /\ (op[i].owner \in Editors => op[i].rev \in q.revs)
    BY <1>3, <2>1 DEF TitleInv, OwnRevision
  <2>7. IsFiniteSet(b)
    BY <2>2, <2>6, FS_Union
  <2>8. QED
    BY <1>3, <2>1, <2>2, <2>4, <2>5, <2>6, <2>7, FinishOwn
<1>4. QED
  BY <1>1, <1>3 DEF Answered

\* The revisions that a window answers with are finitely many.
LEMMA RevsFinite == ASSUME TypeInv, NEW M \in SUBSET Editors PROVE IsFiniteSet({ed[e].rev : e \in M})
<1> DEFINE R == {ed[e].rev : e \in M}
           f == [e \in M |-> ed[e].rev]
<1>1. f \in Surjection(M, R)
  BY DEF Surjection
<1>2. IsFiniteSet(M)
  BY FiniteAssumption, FS_Subset
<1> HIDE DEF R, f
<1>3. IsFiniteSet(R)
  BY <1>1, <1>2, FS_Surjection
<1>4. QED
  BY <1>3 DEF R

\* What a window does for an operation changes, and no commit is added.
LEMMA CommitsFewer ==
    ASSUME \A j \in Ids, w \in Windows : guest'[j][w].at = "commit" => guest[j][w].at = "commit"
    PROVE  \A j \in Ids : Commits(j)' => Commits(j)
BY DEF Commits

\* The same, for one window.
LEMMA OneWindowFewer ==
    ASSUME TypeInv, NEW i \in Ids, NEW w \in Windows, NEW g, g.at # "commit",
           guest' = [guest EXCEPT ![i][w] = g]
    PROVE  \A j \in Ids : Commits(j)' => Commits(j)
<1>1. guest'[i][w] = g /\ \A j \in Ids, v \in Windows : j # i \/ v # w => guest'[j][v] = guest[j][v]
  BY DEF TypeInv, GuestOK
<1>2. QED
  BY <1>1, CommitsFewer

\* The steps that leave all operations, or all but what is withheld, as they are.
LEMMA SteadySame ==
    ASSUME TypeInv, TitleInv, \A j \in Ids : op'[j] = op[j] \/ op'[j] = [op[j] EXCEPT !.withheld = TRUE],
           \A j \in Ids : Commits(j)' => Commits(j), UNCHANGED pending
    PROVE  Steady /\ OwnRevision'
<1>1. \A j \in Ids : op'[j].owner = op[j].owner /\ op'[j].phase = op[j].phase /\ op'[j].rev = op[j].rev
  <2> SUFFICES ASSUME NEW j \in Ids
               PROVE  op'[j].owner = op[j].owner /\ op'[j].phase = op[j].phase /\ op'[j].rev = op[j].rev
    OBVIOUS
  <2>1. PICK r \in Ops : r = op[j]
    BY DEF TypeInv, OpsOK
  <2>2. op'[j] = r \/ op'[j] = [r EXCEPT !.withheld = TRUE]
    BY <2>1
  <2>3. QED
    BY <2>1, <2>2 DEF Ops
<1>2. Steady
  BY <1>1, SameGoesOn DEF Steady
<1>3. OwnRevision'
  BY <1>1 DEF TitleInv, OwnRevision
<1>4. QED
  BY <1>2, <1>3

\* Timeout is such a step.
LEMMA SteadyTimeout ==
    ASSUME TypeInv, PathInv, TitleInv, NEW i \in Ids, Timeout(i) PROVE Steady /\ OwnRevision'
<1>1. op[i] \in Ops
  BY DEF TypeInv, OpsOK
<1>2. op' = [op EXCEPT ![i] = [op[i] EXCEPT !.phase = "over", !.result = "error"]]
  BY DEF Timeout, GivenUp, TypeInv, OpsOK, Ops
<1>3. op'[i].phase = "over" /\ op'[i].rev = op[i].rev /\ \A j \in Ids : j # i => op'[j] = op[j]
  BY <1>1, <1>2 DEF TypeInv, OpsOK, Ops
<1>4. pending'[i].phase = "none" /\ \A j \in Ids : j # i => pending'[j] = pending[j]
  BY DEF Timeout, GivenUp, Quiet, TypeInv, PendingOK
<1>5. guest' = guest
  BY DEF Timeout
<1>6. QED
  BY <1>3, <1>4, <1>5, TimeoutGoesOn, OwnSame DEF Steady, TitleInv, Commits

\* So is giving all up.
LEMMA SteadyUpset ==
    ASSUME TypeInv, PathInv, TitleInv, Upset, \A j \in Ids : Commits(j)' => Commits(j)
    PROVE  Steady /\ OwnRevision'
<1>1. \A j \in Ids : /\ op'[j].rev = op[j].rev /\ pending'[j].phase = "none"
                     /\ op'[j].phase \in {op[j].phase, "over"}
  <2> SUFFICES ASSUME NEW j \in Ids
               PROVE  /\ op'[j].rev = op[j].rev /\ pending'[j].phase = "none"
                      /\ op'[j].phase \in {op[j].phase, "over"}
    OBVIOUS
  <2>1. op[j] \in Ops /\ pending'[j].phase = "none"
    BY DEF TypeInv, OpsOK, Upset, Quiet
  <2>2. op'[j] = op[j] \/ op'[j] = [op[j] EXCEPT !.phase = "over", !.result = "error"]
    BY DEF Upset
  <2>3. QED
    BY <2>1, <2>2 DEF Ops
<1>2. QED
  BY <1>1, UpsetGoesOn, OwnSame DEF Steady, TitleInv

\* So is Answer, which commits what the kernel carried out.
LEMMA SteadyAnswer ==
    ASSUME TypeInv, PathInv, TitleInv, NEW i \in Ids, Answer(i) PROVE Steady /\ OwnRevision'
<1>1. op[i] \in Ops /\ op[i].phase = "answer" /\ \A j \in Ids : j # i => op'[j] = op[j]
  BY DEF Answer, TypeInv, OpsOK
<1>2. /\ op'[i].rev = op[i].rev /\ op'[i].phase \in {"commit", "over"}
      /\ guest' = guest \/ (op[i].result = "ok" /\ op'[i].phase = "commit")
      /\ \A j \in Ids : j # i => guest'[j] = guest[j]
  BY <1>1 DEF Answer, TypeInv, OpsOK, Ops, GuestOK
<1>3. \A j \in Ids : pending'[j].phase = "prepare" => pending'[j] = pending[j] /\ j # i
  <2>1. pending[i].phase # "prepare"
    BY <1>1 DEF PathInv, Pairs
  <2>2. pending'[i].phase # "prepare" /\ \A j \in Ids : j # i => pending'[j] = pending[j]
    BY <2>1 DEF Answer, TypeInv, PendingOK, Quiet
  <2>3. QED
    BY <2>2
<1>4. \A j \in Ids : Commits(j)' =>
          Commits(j) \/ (op[j].phase = "answer" /\ op[j].result = "ok" /\ op'[j].phase = "commit")
  BY <1>1, <1>2 DEF Commits
<1>5. OwnRevision'
  BY <1>1, <1>3, OwnSame DEF TitleInv
<1>6. QED
  BY <1>1, <1>2, <1>4, <1>5, AnswerGoesOn DEF Steady

\* So are LoadRevision and GetContent.
LEMMA SteadyLoad ==
    ASSUME TypeInv, PathInv, TextInv, TitleInv, NEW i \in Ids, LoadRevision(i) \/ GetContent(i)
    PROVE  Steady /\ OwnRevision'
<1>1. op[i] \in Ops /\ op[i].phase \in {"load", "get"} /\ \A j \in Ids : j # i => op'[j] = op[j]
  BY DEF LoadRevision, GetContent, TypeInv, OpsOK
<1>2. op'[i].phase # "answer"
  <2>1. PICK r \in Ops : r = op[i]
    BY <1>1
  <2>2. CASE LoadRevision(i)
    <3>1. PICK ph \in {"get", "request"} : ph = IF r.kind = "title" THEN "get" ELSE "request"
      OBVIOUS
    <3>2. op'[i] \in {[r EXCEPT !.rev = disk.content, !.phase = ph],
                      [r EXCEPT !.phase = "over", !.result = "error"]}
      BY <2>1, <2>2, <3>1 DEF LoadRevision, TypeInv, OpsOK
    <3>3. QED
      BY <3>2 DEF Ops
  <2>3. CASE GetContent(i)
    BY <1>1, <2>3 DEF GetContent, TypeInv, OpsOK, Ops
  <2>4. QED
    BY <2>2, <2>3
<1>3. op[i].owner \notin Editors
  BY <1>1, OwnersAssumption DEF TextInv, Owners, Active
<1>4. UNCHANGED <<pending, guest>>
  BY DEF LoadRevision, GetContent, coordinator
<1>5. pending[i].phase # "prepare"
  BY <1>1 DEF PathInv, Pairs
<1>6. OwnRevision'
  BY <1>1, <1>4, <1>5, OwnSame DEF TitleInv
<1>7. QED
  BY <1>1, <1>2, <1>3, <1>4, <1>6, LoadGoesOn, GetGoesOn DEF Steady, Commits

\* So are the answers of the windows.
LEMMA SteadyPrepare ==
    ASSUME TypeInv, PathInv, TextInv, TitleInv, NEW i \in Ids, NEW w \in Windows,
           PrepareAt(i, w) \/ PreparedAt(i, w)
    PROVE  Steady /\ OwnRevision'
<1>1. \A j \in Ids : Commits(j)' => Commits(j)
  <2>1. PICK g : g.at # "commit" /\ guest' = [guest EXCEPT ![i][w] = g]
    <3>1. CASE guest' = [guest EXCEPT ![i][w] = Away]
      BY <3>1 DEF Away
    <3>2. ASSUME NEW m, NEW s, NEW r,
                 guest' = [guest EXCEPT ![i][w] = [at |-> "busy", matched |-> m, waiting |-> s, refused |-> r]]
          PROVE  \E g : g.at # "commit" /\ guest' = [guest EXCEPT ![i][w] = g]
      <4>1. PICK g : g = [at |-> "busy", matched |-> m, waiting |-> s, refused |-> r]
        OBVIOUS
      <4>2. g.at = "busy"
        BY <4>1
      <4>3. QED
        BY <3>2, <4>1, <4>2
    <3>3. QED
      BY <3>1, <3>2 DEF PrepareAt, PreparedAt
  <2>2. QED
    BY <2>1, OneWindowFewer
<1>2. CASE UNCHANGED <<pending, op>>
  BY <1>1, <1>2, SteadySame
<1>3. ASSUME NEW ok, NEW revs, NEW matches, IsFiniteSet(revs), Answered(i, w, ok, revs, matches)
      PROVE  Steady /\ OwnRevision'
  BY <1>1, <1>3, AnsweredGoesOn, AnsweredOwn DEF Steady
<1>4. CASE PrepareAt(i, w)
  <2>1. Answered(i, w, TRUE, {}, FALSE) \/ UNCHANGED <<pending, op>>
    BY <1>4 DEF PrepareAt
  <2>2. IsFiniteSet({})
    BY FS_EmptySet
  <2>3. QED
    BY <1>2, <1>3, <2>1, <2>2
<1>5. CASE PreparedAt(i, w)
  <2>1. guest[i][w].matched \in SUBSET Editors
    BY DEF TypeInv, GuestOK, Guests
  <2>2. PICK M \in SUBSET Editors : M = guest[i][w].matched
    BY <2>1
  <2>3. PICK revs : revs = {ed[e].rev : e \in M}
    OBVIOUS
  <2>4. \E ok : Answered(i, w, ok, revs, TRUE)
    BY <1>5, <2>2, <2>3 DEF PreparedAt
  <2>5. IsFiniteSet(revs)
    BY <2>3, RevsFinite
  <2>6. QED
    BY <1>3, <2>4, <2>5
<1>6. QED
  BY <1>4, <1>5

\* So is CommitAt.
LEMMA SteadyCommitAt ==
    ASSUME TypeInv, PathInv, TitleInv, NEW i \in Ids, NEW w \in Windows, CommitAt(i, w)
    PROVE  Steady /\ OwnRevision'
<1>1. \A j \in Ids : Commits(j)' => Commits(j)
  <2>1. Away.at # "commit" /\ guest' = [guest EXCEPT ![i][w] = Away]
    BY DEF CommitAt, Away
  <2>2. QED
    BY <2>1, OneWindowFewer
<1>2. \A j \in Ids : pending'[j].phase = "prepare" => pending'[j] = pending[j]
  <2>1. CASE pending[i].phase = "commit"
    <3>1. pending'[i].phase # "prepare" /\ \A j \in Ids : j # i => pending'[j] = pending[j]
      <4>1. \/ pending' = [pending EXCEPT ![i] = Quiet]
            \/ pending' = [pending EXCEPT ![i].left = @ \ {w}]
        BY <2>1 DEF CommitAt
      <4>2. pending[i] \in Pendings /\ Quiet.phase = "none"
        BY DEF TypeInv, PendingOK, Quiet
      <4>3. QED
        BY <2>1, <4>1, <4>2 DEF TypeInv, PendingOK, Pendings
    <3>2. QED
      BY <3>1
  <2>2. CASE pending[i].phase # "commit"
    BY <2>2 DEF CommitAt
  <2>3. QED
    BY <2>1, <2>2
<1>3. \A j \in Ids : op'[j].rev = op[j].rev /\ op'[j].phase \in {op[j].phase, "over"}
                     /\ op'[j].owner = op[j].owner
  <2>1. op' = op \/ op' = [op EXCEPT ![i].phase = "over"]
    BY DEF CommitAt
  <2>2. op[i] \in Ops
    BY DEF TypeInv, OpsOK
  <2>3. CASE op' = [op EXCEPT ![i].phase = "over"]
    <3>1. /\ op'[i].rev = op[i].rev /\ op'[i].phase = "over" /\ op'[i].owner = op[i].owner
          /\ \A j \in Ids : j # i => op'[j] = op[j]
      BY <2>2, <2>3 DEF TypeInv, OpsOK, Ops
    <3>2. QED
      BY <3>1
  <2>4. QED
    BY <2>1, <2>3
<1>4. QED
  BY <1>1, <1>2, <1>3, CommitGoesOn, OwnSame DEF Steady, TitleInv

\* So is EventAt.
LEMMA SteadyEventAt ==
    ASSUME TypeInv, TitleInv, NEW w \in Windows, EventAt(w) PROVE Steady /\ OwnRevision'
<1>1. UNCHANGED <<pending, guest>>
  BY DEF EventAt, coordinator
<1>2. \A j \in Ids : op'[j] = op[j] \/ op'[j] = [op[j] EXCEPT !.withheld = TRUE]
  BY DEF EventAt, TypeInv, OpsOK
<1>3. QED
  BY <1>1, <1>2, SteadySame DEF Commits
\* Unless the document has moved, what an editor shows contains what its revision is of.
LEMMA ShownStays ==
    ASSUME TitleInv, \A e \in Editors : ed'[e].view = ed[e].view /\ ed'[e].rev = ed[e].rev
    PROVE  disk.path # "new" => \A e \in Editors : ed'[e].rev \subseteq ed'[e].view
BY DEF TitleInv, Shows

\* Editing, flushing and reloading keep TitleInv.
LEMMA TitleEditing ==
    ASSUME TypeInv, TypeInv', TextInv, TitleInv, NEW e \in Editors,
           \/ \E x \in Edits : Type(e, x)
           \/ TimerFires(e) \/ Refresh(e) \/ Dismiss(e) \/ CloseTab(e) \/ ApplyReload(e)
    PROVE TitleInv'
<1>1. UNCHANGED <<op, disk, jobs, pending, guest>>
  BY DEF Type, TimerFires, Refresh, Dismiss, CloseTab, ApplyReload, tree, coordinator
<1>2. Steady /\ OwnRevision'
  BY <1>1, SteadySame DEF Commits
<1>3. disk.path # "new" => \A f \in Editors : ed'[f].rev \subseteq ed'[f].view
  <2>1. ASSUME NEW x \in Edits, Type(e, x), disk.path # "new"
        PROVE  \A f \in Editors : ed'[f].rev \subseteq ed'[f].view
    BY <2>1, TypedTexts DEF TitleInv, Shows
  <2>2. CASE TimerFires(e) \/ Dismiss(e) \/ CloseTab(e)
    BY <2>2, EditingUndisturbed, ShownStays DEF Undisturbed
  <2>3. CASE Refresh(e)
    BY <2>3, RefreshedTexts DEF TitleInv, Shows
  <2>4. CASE ApplyReload(e)
    BY <2>4, ReloadedTexts DEF TitleInv, Shows
  <2>5. QED
    BY <2>1, <2>2, <2>3, <2>4
<1>4. QED
  BY <1>1, <1>2, <1>3, TitleGoes

\* A new operation and those it is compared with.
LEMMA AskingOwn ==
    ASSUME TypeInv, PathInv, TitleInv, NEW i \in FreeIds, NEW r, r.owner = "tree" \/ r.owner \in Editors, Asking(i, r)
    PROVE  OwnRevision' /\ \A j \in Ids : Commits(j)' => Commits(j) /\ j # i
<1>1. /\ i \in Ids /\ op[i].phase = "none" /\ guest[i] = [w \in Windows |-> Away]
      /\ op'[i] = r /\ \A j \in Ids : j # i => op'[j] = op[j]
  BY AskingBegins
<1>2. ~Commits(i) /\ pending[i].phase = "none"
  BY <1>1 DEF Commits, Away, PathInv, Pairs, TypeInv, PendingOK, Pendings
<1>3. CASE UNCHANGED <<pending, guest>>
  BY <1>1, <1>2, <1>3, OwnSame DEF TitleInv, Commits
<1>4. CASE ~r.nested
  <2>1. PICK R : R = IF r.owner = "tree" THEN {} ELSE {r.rev}
    OBVIOUS
  <2>2. PICK p : p = [Quiet EXCEPT !.phase = "prepare", !.left = alive, !.revs = R]
    OBVIOUS
  <2>3. p.revs = R /\ IsFiniteSet(R) /\ (r.owner \in Editors => r.rev \in R)
    BY <2>1, <2>2, FS_Singleton, FS_EmptySet, OwnersAssumption DEF Quiet
  <2>4. pending' = [pending EXCEPT ![i] = p]
    BY <1>4, <2>1, <2>2 DEF Asking
  <2>5. pending'[i] = p /\ \A j \in Ids : j # i => pending'[j] = pending[j]
    BY <1>1, <2>4 DEF TypeInv, PendingOK
  <2>6. OwnRevision'
    BY <1>1, <2>3, <2>5 DEF TitleInv, OwnRevision
  <2>7. /\ \A w \in Windows : guest'[i][w].at \in {"prepare", "none"}
        /\ \A j \in Ids : j # i => guest'[j] = guest[j]
    BY <1>1, <1>4 DEF Asking, TypeInv, GuestOK, Away
  <2>8. QED
    BY <2>6, <2>7 DEF Commits
<1>5. QED
  BY <1>3, <1>4 DEF Asking

\* SaveOnce keeps TitleInv.
LEMMA TitleSaveOnce == ASSUME TypeInv, PathInv, TextInv, TitleInv, NEW e \in Editors, SaveOnce(e) PROVE TitleInv'
<1>1. PICK nested : nested = PrepareActive(WindowOf[e])
  OBVIOUS
<1>2. PICK p, v, rv : p = ed[e].path /\ v = ed[e].view /\ rv = ed[e].rev
  OBVIOUS
<1>3. PICK r : r = [Free EXCEPT !.owner = e, !.nested = nested, !.from = p,
                            !.phase = IF nested THEN "request" ELSE "prepare",
                            !.rev = rv, !.body = v]
  OBVIOUS
<1>4. Asking(Min(FreeIds), r) /\ Min(FreeIds) \in FreeIds
  BY <1>1, <1>2, <1>3, MinFree DEF SaveOnce
<1>5. PICK i \in FreeIds : i = Min(FreeIds)
  BY <1>4
<1>6. /\ r.phase \in {"prepare", "request"} /\ r.kind = "save" /\ r.owner = e /\ r.body = v
      /\ r.rev = rv /\ r.result = "none"
  BY <1>3 DEF Free
<1>7. i \in Ids /\ op[i].phase = "none" /\ op'[i] = r /\ \A j \in Ids : j # i => op'[j] = op[j]
  BY <1>4, <1>5, AskingBegins
<1>8. OwnRevision' /\ \A j \in Ids : Commits(j)' => Commits(j) /\ j # i
  BY <1>4, <1>5, <1>6, AskingOwn
<1>9. UNCHANGED <<ed, disk, jobs>>
  BY DEF SaveOnce, tree
<1>10. rv \subseteq v \/ disk.path = "new"
  BY <1>2 DEF TitleInv, Shows
<1>11. QED
  BY <1>6, <1>7, <1>8, <1>9, <1>10, OwnersAssumption, TitleBegins

\* TreeStarts keeps TitleInv.
LEMMA TitleTreeStarts == ASSUME TypeInv, PathInv, TextInv, TitleInv, TreeStarts PROVE TitleInv'
<1>1. PICK job \in NextJobs :
        /\ jobs' = jobs \ {job}
        /\ Asking(Min(FreeIds),
               [Free EXCEPT !.owner = "tree", !.kind = job, !.phase = "prepare",
                            !.from = IF job = "remove" THEN disk.path ELSE "old",
                            !.body = IF job = "restore" THEN original ELSE {}])
  BY DEF TreeStarts
<1>2. job \in jobs
  BY DEF NextJobs
<1>3. jobs' = {}
  BY <1>1, <1>2 DEF TitleInv, OneJob
<1>4. PICK f, v : /\ f = (IF job = "remove" THEN disk.path ELSE "old")
                  /\ v = (IF job = "restore" THEN original ELSE {})
  OBVIOUS
<1>5. PICK r : r = [Free EXCEPT !.owner = "tree", !.kind = job, !.phase = "prepare", !.from = f, !.body = v]
  OBVIOUS
<1>6. Asking(Min(FreeIds), r) /\ Min(FreeIds) \in FreeIds
  BY <1>1, <1>4, <1>5, MinFree DEF TreeStarts
<1>7. PICK i \in FreeIds : i = Min(FreeIds)
  BY <1>6
<1>8. r.phase = "prepare" /\ r.kind = job /\ r.owner = "tree" /\ r.result = "none"
  BY <1>5 DEF Free
<1>9. i \in Ids /\ op[i].phase = "none" /\ op'[i] = r /\ \A j \in Ids : j # i => op'[j] = op[j]
  BY <1>6, <1>7, AskingBegins
<1>10. OwnRevision' /\ \A j \in Ids : Commits(j)' => Commits(j) /\ j # i
  BY <1>6, <1>7, <1>8, AskingOwn
<1>11. UNCHANGED <<ed, disk>>
  BY DEF TreeStarts
<1>12. QED
  BY <1>2, <1>3, <1>8, <1>9, <1>10, <1>11, OwnersAssumption, TitleBegins

\* TitleInv holds at first.
LEMMA TitleInit == Init => TitleInv
<1> SUFFICES ASSUME Init PROVE TitleInv
  OBVIOUS
<1>1. \A i \in Ids : op[i].phase = "none" /\ op[i].kind = "save" /\ pending[i].phase = "none"
  BY DEF Init, Free, Quiet
<1>2. \A i \in Ids : ~Commits(i)
  BY DEF Init, Commits, Away
<1>3. OneJob
  BY <1>1 DEF Init, OneJob, Active
<1>4. OwnRevision
  BY <1>1 DEF OwnRevision
<1>5. Shows
  BY <1>1 DEF Init, Shows, Active
<1>6. TitleStays
  <2>1. "rename" \notin jobs
    BY JobsAssumption DEF Init
  <2>2. QED
    BY <1>1, <2>1 DEF TitleStays, TitleSaved
<1>7. CommitsLate /\ RenamedTitle
  BY <1>1, <1>2 DEF CommitsLate, RenamedTitle
<1>8. QED
  BY <1>3, <1>4, <1>5, <1>6, <1>7 DEF TitleInv

\* Every step keeps TitleInv.
LEMMA TitleNext == TypeInv /\ PathInv /\ TextInv /\ TitleInv /\ [Next]_vars => TitleInv'
<1> SUFFICES ASSUME TypeInv, PathInv, TextInv, TitleInv, [Next]_vars PROVE TitleInv'
  OBVIOUS
<1>0. TypeInv'
  BY TypesNext
<1>1. ASSUME NEW i \in Ids, SaveEnds(i) PROVE TitleInv'
  <2>1. UNCHANGED <<disk, pending, jobs>> /\ op[i].owner \in Editors /\ op[i].phase = "over"
    BY <1>1 DEF SaveEnds, coordinator, tree
  <2>2. disk.path # "new" => \A e \in Editors : ed'[e].rev \subseteq ed'[e].view
    BY <1>1, <2>1, SavedTexts DEF TitleInv, Shows, TextInv, BodyShown, Active
  <2>3. \A j \in Ids : Commits(j)' => Commits(j)
    <3>1. PICK e : e = op[i].owner
      OBVIOUS
    <3>2. \E ok \in BOOLEAN : guest' = Released(e, ok) \/ guest' = guest
      BY <1>1, <3>1 DEF SaveEnds, SaveSucceeds, SaveFails
    <3>3. QED
      BY <3>2, ReleasedAt DEF Commits
  <2>4. QED
    BY <1>1, <2>1, <2>2, <2>3, TitleEnds DEF SaveEnds
<1>2. ASSUME NEW i \in Ids, TreeEnds(i) PROVE TitleInv'
  <2>1. /\ UNCHANGED <<disk, pending, guest>> /\ op[i].owner = "tree" /\ op[i].phase = "over"
        /\ op' = [op EXCEPT ![i] = Spent(i)]
    BY <1>2 DEF TreeEnds, coordinator
  <2>2. disk.path # "new" => \A e \in Editors : ed'[e].rev \subseteq ed'[e].view
    BY <1>2, QuietUndisturbed, ShownStays DEF QuietEds, Undisturbed
  <2>3. \/ jobs' = jobs
        \/ jobs' = jobs \cup {"restore"}
        \/ op[i].kind = "title" /\ op[i].result = "ok" /\ jobs' = jobs \cup {"rename"}
    BY <1>2 DEF TreeEnds
  <2>4. QED
    BY <2>1, <2>2, <2>3, TitleEnds DEF Commits
<1>3. ASSUME NEW i \in Ids, Timeout(i) \/ Answer(i) \/ LoadRevision(i) \/ GetContent(i) PROVE TitleInv'
  <2>1. UNCHANGED <<disk, jobs, ed>>
    BY <1>3 DEF Timeout, Answer, LoadRevision, GetContent, tree
  <2>2. Steady /\ OwnRevision'
    BY <1>3, SteadyTimeout, SteadyAnswer, SteadyLoad
  <2>3. QED
    BY <1>0, <2>1, <2>2, TitleGoes, ShownStays
<1>4. ASSUME NEW i \in Ids, NEW w \in Windows, PrepareAt(i, w) \/ PreparedAt(i, w) PROVE TitleInv'
  <2>1. UNCHANGED <<disk, jobs>>
    BY <1>4 DEF PrepareAt, PreparedAt, tree
  <2>2. \A e \in Editors : ed'[e].view = ed[e].view /\ ed'[e].rev = ed[e].rev
    BY <1>4, PrepareUndisturbed DEF Undisturbed, PreparedAt
  <2>3. Steady /\ OwnRevision'
    BY <1>4, SteadyPrepare
  <2>4. QED
    BY <1>0, <2>1, <2>2, <2>3, TitleGoes, ShownStays
<1>5. ASSUME NEW i \in Ids, NEW w \in Windows, CommitAt(i, w) PROVE TitleInv'
  <2>1. UNCHANGED <<disk, jobs>>
    BY <1>5 DEF CommitAt, tree
  <2>2. disk.path # "new" => \A e \in Editors : ed'[e].rev \subseteq ed'[e].view
    <3> SUFFICES ASSUME disk.path # "new", NEW e \in Editors PROVE ed'[e].rev \subseteq ed'[e].view
      OBVIOUS
    <3>1. op[i].kind \notin {"rename", "move"}
      BY <1>5 DEF CommitAt, PathInv, GuestsTrue, Changes, Target
    <3>2. Undisturbed(e)
      BY <1>5, <3>1, CommitUndisturbed
    <3>3. QED
      BY <3>2 DEF Undisturbed, TitleInv, Shows
  <2>3. Steady /\ OwnRevision'
    BY <1>5, SteadyCommitAt
  <2>4. QED
    BY <1>0, <2>1, <2>2, <2>3, TitleGoes
<1>6. ASSUME NEW w \in Windows, EventAt(w) PROVE TitleInv'
  <2>1. UNCHANGED <<disk, jobs>>
    BY <1>6 DEF EventAt, tree
  <2>2. \A e \in Editors : ed'[e].view = ed[e].view /\ ed'[e].rev = ed[e].rev
    BY <1>6, QuietUndisturbed DEF QuietEds, Undisturbed
  <2>3. Steady /\ OwnRevision'
    BY <1>6, SteadyEventAt
  <2>4. QED
    BY <1>0, <2>1, <2>2, <2>3, TitleGoes, ShownStays
<1>7. ASSUME NEW w \in Windows, Crash(w) PROVE TitleInv'
  <2>1. disk' = disk /\ jobs' \in {jobs, {}} /\ Upset
    BY <1>7 DEF Crash
  <2>2. \A e \in Editors : ed'[e].view = ed[e].view /\ ed'[e].rev = ed[e].rev
    BY <1>7, CrashedTexts
  <2>3. \A j \in Ids : Commits(j)' => Commits(j)
    BY <1>7 DEF Crash, Commits, TypeInv, GuestOK, Away
  <2>4. Steady /\ OwnRevision'
    BY <2>1, <2>3, SteadyUpset
  <2>5. QED
    BY <1>0, <2>1, <2>2, <2>4, TitleGoes, ShownStays
<1>8. CASE OtherWindow
  <2>1. UNCHANGED <<disk, jobs, ed, guest>> /\ Upset
    BY <1>8 DEF OtherWindow, tree
  <2>2. Steady /\ OwnRevision'
    BY <2>1, SteadyUpset DEF Commits
  <2>3. QED
    BY <1>0, <2>1, <2>2, TitleGoes, ShownStays
<1>9. CASE UNCHANGED vars
  <2>1. UNCHANGED <<disk, jobs, ed, guest, op, pending>>
    BY <1>9 DEF vars, tree, coordinator
  <2>2. Steady /\ OwnRevision'
    BY <2>1, SteadySame DEF Commits
  <2>3. QED
    BY <1>0, <2>1, <2>2, TitleGoes, ShownStays
<1>10. CASE External
  BY <1>0, <1>7, <1>8, <1>10, TitleEditing, TitleRequest, TitleTreeStarts DEF External
<1>11. CASE Progress
  BY <1>0, <1>1, <1>2, <1>3, <1>4, <1>5, <1>6, <1>11, TitleEditing, TitleSaveOnce, TitleRequest DEF Progress
<1>12. QED
  BY <1>9, <1>10, <1>11 DEF Next
-----------------------------------------------------------------------------
(* A clean editor shows what its revision is of.                           *)

\* Who is not disturbed shows what it showed.
LEMMA CalmNoMismatch ==
    ASSUME NEW e \in Editors, Saving(e) => Saving(e)', Undisturbed(e), Mismatch(e)'
    PROVE  Mismatch(e)
BY DEF Mismatch, Open, Undisturbed

\* A clean editor comes to show another text by three causes only.
LEMMA MismatchOnly ==
    ASSUME TypeInv, PathInv, TextInv, TitleInv, [Next]_vars, NEW e \in Editors,
           Mismatch(e)', ~Mismatch(e)
    PROVE  RenamedWhileTyping \/ CommittedOverStale \/ SaveInVain
<1>1. ~(Undisturbed(e) /\ (Saving(e) => Saving(e)'))
  BY CalmNoMismatch
<1>2. ~(QuietOps /\ QuietEds)
  BY <1>1, QuietRetains, QuietUndisturbed DEF Retains
<1>3. ASSUME NEW f \in Editors, \/ \E x \in Edits : Type(f, x)
                                \/ Refresh(f) \/ ApplyReload(f)
      PROVE FALSE
  <2>1. UNCHANGED op
    BY <1>3 DEF Type, Refresh, ApplyReload
  <2>2. Saving(e) => Saving(e)'
    BY <2>1, QuietRetains DEF QuietOps, Retains
  <2>3. CASE e # f
    BY <1>1, <1>3, <2>2, <2>3, TypedTexts, RefreshedTexts, ReloadedTexts, UndisturbedForms
  <2>4. CASE e = f
    <3>1. ~ed'[e].dirty /\ ed'[e].view # ed'[e].rev
      BY DEF Mismatch
    <3>2. ~Refresh(e) /\ ~\E x \in Edits : Type(e, x)
      BY <3>1, RefreshedTexts, TypedTexts
    <3>3. ApplyReload(e)
      BY <1>3, <2>4, <3>2
    <3>4. ed'[e] = ed[e]
      BY <3>1, <3>3, ReloadedTexts
    <3>5. QED
      BY <1>1, <2>2, <3>4, UndisturbedForms
  <2>5. QED
    BY <2>3, <2>4
<1>4. ASSUME NEW i \in Ids, SaveEnds(i) PROVE SaveInVain
  <2>1. op[i].owner \in Editors
    BY <1>4 DEF SaveEnds
  <2>2. CASE e # op[i].owner
    <3>1. \A j \in Ids : j # i => op'[j] = op[j]
      BY <1>4, SpentFacts DEF SaveEnds
    <3>2. Saving(e) => Saving(e)'
      BY <2>2, <3>1 DEF Saving
    <3>3. ed'[e] = ed[e]
      BY <1>4, <2>1, <2>2, SavedTexts
    <3>4. QED
      BY <1>1, <3>2, <3>3, UndisturbedForms
  <2>3. CASE e = op[i].owner
    <3>1. Open(e) /\ ~ed'[e].dirty /\ ed'[e].view # ed'[e].rev
      BY <1>4, <2>1, <2>3, SavedTexts DEF Mismatch, Open
    <3>2. WindowOf[e] \in alive
      BY <3>1 DEF PathInv, OpenAlive
    <3>3. ed'[e].view = ed[e].view
      BY <1>4, <2>1, <2>3, SavedTexts
    <3>4. op[i].result # "ok" /\ ~ed[e].dirty
      <4>1. CASE /\ op[i].result = "ok" /\ ed'[e].rev = op[i].body
                 /\ ed'[e].dirty = (ed[e].view # op[i].body)
        BY <3>1, <3>3, <4>1
      <4>2. CASE op[i].result # "ok" /\ ed'[e].dirty = ed[e].dirty
        BY <3>1, <4>2
      <4>3. QED
        BY <1>4, <2>1, <2>3, <3>2, <4>1, <4>2, SavedTexts
    <3>5. QED
      BY <1>4, <2>1, <2>3, <3>4 DEF SaveInVain
  <2>4. QED
    BY <2>2, <2>3
<1>5. ASSUME NEW i \in Ids, NEW w \in Windows, CommitAt(i, w), ~RenamedWhileTyping, ~CommittedOverStale
      PROVE FALSE
  <2>1. Saving(e) => Saving(e)'
    BY <1>5, QuietRetains DEF QuietOps, Retains
  <2>2. e \in At(w, op[i].from) /\ op[i].kind \in {"rename", "move"}
    BY <1>1, <1>5, <2>1, CommitUndisturbed
  <2>3. ed[e].rev = op[i].rev
    BY <1>5, <2>2 DEF CommittedOverStale
  <2>4. Open(e) /\ ~Saving(e)
    BY <2>1, <2>2 DEF At, Mismatch
  <2>5. CASE op[i].kind = "rename"
    <3>1. ~ed[e].dirty
      BY <1>5, <2>2, <2>5 DEF RenamedWhileTyping
    <3>2. ed[e].view = op[i].rev
      BY <2>3, <2>4, <3>1 DEF Mismatch
    <3>3. Title \in op[i].rev
      BY <1>5, <2>5 DEF CommitAt, TitleInv, RenamedTitle, Commits
    <3>4. ed'[e].view = ed'[e].rev
      <4>1. ed'[e].view = ed[e].view \cup {Title} /\ ed'[e].rev = op[i].rev
        BY <1>5, <2>2, <2>5, CommittedTexts
      <4>2. ed[e].view \cup {Title} = ed[e].view
        BY <3>2, <3>3
      <4>3. QED
        BY <3>2, <4>1, <4>2
    <3>5. QED
      BY <3>4 DEF Mismatch
  <2>6. CASE op[i].kind = "move"
    <3>1. ed'[e].view = ed[e].view /\ ed'[e].rev = ed[e].rev /\ ed'[e].dirty = ed[e].dirty
      BY <1>5, <2>2, <2>3, <2>6, CommittedTexts
    <3>2. QED
      BY <2>4, <3>1 DEF Mismatch
  <2>7. QED
    BY <2>2, <2>5, <2>6
<1>6. ASSUME NEW w \in Windows, Crash(w) PROVE FALSE
  <2>1. Saving(e) => Saving(e)'
    BY <1>6, QuietRetains DEF QuietOps, Retains
  <2>2. QED
    BY <1>6, <2>1, CrashedTexts DEF Mismatch, Open
<1>7. ASSUME NEW i \in Ids, Request(i) \/ RequestLost(i) PROVE FALSE
  <2>1. UNCHANGED ed
    BY <1>7 DEF Request, RequestLost
  <2>2. QED
    BY <1>1, <1>7, <2>1, RequestSaving, QuietUndisturbed DEF QuietEds
<1>8. QED
  BY <1>2, <1>3, <1>4, <1>5, <1>6, <1>7, StepKinds
-----------------------------------------------------------------------------
\* What relates the texts to the operations holds always.
LEMMA TextHolds == Spec => [](TypeInv /\ PathInv /\ TextInv /\ TitleInv)
<1>1. Init => TypeInv /\ PathInv /\ TextInv /\ TitleInv
  BY TypesInit, PathInit, TextInit, TitleInit
<1>2. TypeInv /\ PathInv /\ TextInv /\ TitleInv /\ [Next]_vars => (TypeInv /\ PathInv /\ TextInv /\ TitleInv)'
  BY TypesNext, PathNext, TextNext, TitleNext
<1>3. QED
  BY <1>1, <1>2, PTL DEF Spec

\* An edit is stored, in an editor that knows it is unsaved, or in a save on its way, unless
\* the code gives it up by a step that is named (MarkdownEditor.saveOnce, refreshAnnotations,
\* applyWorkspaceDocumentRename).
THEOREM EditsStayHolds == Spec => EditsStay
<1>1. (TypeInv /\ PathInv /\ TextInv /\ TitleInv) /\ [Next]_vars =>
          [\/ Lost' \subseteq Lost
           \/ RefreshChosen \/ Crashed \/ RenamedWhileTyping \/ RolledBack \/ SaveInVain
           \/ OverwroteUnseen]_vars
  BY NothingLost
<1>2. QED
  BY <1>1, TextHolds, PTL DEF Spec, EditsStay

\* An editor with nothing to save begins to refuse, and a lease outlives its operation, each
\* for its known cause only (MarkdownEditor.ts:682-689, documentManagement.ts:124-168).
THEOREM NothingLeftBehindHolds == Spec => NothingLeftBehind
<1>1. (TypeInv /\ PathInv /\ TextInv /\ TitleInv) /\ [Next]_vars =>
          [/\ \A e \in Editors : RefusesAnew(e) => Refresh(e) \/ SaveInVain
           /\ \A i \in Leaked' \ Leaked : LoadRevision(i)]_vars
  BY RefusesOnly, LeaksOnly
<1>2. QED
  BY <1>1, TextHolds, PTL DEF Spec, NothingLeftBehind

\* A clean editor shows the text that its revision is of, unless a commit met an editor that
\* had changed, or a save failed in vain (MarkdownEditor.ts:466-491, 501-530).
THEOREM ContentMatchesRevisionHolds == Spec => ContentMatchesRevision
<1>1. (TypeInv /\ PathInv /\ TextInv /\ TitleInv) /\ [Next]_vars =>
          [\A e \in Editors : Mismatch(e)' /\ ~Mismatch(e) =>
              RenamedWhileTyping \/ CommittedOverStale \/ SaveInVain]_vars
  BY MismatchOnly
<1>2. QED
  BY <1>1, TextHolds, PTL DEF Spec, ContentMatchesRevision
===============================================================================
