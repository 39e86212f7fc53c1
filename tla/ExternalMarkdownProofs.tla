------------------------- MODULE ExternalMarkdownProofs -------------------------
(***************************************************************************)
(* A Markdown file outside the workspace, for any numbers of edits, saves, *)
(* renames and mishaps: the annotations of a saved text stay with it, a    *)
(* text disappears only when a save replaces what its reader knows, and    *)
(* the answers of the service are true.                                    *)
(*                                                                         *)
(* What is proved of the notes holds while no sidecar is another program's *)
(* (Trusted).  It says where the annotations of a noted text are in every  *)
(* phase: beside it, or in the transaction that will put them there, by    *)
(* what the service believes in memory and by what a restart would read.   *)
(***************************************************************************)
EXTENDS ExternalMarkdown, TLAPS

Bodies == [id : Nat \ {0}, ver : Nat]
Sidecars == [id : Nat \ {0}, of : Nat, n : Nat]
Saves == [id : Nat \ {0}, body : Bodies, new : Sidecars, old : Sidecars \cup {None}]
Renames == [id : Nat, to : Paths, body : Nat \ {0}, side : Sidecars]
Records == [path : Paths, identity : Nat \ {0}, tx : Saves \cup {None}, ren : Renames \cup {None}]
Editing == [open : {TRUE}, text : Nat, rev : Bodies \cup {None}, notes : Sidecars \cup {None},
            annotated : BOOLEAN, dirty : BOOLEAN, conflict : Bodies \cup {None}]
SaveRequests == [kind : {"save"}, text : Nat, rev : Bodies \cup {None}, annotated : BOOLEAN,
                 notes : Sidecars \cup {None}, calm : BOOLEAN, placed : BOOLEAN, late : BOOLEAN]
Requests == SaveRequests \cup [kind : {"load"}, calm : BOOLEAN, placed : BOOLEAN]
              \cup [kind : {"rename"}, rev : Bodies \cup {None}, calm : BOOLEAN, placed : BOOLEAN]

Types ==
    /\ body \in [Paths -> Bodies \cup {None}] /\ side \in [Paths -> Sidecars \cup {None}]
    /\ tmp \in Bodies \cup {None} /\ record \in Records /\ registry \in Records
    /\ ed \in Editing \cup {Closed} /\ req \in Requests \cup {NoRequest}
    /\ clock \in Nat \ {0}
    /\ changes \in Nat /\ crashes \in Nat /\ faults \in Nat

\* Every number was handed out by the clock.
Numbered ==
    /\ \A p \in Paths : body[p] # None => body[p].id <= clock /\ body[p].ver <= clock
    /\ tmp # None => tmp.id <= clock /\ tmp.ver <= clock
    /\ \A rec \in {record, registry} : rec.tx # None => rec.tx.body.id <= clock
    /\ noted \subseteq 0..clock
    /\ ed.open => ed.text <= clock
    /\ req.kind = "save" => req.text <= clock

\* What the record holds, and what is asked for, in each phase.
Phases ==
    /\ \A rec \in {record, registry} : rec.tx = None \/ rec.ren = None
    /\ pc \in {"compare", "write", "check", "stage", "plan", "link", "unlink", "renamed", "tx_gone",
               "moved", "identify", "identified", "read"} => tx = None /\ ren = None
    /\ pc \in {"tx_known", "look", "commit", "drop", "install", "clean"} => tx # None /\ ren = None
    /\ pc \in {"ren_known", "link body", "unlink body", "link side", "unlink side"} =>
          tx = None /\ ren # None
    /\ pc \in {"write", "check", "stage", "tx_known", "place", "identify", "identified"} =>
          req.kind = "save"
    /\ pc \in {"plan", "link", "unlink", "renamed", "ren_known"} => req.kind = "rename"
    /\ pc = "compare" => req.kind \in {"save", "rename"}
    /\ pc \in {"stage", "tx_known"} => req.annotated
    /\ pc = "idle" <=> req = NoRequest
    /\ req.kind = "save" => ed.open /\ ed.dirty
    /\ req.kind = "rename" => ed.open
    /\ pc \in {"check", "stage", "tx_known", "place"} =>
          /\ tmp # None /\ tmp.ver = req.text
          /\ \A q \in Paths : body[q] # None => body[q].id # tmp.id
    /\ pc = "tx_known" => tx.body = tmp
    /\ pc = "place" =>
          /\ ren = None
          /\ IF req.annotated THEN tx # None /\ tx.body = tmp /\ registry = record ELSE tx = None

Noted(p) == body[p] # None /\ body[p].ver \in noted
Fine(p) == side[p] # None /\ side[p].of = body[p].ver

\* An unsaved text is noted when it has been stored with annotations, and only then.
Stored(text) == \E q \in Paths : body[q] # None /\ body[q].ver = text
Accounted(text, annotated) ==
    (text \in noted => annotated) /\ (annotated /\ Stored(text) => text \in noted)
Unsaved ==
    /\ ed.open /\ ed.dirty => Accounted(ed.text, ed.annotated)
    /\ req.kind = "save" =>
          /\ Accounted(req.text, req.annotated)
          /\ ed.text = req.text => ed.annotated = req.annotated

\* A transaction that the registry does not have has stored nothing.
Unplaced ==
    tx # None /\ registry.tx # tx => \A q \in Paths : body[q] # None => body[q].id # tx.body.id

\* A record's transactions lead to matching notes ...
Leads(rec) ==
    /\ rec.tx # None => rec.tx.new.of = rec.tx.body.ver
    /\ rec.ren # None =>
          /\ rec.path = NextPath(rec.ren.to)
          /\ \A q \in Paths : Noted(q) /\ body[q].id = rec.ren.body => rec.ren.side.of = body[q].ver
\* ... and they match already, or will when they are finished.
Matches(rec) ==
    rec.ren = None /\ Noted(rec.path) =>
        Fine(rec.path) \/ (rec.tx # None /\ body[rec.path] = rec.tx.body)

\* On the way there.
Halfway ==
    /\ pc \in {"commit", "drop", "install"} /\ Noted(record.path) => Body = tx.body
    /\ pc = "clean" /\ Noted(record.path) => Fine(record.path)
    /\ pc \in {"link", "unlink"} => ~Noted(record.path)
    /\ pc \in {"unlink", "renamed"} => ~Noted(NextPath(record.path))
    /\ pc = "unlink" => ~Noted(To)
    /\ pc \in {"unlink body", "link side", "unlink side"} /\ Noted(ren.to) => body[ren.to].id = ren.body
    /\ pc \in {"link side", "unlink side"} => ~Noted(NextPath(ren.to))
    /\ pc = "unlink side" => side[ren.to] = ren.side

\* What is so while no sidecar is another program's.
Trusted ==
    /\ Leads(record) /\ Leads(registry) /\ Matches(record)
    /\ Returning \/ Matches(registry)
    /\ Halfway

NotesInv ==
    /\ Types /\ Numbered /\ Phases /\ Unsaved /\ Unplaced
    /\ ~meddled /\ ~misled => Trusted
LEMMA EdFacts ==
    ASSUME NEW d \in Editing \cup {Closed}, d.open
    PROVE  /\ d \in Editing /\ d.text \in Nat /\ d.rev \in Bodies \cup {None} /\ d.notes \in Sidecars \cup {None}
           /\ d.annotated \in BOOLEAN /\ d.dirty \in BOOLEAN /\ d.conflict \in Bodies \cup {None}
<1>1. d # Closed
  <2>1. Closed.open = FALSE
    BY DEF Closed
  <2>2. QED
    BY <2>1
<1>2. d \in Editing
  BY <1>1
<1>3. QED
  BY <1>2 DEF Editing

LEMMA EdWith ==
    ASSUME NEW d \in Editing
    PROVE  /\ d.open
           /\ \A f \in Bodies \cup {None} :
                /\ [d EXCEPT !.conflict = f] \in Editing
                /\ [d EXCEPT !.rev = f] \in Editing
           /\ \A f \in Bodies \cup {None}, b \in BOOLEAN, s \in Sidecars \cup {None} :
                 /\ [d EXCEPT !.rev = f, !.dirty = b, !.notes = s] \in Editing
                 /\ [d EXCEPT !.rev = f, !.dirty = b, !.notes = s].text = d.text
                 /\ [d EXCEPT !.rev = f, !.dirty = b, !.notes = s].annotated = d.annotated
                 /\ [d EXCEPT !.rev = f, !.dirty = b, !.notes = s].dirty = b
           /\ \A t \in Nat, b \in BOOLEAN :
                 [d EXCEPT !.text = t, !.dirty = TRUE, !.annotated = b] \in Editing
BY DEF Editing

LEMMA ReqFacts ==
    ASSUME NEW r \in Requests \cup {NoRequest}
    PROVE  /\ r.kind = "save" => r \in SaveRequests
           /\ r.kind \in {"save", "load", "rename"} <=> r # NoRequest
           /\ r.kind \in {"save", "load", "rename", "none"}
           /\ r # NoRequest => r.calm \in BOOLEAN /\ r.placed \in BOOLEAN
BY DEF Requests, SaveRequests, NoRequest

LEMMA SaveFacts ==
    ASSUME NEW r \in SaveRequests
    PROVE  /\ r.kind = "save" /\ r.text \in Nat /\ r.rev \in Bodies \cup {None} /\ r.annotated \in BOOLEAN
           /\ r.notes \in Sidecars \cup {None} /\ r.late \in BOOLEAN
           /\ \A b \in BOOLEAN : [r EXCEPT !.calm = FALSE, !.late = b] \in SaveRequests
BY DEF SaveRequests

LEMMA ReqWith ==
    ASSUME NEW r \in Requests
    PROVE  /\ [r EXCEPT !.placed = TRUE] \in Requests /\ [r EXCEPT !.placed = TRUE].kind = r.kind
           /\ [r EXCEPT !.calm = FALSE] \in Requests /\ [r EXCEPT !.calm = FALSE].kind = r.kind
           /\ r.kind = "save" => [r EXCEPT !.placed = TRUE] \in SaveRequests /\ [r EXCEPT !.placed = TRUE].text = r.text
              /\ [r EXCEPT !.placed = TRUE].annotated = r.annotated
BY DEF Requests, SaveRequests

LEMMA RecFacts ==
    ASSUME NEW r \in Records
    PROVE  /\ r.path \in Paths /\ r.identity \in Nat /\ r.tx \in Saves \cup {None} /\ r.ren \in Renames \cup {None}
           /\ r.identity # 0 /\ \A n \in Nat \ {0} : [r EXCEPT !.identity = n] \in Records
           /\ \A p \in Paths : [r EXCEPT !.path = p] \in Records
           /\ \A t \in Saves \cup {None} : [r EXCEPT !.tx = t] \in Records
           /\ \A t \in Renames \cup {None} : [r EXCEPT !.ren = t] \in Records
           /\ \A p \in Paths, t \in Renames \cup {None} : [r EXCEPT !.path = p, !.ren = t] \in Records
BY DEF Records
-----------------------------------------------------------------------------
LEMMA TypesInit == Init => Types
<1> SUFFICES ASSUME Init PROVE Types
  OBVIOUS
<1>1. body \in [Paths -> Bodies \cup {None}] /\ side \in [Paths -> Sidecars \cup {None}]
  BY DEF Init, Bodies, Paths
<1>2. record \in Records /\ registry \in Records
  BY DEF Init, Records, Paths
<1>3. QED
  BY <1>1, <1>2 DEF Init, Types

\* Where both files are, and the transactions, in the state before.
LEMMA TypesHere ==
    ASSUME Types
    PROVE  /\ record.path \in Paths /\ Body \in Bodies \cup {None} /\ Side \in Sidecars \cup {None}
           /\ tx \in Saves \cup {None} /\ ren \in Renames \cup {None} /\ To \in Paths
           /\ \A p \in Paths : NextPath(p) \in Paths /\ NextPath(p) # p /\ NextPath(NextPath(p)) = p
           /\ \A p, q \in Paths : q # p => q = NextPath(p)
<1>1. \A p \in Paths : NextPath(p) \in Paths /\ NextPath(p) # p
  BY DEF Paths, NextPath
<1>2. \A p, q \in Paths : q # p => q = NextPath(p)
  BY <1>1 DEF Paths
<1>3. record \in Records
  BY DEF Types
<1>4. record.path \in Paths /\ tx \in Saves \cup {None} /\ ren \in Renames \cup {None}
  BY <1>3, RecFacts DEF tx, ren
<1>5. Body \in Bodies \cup {None} /\ Side \in Sidecars \cup {None}
  BY <1>4 DEF Types, Body, Side
<1>6. QED
  BY <1>1, <1>2, <1>4, <1>5 DEF To

\* How a step ends an operation, or goes on with it.
Ends == Refuse \/ (req.kind = "save" /\ Conflict) \/ \E next : Go(next)
Unedited ==
    /\ ed' \in Editing \cup {Closed} /\ ed'.open = ed.open
    /\ ed.open => ed'.text = ed.text /\ ed'.annotated = ed.annotated /\ ed'.dirty = ed.dirty
LEMMA EndFacts ==
    ASSUME Types, Phases, Ends
    PROVE  /\ tmp' \in {tmp, None} /\ req' \in {req, NoRequest}
           /\ tmp' \in Bodies \cup {None} /\ req' \in Requests \cup {NoRequest}
           /\ Unedited
<1>1. CASE Refuse
  BY <1>1 DEF Refuse, Done, Types, Unedited
<1>2. CASE req.kind = "save" /\ Conflict
  <2>1. ed.open
    BY <1>2 DEF Phases
  <2>2. ed \in Editing
    BY <2>1, EdFacts DEF Types
  <2>3. Body \in Bodies \cup {None}
    BY TypesHere
  <2>4. ed' = [ed EXCEPT !.conflict = Body]
    BY <1>2 DEF Conflict
  <2>5. ed' \in Editing /\ ed'.open
    BY <2>2, <2>3, <2>4, EdWith
  <2>6. ed'.text = ed.text /\ ed'.annotated = ed.annotated /\ ed'.dirty = ed.dirty
    BY <2>2, <2>4 DEF Editing
  <2>7. ed'.open = ed.open
    BY <2>2, <2>4 DEF Editing
  <2>8. QED
    BY <1>2, <2>5, <2>6, <2>7 DEF Conflict, Done, Types, Unedited
<1>3. CASE \E next : Go(next)
  BY <1>3 DEF Go, Types, Unedited
<1>4. QED
  BY <1>1, <1>2, <1>3 DEF Ends

LEMMA NextTypes ==
    ASSUME Types, Phases, [Next]_vars
    PROVE  Types'
<1>0. /\ record \in Records /\ registry \in Records /\ clock \in Nat \ {0}
      /\ body \in [Paths -> Bodies \cup {None}] /\ side \in [Paths -> Sidecars \cup {None}]
      /\ tmp \in Bodies \cup {None} /\ ed \in Editing \cup {Closed} /\ req \in Requests \cup {NoRequest}
      /\ changes \in Nat /\ crashes \in Nat /\ faults \in Nat
  BY DEF Types
<1>1. CASE Load
  BY <1>1 DEF Load, Ask, Types, disk, bounds, Requests
<1>2. CASE Type
  <2>1. ed \in Editing /\ ed.annotated \in BOOLEAN
    BY <1>0, <1>2, EdFacts DEF Type
  <2>2. PICK annotate \in BOOLEAN :
           ed' = [ed EXCEPT !.text = clock', !.dirty = TRUE, !.annotated = ed.annotated \/ annotate]
    BY <1>2 DEF Type
  <2>3. clock' \in Nat \ {0} /\ (ed.annotated \/ annotate) \in BOOLEAN
    BY <1>0, <1>2, <2>1 DEF Type
  <2>4. ed' \in Editing
    BY <2>1, <2>2, <2>3, EdWith
  <2>5. QED
    BY <1>2, <2>3, <2>4 DEF Type, Types, disk
<1>3. CASE SaveOnce \/ Overwrite
  <2>1. PICK r \in {ed.rev, ed.conflict} : SaveOver(r)
    BY <1>3 DEF SaveOnce, Overwrite
  <2>2. ed.open /\ ed \in Editing
    BY <1>0, <2>1, EdFacts DEF SaveOver
  <2>3. req' \in SaveRequests
    BY <2>1, <2>2, EdFacts DEF SaveOver, Ask, SaveRequests
  <2>4. ed' \in Editing
    BY <2>1, <2>2, EdWith DEF SaveOver
  <2>5. QED
    BY <2>1, <2>3, <2>4 DEF SaveOver, Ask, Types, disk, Requests
<1>4. CASE Reload
  BY <1>4 DEF Reload, Types, disk, bounds
<1>5. CASE Rename
  <2>1. ed.rev \in Bodies \cup {None}
    BY <1>0, <1>5, EdFacts DEF Rename
  <2>2. req' \in Requests
    BY <1>5, <2>1 DEF Rename, Ask, Requests
  <2>3. QED
    BY <1>5, <2>2 DEF Rename, Ask, Types, disk
<1>6. CASE Read
  <2>1. tmp' = None /\ req' = NoRequest
    BY <1>6 DEF Read, Refuse, Done
  <2>2. ed' \in Editing \cup {Closed}
    <3>1. CASE Body.id # record.identity
      BY <1>0, <1>6, <3>1 DEF Read, Refuse
    <3>2. CASE Body.id = record.identity
      <4>1. Body \in Bodies \cup {None} /\ Side \in Sidecars \cup {None}
        BY TypesHere
      <4>2. CASE req.kind = "load"
        <5>1. ed' = [open |-> TRUE, text |-> Body.ver, rev |-> Body, notes |-> Side,
                     annotated |-> Side # None, dirty |-> FALSE, conflict |-> None]
          BY <1>6, <3>2, <4>2 DEF Read
        <5>2. Body # None
          <6>1. record.identity # 0 /\ None.id = 0
            BY <1>0, RecFacts DEF None
          <6>2. QED
            BY <3>2, <6>1
        <5>3. Body \in Bodies /\ Body.ver \in Nat /\ (Side # None) \in BOOLEAN
          BY <4>1, <5>2 DEF Bodies
        <5>4. QED
          BY <4>1, <5>1, <5>3 DEF Editing
      <4>3. CASE req.kind # "load"
        <5>1. req.kind \in {"save", "rename"}
          BY <1>0, <1>6, <4>3, ReqFacts DEF Read, Phases
        <5>2. ed \in Editing
          BY <1>0, <5>1, EdFacts DEF Phases
        <5> PICK b : b = (ed.text # req.text)
          OBVIOUS
        <5> PICK s : s = IF req.annotated THEN Side ELSE ed.notes
          OBVIOUS
        <5>3. b \in BOOLEAN
          OBVIOUS
        <5>4. s \in Sidecars \cup {None}
          <6>1. ed.notes \in Sidecars \cup {None}
            BY <5>2 DEF Editing
          <6>2. QED
            BY <4>1, <6>1
        <5>5. \/ ed' = [ed EXCEPT !.rev = Body]
              \/ ed' = [ed EXCEPT !.rev = Body, !.dirty = b, !.notes = s]
          BY <1>6, <3>2, <5>1 DEF Read
        <5>6. CASE ed' = [ed EXCEPT !.rev = Body]
          BY <4>1, <5>2, <5>6, EdWith
        <5>7. CASE ed' = [ed EXCEPT !.rev = Body, !.dirty = b, !.notes = s]
          BY <4>1, <5>2, <5>3, <5>4, <5>7, EdWith
        <5>8. QED
          BY <5>5, <5>6, <5>7
      <4>4. QED
        BY <4>2, <4>3
    <3>3. QED
      BY <3>1, <3>2
  <2>3. QED
    BY <1>6, <2>1, <2>2 DEF Read, Types, disk, bounds
<1>7. CASE Persist
  BY <1>7 DEF Persist, Go, Types, disk, bounds
<1>8. CASE PersistFails
  <2>1. record' \in Records
    <3>1. record' \in {record, [record EXCEPT !.path = NextPath(record.path)]}
      BY <1>8 DEF PersistFails
    <3>2. NextPath(record.path) \in Paths
      BY TypesHere
    <3>3. QED
      BY <1>0, <3>1, <3>2, RecFacts
  <2>2. body' \in [Paths -> Bodies \cup {None}]
    BY <1>0, <1>8 DEF PersistFails
  <2>3. QED
    BY <1>0, <1>8, <2>1, <2>2 DEF PersistFails, Refuse, Done, Types
<1>9. CASE Look
  BY <1>9 DEF Look, Go, Refuse, Done, Types, disk, bounds
<1>10. ASSUME Ends, UNCHANGED <<body, registry, clock, bounds>>,
              side' \in [Paths -> Sidecars \cup {None}], record' \in Records
       PROVE  Types'
  BY <1>0, <1>10, EndFacts DEF Types, Unedited, bounds
<1>11. \A b \in Saves : b.body.id \in Nat \ {0} /\ b.new \in Sidecars
  BY DEF Saves, Bodies
<1>12. CASE Commit \/ Install \/ Cleanup
  <2>1. tx # None
    BY <1>12 DEF Commit, Install, Cleanup, Phases
  <2>2. tx.body.id \in Nat \ {0} /\ tx.new \in Sidecars
    BY <1>11, <2>1, TypesHere
  <2>3. record' \in Records
    <3>1. record' \in {record, [record EXCEPT !.identity = tx.body.id], [record EXCEPT !.tx = None]}
      BY <1>12 DEF Commit, Install, Cleanup
    <3>2. None \in Saves \cup {None}
      OBVIOUS
    <3>3. QED
      <4>1. CASE record' = [record EXCEPT !.identity = tx.body.id]
        BY <1>0, <2>2, <4>1, RecFacts
      <4>2. CASE record' = [record EXCEPT !.tx = None]
        BY <1>0, <3>2, <4>2, RecFacts
      <4>3. QED
        BY <1>0, <3>1, <4>1, <4>2
  <2>4. side' \in [Paths -> Sidecars \cup {None}]
    BY <1>0, <1>12, <2>2 DEF Commit, Install, Cleanup
  <2>5. Ends
    BY <1>12 DEF Commit, Install, Cleanup, AnnotationConflict, Ends
  <2>6. QED
    BY <1>10, <1>12, <2>3, <2>4, <2>5 DEF Commit, Install, Cleanup, bounds
<1>13. CASE DropOld
  <2>1. Ends
    BY <1>13 DEF DropOld, AnnotationConflict, Ends
  <2>2. QED
    BY <1>0, <1>10, <1>13, <2>1 DEF DropOld, bounds
<1>14. CASE RecoverRename
  <2>0. ren \in Renames /\ ren.to \in Paths /\ NextPath(ren.to) \in Paths
    <3>1. ren # None
      BY <1>14 DEF RecoverRename, Phases
    <3>2. QED
      BY <3>1, TypesHere DEF Renames
  <2>1. PICK part \in {"body", "side"} : (\E next : Link(part, next)) \/ Unlink(part)
    BY <1>14 DEF RecoverRename
  <2>2. Ends
    BY <2>1 DEF Link, Unlink, Ends
  <2>3. record' \in Records
    <3>1. record' \in {record, [record EXCEPT !.path = ren.to, !.ren = None]}
      BY <2>1 DEF Link, Unlink
    <3>2. None \in Renames \cup {None}
      OBVIOUS
    <3>3. QED
      <4>1. CASE record' = [record EXCEPT !.path = ren.to, !.ren = None]
        BY <1>0, <2>0, <3>2, <4>1, RecFacts
      <4>2. QED
        BY <1>0, <3>1, <4>1
  <2>4. body' \in [Paths -> Bodies \cup {None}] /\ side' \in [Paths -> Sidecars \cup {None}]
    BY <1>0, <2>0, <2>1 DEF Link, Unlink, Files, SetFiles
  <2>5. registry' = registry /\ clock' = clock /\ bounds' = bounds
    BY <2>1 DEF Link, Unlink
  <2>6. QED
    BY <1>0, <2>2, <2>3, <2>4, <2>5, EndFacts DEF Types, Unedited, bounds
<1>15. CASE Compare \/ Check
  <2>1. Ends
    BY <1>15 DEF Compare, Check, Phases, Ends
  <2>2. QED
    BY <1>0, <1>10, <1>15, <2>1 DEF Compare, Check, disk
<1>16. CASE WriteTemporary
  <2>1. req.kind = "save"
    BY <1>16 DEF WriteTemporary, Phases
  <2>2. req.text \in Nat
    BY <1>0, <2>1, ReqFacts, SaveFacts
  <2>3. clock' \in Nat \ {0} /\ tmp' \in Bodies
    BY <1>0, <1>16, <2>2 DEF WriteTemporary, Bodies
  <2>4. QED
    BY <1>16, <2>3 DEF WriteTemporary, Types, disk, bounds
<1>17. CASE Stage
  <2>1. req.kind = "save" /\ tmp \in Bodies
    BY <1>0, <1>17 DEF Stage, Phases
  <2>2. req.text \in Nat
    BY <1>0, <2>1, ReqFacts, SaveFacts
  <2>3. Ends
    BY <1>17, <2>1 DEF Stage, AnnotationConflict, Ends
  <2>4. record' \in Records /\ clock' \in Nat \ {0}
    <3>1. CASE Side # req.notes
      BY <1>0, <1>17, <3>1 DEF Stage
    <3>2. CASE Side = req.notes
      <4> PICK n : n = (IF Side = None THEN 0 ELSE Side.n) + 1
        OBVIOUS
      <4> PICK new : new = [id |-> clock', of |-> req.text, n |-> n]
        OBVIOUS
      <4> PICK t : t = [id |-> clock', body |-> tmp, new |-> new, old |-> Side]
        OBVIOUS
      <4>1. clock' \in Nat \ {0} /\ record' = [record EXCEPT !.tx = t]
        BY <1>0, <1>17, <3>2 DEF Stage
      <4>2. n \in Nat /\ Side \in Sidecars \cup {None}
        BY TypesHere DEF Sidecars
      <4>3. new \in Sidecars
        BY <2>2, <4>1, <4>2 DEF Sidecars
      <4>4. t \in Saves
        BY <2>1, <4>1, <4>2, <4>3 DEF Saves
      <4>5. QED
        BY <1>0, <4>1, <4>4, RecFacts
    <3>3. QED
      BY <3>1, <3>2
  <2>5. body' = body /\ side' = side /\ registry' = registry /\ bounds' = bounds
    BY <1>17 DEF Stage
  <2>6. QED
    BY <1>0, <2>3, <2>4, <2>5, EndFacts DEF Types, Unedited, bounds
<1>18. CASE Place
  <2>1. req \in Requests
    BY <1>0, <1>18, ReqFacts DEF Place, Phases
  <2>2. req' \in Requests
    BY <1>18, <2>1, ReqWith DEF Place
  <2>3. body' \in [Paths -> Bodies \cup {None}]
    BY <1>0, <1>18 DEF Place
  <2>4. QED
    BY <1>0, <1>18, <2>2, <2>3 DEF Place, Types, bounds
<1>19. CASE Identify
  <2>1. Ends
    BY <1>19 DEF Identify, Ends
  <2>2. record' \in Records
    <3>1. Body # None => Body.id \in Nat \ {0}
      BY TypesHere DEF Bodies
    <3>2. record' = record \/ (Body # None /\ record' = [record EXCEPT !.identity = Body.id])
      BY <1>19 DEF Identify
    <3>3. QED
      BY <1>0, <3>1, <3>2, RecFacts
  <2>3. QED
    BY <1>0, <1>10, <1>19, <2>1, <2>2 DEF Identify, disk
<1>20. CASE Plan
  <2>1. req \in Requests
    BY <1>0, <1>20, ReqFacts DEF Plan, Phases
  <2>2. CASE side[To] # None \/ (Side # None /\ body[To] # None) \/ Side = None
    <3>1. Ends /\ record' = record
      BY <1>20, <2>2 DEF Plan, Ends
    <3>2. QED
      BY <1>0, <1>10, <1>20, <3>1 DEF Plan, disk
  <2>3. CASE ~(side[To] # None \/ (Side # None /\ body[To] # None) \/ Side = None)
    <3> PICK t : t = [id |-> record.identity, to |-> To, body |-> record.identity, side |-> Side]
      OBVIOUS
    <3>1. record' = [record EXCEPT !.ren = t] /\ req' = [req EXCEPT !.placed = TRUE]
      BY <1>20, <2>3 DEF Plan
    <3>2. record.identity \in Nat \ {0} /\ To \in Paths /\ Side \in Sidecars
      BY <1>0, <2>3, TypesHere, RecFacts
    <3>3. t \in Renames
      BY <3>2 DEF Renames
    <3>4. record' \in Records /\ req' \in Requests
      BY <1>0, <2>1, <3>1, <3>3, RecFacts, ReqWith
    <3>5. QED
      BY <1>20, <2>3, <3>4 DEF Plan, Types, disk, bounds
  <2>4. QED
    BY <2>2, <2>3
<1>21. CASE LinkPlain
  <2>1. Ends
    BY <1>21 DEF LinkPlain, Ends
  <2>2. body' \in [Paths -> Bodies \cup {None}]
    BY <1>0, <1>21, TypesHere DEF LinkPlain
  <2>3. QED
    BY <1>0, <1>21, <2>1, <2>2, EndFacts DEF LinkPlain, Types, Unedited, bounds
<1>22. CASE UnlinkPlain
  <2>1. req \in Requests
    BY <1>0, <1>22, ReqFacts DEF UnlinkPlain, Phases
  <2>2. body' \in [Paths -> Bodies \cup {None}]
    BY <1>0, <1>22, TypesHere DEF UnlinkPlain
  <2>3. record' \in Records
    <3>1. record' \in {record, [record EXCEPT !.path = To]}
      BY <1>22 DEF UnlinkPlain
    <3>2. QED
      <4>1. CASE record' = [record EXCEPT !.path = To]
        BY <1>0, <4>1, TypesHere, RecFacts
      <4>2. QED
        BY <1>0, <3>1, <4>1
  <2>4. req' \in Requests \cup {NoRequest}
    BY <1>22, <2>1, ReqWith DEF UnlinkPlain, Refuse, Done
  <2>5. tmp' \in {tmp, None} /\ ed' = ed
    BY <1>22 DEF UnlinkPlain, Refuse
  <2>6. QED
    BY <1>0, <1>22, <2>2, <2>3, <2>4, <2>5 DEF UnlinkPlain, Types, bounds
<1>23. CASE OtherProgram
  <2>1. PICK p \in Paths : EditBody(p) \/ ReplaceBody(p) \/ WriteSide(p)
    BY <1>23 DEF OtherProgram
  <2>2. PICK b \in BOOLEAN : Noticed(b)
    BY <2>1 DEF EditBody, ReplaceBody, WriteSide
  <2>3. clock' \in Nat \ {0} /\ changes' \in Nat
    BY <1>0, <2>2 DEF Noticed
  <2>4. req' \in Requests \cup {NoRequest}
    <3>1. CASE req = NoRequest
      BY <2>2, <3>1 DEF Noticed
    <3>2. CASE req # NoRequest /\ req.kind # "save"
      BY <1>0, <2>2, <3>2, ReqWith DEF Noticed
    <3>3. CASE req # NoRequest /\ req.kind = "save"
      <4> PICK l : l = (req.late \/ (b /\ pc \in {"stage", "tx_known", "place"}))
        OBVIOUS
      <4>1. req \in SaveRequests
        BY <1>0, <3>3, ReqFacts
      <4>2. l \in BOOLEAN
        OBVIOUS
      <4>3. req' = [req EXCEPT !.calm = FALSE, !.late = l]
        BY <2>2, <3>3 DEF Noticed
      <4>4. QED
        BY <4>1, <4>2, <4>3, SaveFacts DEF Requests
    <3>4. QED
      BY <3>1, <3>2, <3>3
  <2>5. body' \in [Paths -> Bodies \cup {None}]
    <3>1. CASE EditBody(p)
      <4>1. \A q \in Paths : body[q].id = body[p].id => [body[q] EXCEPT !.ver = clock'] \in Bodies
        <5> TAKE q \in Paths
        <5>1. body[p] # None /\ body[p] \in Bodies
          BY <1>0, <3>1 DEF EditBody
        <5>2. body[q].id = body[p].id => body[q] \in Bodies
          BY <1>0, <5>1 DEF Bodies, None
        <5>3. QED
          BY <2>3, <5>2 DEF Bodies
      <4>2. QED
        BY <1>0, <3>1, <4>1 DEF EditBody
    <3>2. CASE ReplaceBody(p)
      BY <1>0, <2>3, <3>2 DEF ReplaceBody, Bodies
    <3>3. CASE WriteSide(p)
      BY <1>0, <3>3 DEF WriteSide
    <3>4. QED
      BY <2>1, <3>1, <3>2, <3>3
  <2>6. side' \in [Paths -> Sidecars \cup {None}]
    <3>1. CASE WriteSide(p)
      <4> PICK n : n = IF side[p] = None THEN 1 ELSE side[p].n + 1
        OBVIOUS
      <4> PICK s : s = [id |-> clock', of |-> body[p].ver, n |-> n]
        OBVIOUS
      <4>1. n \in Nat
        BY <1>0 DEF Sidecars
      <4>2. body[p].ver \in Nat
        BY <1>0, <3>1 DEF WriteSide, Bodies
      <4>3. s \in Sidecars
        BY <2>3, <4>1, <4>2 DEF Sidecars
      <4>4. side' = [side EXCEPT ![p] = s]
        BY <1>0, <3>1 DEF WriteSide
      <4>5. QED
        BY <1>0, <4>3, <4>4
    <3>2. CASE EditBody(p) \/ ReplaceBody(p)
      BY <1>0, <3>2 DEF EditBody, ReplaceBody
    <3>3. QED
      BY <2>1, <3>1, <3>2
  <2>7. QED
    BY <1>0, <2>2, <2>3, <2>4, <2>5, <2>6 DEF Noticed, Types
<1>24. CASE Crash
  BY <1>24 DEF Crash, Types, disk
<1>25. CASE UNCHANGED vars
  BY <1>25 DEF vars, Types, disk, bounds
<1>26. QED
  BY <1>1, <1>2, <1>3, <1>4, <1>5, <1>6, <1>7, <1>8, <1>9, <1>12, <1>13, <1>14, <1>15, <1>16,
     <1>17, <1>18, <1>19, <1>20, <1>21, <1>22, <1>23, <1>24, <1>25 DEF Next, Recover
-----------------------------------------------------------------------------
(* Numbers.                                                                *)

\* A step that hands out no number and stores no file.
LEMMA StillNumbered ==
    ASSUME Types, Phases, Numbered, Ends, clock' = clock, noted' = noted,
           \A p \in Paths : body'[p] \in {body[q] : q \in Paths} \cup {None},
           \A rec \in {record', registry'} : rec.tx \in {tx, registry.tx, None}
    PROVE  Numbered'
<1>1. \A p \in Paths : body'[p] # None => body'[p].id <= clock' /\ body'[p].ver <= clock'
  BY DEF Numbered
<1>2. tmp' # None => tmp'.id <= clock' /\ tmp'.ver <= clock'
  BY EndFacts DEF Numbered
<1>3. ed'.open => ed'.text <= clock'
  BY EndFacts DEF Numbered, Unedited
<1>4. req'.kind = "save" => req'.text <= clock'
  BY EndFacts DEF Numbered, NoRequest
<1>5. \A rec \in {record', registry'} : rec.tx # None => rec.tx.body.id <= clock'
  BY DEF Numbered, tx
<1>6. QED
  BY <1>1, <1>2, <1>3, <1>4, <1>5 DEF Numbered

\* What the clock has handed out stays handed out.
LEMMA NumbersGrow ==
    ASSUME Types, Numbered, clock' = clock + 1
    PROVE  /\ \A p \in Paths : body[p] # None => body[p].id <= clock' /\ body[p].ver <= clock'
           /\ tmp # None => tmp.id <= clock' /\ tmp.ver <= clock'
           /\ \A rec \in {record, registry} : rec.tx # None => rec.tx.body.id <= clock'
           /\ noted \subseteq 0..clock'
           /\ ed.open => ed.text <= clock'
           /\ req.kind = "save" => req.text <= clock'
<1>1. /\ record \in Records /\ registry \in Records /\ clock \in Nat
      /\ body \in [Paths -> Bodies \cup {None}] /\ tmp \in Bodies \cup {None}
      /\ ed \in Editing \cup {Closed} /\ req \in Requests \cup {NoRequest}
  BY DEF Types
<1>2. \A f \in Bodies : f.id \in Nat /\ f.ver \in Nat
  BY DEF Bodies
<1>3. \A p \in Paths : body[p] # None => body[p].id <= clock' /\ body[p].ver <= clock'
  BY <1>1, <1>2 DEF Numbered
<1>4. tmp # None => tmp.id <= clock' /\ tmp.ver <= clock'
  BY <1>1, <1>2 DEF Numbered
<1>5. \A rec \in {record, registry} : rec.tx # None => rec.tx.body.id <= clock'
  <2>1. \A rec \in {record, registry} : rec.tx # None => rec.tx.body.id \in Nat
    BY <1>1, RecFacts DEF Saves, Bodies
  <2>2. QED
    BY <1>1, <2>1 DEF Numbered
<1>6. noted \subseteq 0..clock'
  BY <1>1 DEF Numbered
<1>7. ed.open => ed.text <= clock'
  BY <1>1, EdFacts DEF Numbered
<1>8. req.kind = "save" => req.text <= clock'
  <2>1. req.kind = "save" => req \in SaveRequests
    BY <1>1, ReqFacts
  <2>2. req.kind = "save" => req.text \in Nat
    BY <2>1, SaveFacts
  <2>3. QED
    BY <1>1, <2>2 DEF Numbered
<1>9. QED
  BY <1>3, <1>4, <1>5, <1>6, <1>7, <1>8

\* What another program does to a request.
LEMMA NoticedReq ==
    ASSUME Types, NEW b \in BOOLEAN, Noticed(b)
    PROVE  /\ req'.kind = req.kind
           /\ req.kind = "save" => /\ req'.text = req.text /\ req'.annotated = req.annotated /\ req'.rev = req.rev
                                   /\ req'.placed = req.placed /\ req'.notes = req.notes
           /\ req = NoRequest <=> req' = NoRequest
<1>1. req \in Requests \cup {NoRequest}
  BY DEF Types
<1>2. CASE req = NoRequest
  BY <1>2 DEF Noticed, NoRequest
<1>3. CASE req # NoRequest /\ req.kind # "save"
  <2>1. req \in Requests /\ req' = [req EXCEPT !.calm = FALSE]
    BY <1>1, <1>3 DEF Noticed
  <2>2. req'.kind = req.kind /\ req' \in Requests
    BY <2>1, ReqWith
  <2>3. QED
    BY <1>3, <2>1, <2>2, ReqFacts
<1>4. CASE req # NoRequest /\ req.kind = "save"
  <2> PICK l : l = (req.late \/ (b /\ pc \in {"stage", "tx_known", "place"}))
    OBVIOUS
  <2>1. req \in SaveRequests
    BY <1>1, <1>4, ReqFacts
  <2>2. req' = [req EXCEPT !.calm = FALSE, !.late = l]
    BY <1>4 DEF Noticed
  <2>3. QED
    BY <1>4, <2>1, <2>2 DEF SaveRequests, NoRequest
<1>5. QED
  BY <1>2, <1>3, <1>4

\* What another program leaves.
LEMMA OtherFacts ==
    ASSUME Types, OtherProgram
    PROVE  /\ clock' = clock + 1 /\ UNCHANGED <<tmp, pending, kept, registry, record, pc, ed, noted, misled>>
           /\ \E b \in BOOLEAN : Noticed(b)
           /\ meddled => meddled'
           /\ ~meddled' => side' = side
           /\ \A q \in Paths :
                 \/ body'[q] = body[q] \/ body'[q] = None
                 \/ /\ body'[q] # None /\ body'[q].ver = clock'
                    /\ body'[q].id = clock' \/ (body[q] # None /\ body'[q].id = body[q].id)
<1>0. /\ clock \in Nat \ {0} /\ body \in [Paths -> Bodies \cup {None}]
  BY DEF Types
<1>1. PICK p \in Paths : EditBody(p) \/ ReplaceBody(p) \/ WriteSide(p)
  BY DEF OtherProgram
<1>2. PICK b \in BOOLEAN : Noticed(b)
  BY <1>1 DEF EditBody, ReplaceBody, WriteSide
<1>3. clock' = clock + 1 /\ UNCHANGED <<tmp, pending, kept, registry, record, pc, ed, noted, misled>>
  BY <1>2 DEF Noticed
<1>4. (meddled => meddled') /\ (~meddled' => side' = side)
  <2>1. CASE EditBody(p) \/ ReplaceBody(p)
    <3>1. meddled' = meddled /\ side' = side
      BY <2>1 DEF EditBody, ReplaceBody
    <3>2. QED
      BY <3>1
  <2>2. CASE WriteSide(p)
    <3>1. meddled' = TRUE
      BY <2>2 DEF WriteSide
    <3>2. QED
      BY <3>1
  <2>3. QED
    BY <1>1, <2>1, <2>2
<1>5. ASSUME NEW q \in Paths
      PROVE  \/ body'[q] = body[q] \/ body'[q] = None
             \/ /\ body'[q] # None /\ body'[q].ver = clock'
                /\ body'[q].id = clock' \/ (body[q] # None /\ body'[q].id = body[q].id)
  <2>1. CASE EditBody(p)
    <3>1. body[p] # None /\ body[p] \in Bodies /\ body[q] \in Bodies \cup {None}
      BY <1>0, <2>1 DEF EditBody
    <3>2. CASE body[q].id = body[p].id
      <4>1. body[q] \in Bodies
        BY <3>1, <3>2 DEF Bodies, None
      <4>2. body'[q] = [body[q] EXCEPT !.ver = clock']
        BY <2>1, <3>2 DEF EditBody
      <4>3. body'[q].ver = clock' /\ body'[q].id = body[q].id
        BY <4>1, <4>2 DEF Bodies
      <4>4. QED
        BY <4>1, <4>3 DEF Bodies, None
    <3>3. CASE body[q].id # body[p].id
      BY <2>1, <3>3 DEF EditBody
    <3>4. QED
      BY <3>2, <3>3
  <2>2. CASE ReplaceBody(p)
    <3>1. body'[q] \in {body[q], [id |-> clock', ver |-> clock'], None}
      BY <1>0, <2>2 DEF ReplaceBody
    <3>2. clock' # 0
      BY <1>0, <1>3
    <3>3. [id |-> clock', ver |-> clock'] # None
      BY <3>2 DEF None
    <3>4. QED
      BY <3>1, <3>3
  <2>3. CASE WriteSide(p)
    BY <2>3 DEF WriteSide
  <2>4. QED
    BY <1>1, <2>1, <2>2, <2>3
<1>6. QED
  BY <1>2, <1>3, <1>4, <1>5

LEMMA NextNumbered ==
    ASSUME Types, Phases, Numbered, Types', [Next]_vars
    PROVE  Numbered'
<1>0. /\ record \in Records /\ registry \in Records /\ clock \in Nat \ {0}
      /\ body \in [Paths -> Bodies \cup {None}] /\ side \in [Paths -> Sidecars \cup {None}]
      /\ tmp \in Bodies \cup {None} /\ ed \in Editing \cup {Closed} /\ req \in Requests \cup {NoRequest}
  BY DEF Types
<1>1. CASE Load \/ Rename \/ Reload
  <2>1. UNCHANGED <<body, tmp, record, registry, clock, noted>> /\ ed' \in {ed, Closed}
    BY <1>1 DEF Load, Rename, Reload, Ask, disk, history
  <2>2. req'.kind = "save" => req' = req
    BY <1>1 DEF Load, Rename, Reload, Ask
  <2>3. ed'.open => ed' = ed
    BY <2>1 DEF Closed
  <2>4. QED
    BY <2>1, <2>2, <2>3 DEF Numbered
<1>2. CASE Type
  <2>1. clock' = clock + 1 /\ UNCHANGED <<body, tmp, record, registry, req, noted>>
    BY <1>2 DEF Type, disk
  <2>2. ed \in Editing
    BY <1>0, <1>2, EdFacts DEF Type
  <2>3. ed'.text = clock'
    BY <1>2, <2>2 DEF Type, Editing
  <2>4. QED
    BY <1>0, <2>1, <2>3, NumbersGrow DEF Numbered
<1>3. CASE SaveOnce \/ Overwrite
  <2>1. ed.open /\ clock' = clock /\ body' = body /\ tmp' = tmp /\ record' = record /\ registry' = registry /\ noted' = noted
    BY <1>3 DEF SaveOnce, Overwrite, SaveOver, Ask, disk
  <2>2. ed \in Editing
    BY <1>0, <2>1, EdFacts
  <2>3. ed'.text = ed.text /\ req'.text = ed.text
    BY <1>3, <2>2 DEF SaveOnce, Overwrite, SaveOver, Ask, Editing
  <2>4. QED
    BY <2>1, <2>3 DEF Numbered
<1>4. CASE Read
  <2>1. tmp' = None /\ req' = NoRequest /\ clock' = clock /\ noted' = noted /\ UNCHANGED <<body, record, registry>>
    BY <1>4 DEF Read, Refuse, Done, disk
  <2>2. ed'.open => ed'.text <= clock'
    <3>1. CASE ed' = ed
      BY <2>1, <3>1 DEF Numbered
    <3>2. CASE ed' # ed /\ req.kind = "load"
      <4>1. ed'.text = Body.ver /\ Body.id = record.identity
        BY <1>4, <3>2 DEF Read, Refuse
      <4>2. Body # None
        <5>1. record.identity # 0 /\ None.id = 0
          BY <1>0, RecFacts DEF None
        <5>2. QED
          BY <4>1, <5>1
      <4>3. QED
        BY <2>1, <4>1, <4>2, TypesHere DEF Numbered, Body
    <3>3. CASE ed' # ed /\ req.kind # "load"
      <4>1. req.kind \in {"save", "rename"}
        BY <1>0, <1>4, <3>3, ReqFacts DEF Read, Phases
      <4>2. ed.open /\ ed \in Editing
        BY <1>0, <4>1, EdFacts DEF Phases
      <4> PICK b, s : b = (ed.text # req.text) /\ s = IF req.annotated THEN Side ELSE ed.notes
        OBVIOUS
      <4>3. \/ ed' = [ed EXCEPT !.rev = Body]
            \/ ed' = [ed EXCEPT !.rev = Body, !.dirty = b, !.notes = s]
        BY <1>4, <3>3, <4>1 DEF Read, Refuse
      <4>4. ed'.text = ed.text
        BY <4>2, <4>3 DEF Editing
      <4>5. QED
        BY <2>1, <4>2, <4>4 DEF Numbered
    <3>4. QED
      BY <3>1, <3>2, <3>3
  <2>3. QED
    BY <2>1, <2>2 DEF Numbered, NoRequest
<1>5. CASE Persist \/ Look \/ Compare \/ Check
  <2>1. Ends
    BY <1>5 DEF Persist, Look, Compare, Check, Phases, Ends
  <2>2. clock' = clock /\ noted' = noted /\ body' = body /\ record' = record /\ registry' \in {record, registry}
    BY <1>5 DEF Persist, Look, Compare, Check, disk, history
  <2>3. QED
    BY <2>1, <2>2, StillNumbered DEF tx
<1>6. CASE PersistFails
  <2>1. Ends /\ clock' = clock /\ noted' = noted
    BY <1>6 DEF PersistFails, Ends
  <2>2. \A p \in Paths : body'[p] \in {body[p], None}
    BY <1>0, <1>6 DEF PersistFails
  <2>3. record'.tx = tx /\ registry' \in {registry, record}
    BY <1>0, <1>6 DEF PersistFails, Records, tx
  <2>4. QED
    BY <2>1, <2>2, <2>3, StillNumbered DEF tx
<1>7. CASE Commit \/ DropOld \/ Install \/ Cleanup \/ Identify
  <2>1. Ends
    BY <1>7 DEF Commit, DropOld, Install, Cleanup, Identify, AnnotationConflict, Ends
  <2>2. clock' = clock /\ noted' = noted /\ body' = body /\ registry' = registry
    BY <1>7 DEF Commit, DropOld, Install, Cleanup, Identify, disk, history
  <2>3. record'.tx \in {tx, None}
    BY <1>0, <1>7 DEF Commit, DropOld, Install, Cleanup, Identify, Records, tx
  <2>4. QED
    BY <2>1, <2>2, <2>3, StillNumbered DEF tx
<1>8. CASE RecoverRename
  <2>1. PICK part \in {"body", "side"} : (\E next : Link(part, next)) \/ Unlink(part)
    BY <1>8 DEF RecoverRename
  <2>2. Ends /\ clock' = clock /\ noted' = noted /\ registry' = registry
    BY <2>1 DEF Link, Unlink, Ends, history
  <2>3. record'.tx = tx
    BY <1>0, <2>1 DEF Link, Unlink, Records, tx
  <2>4. ren.to \in Paths /\ NextPath(ren.to) \in Paths
    <3>1. ren # None
      BY <1>8 DEF RecoverRename, Phases
    <3>2. QED
      BY <3>1, TypesHere DEF Renames
  <2>5. \A p \in Paths : body'[p] \in {body[q] : q \in Paths} \cup {None}
    BY <1>0, <2>1, <2>4 DEF Link, Unlink, Files, SetFiles
  <2>6. QED
    BY <2>2, <2>3, <2>5, StillNumbered
<1>9. CASE WriteTemporary
  <2>1. clock' = clock + 1 /\ UNCHANGED <<body, record, registry, req, ed, noted>>
    BY <1>9 DEF WriteTemporary, disk, history
  <2>2. req.kind = "save" /\ tmp' = [id |-> clock', ver |-> req.text]
    BY <1>9 DEF WriteTemporary, Phases
  <2>3. req.text <= clock /\ req.text \in Nat
    BY <1>0, <2>2, ReqFacts, SaveFacts DEF Numbered
  <2>4. tmp'.id <= clock' /\ tmp'.ver <= clock'
    BY <1>0, <2>1, <2>2, <2>3
  <2>5. QED
    BY <1>0, <2>1, <2>4, NumbersGrow DEF Numbered
<1>10. CASE Stage
  <2>1. Ends /\ UNCHANGED <<body, registry, noted>>
    BY <1>10 DEF Stage, AnnotationConflict, Ends, history
  <2>2. CASE clock' = clock
    <3>1. record' = record
      BY <1>0, <1>10, <2>2 DEF Stage
    <3>2. QED
      BY <2>1, <2>2, <3>1, StillNumbered DEF tx
  <2>3. CASE clock' # clock
    <3>1. clock' = clock + 1 /\ UNCHANGED <<tmp, req, ed>>
      BY <1>10, <2>3 DEF Stage, Go
    <3>2. record'.tx.body = tmp
      BY <1>0, <1>10, <2>3 DEF Stage, Records
    <3>3. tmp # None
      BY <1>10 DEF Stage, Phases
    <3>4. tmp.id <= clock'
      BY <1>0, <3>1, <3>3, NumbersGrow
    <3>5. QED
      BY <1>0, <2>1, <3>1, <3>2, <3>4, NumbersGrow DEF Numbered
  <2>4. QED
    BY <2>2, <2>3
<1>11. CASE Place
  <2>1. tmp # None /\ clock' = clock /\ UNCHANGED <<record, registry, ed>>
    BY <1>11 DEF Place, Phases
  <2>2. req.kind = "save" /\ req' = [req EXCEPT !.placed = TRUE]
    BY <1>11 DEF Place, Phases
  <2>3. req \in Requests
    BY <1>0, <2>2, ReqFacts
  <2>4. req'.text = req.text /\ req.text \in 0..clock
    <3>1. req \in SaveRequests /\ req.text <= clock
      BY <1>0, <2>2, ReqFacts DEF Numbered
    <3>2. req.text \in Nat
      BY <3>1, SaveFacts
    <3>3. QED
      BY <1>0, <2>2, <2>3, <3>1, <3>2, ReqWith
  <2>5. \A p \in Paths : body'[p] \in {body[p], tmp}
    BY <1>0, <1>11 DEF Place
  <2>6. noted' \subseteq 0..clock
    BY <1>11, <2>4 DEF Place, Numbered
  <2>7. tmp' = None
    BY <1>11 DEF Place
  <2>8. QED
    BY <2>1, <2>4, <2>5, <2>6, <2>7 DEF Numbered
<1>12. CASE Plan
  <2>1. UNCHANGED <<body, registry, clock, noted, ed>> /\ tmp' \in {tmp, None}
    BY <1>12 DEF Plan, Go, Refuse, disk, history
  <2>2. record'.tx = tx
    BY <1>0, <1>12 DEF Plan, tx, Records
  <2>3. req.kind = "rename"
    BY <1>12 DEF Plan, Phases
  <2>4. req'.kind # "save"
    BY <1>0, <1>12, <2>3, ReqFacts, ReqWith DEF Plan, Go, Refuse, Done, NoRequest
  <2>5. QED
    BY <2>1, <2>2, <2>4 DEF Numbered, tx
<1>13. CASE LinkPlain
  <2>1. Ends /\ clock' = clock /\ noted' = noted /\ UNCHANGED <<record, registry>>
    BY <1>13 DEF LinkPlain, Ends, history
  <2>2. \A p \in Paths : body'[p] \in {body[p], Body}
    BY <1>0, <1>13 DEF LinkPlain
  <2>3. QED
    BY <2>1, <2>2, StillNumbered, TypesHere DEF tx, Body
<1>14. CASE UnlinkPlain
  <2>1. UNCHANGED <<registry, clock, noted, ed>> /\ tmp' \in {tmp, None}
    BY <1>14 DEF UnlinkPlain, Refuse, history
  <2>2. record'.tx = tx
    BY <1>0, <1>14 DEF UnlinkPlain, tx, Records
  <2>3. req.kind = "rename"
    BY <1>14 DEF UnlinkPlain, Phases
  <2>4. req'.kind # "save"
    BY <1>0, <1>14, <2>3, ReqFacts, ReqWith DEF UnlinkPlain, Refuse, Done, NoRequest
  <2>5. \A p \in Paths : body'[p] \in {body[p], None}
    BY <1>0, <1>14 DEF UnlinkPlain
  <2>6. QED
    BY <2>1, <2>2, <2>4, <2>5 DEF Numbered, tx
<1>15. CASE OtherProgram
  <2>1. clock' = clock + 1 /\ UNCHANGED <<tmp, record, registry, ed, noted>>
    BY <1>15, OtherFacts
  <2>2. req'.kind = "save" => req.kind = "save" /\ req'.text = req.text
    BY <1>15, OtherFacts, NoticedReq
  <2>3. ASSUME NEW q \in Paths, body'[q] # None
        PROVE  body'[q].id <= clock' /\ body'[q].ver <= clock'
    <3>1. clock' \in Nat
      BY <1>0, <2>1
    <3>2. QED
      BY <1>15, <2>1, <2>3, <3>1, OtherFacts, NumbersGrow
  <2>4. QED
    BY <2>1, <2>2, <2>3, NumbersGrow DEF Numbered
<1>16. CASE Crash
  BY <1>16 DEF Crash, Numbered, disk, Closed, NoRequest
<1>17. CASE UNCHANGED vars
  BY <1>17 DEF vars, Numbered, disk, history
<1>18. QED
  BY <1>1, <1>2, <1>3, <1>4, <1>5, <1>6, <1>7, <1>8, <1>9, <1>10, <1>11, <1>12, <1>13, <1>14, <1>15,
     <1>16, <1>17 DEF Next, Recover
-----------------------------------------------------------------------------
(* Phases.                                                                 *)

\* Ends are at rest.
LEMMA AtRest ==
    ASSUME pc' = "idle", req' = NoRequest,
           \A rec \in {record', registry'} : rec.tx = None \/ rec.ren = None
    PROVE  Phases'
BY DEF Phases, NoRequest

LEMMA AfterResume ==
    ASSUME Types', pc' = Resume(record', req'), req' # NoRequest,
           \A rec \in {record', registry'} : rec.tx = None \/ rec.ren = None,
           req'.kind = "save" => ed'.open /\ ed'.dirty,
           req'.kind = "rename" => ed'.open
    PROVE  Phases' /\ pc' \in {"link body", "look", "identify", "compare", "read"}
<1>1. req'.kind \in {"save", "load", "rename"}
  BY ReqFacts DEF Types
<1>2. CASE ren' # None
  <2>1. pc' = "link body" /\ tx' = None
    BY <1>2 DEF Resume, ren, tx
  <2>2. QED
    BY <1>2, <2>1 DEF Phases
<1>3. CASE ren' = None /\ tx' # None
  <2>1. pc' = "look"
    BY <1>3 DEF Resume, ren, tx
  <2>2. QED
    BY <1>3, <2>1 DEF Phases
<1>4. CASE ren' = None /\ tx' = None
  <2>1. pc' = Proceed(req')
    BY <1>4 DEF Resume, ren, tx
  <2>2. /\ pc' \in {"identify", "compare", "read"}
        /\ pc' = "identify" => req'.kind = "save"
        /\ pc' = "compare" => req'.kind \in {"save", "rename"}
    BY <1>1, <2>1 DEF Proceed
  <2>3. QED
    BY <1>4, <2>2 DEF Phases
<1>5. QED
  BY <1>2, <1>3, <1>4

LEMMA NextPhases ==
    ASSUME Types, Phases, Numbered, Types', [Next]_vars
    PROVE  Phases'
<1>0. /\ record \in Records /\ registry \in Records /\ clock \in Nat \ {0}
      /\ body \in [Paths -> Bodies \cup {None}] /\ side \in [Paths -> Sidecars \cup {None}]
      /\ tmp \in Bodies \cup {None} /\ ed \in Editing \cup {Closed} /\ req \in Requests \cup {NoRequest}
  BY DEF Types
<1>a. \A rec \in {record, registry} : rec.tx = None \/ rec.ren = None
  BY DEF Phases
<1>1. CASE Load
  <2>1. req' # NoRequest /\ req'.kind = "load"
    BY <1>1 DEF Load, Ask, NoRequest
  <2>2. QED
    BY <1>1, <1>a, <2>1, AfterResume DEF Load, Ask
<1>2. CASE Type
  <2>1. UNCHANGED <<body, tmp, record, registry, pc, req>>
    BY <1>2 DEF Type, disk
  <2>2. ed \in Editing
    BY <1>0, <1>2, EdFacts DEF Type
  <2>3. ed'.open /\ ed'.dirty
    BY <1>2, <2>2 DEF Type, Editing
  <2>4. QED
    BY <2>1, <2>3 DEF Phases, tx, ren
<1>3. CASE SaveOnce \/ Overwrite
  <2>1. ed.open /\ ed.dirty /\ UNCHANGED <<record, registry>> /\ pc' = Resume(record, req')
    BY <1>3 DEF SaveOnce, Overwrite, SaveOver, Ask
  <2>2. ed \in Editing
    BY <1>0, <2>1, EdFacts
  <2>3. ed'.open /\ ed'.dirty
    BY <1>3, <2>1, <2>2 DEF SaveOnce, Overwrite, SaveOver, Editing
  <2>4. req'.kind = "save"
    BY <1>3 DEF SaveOnce, Overwrite, SaveOver, Ask
  <2>5. req' # NoRequest
    BY <2>4 DEF NoRequest
  <2>6. QED
    BY <1>a, <2>1, <2>3, <2>4, <2>5, AfterResume
<1>4. CASE Reload
  BY <1>4, <1>a, AtRest DEF Reload, Phases
<1>5. CASE Rename
  <2>1. req'.kind = "rename" /\ ed' = ed /\ ed.open /\ UNCHANGED <<record, registry>> /\ pc' = Resume(record, req')
    BY <1>5 DEF Rename, Ask
  <2>2. req' # NoRequest
    BY <2>1 DEF NoRequest
  <2>3. QED
    BY <1>a, <2>1, <2>2, AfterResume
<1>6. CASE Read
  BY <1>6, <1>a, AtRest DEF Read, Refuse, Done
<1>7. CASE Persist
  <2>1. UNCHANGED <<body, tmp, record, req, ed>> /\ registry' = record
    BY <1>7 DEF Persist, Go, disk
  <2>2. req # NoRequest
    BY <1>7 DEF Persist, Phases, AfterPersist
  <2>3. CASE pc \in {"tx_gone", "moved"}
    <3>1. tx = None /\ ren = None
      BY <2>3 DEF Phases
    <3>2. pc' = Resume(record, req)
      <4>1. Resume(record, req) = Proceed(req)
        BY <3>1 DEF Resume, tx, ren
      <4>2. CASE pc = "tx_gone"
        BY <1>7, <4>1, <4>2 DEF Persist, Go, AfterPersist
      <4>3. CASE pc = "moved"
        BY <1>7, <4>3 DEF Persist, Go, AfterPersist
      <4>4. QED
        BY <2>3, <4>2, <4>3
    <3>3. QED
      BY <1>a, <2>1, <2>2, <3>2, AfterResume DEF Phases
  <2>4. CASE pc = "tx_known"
    <3>1. pc' = "place"
      BY <1>7, <2>4 DEF Persist, Go, AfterPersist
    <3>2. QED
      BY <2>1, <2>2, <2>4, <3>1 DEF Phases, tx, ren
  <2>5. CASE pc = "identified"
    <3>1. pc' = "read"
      BY <1>7, <2>5 DEF Persist, Go, AfterPersist
    <3>2. QED
      BY <2>1, <2>2, <2>5, <3>1 DEF Phases, tx, ren
  <2>6. CASE pc = "ren_known"
    <3>1. pc' = "link body"
      BY <1>7, <2>6 DEF Persist, Go, AfterPersist
    <3>2. QED
      BY <2>1, <2>2, <2>6, <3>1 DEF Phases, tx, ren
  <2>7. CASE pc = "renamed"
    <3>1. pc' = "read"
      BY <1>7, <2>7 DEF Persist, Go, AfterPersist
    <3>2. QED
      BY <2>1, <2>2, <2>7, <3>1 DEF Phases, tx, ren
  <2>8. QED
    BY <1>7, <2>3, <2>4, <2>5, <2>6, <2>7 DEF Persist, AfterPersist
<1>8. CASE PersistFails
  <2>1. record'.tx = tx /\ record'.ren = ren /\ registry' \in {registry, record}
    BY <1>0, <1>8 DEF PersistFails, Records, tx, ren
  <2>2. QED
    BY <1>8, <1>a, <2>1, AtRest DEF PersistFails, Refuse, Done, tx, ren
<1>9. ASSUME Ends, ~\E next : Go(next), record'.tx = tx, record'.ren = ren, registry' = registry
      PROVE  Phases'
  <2>1. pc' = "idle" /\ req' = NoRequest
    BY <1>9 DEF Ends, Refuse, Conflict, Done
  <2>2. QED
    BY <1>9, <1>a, <2>1, AtRest DEF tx, ren
<1>10. CASE Look \/ Commit \/ DropOld \/ Install
  <2>1. record'.tx = tx /\ record'.ren = ren /\ registry' = registry
    BY <1>0, <1>10 DEF Look, Commit, DropOld, Install, Records, tx, ren
  <2>2. tx # None /\ ren = None /\ req # NoRequest
    BY <1>10 DEF Look, Commit, DropOld, Install, Phases
  <2>3. CASE \E next : Go(next)
    <3>1. pc' \in {"commit", "clean", "drop", "install"}
      BY <1>10, <2>2, <2>3 DEF Look, Commit, DropOld, Install, Go, AnnotationConflict, Refuse, Conflict, Done
    <3>2. UNCHANGED <<tmp, req, ed>>
      BY <2>3 DEF Go
    <3>3. QED
      BY <1>a, <2>1, <2>2, <3>1, <3>2 DEF Phases, tx, ren
  <2>4. CASE ~\E next : Go(next)
    <3>1. Ends
      BY <1>10 DEF Look, Commit, DropOld, Install, AnnotationConflict, Ends
    <3>2. QED
      BY <1>9, <2>1, <2>4, <3>1
  <2>5. QED
    BY <2>3, <2>4
<1>11. CASE Cleanup
  <2>1. record'.tx = None /\ record'.ren = ren /\ registry' = registry
    BY <1>0, <1>11 DEF Cleanup, Records, ren
  <2>2. ren = None /\ req # NoRequest /\ pc' = "tx_gone" /\ UNCHANGED <<req, ed>>
    BY <1>11 DEF Cleanup, Phases, Go
  <2>3. QED
    BY <1>a, <2>1, <2>2 DEF Phases, tx, ren
<1>12. CASE RecoverRename
  <2>1. PICK part \in {"body", "side"} : (\E next \in {"unlink body", "unlink side"} : Link(part, next)) \/ Unlink(part)
    BY <1>12 DEF RecoverRename
  <2>2. registry' = registry /\ tx = None /\ ren # None /\ req # NoRequest
    BY <1>12, <2>1 DEF Link, Unlink, RecoverRename, Phases
  <2>3. record'.tx = tx
    BY <1>0, <2>1 DEF Link, Unlink, Records, tx
  <2>4. CASE \E next : Go(next)
    <3>1. UNCHANGED <<req, ed>>
      BY <2>4 DEF Go
    <3>2. CASE pc' = "moved"
      <4>1. record'.ren = None
        BY <1>0, <2>1, <3>2 DEF Link, Unlink, Go, Refuse, Done, Records
      <4>2. QED
        BY <1>a, <2>2, <2>3, <3>1, <3>2, <4>1 DEF Phases, tx, ren
    <3>3. CASE pc' # "moved"
      <4>1. pc' \in {"unlink body", "link side", "unlink side"} /\ record' = record
        BY <2>1, <2>2, <2>4, <3>3 DEF Link, Unlink, Go, Refuse, Done
      <4>2. QED
        BY <1>a, <2>2, <3>1, <4>1 DEF Phases, tx, ren
    <3>4. QED
      BY <3>2, <3>3
  <2>5. CASE ~\E next : Go(next)
    <3>1. Refuse /\ record'.tx = None
      BY <2>1, <2>2, <2>3, <2>5 DEF Link, Unlink
    <3>2. QED
      BY <1>a, <2>2, <3>1, AtRest DEF Refuse, Done
  <2>6. QED
    BY <2>4, <2>5
<1>13. CASE Compare
  <2>1. UNCHANGED <<body, record, registry>>
    BY <1>13 DEF Compare, disk
  <2>2. CASE pc' \in {"write", "plan"}
    <3>1. UNCHANGED <<req, ed>> /\ tx = None /\ ren = None /\ req.kind \in {"save", "rename"} /\ req # NoRequest
      BY <1>13, <2>2 DEF Compare, Go, Refuse, Conflict, Done, Phases
    <3>2. pc' = (IF req.kind = "save" THEN "write" ELSE "plan")
      BY <1>13, <2>2 DEF Compare, Go, Refuse, Conflict, Done
    <3>3. QED
      BY <1>a, <2>1, <3>1, <3>2 DEF Phases, tx, ren
  <2>3. CASE pc' \notin {"write", "plan"}
    <3>1. pc' = "idle" /\ req' = NoRequest
      BY <1>13, <2>3 DEF Compare, Go, Refuse, Conflict, Done
    <3>2. QED
      BY <1>a, <2>1, <3>1, AtRest
  <2>4. QED
    BY <2>2, <2>3
<1>14. CASE WriteTemporary
  <2>1. UNCHANGED <<body, record, registry, req, ed>> /\ pc' = "check" /\ clock' = clock + 1
        /\ tmp' = [id |-> clock', ver |-> req.text]
    BY <1>14 DEF WriteTemporary, disk
  <2>2. tx = None /\ ren = None /\ req.kind = "save" /\ req # NoRequest
    BY <1>14 DEF WriteTemporary, Phases
  <2>3. \A q \in Paths : body[q] # None => body[q].id # tmp'.id
    BY <1>0, <2>1 DEF Numbered, Bodies
  <2>4. tmp' # None /\ tmp'.ver = req.text
    BY <1>0, <2>1 DEF None
  <2>5. QED
    BY <1>a, <2>1, <2>2, <2>3, <2>4 DEF Phases, tx, ren
<1>15. CASE Check
  <2>1. UNCHANGED <<body, record, registry>>
    BY <1>15 DEF Check, disk
  <2>2. CASE pc' \in {"stage", "place"}
    <3>1. UNCHANGED <<req, ed, tmp>> /\ pc' = Checked
      BY <1>15, <2>2 DEF Check, Go, Refuse, Conflict, Done
    <3>2. tx = None /\ ren = None /\ req.kind = "save" /\ req # NoRequest
      BY <1>15 DEF Check, Phases
    <3>3. tmp # None /\ tmp.ver = req.text /\ \A q \in Paths : body[q] # None => body[q].id # tmp.id
      BY <1>15 DEF Check, Phases
    <3>4. pc' = "stage" <=> req.annotated
      BY <3>1 DEF Checked
    <3>5. QED
      BY <1>a, <2>1, <2>2, <3>1, <3>2, <3>3, <3>4 DEF Phases, tx, ren
  <2>3. CASE pc' \notin {"stage", "place"}
    <3>1. pc' = "idle" /\ req' = NoRequest
      BY <1>15, <2>3 DEF Check, Go, Refuse, Conflict, Done, Checked
    <3>2. QED
      BY <1>a, <2>1, <3>1, AtRest
  <2>4. QED
    BY <2>2, <2>3
<1>16. CASE Stage
  <2>1. UNCHANGED <<body, registry>>
    BY <1>16 DEF Stage
  <2>2. record'.ren = ren /\ (record'.tx = tx \/ record'.tx.body = tmp)
    BY <1>0, <1>16 DEF Stage, Records, tx, ren
  <2>3. tx = None /\ ren = None /\ req.kind = "save" /\ req # NoRequest /\ req.annotated
    BY <1>16 DEF Stage, Phases
  <2>4. CASE pc' = "tx_known"
    <3>1. UNCHANGED <<req, ed, tmp>> /\ Side = req.notes
      BY <1>16, <2>4 DEF Stage, Go, AnnotationConflict, Refuse, Conflict, Done
    <3>2. tmp # None /\ tmp.ver = req.text /\ \A q \in Paths : body[q] # None => body[q].id # tmp.id
      BY <1>16 DEF Stage, Phases
    <3>3. record'.tx # None /\ record'.tx.body = tmp
      BY <1>0, <1>16, <3>1 DEF Stage, Records, None
    <3>4. QED
      BY <1>a, <2>1, <2>2, <2>3, <2>4, <3>1, <3>2, <3>3 DEF Phases, tx, ren
  <2>5. CASE pc' # "tx_known"
    <3>1. pc' = "idle" /\ req' = NoRequest
      BY <1>16, <2>5 DEF Stage, Go, AnnotationConflict, Refuse, Conflict, Done
    <3>2. QED
      BY <1>a, <2>1, <2>2, <2>3, <3>1, AtRest
  <2>6. QED
    BY <2>4, <2>5
<1>17. CASE Place
  <2>1. req.kind = "save" /\ ed.open /\ ed.dirty
    BY <1>17 DEF Place, Phases
  <2>2. req \in Requests
    BY <1>0, <2>1, ReqFacts
  <2>3. req'.kind = "save" /\ req' # NoRequest
    <3>1. req'.kind = "save"
      BY <1>17, <2>1, <2>2, ReqWith DEF Place
    <3>2. QED
      BY <3>1 DEF NoRequest
  <2>4. UNCHANGED <<record, registry, ed>> /\ pc' = Resume(record, req')
    BY <1>17 DEF Place
  <2>5. QED
    BY <1>a, <2>1, <2>3, <2>4, AfterResume
<1>18. CASE Identify
  <2>1. record'.tx = tx /\ record'.ren = ren /\ registry' = registry
    BY <1>0, <1>18 DEF Identify, Records, tx, ren
  <2>2. tx = None /\ ren = None /\ req.kind = "save" /\ req # NoRequest
    BY <1>18 DEF Identify, Phases
  <2>3. CASE Body = None
    BY <1>18, <1>a, <2>1, <2>3, AtRest DEF Identify, Refuse, Done, tx, ren
  <2>4. CASE Body # None
    <3>1. pc' = "identified" /\ UNCHANGED <<req, ed>>
      BY <1>18, <2>4 DEF Identify, Go
    <3>2. QED
      BY <1>a, <2>1, <2>2, <3>1 DEF Phases, tx, ren
  <2>5. QED
    BY <2>3, <2>4
<1>19. CASE Plan
  <2>1. record'.tx = tx /\ UNCHANGED <<registry, ed>>
    BY <1>0, <1>19 DEF Plan, Records, Go, Refuse, tx
  <2>2. tx = None /\ ren = None /\ req.kind = "rename" /\ req # NoRequest
    BY <1>19 DEF Plan, Phases
  <2>3. CASE pc' = "idle"
    BY <1>19, <1>a, <2>1, <2>2, <2>3, AtRest DEF Plan, Refuse, Go, Done, tx
  <2>4. CASE pc' = "link"
    <3>1. UNCHANGED <<req, record>>
      BY <1>19, <2>4 DEF Plan, Refuse, Go, Done
    <3>2. QED
      BY <1>a, <2>1, <2>2, <2>4, <3>1 DEF Phases, tx, ren
  <2>5. CASE pc' = "ren_known"
    <3>1. req' = [req EXCEPT !.placed = TRUE]
      BY <1>19, <2>5 DEF Plan, Refuse, Go, Done
    <3>2. req'.kind = "rename"
      BY <1>0, <2>2, <3>1, ReqWith
    <3>3. record'.ren # None
      <4>1. record' = [record EXCEPT !.ren = [id |-> record.identity, to |-> To,
                                              body |-> record.identity, side |-> Side]]
        BY <1>19, <2>5 DEF Plan, Refuse, Go, Done
      <4>2. record'.ren = [id |-> record.identity, to |-> To, body |-> record.identity, side |-> Side]
        BY <1>0, <4>1 DEF Records
      <4>3. record.identity # 0
        BY <1>0, RecFacts
      <4>4. QED
        BY <4>2, <4>3 DEF None
    <3>4. req' # NoRequest
      BY <3>2 DEF NoRequest
    <3>5. QED
      BY <1>a, <2>1, <2>2, <2>5, <3>2, <3>3, <3>4 DEF Phases, tx, ren
  <2>6. QED
    BY <1>19, <2>3, <2>4, <2>5 DEF Plan, Refuse, Go, Done
<1>20. CASE LinkPlain
  <2>1. UNCHANGED <<record, registry>>
    BY <1>20 DEF LinkPlain
  <2>2. tx = None /\ ren = None /\ req.kind = "rename" /\ req # NoRequest
    BY <1>20 DEF LinkPlain, Phases
  <2>3. (pc' = "idle" /\ req' = NoRequest) \/ (pc' = "unlink" /\ UNCHANGED <<req, ed>>)
    BY <1>20 DEF LinkPlain, Refuse, Done, Go
  <2>4. CASE pc' = "unlink" /\ UNCHANGED <<req, ed>>
    BY <1>a, <2>1, <2>2, <2>4 DEF Phases, tx, ren
  <2>5. QED
    BY <1>a, <2>1, <2>3, <2>4, AtRest
<1>21. CASE UnlinkPlain
  <2>1. record'.tx = tx /\ record'.ren = ren /\ UNCHANGED <<registry, ed>>
    BY <1>0, <1>21 DEF UnlinkPlain, Records, Refuse, tx, ren
  <2>2. tx = None /\ ren = None /\ req.kind = "rename" /\ req # NoRequest
    BY <1>21 DEF UnlinkPlain, Phases
  <2>3. CASE Body = None
    BY <1>21, <1>a, <2>1, <2>3, AtRest DEF UnlinkPlain, Refuse, Done, tx, ren
  <2>4. CASE Body # None
    <3>1. pc' = "renamed" /\ req' = [req EXCEPT !.placed = TRUE]
      BY <1>21, <2>4 DEF UnlinkPlain
    <3>2. req'.kind = "rename"
      BY <1>0, <2>2, <3>1, ReqWith
    <3>3. req' # NoRequest
      BY <3>2 DEF NoRequest
    <3>4. QED
      BY <1>a, <2>1, <2>2, <3>1, <3>2, <3>3 DEF Phases, tx, ren
  <2>5. QED
    BY <2>3, <2>4
<1>22. CASE OtherProgram
  <2>1. clock' = clock + 1 /\ UNCHANGED <<tmp, record, registry, ed, pc>>
    BY <1>22, OtherFacts
  <2>2. /\ req'.kind = req.kind /\ (req = NoRequest <=> req' = NoRequest)
        /\ req.kind = "save" => req'.text = req.text /\ req'.annotated = req.annotated
    BY <1>22, OtherFacts, NoticedReq
  <2>3. \A q \in Paths : body'[q] = None \/ body'[q].id = clock' \/ (body[q] # None /\ body'[q].id = body[q].id)
    BY <1>22, OtherFacts
  <2>4. CASE pc \in {"check", "stage", "tx_known", "place"}
    <3>1. req.kind = "save" /\ tmp # None
      BY <2>4 DEF Phases
    <3>2. tmp.id <= clock /\ tmp.id \in Nat
      BY <1>0, <3>1 DEF Numbered, Bodies
    <3>3. \A q \in Paths : body'[q] # None => body'[q].id # tmp.id
      <4>1. \A q \in Paths : body[q] # None => body[q].id # tmp.id
        BY <2>4 DEF Phases
      <4>2. clock' # tmp.id
        BY <1>0, <2>1, <3>2
      <4>3. QED
        BY <2>3, <4>1, <4>2
    <3>4. QED
      BY <2>1, <2>2, <3>1, <3>3 DEF Phases, tx, ren
  <2>5. CASE pc \notin {"check", "stage", "tx_known", "place"}
    BY <2>1, <2>2, <2>5 DEF Phases, tx, ren
  <2>6. QED
    BY <2>4, <2>5
<1>23. CASE Crash
  BY <1>23, <1>a, AtRest DEF Crash, disk
<1>24. CASE UNCHANGED vars
  BY <1>24 DEF vars, Phases, disk, tx, ren
<1>25. QED
  BY <1>1, <1>2, <1>3, <1>4, <1>5, <1>6, <1>7, <1>8, <1>10, <1>11, <1>12, <1>13, <1>14, <1>15,
     <1>16, <1>17, <1>18, <1>19, <1>20, <1>21, <1>22, <1>23, <1>24 DEF Next, Recover
-----------------------------------------------------------------------------
(* Unsaved texts, and transactions that have stored nothing.               *)

\* Apart from a save and another program, files are only moved.
LEMMA KeptBodies ==
    ASSUME Types, Phases, [Next]_vars, ~Place, ~OtherProgram
    PROVE  noted' = noted /\ \A p \in Paths : body'[p] \in {body[q] : q \in Paths} \cup {None}
<1>0. body \in [Paths -> Bodies \cup {None}] /\ \A p \in Paths : body[p] \in {body[q] : q \in Paths}
  BY DEF Types
<1>1. CASE Load \/ Type \/ SaveOnce \/ Overwrite \/ Reload \/ Rename \/ Read \/ Persist
  <2>1. body' = body /\ noted' = noted
    BY <1>1 DEF Load, Type, SaveOnce, Overwrite, SaveOver, Reload, Rename, Read, Persist, Ask, disk, history
  <2>2. QED
    BY <1>0, <2>1
<1>2. CASE Look \/ Commit \/ DropOld \/ Install \/ Cleanup \/ Compare \/ WriteTemporary
  <2>1. body' = body /\ noted' = noted
    BY <1>2 DEF Look, Commit, DropOld, Install, Cleanup, Compare, WriteTemporary, disk, history
  <2>2. QED
    BY <1>0, <2>1
<1>3. CASE Check \/ Stage \/ Identify \/ Plan \/ Crash \/ UNCHANGED vars
  <2>1. body' = body /\ noted' = noted
    BY <1>3 DEF Check, Stage, Identify, Plan, Crash, vars, disk, history
  <2>2. QED
    BY <1>0, <2>1
<1>4. CASE PersistFails
  BY <1>0, <1>4 DEF PersistFails
<1>5. CASE RecoverRename
  <2>1. PICK part \in {"body", "side"} : (\E next : Link(part, next)) \/ Unlink(part)
    BY <1>5 DEF RecoverRename
  <2>2. ren.to \in Paths /\ NextPath(ren.to) \in Paths
    <3>1. ren # None
      BY <1>5 DEF RecoverRename, Phases
    <3>2. QED
      BY <3>1, TypesHere DEF Renames
  <2>3. QED
    BY <1>0, <2>1, <2>2 DEF Link, Unlink, Files, SetFiles, history
<1>6. CASE LinkPlain \/ UnlinkPlain
  <2>1. \A p \in Paths : body'[p] \in {body[p], Body, None}
    BY <1>0, <1>6 DEF LinkPlain, UnlinkPlain
  <2>2. QED
    BY <1>0, <1>6, <2>1, TypesHere DEF LinkPlain, UnlinkPlain, Body, history
<1>7. QED
  BY <1>1, <1>2, <1>3, <1>4, <1>5, <1>6 DEF Next, Recover

\* A transaction is changed only when a save is staged, and saved as it is.
LEMMA KeptTx ==
    ASSUME Types, Phases, [Next]_vars, ~Stage
    PROVE  registry'.tx = record'.tx \/ (registry'.tx = registry.tx /\ record'.tx \in {tx, None})
<1>0. record \in Records /\ registry \in Records
  BY DEF Types
<1>1. CASE Load \/ Type \/ SaveOnce \/ Overwrite \/ Reload \/ Rename \/ Read \/ Persist
  BY <1>1 DEF Load, Type, SaveOnce, Overwrite, SaveOver, Reload, Rename, Read, Persist, Ask, disk, tx
<1>2. CASE Look \/ Commit \/ DropOld \/ Install \/ Cleanup \/ Compare \/ WriteTemporary
  BY <1>0, <1>2 DEF Look, Commit, DropOld, Install, Cleanup, Compare, WriteTemporary, Records, disk, tx
<1>3. CASE Check \/ Place \/ Identify \/ Plan \/ Crash \/ UNCHANGED vars
  BY <1>0, <1>3 DEF Check, Place, Identify, Plan, Crash, vars, disk, Records, tx
<1>4. CASE PersistFails
  BY <1>0, <1>4 DEF PersistFails, Records, tx
<1>5. CASE RecoverRename
  BY <1>0, <1>5 DEF RecoverRename, Link, Unlink, Records, tx
<1>6. CASE LinkPlain \/ UnlinkPlain
  BY <1>0, <1>6 DEF LinkPlain, UnlinkPlain, Records, tx
<1>7. CASE OtherProgram
  BY <1>7, OtherFacts DEF tx
<1>8. QED
  BY <1>1, <1>2, <1>3, <1>4, <1>5, <1>6, <1>7 DEF Next, Recover

LEMMA NextUnplaced ==
    ASSUME Types, Phases, Numbered, Unplaced, [Next]_vars
    PROVE  Unplaced'
<1>0. /\ record \in Records /\ registry \in Records /\ clock \in Nat \ {0}
      /\ body \in [Paths -> Bodies \cup {None}]
  BY DEF Types
<1>1. CASE Stage
  <2>1. \A q \in Paths : body[q] # None => body[q].id # tmp.id
    BY <1>1 DEF Stage, Phases
  <2>2. UNCHANGED body /\ (record'.tx = tx \/ record'.tx.body = tmp)
    BY <1>0, <1>1 DEF Stage, Records, tx
  <2>3. tx = None
    BY <1>1 DEF Stage, Phases
  <2>4. QED
    BY <2>1, <2>2, <2>3 DEF Unplaced, tx
<1>2. CASE Place
  <2>1. tx = None \/ registry = record
    BY <1>2 DEF Place, Phases
  <2>2. QED
    BY <1>2, <2>1 DEF Place, Unplaced, tx
<1>3. CASE OtherProgram
  <2>1. record' = record /\ registry' = registry /\ clock' = clock + 1
    BY <1>3, OtherFacts
  <2>2. ASSUME tx # None, registry.tx # tx, NEW q \in Paths, body'[q] # None
        PROVE  body'[q].id # tx.body.id
    <3>1. tx.body.id <= clock /\ tx.body.id \in Nat
      BY <1>0, <2>2, TypesHere DEF Numbered, tx, Saves, Bodies
    <3>2. body[q] # None => body[q].id # tx.body.id
      BY <2>2 DEF Unplaced
    <3>3. clock' # tx.body.id
      BY <1>0, <2>1, <3>1
    <3>4. QED
      BY <1>3, <2>2, <3>2, <3>3, OtherFacts
  <2>3. QED
    BY <2>1, <2>2 DEF Unplaced, tx
<1>4. CASE ~Stage /\ ~Place /\ ~OtherProgram
  <2>1. registry'.tx = record'.tx \/ (registry'.tx = registry.tx /\ record'.tx \in {tx, None})
    BY <1>4, KeptTx
  <2>2. \A p \in Paths : body'[p] \in {body[q] : q \in Paths} \cup {None}
    BY <1>4, KeptBodies
  <2>3. QED
    BY <2>1, <2>2 DEF Unplaced, tx
<1>5. QED
  BY <1>1, <1>2, <1>3, <1>4

LEMMA NextUnsaved ==
    ASSUME Types, Phases, Numbered, Unsaved, Types', [Next]_vars
    PROVE  Unsaved'
<1>0. /\ record \in Records /\ registry \in Records /\ clock \in Nat \ {0}
      /\ body \in [Paths -> Bodies \cup {None}] /\ side \in [Paths -> Sidecars \cup {None}]
      /\ tmp \in Bodies \cup {None} /\ ed \in Editing \cup {Closed} /\ req \in Requests \cup {NoRequest}
  BY DEF Types
<1>1. CASE Place
  <2>1. req.kind = "save" /\ tmp.ver = req.text /\ ed' = ed
    BY <1>1 DEF Place, Phases
  <2>2. req' = [req EXCEPT !.placed = TRUE] /\ req \in Requests
    BY <1>0, <1>1, <2>1, ReqFacts DEF Place
  <2>3. req'.kind = "save" /\ req'.text = req.text /\ req'.annotated = req.annotated
    BY <2>1, <2>2, ReqWith
  <2>4. \A t : Stored(t)' => Stored(t) \/ t = req.text
    BY <1>0, <1>1, <2>1 DEF Place, Stored
  <2>5. noted' = IF req.annotated THEN noted \cup {req.text} ELSE noted
    BY <1>1 DEF Place
  <2>6. Accounted(req.text, req.annotated)'
    BY <2>1, <2>5, <2>3 DEF Accounted, Unsaved
  <2>7. ed.open /\ ed.dirty => Accounted(ed.text, ed.annotated)'
    <3>1. CASE ed.text = req.text
      BY <2>1, <2>3, <2>5, <3>1 DEF Accounted, Unsaved
    <3>2. CASE ed.text # req.text
      BY <2>1, <2>4, <2>5, <3>2 DEF Accounted, Unsaved
    <3>3. QED
      BY <3>1, <3>2
  <2>8. QED
    BY <2>1, <2>3, <2>6, <2>7 DEF Unsaved
<1>2. CASE OtherProgram
  <2>1. clock' = clock + 1 /\ UNCHANGED <<ed, noted>>
    BY <1>2, OtherFacts
  <2>2. req'.kind = req.kind /\ (req.kind = "save" => req'.text = req.text /\ req'.annotated = req.annotated)
    BY <1>2, OtherFacts, NoticedReq
  <2>3. \A t : Stored(t)' => Stored(t) \/ t = clock'
    BY <1>2, OtherFacts DEF Stored
  <2>4. ed.open => ed.text # clock'
    <3>1. ed.open => ed.text \in Nat /\ ed.text <= clock
      BY <1>0, EdFacts DEF Numbered
    <3>2. QED
      BY <1>0, <2>1, <3>1
  <2>5. req.kind = "save" => req.text # clock'
    <3>1. req.kind = "save" => req \in SaveRequests
      BY <1>0, ReqFacts
    <3>2. req.kind = "save" => req.text \in Nat /\ req.text <= clock
      BY <3>1, SaveFacts DEF Numbered
    <3>3. QED
      BY <1>0, <2>1, <3>2
  <2>6. ed.open /\ ed.dirty => Accounted(ed.text, ed.annotated)'
    BY <2>1, <2>3, <2>4 DEF Accounted, Unsaved
  <2>7. req.kind = "save" => Accounted(req.text, req.annotated)'
    BY <2>1, <2>2, <2>3, <2>5 DEF Accounted, Unsaved
  <2>8. QED
    BY <2>1, <2>2, <2>6, <2>7 DEF Unsaved
<1>3. CASE ~Place /\ ~OtherProgram
  <2>1. noted' = noted /\ \A t : Stored(t)' => Stored(t)
    BY <1>3, KeptBodies DEF Stored
  <2>2. CASE Type
    <3>1. clock' = clock + 1 /\ UNCHANGED <<body, req>>
      BY <2>2 DEF Type, disk
    <3>2. ed \in Editing
      BY <1>0, <2>2, EdFacts DEF Type
    <3>3. ed'.text = clock'
      BY <2>2, <3>2 DEF Type, Editing
    <3>4. \A q \in Paths : body[q] # None => body[q].ver # clock'
      BY <1>0, <3>1 DEF Numbered, Bodies
    <3>5. ~Stored(clock') /\ clock' \notin noted
      BY <1>0, <3>1, <3>4 DEF Stored, Numbered
    <3>6. req.kind = "save" => req.text # clock'
      <4>1. req.kind = "save" => req \in SaveRequests
        BY <1>0, ReqFacts
      <4>2. req.kind = "save" => req.text \in Nat /\ req.text <= clock
        BY <4>1, SaveFacts DEF Numbered
      <4>3. QED
        BY <1>0, <3>1, <4>2
    <3>7. Accounted(ed.text, ed.annotated)'
      BY <2>1, <3>3, <3>5 DEF Accounted
    <3>8. req.kind = "save" => Accounted(req.text, req.annotated)'
      BY <2>1, <3>1 DEF Accounted, Unsaved
    <3>9. QED
      BY <3>1, <3>3, <3>6, <3>7, <3>8 DEF Unsaved
  <2>3. CASE SaveOnce \/ Overwrite
    <3>1. ed.open /\ ed.dirty
      BY <2>3 DEF SaveOnce, Overwrite, SaveOver
    <3>2. ed \in Editing
      BY <1>0, <3>1, EdFacts
    <3>3. ed'.text = ed.text /\ ed'.annotated = ed.annotated
      BY <2>3, <3>2 DEF SaveOnce, Overwrite, SaveOver, Editing
    <3>4. req'.text = ed.text /\ req'.annotated = ed.annotated
      BY <2>3 DEF SaveOnce, Overwrite, SaveOver, Ask
    <3>5. Accounted(ed.text, ed.annotated)' /\ Accounted(req.text, req.annotated)'
      BY <2>1, <3>1, <3>3, <3>4 DEF Accounted, Unsaved
    <3>6. QED
      BY <3>3, <3>4, <3>5 DEF Unsaved
  <2>4. ASSUME ed'.open /\ ed'.dirty => ed.open /\ ed.dirty /\ ed'.text = ed.text /\ ed'.annotated = ed.annotated,
               req'.kind = "save" => /\ req.kind = "save" /\ req'.text = req.text /\ req'.annotated = req.annotated
                                     /\ ed' = ed
        PROVE  Unsaved'
    <3>1. ed'.open /\ ed'.dirty => Accounted(ed.text, ed.annotated)'
      BY <2>1, <2>4 DEF Accounted, Unsaved
    <3>2. req'.kind = "save" => Accounted(req.text, req.annotated)'
      BY <2>1, <2>4 DEF Accounted, Unsaved
    <3>3. QED
      BY <2>4, <3>1, <3>2 DEF Unsaved
  <2>5. CASE Load \/ Rename \/ Reload
    <3>1. ed' \in {ed, Closed} /\ (req'.kind = "save" => req' = req /\ req = NoRequest)
      <4>1. CASE Load \/ Rename
        <5>1. ed' = ed /\ req'.kind # "save"
          BY <4>1 DEF Load, Rename, Ask
        <5>2. QED
          BY <5>1
      <4>2. CASE Reload
        BY <4>2 DEF Reload, Phases
      <4>3. QED
        BY <2>5, <4>1, <4>2
    <3>2. QED
      BY <2>4, <3>1 DEF Closed, NoRequest
  <2>6. CASE Read
    <3>1. req'.kind # "save"
      BY <2>6 DEF Read, Refuse, Done, NoRequest
    <3>2. CASE ed' = ed
      BY <2>4, <3>1, <3>2
    <3>3. CASE ed' # ed /\ req.kind = "load"
      <4>1. ed' = [open |-> TRUE, text |-> Body.ver, rev |-> Body, notes |-> Side,
                     annotated |-> Side # None, dirty |-> FALSE, conflict |-> None]
        BY <2>6, <3>3 DEF Read, Refuse
      <4>2. ~ed'.dirty
        BY <4>1
      <4>3. QED
        BY <2>4, <3>1, <4>2
    <3>4. CASE ed' # ed /\ req.kind # "load"
      <4>1. req.kind \in {"save", "rename"}
        BY <1>0, <2>6, <3>4, ReqFacts DEF Read, Phases
      <4>2. ed.open /\ ed \in Editing /\ (req.kind = "save" => ed.dirty)
        BY <1>0, <4>1, EdFacts DEF Phases
      <4> PICK b : b = (ed.text # req.text)
        OBVIOUS
      <4> PICK s : s = IF req.annotated THEN Side ELSE ed.notes
        OBVIOUS
      <4>3. \/ ed' = [ed EXCEPT !.rev = Body]
            \/ req.kind = "save" /\ ed' = [ed EXCEPT !.rev = Body, !.dirty = b, !.notes = s]
        BY <2>6, <3>4, <4>1 DEF Read, Refuse
      <4>4. ed'.text = ed.text /\ ed'.annotated = ed.annotated /\ (ed'.dirty => ed.dirty)
        <5>1. CASE ed' = [ed EXCEPT !.rev = Body]
          BY <4>2, <5>1 DEF Editing
        <5>2. CASE req.kind = "save" /\ ed' = [ed EXCEPT !.rev = Body, !.dirty = b, !.notes = s]
          BY <4>2, <5>2 DEF Editing
        <5>3. QED
          BY <4>3, <5>1, <5>2
      <4>5. QED
        BY <2>4, <3>1, <4>2, <4>4
    <3>5. QED
      BY <3>2, <3>3, <3>4
  <2>7. ASSUME Ends PROVE Unsaved'
    <3>1. Unedited
      BY <2>7, EndFacts
    <3>2. req'.kind = "save" => req' = req /\ ed' = ed
      BY <2>7 DEF Ends, Refuse, Conflict, Done, Go, NoRequest
    <3>3. QED
      BY <2>4, <3>1, <3>2 DEF Unedited
  <2>8. CASE Persist \/ PersistFails \/ Look \/ Commit \/ DropOld \/ Install \/ Cleanup \/ RecoverRename
    <3>1. Ends
      <4>1. CASE Persist \/ PersistFails \/ Look \/ Commit \/ DropOld \/ Install \/ Cleanup
        BY <4>1 DEF Persist, PersistFails, Look, Commit, DropOld, Install, Cleanup, AnnotationConflict, Ends
      <4>2. CASE RecoverRename
        BY <4>2 DEF RecoverRename, Link, Unlink, Ends
      <4>3. QED
        BY <2>8, <4>1, <4>2
    <3>2. QED
      BY <2>7, <3>1
  <2>9. CASE Compare \/ Check \/ Stage \/ Identify \/ LinkPlain
    <3>1. Ends
      BY <2>9 DEF Compare, Check, Stage, Identify, LinkPlain, AnnotationConflict, Phases, Ends
    <3>2. QED
      BY <2>7, <3>1
  <2>10. CASE WriteTemporary
    BY <2>4, <2>10 DEF WriteTemporary
  <2>11. CASE Plan \/ UnlinkPlain
    <3>1. ed' = ed /\ req.kind = "rename"
      BY <2>11 DEF Plan, UnlinkPlain, Refuse, Go, Phases
    <3>2. req' \in {req, NoRequest, [req EXCEPT !.placed = TRUE]}
      BY <2>11 DEF Plan, UnlinkPlain, Refuse, Go, Done
    <3>3. req'.kind # "save"
      BY <1>0, <3>1, <3>2, ReqFacts, ReqWith DEF NoRequest
    <3>4. QED
      BY <2>4, <3>1, <3>3
  <2>12. CASE Crash
    BY <2>4, <2>12 DEF Crash, Closed, NoRequest
  <2>13. CASE UNCHANGED vars
    BY <2>4, <2>13 DEF vars
  <2>14. QED
    BY <1>3, <2>2, <2>3, <2>5, <2>6, <2>8, <2>9, <2>10, <2>11, <2>12, <2>13 DEF Next, Recover
<1>4. QED
  BY <1>1, <1>2, <1>3
-----------------------------------------------------------------------------
(* Notes.                                                                  *)

\* A step after which no body is noted that was not, and that leaves the sidecars and what
\* is outstanding as they are.
Settled ==
    /\ \A q \in Paths : Noted(q)' => Noted(q) /\ body'[q] = body[q]
    /\ side' = side /\ registry' \in {registry, record}
    /\ record'.path = record.path /\ record'.tx = tx /\ record'.ren = ren
    /\ registry' # registry => record' = record
LEMMA SettledRecords ==
    ASSUME Types, Trusted, Settled
    PROVE  Leads(record)' /\ Leads(registry)' /\ Matches(record)' /\ (Returning \/ Matches(registry))'
<1>1. record.path \in Paths /\ registry.path \in Paths
  BY RecFacts DEF Types
<1>2. Leads(record)'
  BY DEF Trusted, Settled, Leads, Noted, tx, ren
<1>3. Matches(record)'
  BY <1>1 DEF Trusted, Settled, Matches, Noted, Fine, tx, ren
<1>4. Leads(registry)'
  <2>1. CASE registry' = registry
    BY <2>1 DEF Trusted, Settled, Leads, Noted
  <2>2. CASE registry' # registry
    <3>1. registry' = record'
      BY <2>2 DEF Settled
    <3>2. QED
      BY <1>2, <3>1 DEF Leads
  <2>3. QED
    BY <2>1, <2>2
<1>5. (Returning \/ Matches(registry))'
  <2>1. CASE registry' = registry
    <3>1. Returning => Returning'
      BY <2>1 DEF Settled, Returning, ren
    <3>2. Matches(registry) => Matches(registry)'
      BY <1>1, <2>1 DEF Settled, Matches, Noted, Fine
    <3>3. QED
      BY <3>1, <3>2 DEF Trusted
  <2>2. CASE registry' # registry
    <3>1. registry' = record'
      BY <2>2 DEF Settled
    <3>2. QED
      BY <1>3, <3>1 DEF Matches
  <2>3. QED
    BY <2>1, <2>2
<1>6. QED
  BY <1>2, <1>3, <1>4, <1>5

Steady == pc \notin {"commit", "drop", "install", "clean", "link", "unlink", "renamed",
                     "unlink body", "link side", "unlink side"}
LEMMA SteadyHalfway == ASSUME Steady' PROVE Halfway'
BY DEF Steady, Halfway

\* A step that changes no file.
LEMMA SameFiles ==
    ASSUME Types, Trusted, UNCHANGED <<body, side, noted>>, registry' \in {registry, record},
           record'.path = record.path, record'.tx = tx, record'.ren = ren,
           registry' # registry => record' = record, Steady'
    PROVE  Trusted'
<1>1. Settled
  BY DEF Settled, Noted
<1>2. QED
  BY <1>1, SettledRecords, SteadyHalfway DEF Trusted

\* Steps of the editor, the registry, and the checks.
LEMMA QuietTrusted ==
    ASSUME Types, Phases, Trusted, Types', Phases',
           Load \/ SaveOnce \/ Overwrite \/ Reload \/ Rename \/ Read \/ Persist \/ Compare \/ WriteTemporary
             \/ Check \/ Identify
    PROVE  Trusted'
<1>0. record \in Records
  BY DEF Types
<1>1. CASE Load \/ SaveOnce \/ Overwrite \/ Rename
  <2>1. PICK r : Ask(r)
    BY <1>1 DEF Load, SaveOnce, Overwrite, SaveOver, Rename
  <2>2. Steady' /\ UNCHANGED noted
    BY <1>1, <2>1 DEF Load, SaveOnce, Overwrite, SaveOver, Rename, Ask, Resume, Proceed, Steady, history
  <2>3. QED
    BY <2>1, <2>2, SameFiles DEF Ask, disk, tx, ren
<1>2. CASE Reload \/ Read
  <2>1. UNCHANGED <<body, side, noted, registry, record>> /\ pc' = "idle"
    BY <1>2 DEF Reload, Read, Refuse, Done, disk, history
  <2>2. QED
    BY <2>1, SameFiles DEF Steady, tx, ren
<1>3. CASE Persist
  <2>1. UNCHANGED <<body, side, noted, record>> /\ registry' = record
    BY <1>3 DEF Persist, disk, history
  <2>2. pc' \in {Proceed(req), Resume(record, req), "place", "read", "link body"}
    <3>1. pc \in {"tx_gone", "moved", "tx_known", "identified", "ren_known", "renamed"}
      BY <1>3 DEF Persist, AfterPersist
    <3>2. CASE pc = "tx_gone"
      BY <1>3, <3>2 DEF Persist, Go, AfterPersist
    <3>3. CASE pc = "moved"
      BY <1>3, <3>3 DEF Persist, Go, AfterPersist
    <3>4. CASE pc = "tx_known"
      BY <1>3, <3>4 DEF Persist, Go, AfterPersist
    <3>5. CASE pc = "ren_known"
      BY <1>3, <3>5 DEF Persist, Go, AfterPersist
    <3>6. CASE pc = "identified"
      BY <1>3, <3>6 DEF Persist, Go, AfterPersist
    <3>7. CASE pc = "renamed"
      BY <1>3, <3>7 DEF Persist, Go, AfterPersist
    <3>8. QED
      BY <3>1, <3>2, <3>3, <3>4, <3>5, <3>6, <3>7
  <2>3. Steady'
    BY <2>2 DEF Resume, Proceed, Steady
  <2>4. QED
    BY <2>1, <2>3, SameFiles DEF tx, ren
<1>4. CASE Compare \/ WriteTemporary \/ Check
  <2>1. UNCHANGED <<body, side, noted, record, registry>>
    BY <1>4 DEF Compare, WriteTemporary, Check, disk, history
  <2>2. Steady'
    BY <1>4 DEF Compare, WriteTemporary, Check, Checked, Go, Refuse, Conflict, Done, Steady
  <2>3. QED
    BY <2>1, <2>2, SameFiles DEF tx, ren
<1>5. CASE Identify
  <2>1. UNCHANGED <<body, side, noted, registry>> /\ Steady'
    BY <1>5 DEF Identify, Go, Refuse, Done, Steady, disk, history
  <2>2. record'.path = record.path /\ record'.tx = tx /\ record'.ren = ren
    BY <1>0, <1>5 DEF Identify, Records, tx, ren
  <2>3. QED
    BY <2>1, <2>2, SameFiles
<1>6. QED
  BY <1>1, <1>2, <1>3, <1>4, <1>5

\* The save with annotations.
LEMMA SaveTrusted ==
    ASSUME Types, Phases, Unplaced, Trusted, Types', Phases',
           Look \/ Commit \/ DropOld \/ Install \/ Cleanup
    PROVE  Trusted'
<1>0. /\ record \in Records /\ registry \in Records /\ record.path \in Paths /\ registry.path \in Paths
      /\ body \in [Paths -> Bodies \cup {None}] /\ side \in [Paths -> Sidecars \cup {None}]
  BY RecFacts DEF Types
<1>1. tx # None /\ ren = None /\ tx \in Saves
  <2>1. tx # None /\ ren = None
    BY DEF Look, Commit, DropOld, Install, Cleanup, Phases
  <2>2. QED
    BY <2>1, TypesHere
<1>2. /\ Leads(record) /\ Leads(registry) /\ Matches(record) /\ Matches(registry) /\ Halfway
  BY <1>1 DEF Trusted, Returning
<1>3. UNCHANGED <<body, registry, noted>>
  BY DEF Look, Commit, DropOld, Install, Cleanup, disk, history
<1>4. tx.new # None /\ tx.new.of = tx.body.ver
  <2>1. tx.new.of = tx.body.ver
    BY <1>1, <1>2 DEF Leads, tx
  <2>2. tx.new # None
    BY <1>1 DEF Saves, Sidecars, None
  <2>3. QED
    BY <2>1, <2>2
<1>5. CASE Look
  <2>1. UNCHANGED <<side, record>>
    BY <1>5 DEF Look, disk
  <2>2. Settled
    BY <1>3, <2>1 DEF Settled, Noted, tx, ren
  <2>3. pc' \in {"commit", "clean", "idle"} /\ (pc' = "commit" => Body = tx.body) /\ (pc' = "clean" => Body # tx.body)
    BY <1>5 DEF Look, Go, Refuse, Done
  <2>4. Noted(record.path) => Fine(record.path) \/ Body = tx.body
    BY <1>1, <1>2 DEF Matches, Body, tx, ren
  <2>5. Halfway'
    BY <1>3, <2>1, <2>3, <2>4 DEF Halfway, Noted, Fine, Body, tx
  <2>6. QED
    BY <2>2, <2>5, SettledRecords DEF Trusted
<1>6. CASE Commit
  <2>1. UNCHANGED side
    BY <1>6 DEF Commit
  <2>2. record'.path = record.path /\ record'.tx = tx /\ record'.ren = ren
    BY <1>0, <1>6 DEF Commit, Records, tx, ren
  <2>3. Settled
    BY <1>3, <2>1, <2>2 DEF Settled, Noted
  <2>4. Noted(record.path) => Body = tx.body
    BY <1>2, <1>6 DEF Commit, Halfway
  <2>5. pc' \in {"clean", "drop", "install", "idle"} /\ (pc' = "clean" => Side = tx.new)
    BY <1>6 DEF Commit, Go, AnnotationConflict, Refuse, Conflict, Done
  <2>6. pc' = "clean" /\ Noted(record.path) => Fine(record.path)
    BY <1>4, <2>4, <2>5 DEF Fine, Body, Side
  <2>7. Halfway'
    BY <1>3, <2>1, <2>2, <2>4, <2>5, <2>6 DEF Halfway, Noted, Fine, Body, tx
  <2>8. QED
    BY <2>3, <2>7, SettledRecords DEF Trusted
<1>7. CASE DropOld \/ Install
  <2>1. record'.path = record.path /\ record'.tx = tx /\ record'.ren = ren
    BY <1>0, <1>7 DEF DropOld, Install, Records, tx, ren
  <2>2. Noted(record.path) => Body = tx.body
    BY <1>2, <1>7 DEF DropOld, Install, Halfway
  <2>3. \A q \in Paths : q # record.path => side'[q] = side[q]
    BY <1>0, <1>7 DEF DropOld, Install
  <2>4. Leads(record)' /\ Leads(registry)'
    BY <1>2, <1>3, <2>1 DEF Leads, Noted, tx, ren
  <2>5. Matches(record)'
    BY <1>1, <1>3, <2>1, <2>2 DEF Matches, Noted, Body, tx
  <2>6. Matches(registry)'
    <3>1. CASE registry.path = record.path
      <4>1. Noted(record.path) => registry.tx = tx
        BY <1>0, <1>1, <2>2 DEF Noted, Body, Unplaced
      <4>2. QED
        BY <1>1, <1>3, <2>2, <3>1, <4>1 DEF Matches, Noted, Body
    <3>2. CASE registry.path # record.path
      <4>1. side'[registry.path] = side[registry.path]
        BY <1>0, <2>3, <3>2
      <4>2. QED
        BY <1>2, <1>3, <4>1 DEF Matches, Noted, Fine
    <3>3. QED
      BY <3>1, <3>2
  <2>7. pc' \in {"install", "clean", "idle"} /\ (pc' = "clean" => side'[record.path] = tx.new)
    BY <1>0, <1>7 DEF DropOld, Install, Go, AnnotationConflict, Refuse, Conflict, Done
  <2>8. Halfway'
    BY <1>3, <1>4, <2>1, <2>2, <2>7 DEF Halfway, Noted, Fine, Body, tx
  <2>9. QED
    BY <2>4, <2>5, <2>6, <2>8 DEF Trusted
<1>8. CASE Cleanup
  <2>1. UNCHANGED side /\ pc' = "tx_gone"
    BY <1>8 DEF Cleanup, Go
  <2>2. record'.path = record.path /\ record'.tx = None /\ record'.ren = ren
    BY <1>0, <1>8 DEF Cleanup, Records, ren
  <2>3. Noted(record.path) => Fine(record.path)
    BY <1>2, <1>8 DEF Cleanup, Halfway
  <2>4. Matches(record)' /\ Matches(registry)'
    BY <1>2, <1>3, <2>1, <2>2, <2>3 DEF Matches, Noted, Fine
  <2>5. Leads(record)' /\ Leads(registry)'
    BY <1>1, <1>2, <1>3, <2>2 DEF Leads, Noted
  <2>6. Halfway'
    BY <2>1, SteadyHalfway DEF Steady
  <2>7. QED
    BY <2>4, <2>5, <2>6 DEF Trusted
<1>9. QED
  BY <1>5, <1>6, <1>7, <1>8

\* The rename.
LEMMA RecoverRenameTrusted ==
    ASSUME Types, Phases, Trusted, Types', Phases', RecoverRename
    PROVE  Trusted'
<1>0. /\ record \in Records /\ registry \in Records /\ record.path \in Paths /\ registry.path \in Paths
      /\ body \in [Paths -> Bodies \cup {None}] /\ side \in [Paths -> Sidecars \cup {None}]
  BY RecFacts DEF Types
<1>1. tx = None /\ ren # None /\ ren \in Renames
  <2>1. tx = None /\ ren # None
    BY DEF RecoverRename, Phases
  <2>2. QED
    BY <2>1, TypesHere
<1> DEFINE from == NextPath(ren.to)
<1>2. /\ ren.to \in Paths /\ from \in Paths /\ from # ren.to /\ \A q \in Paths : q = ren.to \/ q = from
      /\ NextPath(from) = ren.to
  <2>1. ren.to \in Paths
    BY <1>1 DEF Renames
  <2>2. QED
    BY <2>1, TypesHere
<1>3. /\ Leads(record) /\ Leads(registry) /\ (Returning \/ Matches(registry)) /\ Halfway
      /\ record.path = from /\ \A q \in Paths : Noted(q) /\ body[q].id = ren.body => ren.side.of = body[q].ver
  BY <1>1 DEF Trusted, Leads, ren
<1>4. ren.side # None
  BY <1>1 DEF Renames, Sidecars, None
<1>5. UNCHANGED <<registry, noted>>
  BY DEF RecoverRename, Link, Unlink, history
<1> HIDE DEF from
<1>6. CASE pc = "link body" /\ Link("body", "unlink body")
  <2>1. UNCHANGED <<side, record>>
    BY <1>6 DEF Link, SetFiles
  <2>2. CASE UNCHANGED body /\ (pc' = "idle" \/ (pc' = "unlink body" /\ body[ren.to].id = ren.body))
    <3>1. Settled
      BY <1>5, <2>1, <2>2 DEF Settled, Noted, tx, ren
    <3>2. Halfway'
      BY <2>1, <2>2 DEF Halfway, Noted, ren
    <3>3. QED
      BY <3>1, <3>2, SettledRecords DEF Trusted
  <2>3. CASE /\ body[ren.to] = None /\ body[from].id = ren.body /\ pc' = "unlink body"
             /\ body' = [body EXCEPT ![ren.to] = body[from]]
    <3>1. body'[ren.to] = body[from] /\ body'[from] = body[from]
      BY <1>0, <1>2, <2>3
    <3>2. Leads(record)'
      BY <1>1, <1>2, <1>3, <1>5, <2>1, <3>1 DEF Leads, Noted, tx, ren
    <3>3. Leads(registry)'
      <4>1. \A q \in Paths : Noted(q)' => \E p \in Paths : Noted(p) /\ body'[q] = body[p]
        BY <1>2, <1>5, <3>1 DEF Noted
      <4>2. QED
        BY <1>3, <1>5, <4>1 DEF Leads
    <3>4. Matches(record)'
      BY <1>1, <2>1 DEF Matches, ren
    <3>5. (Returning \/ Matches(registry))'
      <4>1. CASE Returning
        BY <1>5, <2>1, <4>1 DEF Returning, ren
      <4>2. CASE registry.path = ren.to /\ registry.ren = None
        BY <1>1, <4>1, <4>2 DEF Returning
      <4>3. CASE Matches(registry) /\ registry.path = from
        BY <1>5, <2>1, <3>1, <4>3 DEF Matches, Noted, Fine
      <4>4. CASE registry.ren # None
        BY <1>5, <4>4 DEF Matches
      <4>5. QED
        BY <1>0, <1>2, <1>3, <4>1, <4>2, <4>3, <4>4
    <3>6. Halfway'
      BY <2>1, <2>3, <3>1 DEF Halfway, ren
    <3>7. QED
      BY <3>2, <3>3, <3>4, <3>5, <3>6 DEF Trusted
  <2>4. QED
    BY <1>6, <2>2, <2>3 DEF Link, Files, SetFiles, Known, Go, Refuse, Done, from
<1>7. CASE pc = "unlink body" /\ Unlink("body")
  <2>1. UNCHANGED <<side, record>>
    BY <1>7 DEF Unlink, SetFiles
  <2>2. CASE UNCHANGED body /\ pc' = "idle"
    BY <1>5, <2>1, <2>2, SameFiles DEF Steady, tx, ren
  <2>3. CASE body' = [body EXCEPT ![from] = None] /\ pc' = "link side"
    <3>1. body'[ren.to] = body[ren.to] /\ body'[from] = None
      BY <1>0, <1>2, <2>3
    <3>2. Settled
      BY <1>2, <1>5, <2>1, <3>1 DEF Settled, Noted, tx, ren
    <3>3. Noted(ren.to) => body[ren.to].id = ren.body
      BY <1>3, <1>7 DEF Halfway
    <3>4. Halfway'
      <4>1. ren' = ren
        BY <2>1 DEF ren
      <4>2. (Noted(ren.to) => body[ren.to].id = ren.body)'
        BY <1>5, <3>1, <3>3, <4>1 DEF Noted
      <4>3. (~Noted(NextPath(ren.to)))'
        BY <3>1, <4>1 DEF Noted, from
      <4>4. QED
        BY <2>3, <4>2, <4>3 DEF Halfway
    <3>5. QED
      BY <3>2, <3>4, SettledRecords DEF Trusted
  <2>4. QED
    BY <1>7, <2>2, <2>3 DEF Unlink, Files, SetFiles, Go, Refuse, Done, from
<1>8. CASE pc = "link side" /\ Link("side", "unlink side")
  <2>1. UNCHANGED <<body, record>>
    BY <1>8 DEF Link, SetFiles
  <2>2. (Noted(ren.to) => body[ren.to].id = ren.body) /\ ~Noted(from)
    BY <1>3, <1>8 DEF Halfway, from
  <2>3. CASE UNCHANGED side /\ (pc' = "idle" \/ (pc' = "unlink side" /\ side[ren.to] = ren.side))
    <3>1. Settled
      BY <1>5, <2>1, <2>3 DEF Settled, Noted, tx, ren
    <3>2. Halfway'
      BY <1>5, <2>1, <2>2, <2>3 DEF Halfway, Noted, ren, from
    <3>3. QED
      BY <3>1, <3>2, SettledRecords DEF Trusted
  <2>4. CASE side' = [side EXCEPT ![ren.to] = side[from]] /\ side[from] = ren.side /\ pc' = "unlink side"
    <3>1. side'[ren.to] = ren.side /\ side'[from] = side[from]
      BY <1>0, <1>2, <2>4
    <3>2. Leads(record)' /\ Leads(registry)'
      BY <1>3, <1>5, <2>1 DEF Leads, Noted
    <3>3. Matches(record)'
      BY <1>1, <2>1 DEF Matches, ren
    <3>4. (Returning \/ Matches(registry))'
      <4>1. CASE Returning
        BY <1>5, <2>1, <4>1 DEF Returning, ren
      <4>2. CASE registry.path = ren.to /\ registry.ren = None
        BY <1>1, <4>1, <4>2 DEF Returning
      <4>3. CASE Matches(registry) /\ registry.path = from
        BY <1>5, <2>1, <3>1, <4>3 DEF Matches, Noted, Fine
      <4>4. CASE registry.ren # None
        BY <1>5, <4>4 DEF Matches
      <4>5. QED
        BY <1>0, <1>2, <1>3, <4>1, <4>2, <4>3, <4>4
    <3>5. Halfway'
      BY <1>5, <2>1, <2>2, <2>4, <3>1 DEF Halfway, Noted, ren, from
    <3>6. QED
      BY <3>2, <3>3, <3>4, <3>5 DEF Trusted
  <2>5. QED
    BY <1>8, <2>3, <2>4 DEF Link, Files, SetFiles, Known, Go, Refuse, Done, from
<1>9. CASE pc = "unlink side" /\ Unlink("side")
  <2>1. UNCHANGED body
    BY <1>9 DEF Unlink, SetFiles
  <2>2. /\ Noted(ren.to) => body[ren.to].id = ren.body
        /\ ~Noted(from) /\ side[ren.to] = ren.side
    BY <1>3, <1>9 DEF Halfway, from
  <2>3. CASE UNCHANGED <<side, record>> /\ pc' = "idle"
    BY <1>5, <2>1, <2>3, SameFiles DEF Steady, tx, ren
  <2>4. CASE /\ side' = [side EXCEPT ![from] = None] /\ pc' = "moved"
             /\ record' = [record EXCEPT !.path = ren.to, !.ren = None]
    <3>1. side'[ren.to] = ren.side
      BY <1>0, <1>2, <2>2, <2>4
    <3>2. record'.path = ren.to /\ record'.ren = None /\ record'.tx = None
      BY <1>0, <1>1, <2>4 DEF Records, tx
    <3> PICK to : to = ren.to
      OBVIOUS
    <3>3. Noted(to)' => Fine(to)'
      BY <1>2, <1>3, <1>4, <1>5, <2>1, <2>2, <3>1 DEF Noted, Fine
    <3>4. Leads(record)'
      BY <3>2 DEF Leads
    <3>5. Leads(registry)'
      BY <1>3, <1>5, <2>1 DEF Leads, Noted
    <3>6. Matches(record)'
      BY <3>2, <3>3 DEF Matches, Noted, Fine
    <3>7. Matches(registry)'
      <4>1. registry'.path = to \/ ~Noted(registry.path)'
        BY <1>0, <1>2, <1>5, <2>1, <2>2 DEF Noted
      <4>2. QED
        BY <3>3, <4>1 DEF Matches, Noted, Fine
    <3>8. Halfway'
      BY <2>4, SteadyHalfway DEF Steady
    <3>9. QED
      BY <3>4, <3>5, <3>6, <3>7, <3>8 DEF Trusted
  <2>5. QED
    BY <1>9, <2>3, <2>4 DEF Unlink, Files, SetFiles, Go, Refuse, Done, from
<1>10. QED
  BY <1>6, <1>7, <1>8, <1>9 DEF RecoverRename

\* The staging of a save, and its body.
LEMMA PlaceTrusted ==
    ASSUME Types, Phases, Unsaved, Trusted, Types', Phases', Stage \/ Place
    PROVE  Trusted'
<1>0. /\ record \in Records /\ registry \in Records /\ record.path \in Paths /\ registry.path \in Paths
      /\ body \in [Paths -> Bodies \cup {None}] /\ side \in [Paths -> Sidecars \cup {None}]
  BY RecFacts DEF Types
<1>1. ren = None /\ (pc = "stage" => tx = None)
  BY DEF Stage, Place, Phases
<1>2. Leads(record) /\ Leads(registry) /\ Matches(record) /\ Matches(registry)
  BY <1>1 DEF Trusted, Returning
<1>3. CASE Stage
  <2>1. UNCHANGED <<body, side, registry, noted>> /\ Steady'
    BY <1>3 DEF Stage, Go, AnnotationConflict, Refuse, Conflict, Done, Steady, history
  <2>2. CASE Side # req.notes
    <3>1. record' = record
      BY <1>3, <2>2 DEF Stage
    <3>2. QED
      BY <2>1, <3>1, SameFiles DEF tx, ren
  <2>3. CASE Side = req.notes
    <3> PICK n : n = (IF Side = None THEN 0 ELSE Side.n) + 1
      OBVIOUS
    <3>1. record' = [record EXCEPT !.tx = [id |-> clock', body |-> tmp, old |-> Side,
                                           new |-> [id |-> clock', of |-> req.text, n |-> n]]]
      BY <1>3, <2>3 DEF Stage
    <3>2. /\ record'.path = record.path /\ record'.ren = None
          /\ record'.tx.body = tmp /\ record'.tx.new.of = req.text
      BY <1>0, <1>1, <3>1 DEF Records, ren
    <3>3. tmp.ver = req.text
      BY <1>3 DEF Stage, Phases
    <3>4. Leads(record)'
      BY <3>2, <3>3 DEF Leads
    <3>5. Noted(record.path) => Fine(record.path)
      BY <1>1, <1>2, <1>3 DEF Stage, Matches, tx, ren
    <3>6. Matches(record)'
      BY <2>1, <3>2, <3>5 DEF Matches, Noted, Fine
    <3>7. Leads(registry)' /\ Matches(registry)'
      BY <1>2, <2>1 DEF Leads, Matches, Noted, Fine
    <3>8. QED
      BY <2>1, <3>4, <3>6, <3>7, SteadyHalfway DEF Trusted
  <2>4. QED
    BY <2>2, <2>3
<1>4. CASE Place
  <2>1. UNCHANGED <<side, registry, record>>
    BY <1>4 DEF Place
  <2>2. body' = [body EXCEPT ![record.path] = tmp] /\ pc' = Resume(record, req')
    BY <1>4 DEF Place
  <2>3. Halfway'
    <3>1. Steady'
      BY <2>2 DEF Resume, Proceed, Steady
    <3>2. QED
      BY <3>1, SteadyHalfway
  <2>4. \A q \in Paths : q # record.path => body'[q] = body[q]
    BY <1>0, <2>2
  <2>5. body'[record.path] = tmp
    BY <1>0, <2>2
  <2>6. CASE req.annotated
    <3>1. tx # None /\ tx.body = tmp /\ registry = record
      BY <1>4, <2>6 DEF Place, Phases
    <3>2. Leads(record)'
      BY <1>1, <1>2, <2>1 DEF Leads, ren
    <3>3. Matches(record)'
      BY <2>1, <2>5, <3>1 DEF Matches, tx
    <3>4. Leads(registry)' /\ Matches(registry)'
      BY <2>1, <3>1, <3>2, <3>3 DEF Leads, Matches
    <3>5. QED
      BY <2>3, <3>2, <3>3, <3>4 DEF Trusted
  <2>7. CASE ~req.annotated
    <3>1. tx = None /\ noted' = noted /\ tmp.ver \notin noted
      BY <1>4, <2>7 DEF Place, Phases, Unsaved, Accounted
    <3>2. ~(tmp # None /\ tmp.ver \in noted')
      BY <3>1
    <3>3. \A q \in Paths : Noted(q)' => Noted(q) /\ body'[q] = body[q]
      BY <2>4, <2>5, <3>1, <3>2 DEF Noted
    <3>4. Settled
      BY <2>1, <3>3 DEF Settled, tx, ren
    <3>5. QED
      BY <2>3, <3>4, SettledRecords DEF Trusted
  <2>8. QED
    BY <2>6, <2>7
<1>5. QED
  BY <1>3, <1>4

\* A rename without annotations, or the plan of one with them.
LEMMA PlanTrusted ==
    ASSUME Types, Phases, Trusted, Types', Phases', Plan
    PROVE  Trusted'
<1>0. /\ record \in Records /\ registry \in Records /\ record.path \in Paths /\ registry.path \in Paths
      /\ body \in [Paths -> Bodies \cup {None}] /\ side \in [Paths -> Sidecars \cup {None}]
  BY RecFacts DEF Types
<1>1. tx = None /\ ren = None
  BY DEF Plan, Phases
<1>2. Leads(record) /\ Leads(registry) /\ Matches(record) /\ Matches(registry)
  BY <1>1 DEF Trusted, Returning
<1>3. Noted(record.path) => Fine(record.path)
  BY <1>1, <1>2 DEF Matches, tx, ren
<1>4. UNCHANGED <<body, side, registry, noted>>
  BY DEF Plan, disk, history
<1>5. CASE side[To] # None \/ (Side # None /\ body[To] # None) \/ Side = None
  <2>1. UNCHANGED record
    BY <1>5 DEF Plan
  <2>2. pc' = "idle" \/ (pc' = "link" /\ Side = None)
    BY <1>5 DEF Plan, Refuse, Done, Go
  <2>3. Side = None => ~Noted(record.path)
    BY <1>3 DEF Fine, Side
  <2>4. Halfway'
    BY <1>4, <2>1, <2>2, <2>3 DEF Halfway, Noted
  <2>5. Settled
    BY <1>4, <2>1 DEF Settled, Noted, tx, ren
  <2>6. QED
    BY <2>4, <2>5, SettledRecords DEF Trusted
<1>6. CASE ~(side[To] # None \/ (Side # None /\ body[To] # None) \/ Side = None)
  <2>1. record' = [record EXCEPT !.ren = [id |-> record.identity, to |-> To,
                                          body |-> record.identity, side |-> Side]]
    BY <1>6 DEF Plan
  <2>2. /\ record'.path = record.path /\ record'.tx = None /\ record'.ren.to = To
        /\ record'.ren.side = Side /\ record'.ren # None
    <3>1. record'.path = record.path /\ record'.tx = None
          /\ record'.ren = [id |-> record.identity, to |-> To, body |-> record.identity, side |-> Side]
      BY <1>0, <1>1, <2>1 DEF Records, tx
    <3>2. record.identity # 0
      BY <1>0, RecFacts
    <3>3. QED
      BY <3>1, <3>2 DEF None
  <2>3. \A q \in Paths : Noted(q) => q = record.path /\ Fine(record.path)
    <3>1. body[To] = None
      BY <1>6
    <3>2. \A q \in Paths : q = record.path \/ q = To
      BY <1>0, TypesHere DEF To
    <3>3. QED
      BY <1>3, <3>1, <3>2 DEF Noted
  <2>4. NextPath(To) = record.path
    BY <1>0, TypesHere DEF To
  <2>5. Leads(record)'
    BY <1>4, <2>2, <2>3, <2>4 DEF Leads, Noted, Fine, Side
  <2>6. Matches(record)'
    BY <2>2 DEF Matches
  <2>7. Leads(registry)' /\ Matches(registry)'
    BY <1>2, <1>4 DEF Leads, Matches, Noted, Fine
  <2>8. pc' = "ren_known"
    BY <1>6 DEF Plan
  <2>9. QED
    BY <2>5, <2>6, <2>7, <2>8, SteadyHalfway DEF Trusted, Steady
<1>7. QED
  BY <1>5, <1>6

LEMMA PlainTrusted ==
    ASSUME Types, Phases, Trusted, Types', Phases', LinkPlain \/ UnlinkPlain
    PROVE  Trusted'
<1>0. /\ record \in Records /\ registry \in Records /\ record.path \in Paths /\ registry.path \in Paths
      /\ body \in [Paths -> Bodies \cup {None}] /\ side \in [Paths -> Sidecars \cup {None}]
  BY RecFacts DEF Types
<1>1. tx = None /\ ren = None
  BY DEF LinkPlain, UnlinkPlain, Phases
<1>2. Leads(record) /\ Leads(registry) /\ Matches(record) /\ Matches(registry) /\ Halfway
  BY <1>1 DEF Trusted, Returning
<1>3. UNCHANGED <<side, registry, noted>>
  BY DEF LinkPlain, UnlinkPlain, history
<1>4. ~Noted(record.path)
  BY <1>2 DEF Halfway, LinkPlain, UnlinkPlain
<1>5. To \in Paths /\ To # record.path /\ NextPath(To) = record.path /\ \A q \in Paths : q = record.path \/ q = To
  BY <1>0, TypesHere DEF To
<1>6. CASE LinkPlain
  <2>1. UNCHANGED record /\ pc' \in {"idle", "unlink"}
    BY <1>6 DEF LinkPlain, Refuse, Done, Go
  <2>2. body' = body \/ (body' = [body EXCEPT ![To] = Body] /\ body[To] = None)
    BY <1>6 DEF LinkPlain
  <2>3. body'[record.path] = Body /\ body'[To] \in {body[To], Body}
    BY <1>0, <1>5, <2>2 DEF Body
  <2>4. \A q \in Paths : Noted(q)' => Noted(q) /\ body'[q] = body[q]
    BY <1>3, <1>4, <1>5, <2>3 DEF Noted, Body
  <2>5. Settled
    BY <1>3, <2>1, <2>4 DEF Settled, tx, ren
  <2>6. pc' = "unlink" => body'[To] = Body
    BY <1>0, <1>5, <1>6 DEF LinkPlain, Refuse, Done, Go
  <2>7. (~Noted(record.path))' /\ (pc' = "unlink" => (~Noted(To))')
    <3>1. To' = To
      BY <2>1 DEF To
    <3>2. QED
      BY <1>3, <1>4, <2>1, <2>3, <2>6, <3>1 DEF Noted, Body
  <2>8. Halfway'
    BY <2>1, <2>7 DEF Halfway, To
  <2>9. QED
    BY <2>5, <2>8, SettledRecords DEF Trusted
<1>7. CASE UnlinkPlain
  <2>1. ~Noted(To)
    BY <1>2, <1>7 DEF Halfway, UnlinkPlain
  <2>2. \A q \in Paths : ~Noted(q)
    BY <1>4, <1>5, <2>1
  <2>3. \A q \in Paths : body'[q] \in {body[q], None}
    BY <1>0, <1>7 DEF UnlinkPlain
  <2>4. \A q \in Paths : ~(body'[q] # None /\ body'[q].ver \in noted')
    BY <1>3, <2>2, <2>3 DEF Noted
  <2>5. record'.tx = None /\ record'.ren = None /\ record'.path \in Paths
    BY <1>0, <1>1, <1>5, <1>7 DEF UnlinkPlain, Records, tx, ren
  <2>6. Leads(record)' /\ Matches(record)'
    BY <2>4, <2>5 DEF Leads, Matches, Noted
  <2>7. Leads(registry)' /\ Matches(registry)'
    BY <1>0, <1>2, <1>3, <2>4 DEF Leads, Matches, Noted
  <2>8. pc' \in {"idle", "renamed"}
    BY <1>7 DEF UnlinkPlain, Refuse, Done
  <2>9. Halfway'
    <3>1. (~Noted(NextPath(record.path)))'
      <4>1. NextPath(record'.path) \in Paths
        BY <2>5, TypesHere
      <4>2. QED
        BY <2>4, <4>1 DEF Noted
    <3>2. QED
      BY <2>8, <3>1 DEF Halfway
  <2>10. QED
    BY <2>6, <2>7, <2>9 DEF Trusted
<1>8. QED
  BY <1>6, <1>7

LEMMA FailsTrusted ==
    ASSUME Types, Phases, Trusted, Types', Phases', PersistFails
    PROVE  Trusted'
<1>0. /\ record \in Records /\ registry \in Records /\ record.path \in Paths /\ registry.path \in Paths
      /\ body \in [Paths -> Bodies \cup {None}]
  BY RecFacts DEF Types
<1>1. UNCHANGED <<side, noted>> /\ registry' \in {registry, record} /\ pc' = "idle"
  BY DEF PersistFails, Refuse, Done
<1>2. Halfway'
  BY <1>1, SteadyHalfway DEF Steady
<1>3. CASE pc # "renamed"
  <2>1. UNCHANGED <<body, record>>
    BY <1>3 DEF PersistFails
  <2>2. QED
    BY <1>1, <2>1, SameFiles DEF Steady, tx, ren
<1>4. CASE pc = "renamed"
  <2>1. tx = None /\ ren = None
    BY <1>4 DEF Phases
  <2>2. body' = [body EXCEPT ![record.path] = None] /\ record' = [record EXCEPT !.path = NextPath(record.path)]
    BY <1>4 DEF PersistFails
  <2>3. NextPath(record.path) \in Paths /\ \A q \in Paths : q = record.path \/ q = NextPath(record.path)
    BY <1>0, TypesHere
  <2>4. ~Noted(NextPath(record.path))
    BY <1>4 DEF Trusted, Halfway
  <2>5. \A q \in Paths : ~(body'[q] # None /\ body'[q].ver \in noted')
    BY <1>0, <1>1, <2>2, <2>3, <2>4 DEF Noted
  <2>6. record'.tx = None /\ record'.ren = None /\ record'.path \in Paths
    BY <1>0, <2>1, <2>2, <2>3 DEF Records, tx, ren
  <2>7. Leads(record)' /\ Matches(record)'
    BY <2>5, <2>6 DEF Leads, Matches, Noted
  <2>8. registry'.path \in Paths
    BY <1>0, <1>1
  <2>9. Leads(registry)'
    <3>1. CASE registry' = registry
      BY <2>5, <3>1 DEF Trusted, Leads, Noted
    <3>2. CASE registry' = record
      BY <2>1, <3>2 DEF Leads, tx, ren
    <3>3. QED
      BY <1>1, <3>1, <3>2
  <2>10. Matches(registry)'
    BY <2>5, <2>8 DEF Matches, Noted
  <2>11. QED
    BY <1>2, <2>7, <2>9, <2>10 DEF Trusted
<1>5. QED
  BY <1>3, <1>4

LEMMA NextTrusted ==
    ASSUME Types, Numbered, Phases, Unsaved, Unplaced, Trusted, Types', Phases', [Next]_vars, ~meddled', ~misled'
    PROVE  Trusted'
<1>1. CASE Type \/ UNCHANGED vars
  <2>1. UNCHANGED <<body, side, registry, record, pc, noted>>
    BY <1>1 DEF Type, vars, disk, history
  <2>2. Settled
    BY <2>1 DEF Settled, Noted, tx, ren
  <2>3. Halfway'
    BY <2>1 DEF Trusted, Halfway, Noted, Fine, Body, To, tx, ren
  <2>4. QED
    BY <2>2, <2>3, SettledRecords DEF Trusted
<1>2. CASE OtherProgram
  <2>1. UNCHANGED <<side, registry, record, pc, noted>> /\ clock' = clock + 1
    BY <1>2, OtherFacts
  <2>2. clock' \notin noted'
    BY <2>1 DEF Types, Numbered
  <2>3. \A q \in Paths : Noted(q)' => Noted(q) /\ body'[q] = body[q]
    BY <1>2, <2>1, <2>2, OtherFacts DEF Noted
  <2>4. Settled
    BY <2>1, <2>3 DEF Settled, tx, ren
  <2>5. Halfway'
    <3>1. record.path \in Paths /\ To \in Paths /\ NextPath(record.path) \in Paths
      BY TypesHere
    <3>2. ren # None => ren.to \in Paths /\ NextPath(ren.to) \in Paths
      BY TypesHere DEF Renames
    <3>3. pc \in {"unlink body", "link side", "unlink side"} => ren # None
      BY DEF Phases
    <3>4. tx' = tx /\ ren' = ren /\ To' = To
      BY <2>1 DEF tx, ren, To
    <3>5. QED
      BY <2>1, <2>3, <3>1, <3>2, <3>3, <3>4 DEF Trusted, Halfway, Fine, Body
  <2>6. QED
    BY <2>4, <2>5, SettledRecords DEF Trusted
<1>3. CASE Crash
  <2>1. UNCHANGED <<body, side, registry, noted>> /\ record' = registry /\ pc' = "idle" /\ ~Returning
    BY <1>3 DEF Crash, disk
  <2>2. Leads(registry) /\ Matches(registry)
    BY <2>1 DEF Trusted
  <2>3. Leads(registry)' /\ Matches(registry)'
    BY <2>1, <2>2 DEF Leads, Matches, Noted, Fine
  <2>4. Leads(record)' /\ Matches(record)'
    BY <2>1, <2>3 DEF Leads, Matches
  <2>5. Halfway'
    BY <2>1, SteadyHalfway DEF Steady
  <2>6. QED
    BY <2>3, <2>4, <2>5 DEF Trusted
<1>4. QED
  BY <1>1, <1>2, <1>3, QuietTrusted, SaveTrusted, RecoverRenameTrusted, PlaceTrusted, PlanTrusted, PlainTrusted,
     FailsTrusted DEF Next, Recover

\* What has been meddled with or misled stays so.
LEMMA StaysAmiss ==
    ASSUME [Next]_vars
    PROVE  (meddled => meddled') /\ (misled => misled')
<1>1. CASE OtherProgram
  <2>1. PICK p \in Paths : EditBody(p) \/ ReplaceBody(p) \/ WriteSide(p)
    BY <1>1 DEF OtherProgram
  <2>2. misled' = misled
    BY <2>1 DEF EditBody, ReplaceBody, WriteSide, Noticed
  <2>3. CASE WriteSide(p)
    <3>1. meddled' = TRUE
      BY <2>3 DEF WriteSide
    <3>2. QED
      BY <2>2, <3>1
  <2>4. CASE EditBody(p) \/ ReplaceBody(p)
    <3>1. meddled' = meddled
      BY <2>4 DEF EditBody, ReplaceBody
    <3>2. QED
      BY <2>2, <3>1
  <2>5. QED
    BY <2>1, <2>3, <2>4
<1>2. CASE Crash
  BY <1>2 DEF Crash
<1>3. CASE Load \/ Type \/ SaveOnce \/ Overwrite \/ Reload \/ Rename \/ Read \/ Persist \/ PersistFails
  <2>1. meddled' = meddled /\ misled' = misled
    BY <1>3 DEF Load, Type, SaveOnce, Overwrite, SaveOver, Reload, Rename, Read, Persist, PersistFails, history
  <2>2. QED
    BY <2>1
<1>4. CASE Look \/ Commit \/ DropOld \/ Install \/ Cleanup \/ RecoverRename
  <2>1. meddled' = meddled /\ misled' = misled
    BY <1>4 DEF Look, Commit, DropOld, Install, Cleanup, RecoverRename, Link, Unlink, history
  <2>2. QED
    BY <2>1
<1>5. CASE Compare \/ WriteTemporary \/ Check \/ Stage \/ Place \/ Identify \/ Plan \/ LinkPlain \/ UnlinkPlain
  <2>1. meddled' = meddled /\ misled' = misled
    BY <1>5 DEF Compare, WriteTemporary, Check, Stage, Place, Identify, Plan, LinkPlain, UnlinkPlain, history
  <2>2. QED
    BY <2>1
<1>6. CASE UNCHANGED vars
  BY <1>6 DEF vars, history
<1>7. QED
  BY <1>1, <1>2, <1>3, <1>4, <1>5, <1>6 DEF Next, Recover

LEMMA NotesInit == Init => NotesInv
<1> SUFFICES ASSUME Init PROVE NotesInv
  OBVIOUS
<1>1. Types
  BY TypesInit
<1>2. /\ record.tx = None /\ record.ren = None /\ registry = record /\ noted = {} /\ pc = "idle"
      /\ req = NoRequest /\ ed = Closed /\ clock = 1 /\ tmp = None
  BY DEF Init
<1>3. \A p \in Paths : body[p] # None => body[p].id = 1 /\ body[p].ver = 1
  BY DEF Init
<1>4. Numbered
  BY <1>2, <1>3 DEF Numbered, NoRequest, Closed
<1>5. Phases
  BY <1>2 DEF Phases, NoRequest, tx, ren
<1>6. Unsaved /\ Unplaced
  BY <1>2 DEF Unsaved, Unplaced, NoRequest, Closed, tx
<1>7. Trusted
  BY <1>2 DEF Trusted, Leads, Matches, Halfway, Noted
<1>8. QED
  BY <1>1, <1>4, <1>5, <1>6, <1>7 DEF NotesInv

LEMMA NotesNext == NotesInv /\ [Next]_vars => NotesInv'
<1> SUFFICES ASSUME NotesInv, [Next]_vars PROVE NotesInv'
  OBVIOUS
<1>1. Types /\ Numbered /\ Phases /\ Unsaved /\ Unplaced
  BY DEF NotesInv
<1>2. Types'
  BY <1>1, NextTypes
<1>3. Numbered' /\ Phases'
  BY <1>1, <1>2, NextNumbered, NextPhases
<1>4. Unsaved' /\ Unplaced'
  BY <1>1, <1>2, NextUnsaved, NextUnplaced
<1>5. ~meddled' /\ ~misled' => Trusted'
  BY <1>1, <1>2, <1>3, NextTrusted, StaysAmiss DEF NotesInv
<1>6. QED
  BY <1>2, <1>3, <1>4, <1>5 DEF NotesInv

\* The inductive invariant, for any numbers of edits, saves, renames and mishaps.
THEOREM NotesInvHolds == Spec => []NotesInv
<1>1. QED
  BY NotesInit, NotesNext, PTL DEF Spec

\* The records are well formed, whatever other programs, stops and failures do.
THEOREM TypesHold == Spec => []Types
<1>1. NotesInv => Types
  BY DEF NotesInv
<1>2. QED
  BY <1>1, NotesInvHolds, PTL

\* When nothing is outstanding, a text that was saved with annotations has its annotations
\* beside it.
THEOREM NotesMatchHolds == Spec => []NotesMatch
<1>1. NotesInv => NotesMatch
  BY DEF NotesInv, NotesMatch, Trusted, Matches, Noted, Fine, Body, Side, tx, ren
<1>2. QED
  BY <1>1, NotesInvHolds, PTL
-----------------------------------------------------------------------------
(* Texts.                                                                  *)

\* Names of one file have the same text.
Twins ==
    \A p, q \in Paths : body[p] # None /\ body[q] # None /\ body[p].id = body[q].id => body[p] = body[q]

\* The reader, or the editor, knows what a save is to replace.
Familiar(file) == file = None \/ file.ver \in shown \cup adopted
Aware ==
    /\ ed.open => Familiar(ed.rev)
    /\ req.kind = "save" => Familiar(req.rev)
    /\ pc \in {"stage", "tx_known", "place"} /\ ~req.late => Familiar(Body)

\* Both names are there when one is to be removed.
Linked ==
    ~estranged =>
        /\ pc = "unlink" => Body # None /\ body[To] = Body
        /\ pc = "unlink body" => body[ren.to] # None /\ body[ren.to].id = ren.body

TextsInv == Types /\ Numbered /\ Phases /\ Twins /\ Aware /\ Linked

LEMMA NextTwins ==
    ASSUME Types, Numbered, Phases, Twins, [Next]_vars
    PROVE  Twins'
<1>0. body \in [Paths -> Bodies \cup {None}] /\ clock \in Nat /\ tmp \in Bodies \cup {None} /\ record \in Records
  BY DEF Types
<1>1. CASE Place
  <2>1. \A q \in Paths : body[q] # None => body[q].id # tmp.id
    BY <1>1 DEF Place, Phases
  <2>2. \A q \in Paths : body'[q] = IF q = record.path THEN tmp ELSE body[q]
    BY <1>0, <1>1 DEF Place
  <2>3. QED
    BY <2>1, <2>2 DEF Twins
<1>2. CASE OtherProgram
  <2>1. PICK p \in Paths : EditBody(p) \/ ReplaceBody(p) \/ WriteSide(p)
    BY <1>2 DEF OtherProgram
  <2>2. CASE EditBody(p)
    <3>1. body[p] # None /\ body[p] \in Bodies
      BY <1>0, <2>2 DEF EditBody
    <3> PICK new : new = [body[p] EXCEPT !.ver = clock']
      OBVIOUS
    <3>2. ASSUME NEW q \in Paths
          PROVE  IF body[q].id = body[p].id
                 THEN body[q] = body[p] /\ body'[q] = new
                 ELSE body'[q] = body[q]
      <4>1. CASE body[q].id = body[p].id
        <5>1. body[q] # None
          BY <3>1, <4>1 DEF Bodies, None
        <5>2. body[q] = body[p]
          BY <3>1, <4>1, <5>1 DEF Twins
        <5>3. QED
          BY <2>2, <4>1, <5>2 DEF EditBody
      <4>2. CASE body[q].id # body[p].id
        BY <2>2, <4>2 DEF EditBody
      <4>3. QED
        BY <4>1, <4>2
    <3>3. new.id = body[p].id
      BY <3>1 DEF Bodies
    <3>4. ASSUME NEW q \in Paths, NEW r \in Paths, body'[q] # None, body'[r] # None, body'[q].id = body'[r].id
          PROVE  body'[q] = body'[r]
      <4>1. CASE body[q].id = body[p].id /\ body[r].id = body[p].id
        BY <3>2, <4>1
      <4>2. CASE body[q].id # body[p].id /\ body[r].id # body[p].id
        BY <3>2, <3>4, <4>2 DEF Twins
      <4>3. QED
        BY <3>2, <3>3, <3>4, <4>1, <4>2
    <3>5. QED
      BY <3>4 DEF Twins
  <2>3. CASE ReplaceBody(p)
    <3>1. PICK file \in {[id |-> clock', ver |-> clock'], None} : body' = [body EXCEPT ![p] = file]
      BY <2>3 DEF ReplaceBody
    <3>2. \A q \in Paths : body'[q] = IF q = p THEN file ELSE body[q]
      BY <1>0, <3>1
    <3>3. \A q \in Paths : body[q] # None => body[q].id # clock'
      <4>1. clock' = clock + 1
        BY <1>2, OtherFacts
      <4>2. \A q \in Paths : body[q] # None => body[q].id \in Nat /\ body[q].id <= clock
        BY <1>0 DEF Numbered, Bodies
      <4>3. QED
        BY <1>0, <4>1, <4>2
    <3>4. file = None \/ file.id = clock'
      BY <3>1
    <3>5. QED
      BY <3>2, <3>3, <3>4 DEF Twins
  <2>4. CASE WriteSide(p)
    BY <2>4 DEF WriteSide, Twins
  <2>5. QED
    BY <2>1, <2>2, <2>3, <2>4
<1>3. CASE ~Place /\ ~OtherProgram
  BY <1>3, KeptBodies DEF Twins
<1>4. QED
  BY <1>1, <1>2, <1>3

\* What is in memory of the past is never forgotten.
LEMMA HistoryGrows ==
    ASSUME [Next]_vars
    PROVE  shown \subseteq shown' /\ adopted \subseteq adopted'
<1>1. CASE OtherProgram
  <2>1. PICK p \in Paths : EditBody(p) \/ ReplaceBody(p) \/ WriteSide(p)
    BY <1>1 DEF OtherProgram
  <2>2. QED
    BY <2>1 DEF EditBody, ReplaceBody, WriteSide, Noticed
<1>2. CASE Load \/ Type \/ SaveOnce \/ Overwrite \/ Reload \/ Rename \/ Read \/ Persist \/ PersistFails
  BY <1>2 DEF Load, Type, SaveOnce, Overwrite, SaveOver, Reload, Rename, Read, Persist, PersistFails, history
<1>3. CASE Look \/ Commit \/ DropOld \/ Install \/ Cleanup \/ RecoverRename
  BY <1>3 DEF Look, Commit, DropOld, Install, Cleanup, RecoverRename, Link, Unlink, history
<1>4. CASE Compare \/ WriteTemporary \/ Check \/ Stage \/ Place \/ Identify \/ Plan \/ LinkPlain \/ UnlinkPlain
  BY <1>4 DEF Compare, WriteTemporary, Check, Stage, Place, Identify, Plan, LinkPlain, UnlinkPlain, history
<1>5. CASE Crash \/ UNCHANGED vars
  BY <1>5 DEF Crash, vars, history
<1>6. QED
  BY <1>1, <1>2, <1>3, <1>4, <1>5 DEF Next, Recover

\* Which steps lead where a body is about to be replaced.
LEMMA Approaches ==
    ASSUME [Next]_vars
    PROVE  /\ pc' \in {"stage", "tx_known", "place"} =>
                Check \/ Stage \/ (Persist /\ pc = "tx_known") \/ OtherProgram \/ UNCHANGED vars
           /\ pc' = "unlink" => LinkPlain \/ OtherProgram \/ UNCHANGED vars
           /\ pc' = "unlink body" => Link("body", "unlink body") \/ OtherProgram \/ UNCHANGED vars
<1> DEFINE There == pc' \in {"stage", "tx_known", "place", "unlink", "unlink body"}
<1>1. CASE Load \/ SaveOnce \/ Overwrite \/ Rename
  <2>1. PICK r : Ask(r)
    BY <1>1 DEF Load, SaveOnce, Overwrite, SaveOver, Rename
  <2>2. ~There
    BY <2>1 DEF Ask, Resume, Proceed
  <2>3. QED
    BY <2>2
<1>2. CASE Type \/ Reload \/ Read \/ PersistFails \/ Crash
  <2>1. ~There
    BY <1>2 DEF Type, Reload, Read, PersistFails, Crash, Refuse, Done
  <2>2. QED
    BY <2>1
<1>3. CASE Persist /\ pc # "tx_known"
  <2>1. pc \in {"tx_gone", "moved", "identified", "ren_known", "renamed"}
    BY <1>3 DEF Persist, AfterPersist
  <2>2. CASE pc = "tx_gone"
    BY <1>3, <2>2 DEF Persist, Go, AfterPersist, Proceed
  <2>3. CASE pc = "moved"
    BY <1>3, <2>3 DEF Persist, Go, AfterPersist, Resume, Proceed
  <2>4. CASE pc = "identified"
    BY <1>3, <2>4 DEF Persist, Go, AfterPersist
  <2>5. CASE pc = "ren_known"
    BY <1>3, <2>5 DEF Persist, Go, AfterPersist
  <2>6. CASE pc = "renamed"
    BY <1>3, <2>6 DEF Persist, Go, AfterPersist
  <2>7. QED
    BY <2>1, <2>2, <2>3, <2>4, <2>5, <2>6
<1>4. CASE Persist /\ pc = "tx_known"
  <2>1. pc' = "place"
    BY <1>4 DEF Persist, Go, AfterPersist
  <2>2. QED
    BY <1>4, <2>1
<1>5. CASE Look \/ Commit \/ DropOld \/ Install \/ Cleanup
  <2>1. ~There
    BY <1>5 DEF Look, Commit, DropOld, Install, Cleanup, AnnotationConflict, Refuse, Conflict, Done, Go
  <2>2. QED
    BY <2>1
<1>6. CASE RecoverRename
  <2>1. pc' \in {"unlink body", "link side", "unlink side", "moved", "idle"}
    <3>1. CASE pc = "link body" /\ Link("body", "unlink body")
      BY <3>1 DEF Link, Refuse, Done, Go
    <3>2. CASE pc = "link side" /\ Link("side", "unlink side")
      BY <3>2 DEF Link, Refuse, Done, Go
    <3>3. CASE \E part \in {"body", "side"} : Unlink(part)
      BY <3>3 DEF Unlink, Refuse, Done, Go
    <3>4. QED
      BY <1>6, <3>1, <3>2, <3>3 DEF RecoverRename
  <2>2. pc' = "unlink body" => Link("body", "unlink body")
    <3>1. CASE pc = "link side" /\ Link("side", "unlink side")
      BY <3>1 DEF Link, Refuse, Done, Go
    <3>2. CASE \E part \in {"body", "side"} : Unlink(part)
      BY <3>2 DEF Unlink, Refuse, Done, Go
    <3>3. QED
      BY <1>6, <3>1, <3>2 DEF RecoverRename
  <2>3. QED
    BY <2>1, <2>2
<1>7. CASE Compare \/ WriteTemporary \/ Place \/ Identify \/ Plan \/ UnlinkPlain
  <2>1. ~There
    BY <1>7 DEF Compare, WriteTemporary, Place, Identify, Plan, UnlinkPlain, Refuse, Conflict, Done, Go,
                Resume, Proceed
  <2>2. QED
    BY <2>1
<1>8. CASE Check
  <2>1. pc' \in {"stage", "place", "idle"}
    BY <1>8 DEF Check, Checked, Refuse, Conflict, Done, Go
  <2>2. QED
    BY <1>8, <2>1
<1>9. CASE Stage
  <2>1. pc' \in {"tx_known", "idle"}
    BY <1>9 DEF Stage, AnnotationConflict, Refuse, Conflict, Done, Go
  <2>2. QED
    BY <1>9, <2>1
<1>10. CASE LinkPlain
  <2>1. pc' \in {"unlink", "idle"}
    BY <1>10 DEF LinkPlain, Refuse, Done, Go
  <2>2. QED
    BY <1>10, <2>1
<1>11. CASE OtherProgram \/ UNCHANGED vars
  BY <1>11
<1>12. QED
  BY <1>1, <1>2, <1>3, <1>4, <1>5, <1>6, <1>7, <1>8, <1>9, <1>10, <1>11 DEF Next, Recover

\* The revision that the editor goes by, and that of a save, only change when a file is
\* read and when a save is asked for.
LEMMA SameRevisions ==
    ASSUME Types, Phases, [Next]_vars
    PROVE  /\ Read \/ (ed'.open => ed.open /\ ed'.rev = ed.rev)
           /\ SaveOnce \/ Overwrite \/ (req'.kind = "save" => req.kind = "save" /\ req'.rev = req.rev)
<1>0. ed \in Editing \cup {Closed} /\ req \in Requests \cup {NoRequest} /\ record \in Records
  BY DEF Types
<1>1. ASSUME Ends
      PROVE  (ed'.open => ed.open /\ ed'.rev = ed.rev) /\ (req'.kind = "save" => req' = req)
  <2>1. CASE req.kind = "save" /\ Conflict
    <3>1. ed.open
      BY <2>1 DEF Phases
    <3>2. ed \in Editing
      BY <1>0, <3>1, EdFacts
    <3>3. ed'.rev = ed.rev
      BY <2>1, <3>2 DEF Conflict, Editing
    <3>4. QED
      BY <2>1, <3>1, <3>3 DEF Conflict, Done, NoRequest
  <2>2. CASE Refuse \/ \E next : Go(next)
    BY <2>2 DEF Refuse, Done, Go, NoRequest
  <2>3. QED
    BY <1>1, <2>1, <2>2 DEF Ends
<1>2. CASE Load \/ Rename \/ Reload
  <2>1. CASE Load \/ Rename
    <3>1. ed' = ed /\ req'.kind # "save"
      BY <2>1 DEF Load, Rename, Ask
    <3>2. QED
      BY <3>1
  <2>2. CASE Reload
    BY <2>2 DEF Reload, Closed
  <2>3. QED
    BY <1>2, <2>1, <2>2
<1>3. CASE Type
  <2>1. ed \in Editing /\ ed.open
    BY <1>0, <1>3, EdFacts DEF Type
  <2>2. ed'.rev = ed.rev
    BY <1>3, <2>1 DEF Type, Editing
  <2>3. QED
    BY <1>3, <2>1, <2>2 DEF Type
<1>4. CASE SaveOnce \/ Overwrite
  <2>1. ed.open
    BY <1>4 DEF SaveOnce, Overwrite
  <2>2. ed \in Editing
    BY <1>0, <2>1, EdFacts
  <2>3. ed'.rev = ed.rev
    BY <1>4, <2>2 DEF SaveOnce, Overwrite, SaveOver, Editing
  <2>4. QED
    BY <1>4, <2>1, <2>3
<1>5. CASE Read
  BY <1>5 DEF Read, Refuse, Done, NoRequest
<1>6. CASE Persist \/ PersistFails \/ Look \/ Commit \/ DropOld \/ Install \/ Cleanup
  <2>1. Ends
    BY <1>6 DEF Persist, PersistFails, Look, Commit, DropOld, Install, Cleanup, AnnotationConflict, Ends
  <2>2. QED
    BY <1>1, <2>1
<1>7. CASE RecoverRename
  <2>1. Ends
    BY <1>7 DEF RecoverRename, Link, Unlink, Ends
  <2>2. QED
    BY <1>1, <2>1
<1>8. CASE Compare \/ Check \/ Stage \/ Identify \/ LinkPlain
  <2>1. Ends
    BY <1>8 DEF Compare, Check, Stage, Identify, LinkPlain, AnnotationConflict, Phases, Ends
  <2>2. QED
    BY <1>1, <2>1
<1>9. CASE WriteTemporary
  BY <1>9 DEF WriteTemporary
<1>10. CASE Place
  <2>1. req.kind = "save" /\ ed' = ed /\ req' = [req EXCEPT !.placed = TRUE]
    BY <1>10 DEF Place, Phases
  <2>2. req \in SaveRequests
    BY <1>0, <2>1, ReqFacts
  <2>3. req'.rev = req.rev
    BY <2>1, <2>2 DEF SaveRequests
  <2>4. QED
    BY <2>1, <2>3
<1>11. CASE Plan \/ UnlinkPlain
  <2>1. ed' = ed /\ req.kind = "rename"
    BY <1>11 DEF Plan, UnlinkPlain, Refuse, Go, Phases
  <2>2. req' \in {req, NoRequest, [req EXCEPT !.placed = TRUE]}
    BY <1>11 DEF Plan, UnlinkPlain, Refuse, Go, Done
  <2>3. req'.kind # "save"
    BY <1>0, <2>1, <2>2, ReqFacts, ReqWith DEF NoRequest
  <2>4. QED
    BY <2>1, <2>3
<1>12. CASE OtherProgram
  BY <1>12, OtherFacts, NoticedReq
<1>13. CASE Crash
  BY <1>13 DEF Crash, Closed, NoRequest
<1>14. CASE UNCHANGED vars
  BY <1>14 DEF vars
<1>15. QED
  BY <1>2, <1>3, <1>4, <1>5, <1>6, <1>7, <1>8, <1>9, <1>10, <1>11, <1>12, <1>13, <1>14 DEF Next, Recover

LEMMA NextAware ==
    ASSUME Types, Phases, Aware, Types', Phases', [Next]_vars
    PROVE  Aware'
<1>0. \A file : Familiar(file) => Familiar(file)'
  BY HistoryGrows DEF Familiar
<1>1. ed'.open => Familiar(ed.rev)'
  <2>1. CASE Read
    <3>1. CASE Body.id # record.identity
      BY <1>0, <2>1, <3>1 DEF Read, Refuse, Aware, Familiar
    <3>2. CASE Body.id = record.identity
      <4>1. Body.ver \in shown' \cup adopted'
        BY <2>1, <3>2 DEF Read
      <4>2. ed'.open => ed'.rev = Body
        <5>1. CASE req.kind = "load"
          BY <2>1, <3>2, <5>1 DEF Read
        <5>2. CASE req.kind # "load"
          <6>1. req.kind \in {"save", "rename"}
            BY <2>1, <5>2, ReqFacts DEF Read, Phases, Types
          <6>2. ed \in Editing
            BY <6>1, EdFacts DEF Phases, Types
          <6> PICK b : b = (ed.text # req.text)
            OBVIOUS
          <6> PICK s : s = IF req.annotated THEN Side ELSE ed.notes
            OBVIOUS
          <6>3. \/ ed' = [ed EXCEPT !.rev = Body]
                \/ ed' = [ed EXCEPT !.rev = Body, !.dirty = b, !.notes = s]
            BY <2>1, <3>2, <6>1 DEF Read
          <6>4. CASE ed' = [ed EXCEPT !.rev = Body]
            BY <6>2, <6>4 DEF Editing
          <6>5. CASE ed' = [ed EXCEPT !.rev = Body, !.dirty = b, !.notes = s]
            BY <6>2, <6>5 DEF Editing
          <6>6. QED
            BY <6>3, <6>4, <6>5
        <5>3. QED
          BY <5>1, <5>2
      <4>3. QED
        BY <4>1, <4>2 DEF Familiar
    <3>3. QED
      BY <3>1, <3>2
  <2>2. CASE ed'.open => ed.open /\ ed'.rev = ed.rev
    BY <1>0, <2>2 DEF Aware, Familiar
  <2>3. QED
    BY <2>1, <2>2, SameRevisions
<1>2. req'.kind = "save" => Familiar(req.rev)'
  <2>1. CASE SaveOnce
    <3>1. req'.rev = ed.rev /\ ed.open
      BY <2>1 DEF SaveOnce, SaveOver, Ask
    <3>2. QED
      BY <1>0, <3>1 DEF Aware, Familiar
  <2>2. CASE Overwrite
    <3>1. req'.rev = ed.conflict /\ ed.conflict.ver \in shown'
      BY <2>2 DEF Overwrite, SaveOver, Ask
    <3>2. QED
      BY <3>1 DEF Familiar
  <2>3. CASE req'.kind = "save" => req.kind = "save" /\ req'.rev = req.rev
    BY <1>0, <2>3 DEF Aware, Familiar
  <2>4. QED
    BY <2>1, <2>2, <2>3, SameRevisions
<1>3. ASSUME pc' \in {"stage", "tx_known", "place"}, ~req'.late PROVE Familiar(Body)'
  <2>1. CASE Check
    <3>1. Body' = Body /\ Body = req.rev /\ req.kind = "save"
      BY <1>3, <2>1 DEF Check, Refuse, Conflict, Done, Go, Body, disk, Phases
    <3>2. QED
      BY <1>0, <3>1 DEF Aware, Familiar
  <2>2. CASE Stage \/ (Persist /\ pc = "tx_known")
    <3>1. UNCHANGED body /\ record'.path = record.path
      BY <2>2 DEF Stage, Persist, disk, Types, Records
    <3>2. req' = req /\ pc \in {"stage", "tx_known"}
      BY <1>3, <2>2 DEF Stage, Persist, AnnotationConflict, Refuse, Conflict, Done, Go
    <3>3. QED
      BY <1>0, <1>3, <3>1, <3>2 DEF Aware, Familiar, Body
  <2>3. CASE OtherProgram
    <3>1. pc' = pc /\ record' = record
      BY <2>3, OtherFacts
    <3>2. PICK p \in Paths : EditBody(p) \/ ReplaceBody(p) \/ WriteSide(p)
      BY <2>3 DEF OtherProgram
    <3>3. req.kind = "save" /\ req # NoRequest
      <4>1. pc = "place" \/ pc \in {"stage", "tx_known"}
        BY <1>3, <3>1
      <4>2. QED
        BY <4>1 DEF Phases
    <3>4. req \in SaveRequests
      BY <3>3, ReqFacts DEF Types
    <3>5. CASE EditBody(p) \/ ReplaceBody(p)
      <4>1. Noticed(TRUE)
        BY <3>5 DEF EditBody, ReplaceBody
      <4> PICK l : l = (req.late \/ (TRUE /\ pc \in {"stage", "tx_known", "place"}))
        OBVIOUS
      <4>2. req' = [req EXCEPT !.calm = FALSE, !.late = l]
        BY <3>3, <4>1 DEF Noticed
      <4>3. req'.late = l
        BY <3>4, <4>2 DEF SaveRequests
      <4>4. QED
        BY <1>3, <3>1, <4>3
    <3>6. CASE WriteSide(p)
      <4>1. Noticed(FALSE) /\ body' = body
        BY <3>6 DEF WriteSide
      <4> PICK l : l = (req.late \/ (FALSE /\ pc \in {"stage", "tx_known", "place"}))
        OBVIOUS
      <4>2. req' = [req EXCEPT !.calm = FALSE, !.late = l]
        BY <3>3, <4>1 DEF Noticed
      <4>3. req'.late = l
        BY <3>4, <4>2 DEF SaveRequests
      <4>4. ~req.late
        BY <1>3, <4>3
      <4>5. QED
        BY <1>0, <1>3, <3>1, <4>1, <4>4 DEF Aware, Familiar, Body
    <3>7. QED
      BY <3>2, <3>5, <3>6
  <2>4. CASE UNCHANGED vars
    BY <1>0, <1>3, <2>4 DEF vars, disk, Aware, Familiar, Body
  <2>5. QED
    BY <1>3, <2>1, <2>2, <2>3, <2>4, Approaches
<1>4. QED
  BY <1>1, <1>2, <1>3 DEF Aware

LEMMA NextLinked ==
    ASSUME Types, Phases, Linked, Types', Phases', [Next]_vars
    PROVE  Linked'
<1>0. body \in [Paths -> Bodies \cup {None}] /\ record \in Records
  BY DEF Types
<1> SUFFICES ASSUME ~estranged', pc' \in {"unlink", "unlink body"}
             PROVE  /\ pc' = "unlink" => Body' # None /\ (body[To] = Body)'
                    /\ pc' = "unlink body" => (body[ren.to] # None /\ body[ren.to].id = ren.body)'
  BY DEF Linked
<1>1. CASE LinkPlain
  <2>1. UNCHANGED record /\ pc' \in {"idle", "unlink"}
    BY <1>1 DEF LinkPlain, Refuse, Done, Go
  <2>2. Body # None /\ body' = [body EXCEPT ![To] = Body]
    BY <1>1 DEF LinkPlain, Refuse, Done
  <2>3. To \in Paths /\ To # record.path /\ record.path \in Paths /\ To' = To
    BY <2>1, TypesHere DEF To
  <2>4. QED
    BY <1>0, <2>1, <2>2, <2>3 DEF Body
<1>2. CASE Link("body", "unlink body")
  <2>1. UNCHANGED record /\ ren' = ren
    BY <1>2 DEF Link, ren
  <2>2. pc' = "unlink body"
    BY <1>2 DEF Link, Refuse, Done, Go
  <2>3. ren.to \in Paths
    BY <2>1, <2>2, TypesHere DEF Phases, Renames
  <2>4. ren \in Renames /\ ren.body # 0
    BY <2>1, <2>2, TypesHere DEF Phases, Renames
  <2>5. CASE body' = body /\ body[ren.to] # None /\ body[ren.to].id = ren.body
    BY <2>1, <2>2, <2>5
  <2>6. CASE /\ body' = [body EXCEPT ![ren.to] = body[NextPath(ren.to)]]
             /\ body[NextPath(ren.to)].id = ren.body
    <3>1. body'[ren.to] = body[NextPath(ren.to)]
      BY <1>0, <2>3, <2>6
    <3>2. body[NextPath(ren.to)] # None
      <4>1. None.id = 0
        BY DEF None
      <4>2. QED
        BY <2>4, <2>6, <4>1
    <3>3. QED
      BY <2>1, <2>2, <2>6, <3>1, <3>2
  <2>7. QED
    BY <1>2, <2>2, <2>5, <2>6 DEF Link, Refuse, Done, Files, SetFiles, Known
<1>3. CASE OtherProgram
  <2>1. estranged' = TRUE
    <3>1. PICK p \in Paths : EditBody(p) \/ ReplaceBody(p) \/ WriteSide(p)
      BY <1>3 DEF OtherProgram
    <3>2. pc # "idle"
      BY <1>3, OtherFacts
    <3>3. Outstanding
      BY <3>2 DEF Outstanding
    <3>4. QED
      BY <3>1, <3>3 DEF EditBody, ReplaceBody, WriteSide
  <2>2. QED
    BY <2>1
<1>4. CASE UNCHANGED vars
  BY <1>4 DEF vars, disk, history, Linked, Body, To, ren
<1>5. QED
  BY <1>1, <1>2, <1>3, <1>4, Approaches

LEMMA TextsInit == Init => TextsInv
<1> SUFFICES ASSUME Init PROVE TextsInv
  OBVIOUS
<1>1. Types /\ Numbered /\ Phases
  BY NotesInit DEF NotesInv
<1>2. Twins
  BY DEF Init, Twins
<1>3. Aware /\ Linked
  BY DEF Init, Aware, Linked, Closed, NoRequest
<1>4. QED
  BY <1>1, <1>2, <1>3 DEF TextsInv

LEMMA TextsNext == TextsInv /\ [Next]_vars => TextsInv'
<1> SUFFICES ASSUME TextsInv, [Next]_vars PROVE TextsInv'
  OBVIOUS
<1>1. Types /\ Numbered /\ Phases /\ Twins /\ Aware /\ Linked
  BY DEF TextsInv
<1>2. Types'
  BY <1>1, NextTypes
<1>3. Numbered' /\ Phases' /\ Twins'
  BY <1>1, <1>2, NextNumbered, NextPhases, NextTwins
<1>4. Aware' /\ Linked'
  BY <1>1, <1>2, <1>3, NextAware, NextLinked
<1>5. QED
  BY <1>2, <1>3, <1>4 DEF TextsInv

THEOREM TextsInvHolds == Spec => []TextsInv
<1>1. QED
  BY TextsInit, TextsNext, PTL DEF Spec

LEMMA Losses ==
    ASSUME TextsInv, Next
    PROVE  \/ OtherProgram
           \/ \A v \in Texts \ Texts' :
                 \/ Place /\ (v \in shown \cup adopted \/ req.late)
                 \/ (UnlinkPlain \/ RecoverRename) /\ estranged
                 \/ PersistFails /\ pc = "renamed"
<1> SUFFICES ASSUME ~OtherProgram, NEW v \in Texts \ Texts'
             PROVE  \/ Place /\ (v \in shown \cup adopted \/ req.late)
                    \/ (UnlinkPlain \/ RecoverRename) /\ estranged
                    \/ PersistFails /\ pc = "renamed"
  OBVIOUS
<1>0. /\ Types /\ Phases /\ Twins /\ Aware /\ Linked /\ record.path \in Paths
      /\ body \in [Paths -> Bodies \cup {None}]
  BY TypesHere DEF TextsInv, Types
<1>1. PICK lost \in Paths : body[lost] # None /\ body[lost].ver = v
  BY DEF Texts
<1>2. \A q \in Paths : body'[q] # body[lost]
  BY <1>1 DEF Texts
<1>3. CASE Place
  <2>1. lost = record.path
    BY <1>0, <1>2, <1>3 DEF Place
  <2>2. req.late \/ Familiar(Body)
    BY <1>0, <1>3 DEF Place, Aware
  <2>3. QED
    BY <1>1, <1>3, <2>1, <2>2 DEF Familiar, Body
<1>4. CASE PersistFails
  BY <1>2, <1>4 DEF PersistFails
<1>5. CASE UnlinkPlain
  <2>1. SUFFICES ASSUME ~estranged PROVE FALSE
    BY <1>5
  <2>2. Body # None /\ body[To] = Body
    BY <1>0, <1>5, <2>1 DEF UnlinkPlain, Linked
  <2>3. To \in Paths /\ To # record.path
    BY <1>0, TypesHere DEF To
  <2>4. body'[To] = body[To] /\ \A q \in Paths : q # record.path => body'[q] = body[q]
    BY <1>0, <1>5, <2>2, <2>3 DEF UnlinkPlain
  <2>5. QED
    BY <1>2, <2>2, <2>3, <2>4 DEF Body
<1>6. CASE RecoverRename
  <2>1. SUFFICES ASSUME ~estranged PROVE FALSE
    BY <1>6
  <2>2. ren \in Renames /\ ren.to \in Paths /\ NextPath(ren.to) \in Paths /\ NextPath(ren.to) # ren.to
    <3>1. ren \in Renames
      BY <1>0, <1>6, TypesHere DEF RecoverRename, Phases
    <3>2. ren.to \in Paths
      BY <3>1 DEF Renames
    <3>3. QED
      BY <1>0, <3>1, <3>2, TypesHere
  <2>3. CASE pc = "link body" /\ Link("body", "unlink body")
    <3>1. \A q \in Paths : body[q] # None => body'[q] = body[q]
      BY <1>0, <2>2, <2>3 DEF Link, Files, SetFiles
    <3>2. QED
      BY <1>1, <1>2, <3>1
  <2>4. CASE pc = "unlink body" /\ Unlink("body")
    <3>1. body[ren.to] # None /\ body[ren.to].id = ren.body
      BY <1>0, <2>1, <2>4 DEF Linked
    <3> PICK from : from = NextPath(ren.to)
      OBVIOUS
    <3>2. body'[ren.to] = body[ren.to] /\ \A q \in Paths : q # from => body'[q] = body[q]
      BY <1>0, <2>2, <2>4 DEF Unlink, Files, SetFiles
    <3>3. lost = from
      BY <1>2, <3>2
    <3>4. body[from].id = ren.body
      BY <1>1, <1>2, <2>4, <3>3 DEF Unlink, Files, SetFiles, Known
    <3>5. body[from] = body[ren.to]
      BY <1>0, <1>1, <2>2, <3>1, <3>3, <3>4 DEF Twins
    <3>6. QED
      BY <1>2, <2>2, <3>2, <3>3, <3>5
  <2>5. CASE (pc = "link side" /\ Link("side", "unlink side")) \/ (pc = "unlink side" /\ Unlink("side"))
    <3>1. body' = body
      BY <2>5 DEF Link, Unlink, SetFiles
    <3>2. QED
      BY <1>2, <3>1
  <2>6. QED
    BY <1>6, <2>3, <2>4, <2>5 DEF RecoverRename
<1>7. CASE LinkPlain
  <2>1. \A q \in Paths : body[q] # None => body'[q] = body[q]
    BY <1>0, <1>7 DEF LinkPlain
  <2>2. QED
    BY <1>1, <1>2, <2>1
<1>8. CASE Load \/ Type \/ SaveOnce \/ Overwrite \/ Reload \/ Rename \/ Read \/ Persist
  <2>1. body' = body
    BY <1>8 DEF Load, Type, SaveOnce, Overwrite, SaveOver, Reload, Rename, Read, Persist, Ask, disk
  <2>2. QED
    BY <1>2, <2>1
<1>9. CASE Look \/ Commit \/ DropOld \/ Install \/ Cleanup \/ Compare \/ WriteTemporary
  <2>1. body' = body
    BY <1>9 DEF Look, Commit, DropOld, Install, Cleanup, Compare, WriteTemporary, disk
  <2>2. QED
    BY <1>2, <2>1
<1>10. CASE Check \/ Stage \/ Identify \/ Plan \/ Crash
  <2>1. body' = body
    BY <1>10 DEF Check, Stage, Identify, Plan, Crash, disk
  <2>2. QED
    BY <1>2, <2>1
<1>11. QED
  BY <1>3, <1>4, <1>5, <1>6, <1>7, <1>8, <1>9, <1>10 DEF Next, Recover

\* A text disappears only when a save replaces it that its reader had seen or agreed to
\* replace, with the exceptions that the property names.
THEOREM OnlySavesReplaceHolds == Spec => OnlySavesReplace
<1>1. TextsInv /\ [Next]_vars =>
        [\/ OtherProgram
         \/ \A v \in Texts \ Texts' :
               \/ Place /\ (v \in shown \cup adopted \/ req.late)
               \/ (UnlinkPlain \/ RecoverRename) /\ estranged
               \/ PersistFails /\ pc = "renamed"]_vars
  BY Losses
<1>2. QED
  BY <1>1, TextsInvHolds, PTL DEF Spec, OnlySavesReplace
-----------------------------------------------------------------------------
(* Answers.                                                                *)

\* The sidecar of a save is in place, or can still be put there.
Placeable(t, s) ==
    \/ s = t.new
    \/ t.new \in pending /\ (s = t.old \/ (s = None /\ t.new \in kept))

\* A file that is renamed is at one of its names at least, and no other file is there.
Movable(r) ==
    LET from == NextPath(r.to)
    IN /\ body[r.to].id = r.body \/ (body[r.to] = None /\ body[from].id = r.body)
       /\ body[from] = None \/ body[from].id = r.body
       /\ side[r.to] = r.side \/ (side[r.to] = None /\ side[from] = r.side)
       /\ side[from] \in {None, r.side}

\* What a record tells of the files is so, and what it left unfinished can be finished.
Sound(rec) ==
    IF rec.tx # None
    THEN \/ body[rec.path] = rec.tx.body /\ Placeable(rec.tx, side[rec.path])
         \/ body[rec.path].id # rec.tx.body.id /\ body[rec.path].id = rec.identity
    ELSE IF rec.ren # None
         THEN rec.ren.body = rec.identity /\ rec.path = NextPath(rec.ren.to) /\ Movable(rec.ren)
         ELSE body[rec.path].id = rec.identity

\* While the registry can be written it has the record, except in the phases that end
\* with writing it, and there it has what an operation began with.
Unwritten == {"tx_known", "clean", "tx_gone", "identified", "ren_known", "moved", "renamed"}
Written ==
    faults = 0 =>
        /\ pc \notin Unwritten => registry = record
        /\ pc \in {"tx_known", "identified", "ren_known", "renamed"} => registry.tx = None /\ registry.ren = None
        /\ pc \in {"tx_known", "identified", "ren_known", "clean"} => registry.path = record.path
        /\ pc = "renamed" => registry.path # record.path
        /\ pc = "clean" => registry.tx = tx /\ registry.ren = None

\* Nobody took the file from under its record, so a restart and each phase find what they need.
Aligned ==
    /\ IF pc = "identify" THEN Body # None ELSE Sound(record)
    /\ faults = 0 /\ pc \in {"tx_known", "clean", "tx_gone", "ren_known", "moved"} => Sound(registry)
    /\ pc \in {"tx_known", "place"} /\ tx # None =>
          Body.id # tx.body.id /\ Side = tx.old /\ tx.new \in pending
    /\ pc \in {"commit", "drop", "install"} => Body = tx.body
    /\ pc = "drop" => Side = tx.old /\ tx.new \in pending /\ tx.new \in kept
    /\ pc = "install" => Side = None
    /\ pc = "clean" => Body.id = record.identity /\ (Body.id # tx.body.id \/ (Body = tx.body /\ Side = tx.new))
    /\ pc = "unlink" => body[To] = Body
    /\ pc \in {"unlink body", "link side", "unlink side"} => body[ren.to].id = ren.body
    /\ pc \in {"link side", "unlink side"} => body[NextPath(ren.to)] = None
    /\ pc = "unlink side" => side[ren.to] = ren.side

\* A save, before and after it has put its text in place.
Saving ==
    req.kind = "save" =>
        /\ ed.conflict = None
        /\ pc \in {"compare", "write", "check", "stage", "tx_known", "place"} => ~req.placed
        /\ pc \in {"identify", "identified", "read"} => req.placed
        /\ pc \in {"tx_known", "place"} /\ tx # None => tx.new.of = req.text
        /\ req.placed /\ req.calm =>
              /\ ren = None /\ pc # "moved" /\ Body # None /\ Body.ver = req.text
              /\ tx # None => Body = tx.body /\ tx.new.of = req.text
              /\ req.annotated /\ pc \in {"clean", "tx_gone", "identify", "identified", "read"} =>
                    Side # None /\ Side.of = req.text

\* The inductive invariant.
AnswersInv == Types /\ Phases /\ Numbered /\ Written /\ (~estranged => Aligned) /\ Saving

\* Where a step goes on that has written the registry.
LEMMA PersistGoes ==
    ASSUME Types, Phases, Persist
    PROVE  /\ UNCHANGED <<disk, tmp, record, req, ed, faults, estranged>> /\ registry' = record
           /\ req # NoRequest
           /\ \/ pc = "tx_known" /\ pc' = "place"
              \/ pc \in {"identified", "renamed"} /\ pc' = "read"
              \/ pc = "ren_known" /\ pc' = "link body"
              \/ pc \in {"tx_gone", "moved"} /\ pc' = Proceed(req)
<1>1. pc \in {"tx_gone", "moved", "tx_known", "identified", "ren_known", "renamed"} /\ Go(AfterPersist[pc])
  BY DEF Persist, AfterPersist
<1>2. UNCHANGED <<disk, tmp, record, req, ed, faults, estranged>> /\ registry' = record
  BY DEF Persist, Go, bounds, history
<1>3. req # NoRequest
  BY <1>1 DEF Phases
<1>4. CASE pc = "tx_gone"
  BY <1>1, <1>2, <1>3, <1>4 DEF Go, AfterPersist
<1>5. CASE pc = "moved"
  <2>1. pc' = Resume(record, req) /\ tx = None /\ ren = None
    BY <1>1, <1>5 DEF Go, AfterPersist, Phases
  <2>2. QED
    BY <1>2, <1>3, <1>5, <2>1 DEF Resume, tx, ren
<1>6. CASE pc = "tx_known"
  BY <1>1, <1>2, <1>3, <1>6 DEF Go, AfterPersist
<1>7. CASE pc = "identified"
  BY <1>1, <1>2, <1>3, <1>7 DEF Go, AfterPersist
<1>8. CASE pc = "ren_known"
  BY <1>1, <1>2, <1>3, <1>8 DEF Go, AfterPersist
<1>9. CASE pc = "renamed"
  BY <1>1, <1>2, <1>3, <1>9 DEF Go, AfterPersist
<1>10. QED
  BY <1>1, <1>4, <1>5, <1>6, <1>7, <1>8, <1>9

\* A step that changes neither record, from a phase that does not end with writing the
\* registry to another.
LEMMA WrittenKept ==
    ASSUME Written, faults' = faults, UNCHANGED <<record, registry>>, pc \notin Unwritten, pc' \notin Unwritten
    PROVE  Written'
BY DEF Written, Unwritten

\* The registry keeps up with the record.
LEMMA NextWritten ==
    ASSUME Types, Phases, Written, Types', Phases', [Next]_vars
    PROVE  Written'
<1>0. record \in Records /\ registry \in Records /\ faults \in Nat
  BY DEF Types
<1>1. CASE Load \/ SaveOnce \/ Overwrite \/ Rename
  <2>1. PICK r : Ask(r)
    BY <1>1 DEF Load, SaveOnce, Overwrite, SaveOver, Rename
  <2>2. pc = "idle" /\ pc' \in {"link body", "look", "identify", "compare", "read"} /\ faults' = faults
    BY <1>1, <2>1 DEF Load, SaveOnce, Overwrite, SaveOver, Rename, Ask, Resume, Proceed, bounds
  <2>3. QED
    BY <2>1, <2>2, WrittenKept DEF Ask, Unwritten
<1>2. CASE Type
  BY <1>2 DEF Type, Written, tx
<1>3. CASE Reload \/ Read
  <2>1. UNCHANGED <<record, registry, faults>> /\ pc \in {"idle", "read"} /\ pc' = "idle"
    BY <1>3 DEF Reload, Read, Refuse, Done, bounds
  <2>2. QED
    BY <2>1, WrittenKept DEF Unwritten
<1>4. CASE Persist
  <2>1. registry' = record' /\ pc' \in {"place", "read", "link body", "identify", "compare"}
    BY <1>4, PersistGoes DEF Proceed
  <2>2. QED
    BY <2>1 DEF Written, Unwritten
<1>5. CASE PersistFails
  BY <1>0, <1>5 DEF PersistFails, Written
<1>6. CASE Look
  <2>1. UNCHANGED <<record, registry, faults>> /\ pc = "look" /\ pc' \in {"commit", "clean", "idle"}
    BY <1>6 DEF Look, Go, Refuse, Done, bounds
  <2>2. tx' = tx /\ ren = None
    BY <2>1 DEF Phases, tx
  <2>3. faults = 0 => registry = record
    BY <2>1 DEF Written, Unwritten
  <2>4. QED
    BY <2>1, <2>2, <2>3 DEF Written, Unwritten, tx, ren
<1>7. CASE Commit \/ DropOld \/ Install
  <2>1. registry' = registry /\ faults' = faults /\ pc \in {"commit", "drop", "install"}
    BY <1>7 DEF Commit, DropOld, Install, bounds
  <2>2. \/ pc' \in {"drop", "install", "idle"} /\ record' = record
        \/ pc' = "clean" /\ record'.path = record.path /\ record'.tx = tx
    BY <1>0, <1>7 DEF Commit, DropOld, Install, Go, AnnotationConflict, Refuse, Conflict, Done, Records, tx
  <2>3. ren = None /\ (faults = 0 => registry = record)
    BY <2>1 DEF Phases, Written, Unwritten
  <2>4. QED
    BY <2>1, <2>2, <2>3 DEF Written, Unwritten, tx, ren
<1>8. CASE Cleanup
  BY <1>8 DEF Cleanup, Go, Written, Unwritten
<1>9. CASE RecoverRename
  <2>1. registry' = registry /\ faults' = faults /\ pc \in {"link body", "unlink body", "link side", "unlink side"}
    BY <1>9 DEF RecoverRename, Link, Unlink, bounds
  <2>2. (pc' \in {"unlink body", "link side", "unlink side", "idle"} /\ record' = record) \/ pc' = "moved"
    BY <1>9 DEF RecoverRename, Link, Unlink, Go, Refuse, Done
  <2>3. QED
    BY <2>1, <2>2, WrittenKept DEF Written, Unwritten
<1>10. CASE Compare \/ WriteTemporary \/ Check
  <2>1. UNCHANGED <<record, registry, faults>> /\ pc \in {"compare", "write", "check"}
        /\ pc' \in {"write", "plan", "check", "stage", "place", "idle"}
    BY <1>10 DEF Compare, WriteTemporary, Check, Checked, Go, Refuse, Conflict, Done, bounds
  <2>2. QED
    BY <2>1, WrittenKept DEF Unwritten
<1>11. CASE Stage
  <2>1. registry' = registry /\ faults' = faults /\ pc = "stage" /\ tx = None /\ ren = None
    BY <1>11 DEF Stage, bounds, Phases
  <2>2. \/ pc' = "idle" /\ record' = record
        \/ pc' = "tx_known" /\ record'.path = record.path
    BY <1>0, <1>11 DEF Stage, Go, AnnotationConflict, Refuse, Conflict, Done, Records
  <2>3. faults = 0 => registry = record
    BY <2>1 DEF Written, Unwritten
  <2>4. QED
    BY <2>1, <2>2, <2>3 DEF Written, Unwritten, tx, ren
<1>12. CASE Place
  <2>1. UNCHANGED <<record, registry, faults>> /\ pc = "place" /\ pc' \in {"link body", "look", "identify", "compare", "read"}
    BY <1>12 DEF Place, Resume, Proceed, bounds
  <2>2. QED
    BY <2>1, WrittenKept DEF Unwritten
<1>13. CASE Identify \/ Plan
  <2>1. registry' = registry /\ faults' = faults /\ pc \in {"identify", "plan"} /\ tx = None /\ ren = None
    BY <1>13 DEF Identify, Plan, bounds, Phases
  <2>2. \/ pc' \in {"idle", "link"} /\ record' = record
        \/ pc' \in {"identified", "ren_known"} /\ record'.path = record.path
    BY <1>0, <1>13 DEF Identify, Plan, Go, Refuse, Done, Records
  <2>3. faults = 0 => registry = record
    BY <2>1 DEF Written, Unwritten
  <2>4. QED
    BY <2>1, <2>2, <2>3 DEF Written, Unwritten, tx, ren
<1>14. CASE LinkPlain
  <2>1. UNCHANGED <<record, registry, faults>> /\ pc = "link" /\ pc' \in {"unlink", "idle"}
    BY <1>14 DEF LinkPlain, Go, Refuse, Done, bounds
  <2>2. QED
    BY <2>1, WrittenKept DEF Unwritten
<1>15. CASE UnlinkPlain
  <2>1. registry' = registry /\ faults' = faults /\ pc = "unlink" /\ tx = None /\ ren = None
    BY <1>15 DEF UnlinkPlain, bounds, Phases
  <2>2. \/ pc' = "idle" /\ record' = record
        \/ pc' = "renamed" /\ record'.path = To
    <3>1. CASE Body = None
      BY <1>15, <3>1 DEF UnlinkPlain, Refuse, Done
    <3>2. CASE Body # None
      BY <1>0, <1>15, <3>2 DEF UnlinkPlain, Records
    <3>3. QED
      BY <3>1, <3>2
  <2>3. (faults = 0 => registry = record) /\ To # record.path
    BY <2>1, TypesHere DEF Written, Unwritten, To
  <2>4. QED
    BY <2>1, <2>2, <2>3 DEF Written, Unwritten, tx, ren
<1>16. CASE OtherProgram
  <2>1. UNCHANGED <<record, registry, pc>>
    BY <1>16, OtherFacts
  <2>2. faults' = faults
    BY <1>16, OtherFacts DEF Noticed
  <2>3. QED
    BY <2>1, <2>2 DEF Written, tx
<1>17. CASE Crash
  BY <1>17 DEF Crash, Written, Unwritten, disk
<1>18. CASE UNCHANGED vars
  BY <1>18 DEF vars, Written, bounds, tx
<1>19. QED
  BY <1>1, <1>2, <1>3, <1>4, <1>5, <1>6, <1>7, <1>8, <1>9, <1>10, <1>11, <1>12, <1>13, <1>14, <1>15,
     <1>16, <1>17, <1>18 DEF Next, Recover

\* A request of another kind, or none.
LEMMA NotSaving == ASSUME req'.kind # "save" PROVE Saving'
BY DEF Saving

\* A step that leaves the files, the record, the request and the editor's conflict.
LEMMA SavingKept ==
    ASSUME Saving, UNCHANGED <<body, side, record, req>>, req.kind = "save" => ed'.conflict = ed.conflict,
           pc' \in {pc, "commit"}
    PROVE  Saving'
BY DEF Saving, Body, Side, tx, ren

\* A save stays one that has, or has not yet, put its text in place.
LEMMA NextSaving ==
    ASSUME Types, Phases, Saving, Types', Phases', [Next]_vars
    PROVE  Saving'
<1>0. /\ record \in Records /\ ed \in Editing \cup {Closed} /\ req \in Requests \cup {NoRequest}
      /\ body \in [Paths -> Bodies \cup {None}] /\ side \in [Paths -> Sidecars \cup {None}]
  BY DEF Types
<1>a. NoRequest.kind # "save"
  BY DEF NoRequest
<1>1. CASE Load \/ Rename
  BY <1>1, NotSaving DEF Load, Rename, Ask
<1>2. CASE SaveOnce \/ Overwrite
  <2>1. ed.open /\ ed' = [ed EXCEPT !.conflict = None] /\ UNCHANGED record /\ pc' = Resume(record, req')
        /\ req'.kind = "save" /\ ~req'.placed
    <3>1. PICK revision : SaveOver(revision)
      BY <1>2 DEF SaveOnce, Overwrite
    <3>2. ed.open /\ ed' = [ed EXCEPT !.conflict = None]
      BY <3>1 DEF SaveOver
    <3>3. UNCHANGED record /\ pc' = Resume(record, req') /\ req'.kind = "save" /\ ~req'.placed
      BY <3>1 DEF SaveOver, Ask
    <3>4. QED
      BY <3>2, <3>3
  <2>2. ed'.conflict = None
    <3>1. ed \in Editing
      BY <1>0, <2>1, EdFacts
    <3>2. QED
      BY <2>1, <3>1 DEF Editing
  <2>3. pc' \in {"link body", "look", "compare"}
    BY <2>1 DEF Resume, Proceed
  <2>4. QED
    BY <2>1, <2>2, <2>3 DEF Saving
<1>3. CASE Type
  <2>1. ed \in Editing
    BY <1>0, <1>3, EdFacts DEF Type
  <2>2. ed'.conflict = ed.conflict
    BY <1>3, <2>1 DEF Type, Editing
  <2>3. UNCHANGED <<body, side, record, req, pc>>
    BY <1>3 DEF Type, disk
  <2>4. QED
    BY <2>2, <2>3, SavingKept
<1>4. CASE Reload
  <2>1. req' = NoRequest
    BY <1>4 DEF Reload, Phases
  <2>2. QED
    BY <1>a, <2>1, NotSaving
<1>5. CASE req' = NoRequest
  BY <1>a, <1>5, NotSaving
<1>6. CASE Read \/ PersistFails \/ Crash
  BY <1>5, <1>6 DEF Read, PersistFails, Crash, Refuse, Done
<1>7. CASE Persist
  <2>1. UNCHANGED <<body, side, record, req, ed>>
    BY <1>7, PersistGoes DEF disk
  <2>2. SUFFICES ASSUME req.kind = "save" PROVE Saving'
    BY <2>1, NotSaving
  <2>3. req' = req /\ Body' = Body /\ Side' = Side /\ tx' = tx /\ ren' = ren /\ ed' = ed
    BY <2>1 DEF Body, Side, tx, ren
  <2>4. CASE pc = "tx_known" /\ pc' = "place"
    BY <2>2, <2>3, <2>4 DEF Saving
  <2>5. CASE pc = "identified" /\ pc' = "read"
    BY <2>2, <2>3, <2>5 DEF Saving
  <2>6. CASE pc \in {"tx_gone", "moved"} /\ pc' = Proceed(req)
    <3>1. pc' = IF req.placed THEN "identify" ELSE "compare"
      BY <2>2, <2>6 DEF Proceed
    <3>2. QED
      BY <2>2, <2>3, <2>6, <3>1 DEF Saving
  <2>7. pc \notin {"renamed", "ren_known"}
    BY <2>2 DEF Phases
  <2>8. QED
    BY <1>7, <2>4, <2>5, <2>6, <2>7, PersistGoes
<1>8. CASE Look
  <2>1. UNCHANGED <<body, side, record>>
    BY <1>8 DEF Look, disk
  <2>2. CASE Go("commit")
    BY <2>1, <2>2, SavingKept DEF Go
  <2>3. CASE Go("clean") /\ Body.id # tx.body.id
    <3>1. tx # None
      BY <1>8 DEF Look, Phases
    <3>2. req.kind = "save" => ~(req.placed /\ req.calm)
      BY <2>3, <3>1 DEF Saving
    <3>3. QED
      BY <2>3, <3>2 DEF Go, Saving
  <2>4. CASE Refuse
    BY <1>5, <2>4 DEF Refuse, Done
  <2>5. QED
    BY <1>8, <2>2, <2>3, <2>4 DEF Look
<1>9. CASE Commit \/ DropOld \/ Install
  <2>1. body' = body /\ record'.path = record.path /\ record'.tx = tx /\ record'.ren = ren
        /\ pc \in {"commit", "drop", "install"}
    BY <1>0, <1>9 DEF Commit, DropOld, Install, Records, tx, ren
  <2>2. tx # None /\ tx.new \in Sidecars
    BY <2>1, TypesHere DEF Phases, Saves
  <2>a. AnnotationConflict => req' = NoRequest
    BY DEF AnnotationConflict, Refuse, Conflict, Done
  <2>3. \/ req' = NoRequest
        \/ /\ UNCHANGED <<req, ed>>
           /\ pc' \in {"drop", "install"} \/ (pc' = "clean" /\ Side' = tx.new)
    <3>1. CASE Commit
      <4>1. Side' = Side
        BY <2>1, <3>1 DEF Commit, Side
      <4>2. QED
        BY <2>a, <3>1, <4>1 DEF Commit, Go
    <3>2. CASE DropOld
      BY <2>a, <3>2 DEF DropOld, Go
    <3>3. CASE Install
      <4>1. CASE Side = None
        <5>1. Side' = tx.new
          BY <1>0, <2>1, <3>3, <4>1, TypesHere DEF Install, Side
        <5>2. QED
          BY <3>3, <4>1, <5>1 DEF Install, Go
      <4>2. CASE Side # None
        BY <3>3, <4>2 DEF Install, Refuse, Done
      <4>3. QED
        BY <4>1, <4>2
    <3>4. QED
      BY <1>9, <3>1, <3>2, <3>3
  <2>4. CASE UNCHANGED <<req, ed>> /\ (pc' \in {"drop", "install"} \/ (pc' = "clean" /\ Side' = tx.new))
    <3>1. Body' = Body /\ tx' = tx /\ ren' = ren
      BY <2>1 DEF Body, tx, ren
    <3>2. tx.new # None
      BY <2>2 DEF Sidecars, None
    <3>3. QED
      BY <2>1, <2>2, <2>4, <3>1, <3>2 DEF Saving
  <2>5. QED
    BY <1>5, <2>3, <2>4
<1>10. CASE Cleanup
  <2>1. UNCHANGED <<body, side, req, ed>> /\ pc = "clean" /\ pc' = "tx_gone"
        /\ record'.path = record.path /\ record'.tx = None /\ record'.ren = ren
    BY <1>0, <1>10 DEF Cleanup, Go, Records, ren
  <2>2. Body' = Body /\ Side' = Side /\ tx' = None /\ ren' = ren
    BY <2>1 DEF Body, Side, tx, ren
  <2>3. QED
    BY <2>1, <2>2 DEF Saving
<1>11. CASE RecoverRename
  <2>1. ren # None
    BY <1>11 DEF RecoverRename, Phases
  <2>2. req.kind = "save" => ~(req.placed /\ req.calm)
    BY <2>1 DEF Saving
  <2>3. \/ req' = NoRequest
        \/ UNCHANGED <<req, ed>> /\ pc' \in {"unlink body", "link side", "unlink side", "moved"}
    BY <1>11 DEF RecoverRename, Link, Unlink, Go, Refuse, Done
  <2>4. QED
    BY <1>5, <2>2, <2>3 DEF Saving
<1>12. CASE Compare \/ WriteTemporary \/ Check
  <2>1. UNCHANGED <<body, side, record>> /\ pc \in {"compare", "write", "check"}
    BY <1>12 DEF Compare, WriteTemporary, Check, disk
  <2>2. \/ req' = NoRequest
        \/ UNCHANGED <<req, ed>> /\ pc' \in {"write", "plan", "check", "stage", "place"}
    BY <1>12 DEF Compare, WriteTemporary, Check, Checked, Go, Refuse, Conflict, Done
  <2>3. CASE UNCHANGED <<req, ed>> /\ pc' \in {"write", "plan", "check", "stage", "place"}
    <3>1. tx' = None
      BY <2>1 DEF Phases, tx
    <3>2. QED
      BY <2>1, <2>3, <3>1 DEF Saving
  <2>4. QED
    BY <1>5, <2>2, <2>3
<1>13. CASE Stage
  <2>1. req.kind = "save" => ~req.placed
    BY <1>13 DEF Stage, Saving
  <2>2. CASE Side # req.notes
    BY <1>5, <1>13, <2>2 DEF Stage, AnnotationConflict, Refuse, Conflict, Done
  <2>3. CASE Side = req.notes
    <3>1. UNCHANGED <<req, ed>> /\ pc' = "tx_known"
      BY <1>13, <2>3 DEF Stage, Go
    <3>2. tx'.new.of = req.text
      BY <1>0, <1>13, <2>3 DEF Stage, Records, tx
    <3>3. QED
      BY <2>1, <3>1, <3>2 DEF Saving, Stage
  <2>4. QED
    BY <2>2, <2>3
<1>14. CASE Place
  <2>1. /\ req.kind = "save" /\ ren = None /\ tmp # None /\ tmp.ver = req.text /\ pc = "place"
        /\ IF req.annotated THEN tx # None /\ tx.body = tmp ELSE tx = None
    BY <1>14 DEF Place, Phases
  <2>2. req \in SaveRequests
    BY <1>0, <2>1, ReqFacts
  <2>3. UNCHANGED <<record, ed>> /\ req' = [req EXCEPT !.placed = TRUE] /\ pc' = Resume(record, req')
    BY <1>14 DEF Place
  <2>4. req'.placed /\ req'.text = req.text /\ req'.annotated = req.annotated /\ req'.kind = "save"
    BY <2>1, <2>2, <2>3 DEF SaveRequests
  <2>5. Body' = tmp /\ tx' = tx /\ ren' = None
    BY <1>0, <1>14, <2>1, <2>3, TypesHere DEF Place, Body, tx, ren
  <2>6. pc' = IF tx # None THEN "look" ELSE "identify"
    BY <2>1, <2>3, <2>4 DEF Resume, Proceed, tx, ren
  <2>7. ed'.conflict = None /\ (tx # None => tx.new.of = req.text)
    BY <2>1, <2>3 DEF Saving
  <2>8. QED
    BY <2>1, <2>4, <2>5, <2>6, <2>7 DEF Saving
<1>15. CASE Identify
  <2>1. UNCHANGED <<body, side>> /\ pc = "identify" /\ record'.path = record.path
        /\ record'.tx = tx /\ record'.ren = ren
    BY <1>0, <1>15 DEF Identify, disk, Records, tx, ren
  <2>2. Body' = Body /\ Side' = Side /\ tx' = tx /\ ren' = ren
    BY <2>1 DEF Body, Side, tx, ren
  <2>3. CASE Body = None
    BY <1>5, <1>15, <2>3 DEF Identify, Refuse, Done
  <2>4. CASE Body # None
    <3>1. UNCHANGED <<req, ed>> /\ pc' = "identified"
      BY <1>15, <2>4 DEF Identify, Go
    <3>2. QED
      BY <2>1, <2>2, <3>1 DEF Saving
  <2>5. QED
    BY <2>3, <2>4
<1>16. CASE Plan \/ LinkPlain \/ UnlinkPlain
  <2>1. req.kind = "rename"
    BY <1>16 DEF Plan, LinkPlain, UnlinkPlain, Phases
  <2>2. req' \in {NoRequest, req, [req EXCEPT !.placed = TRUE]}
    BY <1>16 DEF Plan, LinkPlain, UnlinkPlain, Go, Refuse, Done
  <2>3. req'.kind # "save"
    BY <1>0, <1>a, <2>1, <2>2, ReqFacts, ReqWith
  <2>4. QED
    BY <2>3, NotSaving
<1>17. CASE OtherProgram
  <2>1. PICK b \in BOOLEAN : Noticed(b)
    BY <1>17, OtherFacts
  <2>2. SUFFICES ASSUME req.kind = "save" PROVE Saving'
    BY <2>1, NoticedReq, NotSaving
  <2>3. req'.placed = req.placed /\ req'.text = req.text
    BY <2>1, <2>2, NoticedReq
  <2>4. ~req'.calm
    <3>1. PICK l : l = (req.late \/ (b /\ pc \in {"stage", "tx_known", "place"}))
      OBVIOUS
    <3>2. req \in SaveRequests
      BY <1>0, <2>2, ReqFacts
    <3>3. req' = [req EXCEPT !.calm = FALSE, !.late = l]
      BY <1>a, <2>1, <2>2, <3>1 DEF Noticed
    <3>4. QED
      BY <3>2, <3>3 DEF SaveRequests
  <2>5. UNCHANGED <<record, pc, ed>>
    BY <1>17, OtherFacts
  <2>6. QED
    BY <2>2, <2>3, <2>4, <2>5 DEF Saving, tx
<1>18. CASE UNCHANGED vars
  BY <1>18, SavingKept DEF vars, disk
<1>19. QED
  BY <1>1, <1>2, <1>3, <1>4, <1>6, <1>7, <1>8, <1>9, <1>10, <1>11, <1>12, <1>13, <1>14, <1>15,
     <1>16, <1>17, <1>18 DEF Next, Recover

\* What is written here depends on the files and the sidecars of a save only.
LEMMA SameSound ==
    ASSUME UNCHANGED disk
    PROVE  /\ record' = record => (Sound(record)' <=> Sound(record))
           /\ registry' = registry => (Sound(registry)' <=> Sound(registry))
           /\ registry' = registry /\ registry = record => (Sound(registry)' <=> Sound(record))
           /\ record' = registry => (Sound(record)' <=> Sound(registry))
BY DEF disk, Sound, Movable, Placeable

\* Phases that need no more than a sound record.
Easy == {"idle", "compare", "write", "check", "stage", "plan", "link", "read", "look", "link body",
         "identified", "renamed"}
LEMMA AtEase ==
    ASSUME Sound(record)', pc' \in Easy \/ (pc' = "place" /\ tx' = None)
    PROVE  Aligned'
BY DEF Easy, Aligned

LEMMA EaseKept ==
    ASSUME Aligned, UNCHANGED <<disk, record>>, pc # "identify", pc' \in Easy \/ (pc' = "place" /\ tx = None)
    PROVE  Aligned'
<1>1. Sound(record)'
  BY SameSound DEF Aligned
<1>2. QED
  BY <1>1, AtEase DEF tx

\* What an identity that a record has tells of its file.
LEMMA SoundPlain ==
    ASSUME Types
    PROVE  /\ tx = None /\ ren = None /\ Sound(record) => Body.id = record.identity /\ Body # None
           /\ registry = record /\ Sound(record) => Sound(registry)
<1>1. record.identity # 0
  BY RecFacts DEF Types
<1>2. QED
  BY <1>1 DEF Sound, tx, ren, Body, None

\* What is estranged stays so.
LEMMA StaysEstranged ==
    ASSUME Types, [Next]_vars, estranged
    PROVE  estranged'
<1>1. CASE OtherProgram
  BY <1>1 DEF OtherProgram, EditBody, ReplaceBody, WriteSide
<1>2. CASE PersistFails \/ Crash
  BY <1>2 DEF PersistFails, Crash
<1>3. CASE Load \/ Type \/ SaveOnce \/ Overwrite \/ Reload \/ Rename \/ Read \/ Persist
  BY <1>3 DEF Load, Type, SaveOnce, Overwrite, SaveOver, Reload, Rename, Read, Persist, history
<1>4. CASE Look \/ Commit \/ DropOld \/ Install \/ Cleanup \/ RecoverRename
  BY <1>4 DEF Look, Commit, DropOld, Install, Cleanup, RecoverRename, Link, Unlink, history
<1>5. CASE Compare \/ WriteTemporary \/ Check \/ Stage \/ Place \/ Identify \/ Plan \/ LinkPlain \/ UnlinkPlain
  BY <1>5 DEF Compare, WriteTemporary, Check, Stage, Place, Identify, Plan, LinkPlain, UnlinkPlain, history
<1>6. CASE UNCHANGED vars
  BY <1>6 DEF vars, history
<1>7. QED
  BY <1>1, <1>2, <1>3, <1>4, <1>5, <1>6 DEF Next, Recover

\* What a stop goes back to is sound too, unless it has lost something.
LEMMA SoundRegistry ==
    ASSUME Types, Phases, Written, Aligned, ~Unrecorded
    PROVE  Sound(registry)
<1>0. faults \in Nat /\ registry \in Records /\ record \in Records
  BY DEF Types
<1>1. CASE registry = record
  <2>1. pc = "identify" => tx = None /\ ren = None
    BY DEF Phases
  <2>2. pc # "identify"
    BY <1>1, <2>1 DEF Unrecorded, tx, ren
  <2>3. QED
    BY <1>1, <2>2, SoundPlain DEF Aligned
<1>2. CASE registry # record
  <2>1. faults = 0
    BY <1>0, <1>2 DEF Unrecorded
  <2>2. pc \in Unwritten
    BY <1>2, <2>1 DEF Written
  <2>3. CASE pc \in {"tx_known", "clean", "tx_gone", "ren_known", "moved"}
    BY <2>1, <2>3 DEF Aligned
  <2>4. CASE pc \in {"identified", "renamed"}
    <3>1. registry.tx = None /\ registry.ren = None
      BY <2>1, <2>4 DEF Written
    <3>2. registry.path = record.path /\ registry.identity = record.identity
      BY <3>1 DEF Unrecorded
    <3>3. tx = None /\ ren = None /\ Sound(record)
      BY <2>4 DEF Phases, Aligned
    <3>4. QED
      BY <3>1, <3>2, <3>3, SoundPlain DEF Sound, Body
  <2>5. QED
    BY <2>2, <2>3, <2>4 DEF Unwritten
<1>3. QED
  BY <1>1, <1>2

\* The save with annotations.
LEMMA SaveAligned ==
    ASSUME Types, Phases, Written, Aligned, Look \/ Commit \/ DropOld \/ Install \/ Cleanup
    PROVE  Aligned'
<1>0. /\ record \in Records /\ record.path \in Paths /\ tx # None /\ ren = None /\ tx.body.id \in Nat \ {0}
      /\ registry' = registry /\ faults' = faults /\ body' = body /\ Sound(record)
      /\ side \in [Paths -> Sidecars \cup {None}] /\ tx.new # None
  <2>1. tx # None /\ ren = None /\ pc # "identify"
    BY DEF Look, Commit, DropOld, Install, Cleanup, Phases
  <2>2. tx.body.id \in Nat \ {0} /\ tx.new # None
    BY <2>1, TypesHere DEF Saves, Bodies, Sidecars, None
  <2>3. registry' = registry /\ faults' = faults /\ body' = body
    BY DEF Look, Commit, DropOld, Install, Cleanup, bounds, disk
  <2>4. QED
    BY <2>1, <2>2, <2>3, TypesHere DEF Types, Aligned
<1>a. AnnotationConflict => pc' = "idle"
  BY DEF AnnotationConflict, Refuse, Conflict, Done
<1>1. CASE Look
  <2>1. UNCHANGED <<disk, record>> /\ pc = "look"
    BY <1>1 DEF Look
  <2>2. tx' = tx /\ Body' = Body /\ Side' = Side
    BY <2>1 DEF disk, tx, Body, Side
  <2>3. faults = 0 => Sound(registry)'
    BY <1>0, <2>1, SameSound DEF Written, Unwritten
  <2>4. Sound(record)'
    BY <1>0, <2>1, SameSound
  <2>5. CASE Go("commit") /\ Body = tx.body
    BY <2>2, <2>4, <2>5 DEF Aligned, Go
  <2>6. CASE Go("clean") /\ Body.id # tx.body.id /\ Body.id = record.identity
    BY <1>0, <2>1, <2>2, <2>3, <2>4, <2>6 DEF Aligned, Go
  <2>7. CASE Refuse
    BY <2>1, <2>7, EaseKept DEF Refuse, Done, Easy
  <2>8. QED
    BY <1>1, <2>5, <2>6, <2>7 DEF Look
<1>2. CASE Commit
  <2>1. pc = "commit" /\ Body = tx.body /\ side' = side /\ pending' = pending
    BY <1>2 DEF Commit, Aligned
  <2>2. faults = 0 => registry = record
    BY <2>1 DEF Written, Unwritten
  <2>3. CASE Side = tx.new /\ record' = [record EXCEPT !.identity = tx.body.id] /\ Go("clean") /\ UNCHANGED kept
    <3>1. record'.path = record.path /\ record'.tx = tx /\ record'.ren = ren /\ record'.identity = tx.body.id
      BY <1>0, <2>3 DEF Records, tx, ren
    <3>2. Body' = Body /\ Side' = Side /\ tx' = tx /\ ren' = ren
      BY <1>0, <2>1, <3>1 DEF Body, Side, tx, ren
    <3>3. Sound(record)'
      BY <1>0, <2>1, <2>3, <3>1, <3>2 DEF Sound, Placeable, Body, Side, tx
    <3>4. faults = 0 => Sound(registry)'
      BY <1>0, <2>1, <2>2, <2>3, SameSound DEF disk
    <3>5. QED
      BY <1>0, <2>1, <2>3, <3>1, <3>2, <3>3, <3>4 DEF Aligned, Go
  <2>4. CASE tx.new \in pending /\ Side = tx.old /\ kept' = kept \cup {tx.new} /\ Go("drop") /\ UNCHANGED record
    <3>1. Body' = Body /\ Side' = Side /\ tx' = tx
      BY <1>0, <2>1, <2>4 DEF Body, Side, tx
    <3>2. Sound(record)'
      BY <1>0, <2>1, <2>4, <3>1 DEF Sound, Placeable, Body, Side, tx
    <3>3. QED
      BY <2>1, <2>4, <3>1, <3>2 DEF Aligned, Go
  <2>5. CASE Side = None /\ Go("install") /\ UNCHANGED <<kept, record>>
    <3>1. Body' = Body /\ Side' = Side /\ tx' = tx
      BY <1>0, <2>1, <2>5 DEF Body, Side, tx
    <3>2. Sound(record)'
      BY <1>0, <2>1, <2>5, SameSound DEF disk
    <3>3. QED
      BY <2>1, <2>5, <3>1, <3>2 DEF Aligned, Go
  <2>6. CASE AnnotationConflict /\ UNCHANGED <<kept, record>>
    BY <1>0, <1>a, <2>1, <2>6, EaseKept DEF disk, Easy
  <2>7. QED
    BY <1>2, <2>3, <2>4, <2>5, <2>6 DEF Commit
<1>3. CASE DropOld
  <2>1. pc = "drop" /\ Body = tx.body /\ tx.new \in pending /\ tx.new \in kept /\ UNCHANGED <<record, pending, kept>>
    BY <1>3 DEF DropOld, Aligned
  <2>2. CASE Side = tx.old
    <3>1. side' = [side EXCEPT ![record.path] = None] /\ pc' = "install"
      BY <1>3, <2>2 DEF DropOld, Go
    <3>2. Body' = Body /\ Side' = None /\ tx' = tx
      BY <1>0, <2>1, <3>1 DEF Body, Side, tx
    <3>3. Sound(record)'
      BY <1>0, <2>1, <3>2 DEF Sound, Placeable, Body, Side, tx
    <3>4. QED
      BY <2>1, <3>1, <3>2, <3>3 DEF Aligned
  <2>3. CASE Side # tx.old
    BY <1>0, <1>3, <1>a, <2>1, <2>3, EaseKept DEF DropOld, disk, Easy
  <2>4. QED
    BY <2>2, <2>3
<1>4. CASE Install
  <2>1. pc = "install" /\ Body = tx.body /\ Side = None /\ UNCHANGED <<pending, kept>>
    BY <1>4 DEF Install, Aligned
  <2>2. /\ side' = [side EXCEPT ![record.path] = tx.new] /\ pc' = "clean"
        /\ record' = [record EXCEPT !.identity = tx.body.id]
    BY <1>4, <2>1 DEF Install, Go
  <2>3. record'.path = record.path /\ record'.tx = tx /\ record'.ren = ren /\ record'.identity = tx.body.id
    BY <1>0, <2>2 DEF Records, tx, ren
  <2>4. Body' = Body /\ Side' = tx.new /\ tx' = tx
    BY <1>0, <2>2, <2>3 DEF Body, Side, tx
  <2>5. Sound(record)'
    BY <1>0, <2>1, <2>3, <2>4 DEF Sound, Placeable, Body, Side, tx
  <2>6. faults = 0 => Sound(registry)'
    <3>1. faults = 0 => registry = record
      BY <2>1 DEF Written, Unwritten
    <3>2. QED
      BY <1>0, <2>1, <2>3, <2>4, <3>1 DEF Sound, Placeable, Body, Side, tx
  <2>7. QED
    BY <1>0, <2>1, <2>2, <2>3, <2>4, <2>5, <2>6 DEF Aligned
<1>5. CASE Cleanup
  <2>1. /\ pc = "clean" /\ pc' = "tx_gone" /\ side' = side /\ Body.id = record.identity
        /\ Body.id # tx.body.id \/ (Body = tx.body /\ Side = tx.new)
    BY <1>5 DEF Cleanup, Go, Aligned
  <2>2. record'.path = record.path /\ record'.tx = None /\ record'.ren = None /\ record'.identity = record.identity
    BY <1>0, <1>5 DEF Cleanup, Records, ren
  <2>3. Sound(record)'
    BY <1>0, <2>1, <2>2 DEF Sound, Body
  <2>4. faults = 0 => Sound(registry)'
    <3>1. faults = 0 => registry.tx = tx /\ registry.path = record.path /\ Sound(registry)
      BY <2>1 DEF Written, Aligned
    <3>2. QED
      BY <1>0, <2>1, <3>1 DEF Sound, Placeable, Body, Side
  <2>5. QED
    BY <1>0, <2>1, <2>2, <2>3, <2>4 DEF Aligned
<1>6. QED
  BY <1>1, <1>2, <1>3, <1>4, <1>5

\* The rename with annotations, resumed.
LEMMA RenameAligned ==
    ASSUME Types, Phases, Written, Aligned, RecoverRename
    PROVE  Aligned'
<1> DEFINE to == ren.to
           from == NextPath(ren.to)
<1>0. /\ record \in Records /\ tx = None /\ ren \in Renames /\ ren # None /\ ren.body # 0 /\ ren.side # None
      /\ to \in Paths /\ from \in Paths /\ from # to
      /\ body \in [Paths -> Bodies \cup {None}] /\ side \in [Paths -> Sidecars \cup {None}]
      /\ UNCHANGED <<pending, kept, registry, faults>>
  <2>1. ren \in Renames /\ ren # None /\ tx = None
    BY TypesHere DEF RecoverRename, Phases
  <2>2. ren.to \in Paths /\ ren.body # 0 /\ ren.side \in Sidecars
    BY <2>1 DEF Renames
  <2>3. ren.side # None
    BY <2>2 DEF Sidecars, None
  <2>4. UNCHANGED <<pending, kept, registry, faults>>
    BY DEF RecoverRename, Link, Unlink, bounds
  <2>5. QED
    BY <2>1, <2>2, <2>3, <2>4, TypesHere DEF Types
<1>1. /\ ren.body = record.identity /\ record.path = from /\ Movable(ren) /\ None.id = 0
      /\ pc # "identify"
  <2>1. Sound(record) /\ pc # "identify"
    BY DEF Aligned, RecoverRename
  <2>2. QED
    BY <1>0, <2>1 DEF Sound, tx, ren, None
<1> HIDE DEF to, from
<1>2. CASE Refuse /\ UNCHANGED <<body, side, record>>
  BY <1>0, <1>1, <1>2, EaseKept DEF Refuse, Done, disk, Easy
<1>a. ASSUME record' = record, Movable(ren)'
      PROVE  Sound(record)' /\ ren' = ren
  BY <1>0, <1>1, <1>a DEF Sound, tx, ren, to, from
<1>3. CASE pc = "link body" /\ Link("body", "unlink body")
  <2>1. record' = record /\ side' = side
    BY <1>3 DEF Link, SetFiles
  <2>2. CASE Go("unlink body") /\ body' = body /\ body[to] # None /\ body[to].id = ren.body
    <3>1. Sound(record)' /\ ren' = ren
      BY <1>0, <1>1, <2>1, <2>2, SameSound DEF disk, ren, Aligned
    <3>2. QED
      BY <2>2, <3>1 DEF Go, Aligned, to
  <2>3. CASE Go("unlink body") /\ body[to] = None /\ body[from].id = ren.body /\ body' = [body EXCEPT ![to] = body[from]]
    <3>1. body'[to].id = ren.body /\ body'[from].id = ren.body
      BY <1>0, <2>3
    <3>2. Movable(ren)'
      BY <1>0, <1>1, <2>1, <3>1 DEF Movable, to, from, ren
    <3>3. Sound(record)' /\ ren' = ren
      BY <1>a, <2>1, <3>2
    <3>4. QED
      BY <2>3, <3>1, <3>3 DEF Go, Aligned, to
  <2>4. \/ Refuse /\ body' = body
        \/ Go("unlink body") /\ body' = body /\ body[to] # None /\ body[to].id = ren.body
        \/ /\ Go("unlink body") /\ body[to] = None /\ body[from].id = ren.body
           /\ body' = [body EXCEPT ![to] = body[from]]
    BY <1>3 DEF Link, Files, SetFiles, Known, to, from
  <2>5. QED
    BY <1>2, <2>1, <2>2, <2>3, <2>4
<1>4. CASE pc = "unlink body" /\ Unlink("body")
  <2>1. record' = record /\ side' = side /\ body[to].id = ren.body
    BY <1>4 DEF Unlink, SetFiles, Aligned, to
  <2>2. body' = [body EXCEPT ![from] = None] /\ Go("link side")
    BY <1>0, <1>1, <1>4 DEF Unlink, Files, SetFiles, Known, Movable, to, from
  <2>3. body'[to] = body[to] /\ body'[from] = None
    BY <1>0, <2>2
  <2>4. Movable(ren)'
    BY <1>0, <1>1, <2>1, <2>3 DEF Movable, to, from, ren
  <2>5. Sound(record)' /\ ren' = ren
    BY <1>a, <2>1, <2>4
  <2>6. QED
    BY <2>1, <2>2, <2>3, <2>5 DEF Go, Aligned, to, from
<1>5. CASE pc = "link side" /\ Link("side", "unlink side")
  <2>1. record' = record /\ body' = body /\ body[to].id = ren.body /\ body[from] = None
    BY <1>5 DEF Link, SetFiles, Aligned, to, from
  <2>2. CASE Go("unlink side") /\ side' = side /\ side[to] = ren.side
    <3>1. Sound(record)' /\ ren' = ren
      BY <1>0, <1>1, <2>1, <2>2, SameSound DEF disk, ren, Aligned
    <3>2. QED
      BY <2>1, <2>2, <3>1 DEF Go, Aligned, to, from
  <2>3. CASE Go("unlink side") /\ side[to] = None /\ side[from] = ren.side /\ side' = [side EXCEPT ![to] = side[from]]
    <3>1. side'[to] = ren.side /\ side'[from] = ren.side
      BY <1>0, <2>3
    <3>2. Movable(ren)'
      BY <1>0, <1>1, <2>1, <3>1 DEF Movable, to, from, ren
    <3>3. Sound(record)' /\ ren' = ren
      BY <1>a, <2>1, <3>2
    <3>4. QED
      BY <2>1, <2>3, <3>1, <3>3 DEF Go, Aligned, to, from
  <2>4. \/ Refuse /\ side' = side
        \/ Go("unlink side") /\ side' = side /\ side[to] = ren.side
        \/ /\ Go("unlink side") /\ side[to] = None /\ side[from] = ren.side
           /\ side' = [side EXCEPT ![to] = side[from]]
    BY <1>5 DEF Link, Files, SetFiles, Known, to, from
  <2>5. QED
    BY <1>2, <2>1, <2>2, <2>3, <2>4
<1>6. CASE pc = "unlink side" /\ Unlink("side")
  <2>1. body' = body /\ body[to].id = ren.body /\ body[from] = None /\ side[to] = ren.side
    BY <1>6 DEF Unlink, SetFiles, Aligned, to, from
  <2>2. /\ side' = [side EXCEPT ![from] = None] /\ Go("moved")
        /\ record' = [record EXCEPT !.path = to, !.ren = None]
    BY <1>0, <1>1, <1>6 DEF Unlink, Files, SetFiles, Known, Movable, to, from
  <2>3. side'[to] = ren.side /\ side'[from] = None
    BY <1>0, <2>1, <2>2
  <2>4. record'.path = to /\ record'.tx = None /\ record'.ren = None /\ record'.identity = record.identity
    BY <1>0, <2>2 DEF Records, tx
  <2>5. Sound(record)'
    BY <1>1, <2>1, <2>4 DEF Sound
  <2>6. faults = 0 => Sound(registry)'
    <3>1. faults = 0 => registry = record
      BY <1>6 DEF Written, Unwritten
    <3>2. QED
      BY <1>0, <1>1, <2>1, <2>3, <3>1 DEF Sound, Movable, tx, ren, to, from
  <2>7. QED
    BY <1>0, <2>2, <2>5, <2>6 DEF Go, Aligned
<1>7. QED
  BY <1>3, <1>4, <1>5, <1>6 DEF RecoverRename

\* What another program may do without taking the file from under its record.
LEMMA OtherAligned ==
    ASSUME Types, Phases, Aligned, OtherProgram, ~estranged'
    PROVE  Aligned'
<1>0. record \in Records /\ record.path \in Paths /\ body \in [Paths -> Bodies \cup {None}]
  BY TypesHere DEF Types
<1>1. PICK p \in Paths : EditBody(p) \/ ReplaceBody(p) \/ WriteSide(p)
  BY DEF OtherProgram
<1>2. UNCHANGED <<record, pc>>
  BY OtherFacts
<1>3. ~Outstanding
  BY <1>1 DEF EditBody, ReplaceBody, WriteSide
<1>4. pc = "idle" /\ tx = None /\ ren = None
  BY <1>3 DEF Outstanding, tx, ren
<1>5. Body.id = record.identity /\ Body # None
  BY <1>4, SoundPlain DEF Aligned
<1>6. Body'.id = record.identity
  <2>1. CASE EditBody(p)
    <3>1. CASE Body.id = body[p].id
      <4>1. Body' = [Body EXCEPT !.ver = clock']
        BY <1>0, <1>2, <2>1, <3>1 DEF EditBody, Body
      <4>2. Body \in Bodies
        BY <1>0, <1>5 DEF Body
      <4>3. QED
        BY <1>5, <4>1, <4>2 DEF Bodies
    <3>2. CASE Body.id # body[p].id
      BY <1>0, <1>2, <1>5, <2>1, <3>2 DEF EditBody, Body
    <3>3. QED
      BY <3>1, <3>2
  <2>2. CASE ReplaceBody(p)
    <3>1. p # record.path
      BY <2>2 DEF ReplaceBody, Ours
    <3>2. QED
      BY <1>0, <1>2, <1>5, <2>2, <3>1 DEF ReplaceBody, Body
  <2>3. CASE WriteSide(p)
    BY <1>2, <1>5, <2>3 DEF WriteSide, Body
  <2>4. QED
    BY <1>1, <2>1, <2>2, <2>3
<1>7. Sound(record)'
  BY <1>2, <1>4, <1>6 DEF Sound, tx, ren, Body
<1>8. QED
  BY <1>2, <1>4, <1>7, AtEase DEF Easy

\* What the phases find, after any step that does not estrange.
LEMMA NextAligned ==
    ASSUME Types, Phases, Written, ~estranged => Aligned, Types', Phases', [Next]_vars, ~estranged'
    PROVE  Aligned'
<1>0. /\ record \in Records /\ record.path \in Paths /\ body \in [Paths -> Bodies \cup {None}]
      /\ Aligned /\ None.id = 0
  BY StaysEstranged, TypesHere DEF Types, None
<1>1. CASE Load \/ SaveOnce \/ Overwrite \/ Rename
  <2>1. PICK r : Ask(r) /\ pc = "idle" /\ (r.kind = "save" => ~r.placed)
    BY <1>1 DEF Load, SaveOnce, Overwrite, SaveOver, Rename
  <2>2. pc' \in {"link body", "look", "compare", "read"}
    BY <2>1 DEF Ask, Resume, Proceed
  <2>3. QED
    BY <1>0, <2>1, <2>2, EaseKept DEF Ask, Easy
<1>2. CASE Type \/ Reload \/ Read
  <2>1. UNCHANGED <<disk, record>> /\ pc \in {"idle", "read"} /\ pc' \in {"idle", "read"}
    BY <1>2 DEF Type, Reload, Read, Refuse, Done
  <2>2. QED
    BY <1>0, <2>1, EaseKept DEF Easy
<1>3. CASE Persist
  <2>1. UNCHANGED <<disk, record>> /\ registry' = record
    BY <1>3, PersistGoes
  <2>2. CASE pc = "tx_known" /\ pc' = "place"
    <3>1. tx' = tx /\ Body' = Body /\ Side' = Side /\ pending' = pending
      BY <2>1 DEF tx, Body, Side, disk
    <3>2. Sound(record)'
      BY <1>0, <2>1, <2>2, SameSound DEF Aligned
    <3>3. QED
      BY <1>0, <2>2, <3>1, <3>2 DEF Aligned
  <2>3. CASE pc' = "identify" /\ pc \in {"tx_gone", "moved"}
    <3>1. Body # None
      BY <1>0, <2>3, SoundPlain DEF Phases, Aligned
    <3>2. Body' = Body
      BY <2>1 DEF Body, disk
    <3>3. QED
      BY <2>3, <3>1, <3>2 DEF Aligned
  <2>4. CASE pc' \in {"read", "link body", "compare"} /\ pc # "identify"
    BY <1>0, <2>1, <2>4, EaseKept DEF Easy
  <2>5. QED
    BY <1>3, <2>2, <2>3, <2>4, PersistGoes DEF Proceed
<1>4. CASE PersistFails
  <2>1. pc # "renamed" /\ pc # "identify"
    BY <1>4 DEF PersistFails, AfterPersist
  <2>2. UNCHANGED <<disk, record>> /\ pc' = "idle"
    BY <1>4, <2>1 DEF PersistFails, Refuse, Done, disk
  <2>3. QED
    BY <1>0, <2>1, <2>2, EaseKept DEF Easy
<1>5. CASE Look \/ Commit \/ DropOld \/ Install \/ Cleanup
  BY <1>0, <1>5, SaveAligned
<1>6. CASE RecoverRename
  BY <1>0, <1>6, RenameAligned
<1>7. CASE Compare \/ WriteTemporary \/ Check
  <2>1. UNCHANGED <<disk, record>> /\ pc \in {"compare", "write", "check"}
        /\ pc' \in {"write", "plan", "check", "stage", "place", "idle"}
    BY <1>7 DEF Compare, WriteTemporary, Check, Checked, Go, Refuse, Conflict, Done
  <2>2. QED
    BY <1>0, <2>1, EaseKept DEF Phases, Easy
<1>8. CASE Stage
  <2>1. pc = "stage" /\ tx = None /\ ren = None /\ tmp # None /\ UNCHANGED <<body, side, kept, registry, faults>>
    BY <1>8 DEF Stage, Phases, bounds
  <2>2. Body.id = record.identity /\ Body # None /\ Body.id # tmp.id
    BY <1>0, <2>1, SoundPlain DEF Aligned, Phases, Body
  <2>3. CASE Side # req.notes
    <3>1. UNCHANGED <<pending, record>> /\ pc' = "idle"
      BY <1>8, <2>3 DEF Stage, AnnotationConflict, Refuse, Conflict, Done
    <3>2. QED
      BY <1>0, <2>1, <3>1, EaseKept DEF disk, Easy
  <2>4. CASE Side = req.notes
    <3>1. PICK new : /\ pending' = pending \cup {new} /\ pc' = "tx_known"
                     /\ record' = [record EXCEPT !.tx = [id |-> clock', body |-> tmp, new |-> new, old |-> Side]]
      BY <1>8, <2>4 DEF Stage, Go
    <3>2. /\ tx' = [id |-> clock', body |-> tmp, new |-> new, old |-> Side] /\ tx'.body = tmp
          /\ tx'.new = new /\ tx'.old = Side
          /\ record'.path = record.path /\ record'.identity = record.identity
      BY <1>0, <3>1 DEF Records, tx
    <3>3. Body' = Body /\ Side' = Side /\ tx' # None
      BY <2>1, <3>1, <3>2 DEF Body, Side, Phases
    <3>4. Sound(record)'
      BY <2>1, <2>2, <3>2, <3>3 DEF Sound, Body, tx
    <3>5. faults = 0 => Sound(registry)'
      <4>1. faults = 0 => registry = record
        BY <2>1 DEF Written, Unwritten
      <4>2. QED
        BY <2>1, <2>2, <4>1 DEF Sound, Body, tx, ren
    <3>6. QED
      BY <2>1, <2>2, <3>1, <3>2, <3>3, <3>4, <3>5 DEF Aligned
  <2>5. QED
    BY <2>3, <2>4
<1>9. CASE Place
  <2>1. /\ pc = "place" /\ ren = None /\ tmp # None /\ req.kind = "save"
        /\ IF req.annotated THEN tx # None /\ tx.body = tmp ELSE tx = None
    BY <1>9 DEF Place, Phases
  <2>2. req \in SaveRequests
    BY <2>1, ReqFacts DEF Types
  <2>3. UNCHANGED <<record, side, pending, kept>> /\ req' = [req EXCEPT !.placed = TRUE] /\ pc' = Resume(record, req')
    BY <1>9 DEF Place
  <2>4. req'.placed /\ req'.kind = "save"
    BY <2>1, <2>2, <2>3 DEF SaveRequests
  <2>5. Body' = tmp /\ tx' = tx /\ Side' = Side
    BY <1>0, <1>9, <2>3 DEF Place, Body, Side, tx
  <2>6. CASE tx = None
    <3>1. pc' = "identify"
      BY <2>1, <2>3, <2>4, <2>6 DEF Resume, Proceed, tx, ren
    <3>2. QED
      BY <2>1, <2>5, <3>1 DEF Aligned
  <2>7. CASE tx # None
    <3>1. pc' = "look"
      BY <2>1, <2>3, <2>7 DEF Resume, tx, ren
    <3>2. Side = tx.old /\ tx.new \in pending
      BY <1>0, <2>1, <2>7 DEF Aligned
    <3>3. Sound(record)'
      BY <2>1, <2>3, <2>5, <2>7, <3>2 DEF Sound, Placeable, Body, Side, tx
    <3>4. QED
      BY <3>1, <3>3, AtEase DEF Easy
  <2>8. QED
    BY <2>6, <2>7
<1>10. CASE Identify
  <2>1. pc = "identify" /\ tx = None /\ ren = None /\ Body # None /\ body' = body
    BY <1>0, <1>10 DEF Identify, Phases, Aligned, disk
  <2>2. record' = [record EXCEPT !.identity = Body.id] /\ pc' = "identified"
    BY <1>10, <2>1 DEF Identify, Go
  <2>3. record'.path = record.path /\ record'.tx = None /\ record'.ren = None /\ record'.identity = Body.id
    BY <1>0, <2>1, <2>2 DEF Records, tx, ren
  <2>4. Sound(record)'
    BY <2>1, <2>3 DEF Sound, Body
  <2>5. QED
    BY <2>2, <2>4, AtEase DEF Easy
<1>11. CASE Plan
  <2>1. pc = "plan" /\ tx = None /\ ren = None /\ UNCHANGED <<disk, registry, faults>>
    BY <1>11 DEF Plan, Phases, bounds
  <2>2. CASE record' = record /\ pc' \in {"idle", "link"}
    BY <1>0, <2>1, <2>2, EaseKept DEF Easy
  <2>3. CASE /\ side[To] = None /\ Side # None /\ body[To] = None /\ pc' = "ren_known"
             /\ record' = [record EXCEPT !.ren = [id |-> record.identity, to |-> To,
                                                  body |-> record.identity, side |-> Side]]
    <3>1. Body.id = record.identity /\ Body # None
      BY <1>0, <2>1, SoundPlain DEF Aligned
    <3>2. /\ record'.ren = [id |-> record.identity, to |-> To, body |-> record.identity, side |-> Side]
          /\ record'.path = record.path /\ record'.identity = record.identity /\ record'.tx = None
      BY <1>0, <2>1, <2>3 DEF Records, tx
    <3>3. NextPath(To) = record.path
      BY <1>0, TypesHere DEF To
    <3>4. record.identity # 0
      BY <1>0, RecFacts
    <3>5. record'.ren # None
      BY <3>2, <3>4 DEF None
    <3>a. PICK r : r = [id |-> record.identity, to |-> To, body |-> record.identity, side |-> Side]
      OBVIOUS
    <3>6. Movable(r)'
      <4>1. r.to = To /\ r.body = record.identity /\ r.side = Side
        BY <3>a
      <4>2. QED
        BY <2>1, <2>3, <3>1, <3>3, <4>1 DEF Movable, Body, Side, disk
    <3>7. Sound(record)'
      <4>1. record'.ren = r /\ r.to = To /\ r.body = record.identity
        BY <3>2, <3>a
      <4>2. QED
        BY <3>2, <3>3, <3>5, <3>6, <4>1 DEF Sound
    <3>8. faults = 0 => Sound(registry)'
      <4>1. faults = 0 => registry = record
        BY <2>1 DEF Written, Unwritten
      <4>2. QED
        BY <1>0, <2>1, <4>1, SameSound DEF Aligned
    <3>9. QED
      BY <2>1, <2>3, <3>7, <3>8 DEF Aligned
  <2>4. QED
    BY <1>11, <2>2, <2>3 DEF Plan, Refuse, Done, Go
<1>12. CASE LinkPlain
  <2>1. pc = "link" /\ tx = None /\ ren = None /\ UNCHANGED <<record, side, pending, kept>>
    BY <1>12 DEF LinkPlain, Phases
  <2>2. Body.id = record.identity /\ To \in Paths /\ To # record.path /\ To' = To
    BY <1>0, <2>1, SoundPlain, TypesHere DEF Aligned, To
  <2>3. CASE Refuse /\ UNCHANGED body
    BY <1>0, <2>1, <2>3, EaseKept DEF Refuse, Done, disk, Easy
  <2>4. CASE body' = [body EXCEPT ![To] = Body] /\ Go("unlink")
    <3>1. body'[To] = Body /\ Body' = Body
      BY <1>0, <2>1, <2>2, <2>4 DEF Body
    <3>2. Sound(record)'
      BY <2>1, <2>2, <3>1 DEF Sound, Body, tx, ren
    <3>3. QED
      BY <2>2, <2>4, <3>1, <3>2 DEF Aligned, Go
  <2>5. QED
    BY <1>12, <2>3, <2>4 DEF LinkPlain
<1>13. CASE UnlinkPlain
  <2>1. pc = "unlink" /\ tx = None /\ ren = None /\ body[To] = Body
    BY <1>0, <1>13 DEF UnlinkPlain, Phases, Aligned
  <2>2. Body.id = record.identity /\ Body # None /\ To \in Paths /\ To # record.path
    BY <1>0, <2>1, SoundPlain, TypesHere DEF Aligned, To
  <2>3. body' = [body EXCEPT ![record.path] = None] /\ record' = [record EXCEPT !.path = To] /\ pc' = "renamed"
    BY <1>13, <2>2 DEF UnlinkPlain
  <2>4. record'.path = To /\ record'.tx = None /\ record'.ren = None /\ record'.identity = record.identity
    BY <1>0, <2>1, <2>3 DEF Records, tx, ren
  <2>5. body'[To] = Body
    BY <1>0, <2>1, <2>2, <2>3
  <2>6. Sound(record)'
    BY <2>2, <2>4, <2>5 DEF Sound
  <2>7. QED
    BY <2>3, <2>6, AtEase DEF Easy
<1>14. CASE OtherProgram
  BY <1>0, <1>14, OtherAligned
<1>15. CASE Crash
  <2>1. UNCHANGED disk /\ record' = registry /\ pc' = "idle" /\ ~Unrecorded
    BY <1>15 DEF Crash
  <2>2. Sound(record)'
    BY <1>0, <2>1, SoundRegistry, SameSound
  <2>3. QED
    BY <2>1, <2>2, AtEase DEF Easy
<1>16. CASE UNCHANGED vars
  <2>1. UNCHANGED <<disk, record, registry, pc, faults>>
    BY <1>16 DEF vars, bounds
  <2>2. (Sound(record)' <=> Sound(record)) /\ (Sound(registry)' <=> Sound(registry))
    BY <2>1, SameSound
  <2>3. QED
    BY <1>0, <2>1, <2>2 DEF Aligned, Body, Side, To, tx, ren, disk
<1>17. QED
  BY <1>1, <1>2, <1>3, <1>4, <1>5, <1>6, <1>7, <1>8, <1>9, <1>10, <1>11, <1>12, <1>13, <1>14, <1>15,
     <1>16 DEF Next, Recover

\* The invariant holds at first, and every step keeps it.
LEMMA AnswersInit == Init => AnswersInv
<1> SUFFICES ASSUME Init PROVE AnswersInv
  OBVIOUS
<1>1. Types /\ Phases
  BY NotesInit DEF NotesInv
<1>2. registry = record /\ pc = "idle" /\ req = NoRequest /\ tx = None /\ ren = None
  BY DEF Init, tx, ren
<1>3. Written
  BY <1>2 DEF Written, Unwritten
<1>4. Sound(record)
  BY DEF Init, Sound, Paths
<1>5. Aligned
  BY <1>2, <1>4 DEF Aligned
<1>6. Saving
  BY <1>2 DEF Saving, NoRequest
<1>7. Numbered
  BY NotesInit DEF NotesInv
<1>8. QED
  BY <1>1, <1>3, <1>5, <1>6, <1>7 DEF AnswersInv

LEMMA AnswersNext == AnswersInv /\ [Next]_vars => AnswersInv'
<1> SUFFICES ASSUME AnswersInv, [Next]_vars PROVE AnswersInv'
  OBVIOUS
<1>1. Types /\ Numbered /\ Phases /\ Written /\ Saving /\ (~estranged => Aligned)
  BY DEF AnswersInv
<1>2. Types'
  BY <1>1, NextTypes
<1>3. Numbered' /\ Phases'
  BY <1>1, <1>2, NextNumbered, NextPhases
<1>4. Written' /\ Saving'
  BY <1>1, <1>2, <1>3, NextWritten, NextSaving
<1>5. ~estranged' => Aligned'
  BY <1>1, <1>2, <1>3, NextAligned
<1>6. QED
  BY <1>2, <1>3, <1>4, <1>5 DEF AnswersInv

\* Until something takes the file from under its record, both records tell the truth of it,
\* in every phase and whatever was interrupted.
THEOREM AnswersInvHolds == Spec => []AnswersInv
<1>1. QED
  BY AnswersInit, AnswersNext, PTL DEF Spec

\* What a restart reads of the registry is true of the file, and what it tells of as
\* unfinished can be finished, unless something took the file from under its record or the
\* program stopped before the registry had what it did.
THEOREM RestartsFindTheFile == Spec => [](~estranged /\ ~Unrecorded => Sound(registry))
<1>1. AnswersInv => (~estranged /\ ~Unrecorded => Sound(registry))
  BY SoundRegistry DEF AnswersInv
<1>2. QED
  BY <1>1, AnswersInvHolds, PTL

\* A recovery never refuses, and a read never misses the file, while they do.
LEMMA Ended ==
    ASSUME Types, Phases, Aligned, Saving, Next, ~PersistFails, pc # "idle", pc' = "idle", crashes' = crashes,
           req.kind = "load" \/ (req.kind = "save" /\ req.placed)
    PROVE  Read /\ Body.id = record.identity
<1>0. /\ record \in Records /\ record.path \in Paths /\ body \in [Paths -> Bodies \cup {None}] /\ crashes \in Nat
  BY TypesHere DEF Types
<1>1. ~(Load \/ Type \/ SaveOnce \/ Overwrite \/ Reload \/ Rename \/ Crash \/ Cleanup \/ WriteTemporary)
  <2>1. ~(Load \/ Type \/ SaveOnce \/ Overwrite \/ Reload \/ Rename)
    BY DEF Load, Type, SaveOnce, Overwrite, SaveOver, Reload, Rename
  <2>2. ~Crash
    BY <1>0 DEF Crash
  <2>3. ~Cleanup /\ ~WriteTemporary
    BY DEF Cleanup, WriteTemporary, Go
  <2>4. QED
    BY <2>1, <2>2, <2>3
<1>2. ~Persist
  BY PersistGoes DEF Proceed
<1>3. ~Look
  <2>1. SUFFICES ASSUME Look PROVE FALSE
    OBVIOUS
  <2>2. Refuse /\ Body # tx.body /\ ~(Body.id # tx.body.id /\ Body.id = record.identity)
    BY <2>1 DEF Look, Go
  <2>3. tx # None /\ Sound(record)
    BY <2>1 DEF Look, Phases, Aligned
  <2>4. QED
    BY <2>2, <2>3 DEF Sound, Body, tx
<1>4. ~Commit
  <2>1. SUFFICES ASSUME Commit PROVE FALSE
    OBVIOUS
  <2>2. Body = tx.body /\ tx # None /\ Sound(record)
    BY <2>1 DEF Commit, Phases, Aligned
  <2>3. Placeable(tx, Side)
    BY <2>2 DEF Sound, Body, Side, tx
  <2>4. QED
    BY <2>1, <2>3 DEF Commit, Placeable, Go
<1>5. ~(DropOld \/ Install)
  BY DEF DropOld, Install, Aligned, Go
<1>6. ~RecoverRename
  <2>1. SUFFICES ASSUME RecoverRename PROVE FALSE
    OBVIOUS
  <2>2. tx = None /\ ren # None /\ Sound(record)
    BY <2>1 DEF RecoverRename, Phases, Aligned
  <2>3. Movable(ren)
    BY <2>2 DEF Sound, tx, ren
  <2>4. ren.body # 0 /\ ren.side # None
    <3>1. ren \in Renames
      BY <2>2, TypesHere
    <3>2. QED
      BY <3>1 DEF Renames, Sidecars, None
  <2>5. None.id = 0
    BY DEF None
  <2>6. pc # "link body" \/ ~Link("body", "unlink body")
    BY <2>3, <2>4, <2>5 DEF Link, Files, Known, Movable, Go
  <2>7. pc # "link side" \/ ~Link("side", "unlink side")
    BY <2>3, <2>4 DEF Link, Files, Known, Movable, Go
  <2>8. ~Unlink("body") /\ ~Unlink("side")
    BY <2>3 DEF Unlink, Files, Known, Movable, Go
  <2>9. QED
    BY <2>1, <2>6, <2>7, <2>8 DEF RecoverRename
<1>7. ~(Compare \/ Check \/ Stage \/ Place)
  BY DEF Compare, Check, Stage, Place, Phases, Saving
<1>8. ~(Plan \/ LinkPlain \/ UnlinkPlain)
  BY DEF Plan, LinkPlain, UnlinkPlain, Phases
<1>9. ~Identify
  BY DEF Identify, Aligned, Go
<1>10. ~OtherProgram
  BY OtherFacts
<1>11. Read
  BY <1>1, <1>2, <1>3, <1>4, <1>5, <1>6, <1>7, <1>8, <1>9, <1>10 DEF Next, Recover
<1>12. QED
  BY <1>11, SoundPlain DEF Read, Phases, Aligned

\* What an answer tells, in the state before it.
LEMMA Answers ==
    ASSUME AnswersInv, Next
    PROVE  /\ Answered("load") /\ ~Succeeds => estranged \/ PersistFails
           /\ Answered("save") /\ req.calm =>
                IF Succeeds
                THEN Body.ver = req.text /\ (req.annotated => Side # None /\ Side.of = req.text)
                ELSE req.placed => PersistFails \/ estranged
<1>0. Types /\ Phases /\ Saving /\ (~estranged => Aligned)
  BY DEF AnswersInv
<1>1. ASSUME Answered("load"), ~estranged, ~PersistFails
      PROVE  Succeeds
  <2>1. Read /\ Body.id = record.identity
    BY <1>0, <1>1, Ended DEF Answered
  <2>2. ed' = [open |-> TRUE, text |-> Body.ver, rev |-> Body, notes |-> Side,
               annotated |-> Side # None, dirty |-> FALSE, conflict |-> None]
    BY <1>1, <2>1 DEF Read, Answered
  <2>3. QED
    BY <2>1, <2>2 DEF Succeeds, Read
<1>2. ASSUME Answered("save"), req.calm, Succeeds
      PROVE  Body.ver = req.text /\ (req.annotated => Side # None /\ Side.of = req.text)
  BY <1>0, <1>2 DEF Answered, Succeeds, Saving
<1>3. ASSUME Answered("save"), req.placed, ~estranged, ~PersistFails
      PROVE  Succeeds
  <2>1. Read /\ Body.id = record.identity
    BY <1>0, <1>3, Ended DEF Answered
  <2>2. ed.open /\ ed.conflict = None
    BY <1>0, <1>3 DEF Answered, Phases, Saving
  <2>3. ed \in Editing
    BY <1>0, <2>2, EdFacts DEF Types
  <2>4. \/ ed' = [ed EXCEPT !.rev = Body]
        \/ ed' = [ed EXCEPT !.rev = Body, !.dirty = ed.text # req.text,
                            !.notes = IF req.annotated THEN Side ELSE ed.notes]
    BY <1>3, <2>1 DEF Read, Answered
  <2>5. ed'.open /\ ed'.conflict = None
    BY <2>2, <2>3, <2>4 DEF Editing
  <2>6. QED
    BY <2>1, <2>5 DEF Succeeds, Read
<1>4. QED
  BY <1>1, <1>2, <1>3

\* A file opens, and a save that put its text in place succeeds, unless something took the
\* file from under its record or the registry could not be written; and a save that succeeds
\* has stored what it was asked to.
THEOREM AnswersAreTrueHolds == Spec => AnswersAreTrue
<1>1. AnswersInv /\ [Next]_vars =>
        [/\ Answered("load") /\ ~Succeeds => estranged \/ PersistFails
         /\ Answered("save") /\ req.calm =>
              IF Succeeds
              THEN Body.ver = req.text /\ (req.annotated => Side # None /\ Side.of = req.text)
              ELSE req.placed => PersistFails \/ estranged]_vars
  BY Answers
<1>2. QED
  BY <1>1, AnswersInvHolds, PTL DEF Spec, AnswersAreTrue
=============================================================================
