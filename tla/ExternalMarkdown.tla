--------------------------- MODULE ExternalMarkdown ---------------------------
(***************************************************************************)
(* A Markdown file outside the workspace, edited in the desktop program    *)
(* (app/electron/externalMarkdownService.js, markdownAnnotations.js, and   *)
(* the external half of app/src/markdown/MarkdownEditor.ts).               *)
(*                                                                         *)
(* The service keeps a record for the file: its path, the identity (inode) *)
(* of the file it was last given access to, and up to two unfinished       *)
(* transactions: a save with annotations, whose body and sidecar have to   *)
(* be replaced together, and a rename of both.  The records are saved to a *)
(* registry, from which a restart takes them.  Operations on one file run  *)
(* one after the other, and each begins by finishing what an earlier one   *)
(* left (recoverAnnotations).  Other programs change the files at any      *)
(* time, and the program may stop between any two steps.                   *)
(*                                                                         *)
(* A text is a number, a file the pair of its identity and its text, a     *)
(* revision the file it was computed from.  A sidecar has an identity, the *)
(* text its annotations are of, and their counter.  A check and the call   *)
(* right behind it are one step.                                           *)
(***************************************************************************)
EXTENDS Integers

CONSTANTS MaxEdits, MaxSaves, MaxRenames, MaxMishaps \* bounds

ASSUME BoundsAssumption == {MaxEdits, MaxSaves, MaxRenames, MaxMishaps} \subseteq Nat

VARIABLES
    body, side, \* the file and the sidecar at each path
    tmp,        \* the temporary file of a save
    pending,    \* sidecars staged for a transaction
    kept,       \* transactions (by staged sidecar) that have a backup of the old one
    registry,   \* the record on disk
    record,     \* the record in memory
    pc, req,    \* the operation under way and its request
    ed,         \* the editor
    clock,      \* the last number used for an identity or a text
    edits, saves, renames, changes, crashes, faults, \* bounds
    shown,      \* history: texts its reader has seen or agreed to replace
    adopted,    \* history: texts whose revision the editor was given unseen
    noted,      \* history: texts put in place by a save with annotations
    meddled,    \* history: another program wrote a sidecar
    estranged,  \* history: something took the file from under its record
    misled      \* history: a stop brought back a name that a rename was going back to

disk == <<body, side, pending, kept>>
bounds == <<edits, saves, renames, changes, crashes, faults>>
history == <<shown, adopted, noted, meddled, estranged, misled>>
vars == <<disk, tmp, registry, record, pc, req, ed, clock, bounds, history>>

Paths == {"first", "second"}
NextPath(p) == CHOOSE q \in Paths : q # p
None == [id |-> 0]
Closed == [open |-> FALSE]
NoRequest == [kind |-> "none"]

Mishap == changes + crashes + faults < MaxMishaps

Body == body[record.path]
Side == side[record.path]
tx == record.tx
ren == record.ren

Init ==
    /\ body = [p \in Paths |-> IF p = "first" THEN [id |-> 1, ver |-> 1] ELSE None]
    /\ side = [p \in Paths |-> None]
    /\ tmp = None /\ pending = {} /\ kept = {}
    /\ record = [path |-> "first", identity |-> 1, tx |-> None, ren |-> None]
    /\ registry = record
    /\ pc = "idle" /\ req = NoRequest /\ ed = Closed /\ clock = 1
    /\ edits = 0 /\ saves = 0 /\ renames = 0 /\ changes = 0 /\ crashes = 0 /\ faults = 0
    /\ shown = {} /\ adopted = {} /\ noted = {} /\ meddled = FALSE /\ estranged = FALSE
    /\ misled = FALSE
-----------------------------------------------------------------------------
(* What an operation goes on with, and how it ends. *)

\* recoverAnnotations first, then the operation, or the rest of a save or a rename.
Proceed(r) ==
    IF r.kind = "save" THEN IF r.placed THEN "identify" ELSE "compare"
    ELSE IF r.kind = "rename" /\ ~r.placed THEN "compare" ELSE "read"
Resume(rec, r) ==
    IF rec.ren # None THEN "link body" ELSE IF rec.tx # None THEN "look" ELSE Proceed(r)

Done == pc' = "idle" /\ req' = NoRequest

Refuse == Done /\ tmp' = None /\ UNCHANGED ed

\* The editor of a save is told the revision that is there, and asks what to do.
Conflict == Done /\ tmp' = None /\ ed' = [ed EXCEPT !.conflict = Body]

AnnotationConflict == IF req.kind = "save" /\ Body # None THEN Conflict ELSE Refuse

Go(next) == pc' = next /\ UNCHANGED <<tmp, req, ed>>
-----------------------------------------------------------------------------
(* The editor. *)

Ask(r) ==
    /\ req' = r /\ pc' = Resume(record, r)
    /\ UNCHANGED <<disk, tmp, registry, record, clock>>

Load ==
    /\ pc = "idle" /\ ~ed.open
    /\ Ask([kind |-> "load", calm |-> TRUE, placed |-> FALSE])
    /\ UNCHANGED <<ed, bounds, history>>

\* The reader changes the text, or annotates it too.  Typing while an operation runs is
\* told from typing after it only by the answer that is read last.
Type ==
    /\ pc \in {"idle", "read"} /\ ed.open /\ edits < MaxEdits
    /\ edits' = edits + 1 /\ clock' = clock + 1
    /\ \E annotate \in BOOLEAN :
          ed' = [ed EXCEPT !.text = clock', !.dirty = TRUE, !.annotated = @ \/ annotate]
    /\ shown' = shown \cup {clock'}
    /\ UNCHANGED <<disk, tmp, registry, record, pc, req, saves, renames, changes, crashes, faults,
                   adopted, noted, meddled, estranged, misled>>

SaveOver(revision) ==
    /\ pc = "idle" /\ ed.open /\ ed.dirty /\ saves < MaxSaves
    /\ saves' = saves + 1
    /\ Ask([kind |-> "save", text |-> ed.text, rev |-> revision, annotated |-> ed.annotated,
            notes |-> ed.notes, calm |-> TRUE, placed |-> FALSE, late |-> FALSE])
    /\ ed' = [ed EXCEPT !.conflict = None]
    /\ UNCHANGED <<edits, renames, changes, crashes, faults, adopted, noted, meddled, estranged,
                   misled>>

SaveOnce == ed.open /\ SaveOver(ed.rev) /\ UNCHANGED shown

\* The choices of the conflict dialog; closing it leaves the editor as it is.
Overwrite ==
    /\ ed.open /\ ed.conflict # None /\ SaveOver(ed.conflict)
    /\ shown' = shown \cup {ed.conflict.ver}

Reload ==
    /\ pc = "idle" /\ ed.open /\ ed.conflict # None
    /\ ed' = Closed
    /\ UNCHANGED <<disk, tmp, registry, record, pc, req, clock, bounds, history>>

Rename ==
    /\ pc = "idle" /\ ed.open /\ ~ed.dirty /\ renames < MaxRenames
    /\ renames' = renames + 1
    /\ Ask([kind |-> "rename", rev |-> ed.rev, calm |-> TRUE, placed |-> FALSE])
    /\ UNCHANGED <<ed, edits, saves, changes, crashes, faults, history>>

Acknowledged == req.annotated => Side # None /\ Side.n = (IF req.notes = None THEN 0 ELSE req.notes.n) + 1

\* readDocument answers: a load shows the text, a save and a rename take its revision.
\* Annotations of another counter are not the acknowledgement of a save.
Read ==
    /\ pc = "read"
    /\ UNCHANGED <<disk, registry, record, clock, bounds, noted, meddled, estranged,
                   misled>>
    /\ IF Body.id # record.identity THEN Refuse /\ UNCHANGED <<shown, adopted>>
       ELSE /\ Done /\ tmp' = None
            /\ shown' = IF req.kind = "load" THEN shown \cup {Body.ver} ELSE shown
            /\ adopted' = IF Body.ver \in shown' THEN adopted ELSE adopted \cup {Body.ver}
            /\ ed' = CASE req.kind = "load" ->
                            [open |-> TRUE, text |-> Body.ver, rev |-> Body, notes |-> Side,
                             annotated |-> Side # None, dirty |-> FALSE, conflict |-> None]
                       [] req.kind = "rename" -> [ed EXCEPT !.rev = Body]
                       [] req.kind = "save" /\ ~Acknowledged -> [ed EXCEPT !.rev = Body]
                       [] OTHER -> [ed EXCEPT !.rev = Body, !.dirty = ed.text # req.text,
                                              !.notes = IF req.annotated THEN Side ELSE @]
-----------------------------------------------------------------------------
(* The registry. *)

AfterPersist == [tx_gone |-> Proceed(req), moved |-> Resume(record, req), tx_known |-> "place",
                 identified |-> "read", ren_known |-> "link body", renamed |-> "read"]

Persist ==
    /\ pc \in DOMAIN AfterPersist
    /\ registry' = record
    /\ Go(AfterPersist[pc])
    /\ UNCHANGED <<disk, record, clock, bounds, history>>

\* Writing the registry fails, before or after the new one is in place.  A plain rename
\* then removes the new name, and believes the old one.
PersistFails ==
    /\ pc \in DOMAIN AfterPersist /\ Mishap
    /\ faults' = faults + 1
    /\ registry' \in {registry, record}
    /\ Refuse
    /\ IF pc = "renamed"
       THEN /\ body' = [body EXCEPT ![record.path] = None]
            /\ record' = [record EXCEPT !.path = NextPath(@)]
            /\ estranged' = TRUE
       ELSE UNCHANGED <<body, record, estranged>>
    /\ UNCHANGED <<side, pending, kept, clock, edits, saves, renames, changes, crashes,
                   shown, adopted, noted, meddled, misled>>
-----------------------------------------------------------------------------
(* recoverAnnotations: the save with annotations. *)

\* The body is that of the transaction, or still the old one, or something else.
Look ==
    /\ pc = "look"
    /\ CASE Body = tx.body -> Go("commit")
         [] Body.id # tx.body.id /\ Body.id = record.identity -> Go("clean")
         [] OTHER -> Refuse
    /\ UNCHANGED <<disk, registry, record, clock, bounds, history>>

\* annotations.commit: a backup of the old sidecar, its removal, a link of the new one.
Commit ==
    /\ pc = "commit"
    /\ CASE Side = tx.new -> /\ record' = [record EXCEPT !.identity = tx.body.id]
                             /\ Go("clean") /\ UNCHANGED kept
         [] Side # tx.new /\ tx.new \in pending /\ Side # None /\ Side = tx.old ->
                             /\ kept' = kept \cup {tx.new}
                             /\ Go("drop") /\ UNCHANGED record
         [] tx.new \in pending /\ Side = None /\ (tx.old = None \/ tx.new \in kept) ->
                             Go("install") /\ UNCHANGED <<kept, record>>
         [] OTHER -> AnnotationConflict /\ UNCHANGED <<kept, record>>
    /\ UNCHANGED <<body, side, pending, registry, clock, bounds, history>>

DropOld ==
    /\ pc = "drop"
    /\ IF Side = tx.old THEN side' = [side EXCEPT ![record.path] = None] /\ Go("install")
       ELSE AnnotationConflict /\ UNCHANGED side
    /\ UNCHANGED <<body, pending, kept, registry, record, clock, bounds, history>>

Install ==
    /\ pc = "install"
    /\ IF Side = None
       THEN /\ side' = [side EXCEPT ![record.path] = tx.new]
            /\ record' = [record EXCEPT !.identity = tx.body.id]
            /\ Go("clean")
       ELSE Refuse /\ UNCHANGED <<side, record>>
    /\ UNCHANGED <<body, pending, kept, registry, clock, bounds, history>>

Cleanup ==
    /\ pc = "clean"
    /\ pending' = pending \ {tx.new} /\ kept' = kept \ {tx.new}
    /\ record' = [record EXCEPT !.tx = None]
    /\ Go("tx_gone")
    /\ UNCHANGED <<body, side, registry, clock, bounds, history>>
-----------------------------------------------------------------------------
(* recoverAnnotationRename: the body, then the sidecar, linked and unlinked. *)

Known(part, file) == IF part = "body" THEN file.id = ren.body ELSE file = ren.side
Files(part) == IF part = "body" THEN body ELSE side
SetFiles(part, files) ==
    IF part = "body" THEN body' = files /\ side' = side ELSE side' = files /\ body' = body

Link(part, next) ==
    /\ LET files == Files(part)
           from == NextPath(ren.to)
       IN CASE files[ren.to] # None /\ Known(part, files[ren.to]) ->
                   Go(next) /\ UNCHANGED <<body, side>>
            [] files[ren.to] = None /\ Known(part, files[from]) ->
                   SetFiles(part, [files EXCEPT ![ren.to] = files[from]]) /\ Go(next)
            [] OTHER -> Refuse /\ UNCHANGED <<body, side>>
    /\ UNCHANGED <<pending, kept, registry, record, clock, bounds, history>>

Unlink(part) ==
    /\ LET files == Files(part)
           from == NextPath(ren.to)
           gone == files[from] = None \/ Known(part, files[from])
       IN /\ SetFiles(part, IF gone THEN [files EXCEPT ![from] = None] ELSE files)
          /\ IF ~gone THEN Refuse ELSE Go(IF part = "body" THEN "link side" ELSE "moved")
          /\ record' = IF gone /\ part = "side"
                       THEN [record EXCEPT !.path = ren.to, !.ren = None] ELSE record
    /\ UNCHANGED <<pending, kept, registry, clock, bounds, history>>

RecoverRename ==
    \/ pc = "link body" /\ Link("body", "unlink body")
    \/ pc = "unlink body" /\ Unlink("body")
    \/ pc = "link side" /\ Link("side", "unlink side")
    \/ pc = "unlink side" /\ Unlink("side")
-----------------------------------------------------------------------------
(* saveDocument. *)

Compare ==
    /\ pc = "compare"
    /\ CASE Body.id # record.identity -> Refuse
         [] Body.id = record.identity /\ Body # req.rev ->
                IF req.kind = "save" THEN Conflict ELSE Refuse
         [] OTHER -> Go(IF req.kind = "save" THEN "write" ELSE "plan")
    /\ UNCHANGED <<disk, registry, record, clock, bounds, history>>

WriteTemporary ==
    /\ pc = "write"
    /\ clock' = clock + 1
    /\ tmp' = [id |-> clock', ver |-> req.text]
    /\ pc' = "check" /\ UNCHANGED ed
    /\ UNCHANGED <<disk, registry, record, req, bounds, history>>

Checked == IF req.annotated THEN "stage" ELSE "place"

CheckIdentityOnly ==
    /\ pc = "check"
    /\ IF Body.id # record.identity THEN Refuse ELSE Go(Checked)
    /\ UNCHANGED <<disk, registry, record, clock, bounds, history>>

\* The revision once more, before anything is replaced.
Check ==
    /\ pc = "check"
    /\ CASE Body.id # record.identity -> Refuse
         [] Body.id = record.identity /\ Body # req.rev -> Conflict
         [] OTHER -> Go(Checked)
    /\ UNCHANGED <<disk, registry, record, clock, bounds, history>>

StageUnrecorded ==
    /\ pc = "stage"
    /\ IF Side # req.notes THEN AnnotationConflict /\ UNCHANGED <<pending, record, clock>>
       ELSE /\ clock' = clock + 1
            /\ LET new == [id |-> clock', of |-> req.text,
                           n |-> (IF Side = None THEN 0 ELSE Side.n) + 1]
               IN /\ pending' = pending \cup {new}
                  /\ record' = [record EXCEPT !.tx = [id |-> clock', body |-> tmp, new |-> new, old |-> Side]]
            /\ Go("place")
    /\ UNCHANGED <<body, side, kept, registry, bounds, history>>

\* annotations.stage, and the transaction in the record.
Stage ==
    /\ pc = "stage"
    /\ IF Side # req.notes THEN AnnotationConflict /\ UNCHANGED <<pending, record, clock>>
       ELSE /\ clock' = clock + 1
            /\ LET new == [id |-> clock', of |-> req.text,
                           n |-> (IF Side = None THEN 0 ELSE Side.n) + 1]
               IN /\ pending' = pending \cup {new}
                  /\ record' = [record EXCEPT !.tx = [id |-> clock', body |-> tmp, new |-> new, old |-> Side]]
            /\ Go("tx_known")
    /\ UNCHANGED <<body, side, kept, registry, bounds, history>>

\* The temporary file takes the path, whatever is there by now.
Place ==
    /\ pc = "place"
    /\ body' = [body EXCEPT ![record.path] = tmp]
    /\ tmp' = None
    /\ req' = [req EXCEPT !.placed = TRUE]
    /\ pc' = Resume(record, req')
    /\ noted' = IF req.annotated THEN noted \cup {req.text} ELSE noted
    /\ UNCHANGED <<side, pending, kept, registry, record, ed, clock, bounds,
                   shown, adopted, meddled, estranged, misled>>

IdentifyNothing ==
    /\ pc = "identify"
    /\ Go("identified")
    /\ UNCHANGED <<disk, registry, record, clock, bounds, history>>

Identify ==
    /\ pc = "identify"
    /\ IF Body = None THEN Refuse /\ UNCHANGED record
       ELSE record' = [record EXCEPT !.identity = Body.id] /\ Go("identified")
    /\ UNCHANGED <<disk, registry, clock, bounds, history>>
-----------------------------------------------------------------------------
(* renameDocument, after its comparison. *)

To == NextPath(record.path)

Plan ==
    /\ pc = "plan"
    /\ IF side[To] # None \/ (Side # None /\ body[To] # None) THEN Refuse /\ UNCHANGED record
       ELSE IF Side = None THEN Go("link") /\ UNCHANGED record
       ELSE /\ record' = [record EXCEPT !.ren = [id |-> record.identity, to |-> To,
                                                 body |-> record.identity, side |-> Side]]
            /\ req' = [req EXCEPT !.placed = TRUE]
            /\ pc' = "ren_known" /\ UNCHANGED <<tmp, ed>>
    /\ UNCHANGED <<disk, registry, clock, bounds, history>>

LinkPlain ==
    /\ pc = "link"
    /\ IF body[To] # None \/ Body = None THEN Refuse /\ UNCHANGED body
       ELSE body' = [body EXCEPT ![To] = Body] /\ Go("unlink")
    /\ UNCHANGED <<side, pending, kept, registry, record, clock, bounds, history>>

\* An unlink that fails, of a name somebody else removed, removes the new name too.
UnlinkPlain ==
    /\ pc = "unlink"
    /\ IF Body = None
       THEN body' = [body EXCEPT ![To] = None] /\ Refuse /\ UNCHANGED record
       ELSE /\ body' = [body EXCEPT ![record.path] = None]
            /\ record' = [record EXCEPT !.path = To]
            /\ req' = [req EXCEPT !.placed = TRUE]
            /\ pc' = "renamed" /\ UNCHANGED <<tmp, ed>>
    /\ UNCHANGED <<side, pending, kept, registry, clock, bounds, history>>
-----------------------------------------------------------------------------
(* Other programs, and a stop of this one. *)

Outstanding == pc # "idle" \/ \E rec \in {record, registry} : rec.tx # None \/ rec.ren # None
Ours(p) == p \in {record.path, registry.path}

Noticed(changesBody) ==
    /\ req' = IF req = NoRequest THEN req
              ELSE IF req.kind # "save" THEN [req EXCEPT !.calm = FALSE]
              ELSE [req EXCEPT !.calm = FALSE,
                       !.late = @ \/ (changesBody /\ pc \in {"stage", "tx_known", "place"})]
    /\ Mishap /\ changes' = changes + 1
    /\ clock' = clock + 1
    /\ UNCHANGED <<tmp, pending, kept, registry, record, pc, ed, edits, saves, renames, crashes, faults,
                   shown, adopted, noted, misled>>

\* In place: every name of the file has the new text.
EditBody(p) ==
    /\ body[p] # None
    /\ Noticed(TRUE)
    /\ body' = [q \in Paths |-> IF body[q].id = body[p].id THEN [body[q] EXCEPT !.ver = clock'] ELSE body[q]]
    /\ estranged' = (estranged \/ Outstanding)
    /\ UNCHANGED <<side, meddled>>

\* A new file under an old name, or a new name; or none.
ReplaceBody(p) ==
    /\ Noticed(TRUE)
    /\ \E file \in {[id |-> clock', ver |-> clock'], None} \ {body[p]} :
          body' = [body EXCEPT ![p] = file]
    /\ estranged' = (estranged \/ Outstanding \/ Ours(p))
    /\ UNCHANGED <<side, meddled>>

WriteSide(p) ==
    /\ body[p] # None
    /\ Noticed(FALSE)
    /\ side' = [side EXCEPT ![p] = [id |-> clock', of |-> body[p].ver,
                                     n |-> IF @ = None THEN 1 ELSE @.n + 1]]
    /\ meddled' = TRUE
    /\ estranged' = (estranged \/ Outstanding)
    /\ UNCHANGED body

OtherProgram == \E p \in Paths : EditBody(p) \/ ReplaceBody(p) \/ WriteSide(p)

\* The body was replaced or renamed and no registry says so, or one that could not be
\* written is behind.
Unrecorded ==
    \/ /\ registry.tx = None /\ registry.ren = None
       /\ \/ pc = "identify"
          \/ registry.identity # record.identity \/ registry.path # record.path
    \/ faults > 0 /\ registry # record

\* A rename is going back to the name that the registry still has.
Returning == ren # None /\ registry.ren = None /\ registry.path = ren.to

\* The program stops and starts again: loadRegistry.  A temporary file of a save is
\* left under a name nothing reads.
Crash ==
    /\ Mishap /\ crashes' = crashes + 1
    /\ record' = registry
    /\ pc' = "idle" /\ tmp' = None /\ req' = NoRequest /\ ed' = Closed
    /\ estranged' = (estranged \/ Unrecorded)
    /\ misled' = (misled \/ Returning)
    /\ UNCHANGED <<disk, registry, clock, edits, saves, renames, changes, faults,
                   shown, adopted, noted, meddled>>

Recover == Look \/ Commit \/ DropOld \/ Install \/ Cleanup \/ RecoverRename
Next ==
    \/ Load \/ Type \/ SaveOnce \/ Overwrite \/ Reload \/ Rename \/ Read
    \/ Persist \/ PersistFails \/ Recover
    \/ Compare \/ WriteTemporary \/ Check \/ Stage \/ Place \/ Identify
    \/ Plan \/ LinkPlain \/ UnlinkPlain
    \/ OtherProgram \/ Crash

Spec == Init /\ [][Next]_vars
-----------------------------------------------------------------------------
Texts == {body[p].ver : p \in {q \in Paths : body[q] # None}}

\* A text disappears only when a save replaces it that its reader had seen or agreed to
\* replace, unless another program wrote it behind the last check of a save or between
\* the two names of a rename, or its revision was given to the editor unseen, or the
\* registry refuses the new name of a renamed file (externalMarkdownService.js:406,
\* 461-474).
OnlySavesReplace ==
    [][\/ OtherProgram
       \/ \A v \in Texts \ Texts' :
             \/ Place /\ (v \in shown \cup adopted \/ req.late)
             \/ (UnlinkPlain \/ RecoverRename) /\ estranged
             \/ PersistFails /\ pc = "renamed"]_vars

\* When nothing is under way or outstanding, a text that was saved with annotations has
\* the annotations of that text beside it, under whatever name and after any stop, unless
\* another program wrote a sidecar, or the registry could not be written since the file
\* left a name and the program stopped as the file was going back to it: the body is
\* linked before the sidecar, and nobody knows any more that the sidecar is to follow.
NotesMatch ==
    /\ pc = "idle" /\ tx = None /\ ren = None /\ ~meddled /\ ~misled
    /\ Body # None /\ Body.ver \in noted
    => Side # None /\ Side.of = Body.ver

Answered(kind) == pc # "idle" /\ pc' = "idle" /\ crashes' = crashes /\ req.kind = kind
Succeeds == ed'.open /\ ed'.conflict = None /\ pc = "read" /\ Body.id = record.identity

\* A file opens unless something took it from under its record.  A save that succeeds
\* has stored the text and its annotations; one that is refused has stored nothing,
\* unless the registry could not be written or another program interfered meanwhile.
AnswersAreTrue ==
    [][/\ Answered("load") /\ ~Succeeds => estranged \/ PersistFails
       /\ Answered("save") /\ req.calm =>
            IF Succeeds
            THEN Body.ver = req.text /\ (req.annotated => Side # None /\ Side.of = req.text)
            ELSE req.placed => PersistFails \/ estranged]_vars
=============================================================================
