---------------------------- MODULE MarkdownSave ----------------------------
(***************************************************************************)
(* SaveMarkdown and the recovery gate of the Markdown store               *)
(* (kernel/model/markdown.go, kernel/model/markdown_transaction.go).       *)
(*                                                                         *)
(* One document.  The kernel, under markdownFileOperationLock, runs one    *)
(* operation at a time: "save", or "open", which stands for every other    *)
(* operation that passes the gate.  Other programs (an editor, a sync      *)
(* client) change the file under the document's path at any moment, and    *)
(* the kernel process may stop between any two durable steps.              *)
(*                                                                         *)
(* An action is one durable step of the disk: a rename, a link, an unlink, *)
(* an identity check, a replacement of transaction.json.  The transaction  *)
(* directory is the pair of paths "staging" (payload.md) and "quarantine"  *)
(* (source.md); "removing" is the private leaf of a removal under way.     *)
(***************************************************************************)
EXTENDS Naturals, FiniteSets

CONSTANTS
    Writers,     \* what other programs do to the file: see the assumption
    Faults,      \* how the storage may fail
    MaxSaves,    \* bound: saves the client asks for
    MaxEdits,    \* bound: changes made by other programs
    MaxCrashes,  \* bound: kernel stops
    MaxFaults,   \* bound: storage failures
    MaxInodes    \* bound: inodes in use at once

ASSUME SaveAssumption ==
    /\ Writers \subseteq {"inplace", "put", "delete"}
    /\ Faults \subseteq {"refused", "unsynced"}
    /\ {MaxSaves, MaxEdits, MaxCrashes, MaxFaults, MaxInodes} \subseteq Nat

VARIABLES
    disk,      \* path -> the file it names; two paths with one ino are hard links
    orphans,   \* .removing- leaves that no running removal owns any more
    journal,   \* transaction.json
    pc,        \* where the running operation is
    tx,        \* the markdownTransaction in the kernel's memory
    rm,        \* the call of removeMarkdownFileWithIdentity under way
    gate,      \* TRUE inside recoverMarkdownTransactionsLocked
    tidy,      \* TRUE when a rollback goes on to finalizeMarkdownSaveRollback
    op,        \* the operation asked for
    want,      \* the version the save would install
    rev,       \* the version the client has loaded
    answer,    \* the last answer given to the client
    owed,      \* ghost: versions that nobody has superseded or removed
    refused,   \* ghost: versions whose save was answered with an error
    clock,     \* next fresh version number
    used       \* what the bounds have allowed so far

storage == <<disk, orphans>>
client  == <<op, want, rev, answer>>
locals  == <<rm, gate, tidy>>
ghosts  == <<owed, refused>>
vars == <<disk, orphans, journal, pc, tx, rm, gate, tidy, op, want, rev,
          answer, owed, refused, clock, used>>

(* A file is an inode and the version of its bytes.  markdownFileIdentity  *)
(* (size, mtime, mode, revision, inode) is the pair; the revision alone,   *)
(* the hash of the bytes, is ver.                                          *)
File == [ino : Nat, ver : Nat]
NoFile == [ino |-> 0, ver |-> 0]
Path == {"source", "staging", "quarantine", "removing"}

Phases == {"none", "prepared", "staged", "source-isolating", "source-isolated",
           "installed", "source-removed", "finalized", "rolled-back"}
Transaction == [phase : Phases, sourceID : File, targetID : File]
NoTx == [phase |-> "none", sourceID |-> NoFile, targetID |-> NoFile]

Precommit == {"prepared", "staged", "source-isolating", "source-isolated"}
Committed == {"installed", "source-removed", "finalized"}

Steps == {"idle", "gate", "recover", "passed", "begin", "create", "fill", "stage",
          "check-source", "isolating", "isolate", "check-quarantine", "move-back",
          "isolated", "check-isolated", "link", "linked", "install", "unlink",
          "restore", "restore-rename", "roll-back", "drop", "discard", "finalize",
          "remove-source", "remove-staging", "rm-isolate", "rm-check", "rm-abandon",
          "failed", "succeeded"}
Removal == [path : Path, id : File, ok : Steps, bad : Steps]
NoRm == [path |-> "removing", id |-> NoFile, ok |-> "idle", bad |-> "idle"]

Present(p) == disk[p] # NoFile

(* sameMarkdownIdentity: the path exists and is the very file recorded.    *)
Same(p, id) == Present(p) /\ disk[p] = id

(* A new file gets an inode that neither a file nor a recorded identity    *)
(* has; taking the smallest one keeps the states few.                      *)
InUse == {disk[p].ino : p \in Path} \cup {o.file.ino : o \in orphans}
         \cup {f.ino : f \in {journal.sourceID, journal.targetID,
                             tx.sourceID, tx.targetID, rm.id}}
Fresh(i) == i \notin InUse /\ \A j \in 1..(i - 1) : j \in InUse
Inodes == 1..MaxInodes

OnDisk(v) == \/ \E p \in Path : disk[p].ver = v
             \/ \E o \in orphans : o.file.ver = v

Init ==
    /\ disk = [p \in Path |-> IF p = "source" THEN [ino |-> 1, ver |-> 1] ELSE NoFile]
    /\ orphans = {}
    /\ journal = NoTx
    /\ pc = "idle" /\ tx = NoTx /\ rm = NoRm /\ gate = FALSE /\ tidy = FALSE
    /\ op = "open" /\ want = 0 /\ rev = 1 /\ answer = "ok"
    /\ owed = {1} /\ refused = {}
    /\ clock = 2
    /\ used = [saves |-> 0, edits |-> 0, crashes |-> 0, faults |-> 0]

-----------------------------------------------------------------------------
(* Steps every transaction shares.                                         *)

Goto(l) == pc' = l

(* The storage refuses a write, or reports an error after the write.       *)
Fault(kind) ==
    /\ kind \in Faults
    /\ used.faults < MaxFaults
    /\ used' = [used EXCEPT !.faults = @ + 1]

(* writeMarkdownTransaction: a temporary file, a rename over               *)
(* transaction.json and a sync of the directory.  "refused" is an error    *)
(* before the rename, "unsynced" an error after it.  The record in memory  *)
(* has the new phase either way.                                           *)
WriteJournal(record, ok, bad) ==
    /\ tx' = record
    /\ \/ journal' = record /\ Goto(ok) /\ UNCHANGED used
       \/ Fault("refused") /\ Goto(bad) /\ UNCHANGED journal
       \/ Fault("unsynced") /\ Goto(bad) /\ journal' = record

(* A rename and the sync of its directory, which may each fail.            *)
DurableRename(files, ok, bad) ==
    \/ disk' = files /\ Goto(ok) /\ UNCHANGED used
    \/ Fault("refused") /\ Goto(bad) /\ UNCHANGED disk
    \/ Fault("unsynced") /\ Goto(bad) /\ disk' = files

InPhase(ph) == [tx EXCEPT !.phase = ph]

(* removeMarkdownFileWithIdentity is two steps: the leaf is renamed to a   *)
(* private name, then its identity decides between unlinking it and moving *)
(* it back without replacing.                                              *)
StartRemoval(p, id, ok, bad) ==
    /\ rm' = [path |-> p, id |-> id, ok |-> ok, bad |-> bad]
    /\ Goto("rm-isolate")

(* Callers other than rollbackMarkdownSaveCommit take a missing file as    *)
(* removed; that one counts it as an error.                                *)
MissingIsError == rm.path = "source"

RemoveIsolate ==
    /\ pc = "rm-isolate"
    /\ IF Present(rm.path)
       THEN DurableRename([disk EXCEPT !["removing"] = disk[rm.path], ![rm.path] = NoFile],
                          "rm-check", "rm-abandon")
       ELSE /\ Goto(IF MissingIsError THEN rm.bad ELSE rm.ok)
            /\ UNCHANGED <<disk, used>>
    /\ UNCHANGED <<orphans, journal, tx, locals, client, ghosts, clock>>

(* The error return of a removal: a leaf it has renamed stays where it is. *)
Abandoned == IF Present("removing")
             THEN orphans \cup {[of |-> rm.path, file |-> disk["removing"]]}
             ELSE orphans

RemoveAbandon ==
    /\ pc = "rm-abandon"
    /\ orphans' = Abandoned
    /\ disk' = [disk EXCEPT !["removing"] = NoFile]
    /\ Goto(rm.bad)
    /\ UNCHANGED <<journal, tx, locals, client, ghosts, clock, used>>

RemoveCheck ==
    /\ pc = "rm-check"
    /\ \/ /\ Same("removing", rm.id)
          /\ \/ /\ disk' = [disk EXCEPT !["removing"] = NoFile]
                /\ Goto(rm.ok) /\ UNCHANGED used
             \/ Fault("refused") /\ Goto("rm-abandon") /\ UNCHANGED disk
       \/ /\ ~Same("removing", rm.id) /\ Present(rm.path)
          /\ Goto("rm-abandon") /\ UNCHANGED <<disk, used>>
       \/ /\ ~Same("removing", rm.id) /\ ~Present(rm.path)
          /\ \E i \in Inodes :
                /\ Fresh(i)
                /\ disk' = [disk EXCEPT !["removing"] = NoFile,
                                        ![rm.path] = [disk["removing"] EXCEPT !.ino = i]]
          /\ Goto(rm.bad) /\ UNCHANGED used
    /\ UNCHANGED <<orphans, journal, tx, locals, client, ghosts, clock>>

(* finishMarkdownTransaction: RemoveAll of the transaction directory,      *)
(* journal included.  A save that got as far as "installed" has succeeded  *)
(* whatever its cleanup does; the gate needs the cleanup to succeed.       *)
Discard ==
    /\ pc = "discard"
    /\ \/ /\ disk' = [disk EXCEPT !["staging"] = NoFile, !["quarantine"] = NoFile]
          /\ orphans' = {o \in orphans : o.of = "source"}
          /\ journal' = NoTx
          /\ Goto(IF gate THEN "passed"
                  ELSE IF tx.phase = "finalized" THEN "succeeded" ELSE "failed")
          /\ UNCHANGED used
       \/ /\ Fault("refused")
          /\ Goto(IF ~gate /\ tx.phase = "finalized" THEN "succeeded" ELSE "failed")
          /\ UNCHANGED <<storage, journal>>
    /\ UNCHANGED <<tx, locals, client, ghosts, clock>>

-----------------------------------------------------------------------------
(* The client and the gate.                                                *)

Open ==
    /\ pc = "idle"
    /\ op' = "open" /\ gate' = TRUE /\ Goto("gate")
    /\ UNCHANGED <<storage, journal, tx, rm, tidy, want, rev, answer, ghosts, clock, used>>

Save ==
    /\ pc = "idle"
    /\ used.saves < MaxSaves
    /\ used' = [used EXCEPT !.saves = @ + 1]
    /\ op' = "save" /\ gate' = TRUE /\ Goto("gate")
    /\ want' = clock /\ clock' = clock + 1
    /\ UNCHANGED <<storage, journal, tx, rm, tidy, rev, answer, ghosts>>

(* recoverMarkdownTransaction, kind "save": which way the recorded phase   *)
(* sends the recovery.  At "prepared" the payload found is the payload.    *)
Recovered(record) ==
    IF record.phase = "prepared" THEN [record EXCEPT !.targetID = disk["staging"]]
    ELSE record

(* Mutated GateEnter: an installed save is recovered like an undecided one. *)
GateEnterForgetsInstalled ==
    /\ pc = "gate"
    /\ tx' = Recovered(journal)
    /\ tidy' = TRUE
    /\ \/ journal.phase = "none" /\ Goto("passed")
       \/ journal.phase \in Precommit \cup {"installed"} /\ Goto("recover")
       \/ journal.phase = "rolled-back" /\ Goto("drop")
       \/ journal.phase \in {"source-removed", "finalized"} /\ Goto("finalize")
    /\ UNCHANGED <<storage, journal, rm, gate, client, ghosts, clock, used>>

GateEnter ==
    /\ pc = "gate"
    /\ tx' = Recovered(journal)
    /\ tidy' = TRUE
    /\ \/ journal.phase = "none" /\ Goto("passed")
       \/ journal.phase \in Precommit /\ Goto("recover")
       \/ journal.phase = "rolled-back" /\ Goto("drop")
       \/ journal.phase \in Committed /\ Goto("finalize")
    /\ UNCHANGED <<storage, journal, rm, gate, client, ghosts, clock, used>>

(* recoverMarkdownSavePrecommit: the three layouts a stop before           *)
(* "installed" can leave.  Any other one is a conflict that keeps the      *)
(* journal, and the gate stays shut.                                       *)
Untouched == Same("source", tx.sourceID) /\ ~Present("quarantine")
Isolated  == ~Present("source") /\ Same("quarantine", tx.sourceID)
Linked    == Same("source", tx.targetID) /\ Same("quarantine", tx.sourceID)

(* Mutated RecoverPrecommit: a link that was made counts as a commit.      *)
RecoverKeepsLink ==
    /\ pc = "recover"
    /\ \/ Untouched /\ Goto("roll-back")
       \/ Isolated /\ Goto("restore")
       \/ Linked /\ Goto("drop")
       \/ ~(Untouched \/ Isolated \/ Linked) /\ Goto("failed")
    /\ UNCHANGED <<storage, journal, tx, locals, client, ghosts, clock, used>>

(* Mutated RecoverPrecommit: nothing puts an isolated source back.         *)
RecoverForgetsIsolated ==
    /\ pc = "recover"
    /\ \/ Untouched /\ Goto("roll-back")
       \/ Linked /\ Goto("unlink")
       \/ ~(Untouched \/ Linked) /\ Goto("failed")
    /\ UNCHANGED <<storage, journal, tx, locals, client, ghosts, clock, used>>

RecoverPrecommit ==
    /\ pc = "recover"
    /\ \/ Untouched /\ Goto("roll-back")
       \/ Isolated /\ Goto("restore")
       \/ Linked /\ Goto("unlink")
       \/ ~(Untouched \/ Isolated \/ Linked) /\ Goto("failed")
    /\ UNCHANGED <<storage, journal, tx, locals, client, ghosts, clock, used>>

(* The gate is open.  GetMarkdown reads the file; a save compares the      *)
(* revision of the bytes it reads with the one the client loaded.          *)
GatePassed ==
    /\ pc = "passed"
    /\ gate' = FALSE /\ tidy' = FALSE
    /\ \/ /\ op = "open" /\ Goto("idle")
          /\ answer' = IF Present("source") THEN "ok" ELSE "error"
          /\ rev' = IF Present("source") THEN disk["source"].ver ELSE rev
       \/ /\ op = "save"
          /\ Goto(IF Present("source") /\ disk["source"].ver = rev THEN "begin" ELSE "failed")
          /\ UNCHANGED <<answer, rev>>
    /\ tx' = NoTx /\ rm' = NoRm
    /\ UNCHANGED <<storage, journal, op, want, ghosts, clock, used>>

(* Every error return of a save or of the gate.                            *)
AnswerFailed ==
    /\ pc = "failed"
    /\ answer' = IF gate THEN "blocked" ELSE "error"
    /\ refused' = IF op = "save" THEN refused \cup {want} ELSE refused
    /\ gate' = FALSE /\ tidy' = FALSE /\ tx' = NoTx /\ rm' = NoRm
    /\ Goto("idle")
    /\ UNCHANGED <<storage, journal, op, want, rev, owed, clock, used>>

(* markdownDocument reads the installed file once more for its times.      *)
AnswerSaved ==
    /\ pc = "succeeded"
    /\ IF Present("source") THEN answer' = "ok" /\ rev' = want
       ELSE answer' = "error" /\ UNCHANGED rev
    /\ gate' = FALSE /\ tidy' = FALSE /\ tx' = NoTx /\ rm' = NoRm
    /\ Goto("idle")
    /\ UNCHANGED <<storage, journal, op, want, ghosts, clock, used>>

-----------------------------------------------------------------------------
(* SaveMarkdown.                                                           *)

(* beginMarkdownTransaction identifies the source by reading it again.     *)
Begin ==
    /\ pc = "begin"
    /\ IF Present("source")
       THEN WriteJournal([phase |-> "prepared", sourceID |-> disk["source"],
                          targetID |-> NoFile], "create", "discard")
       ELSE Goto("failed") /\ UNCHANGED <<journal, tx, used>>
    /\ UNCHANGED <<storage, locals, client, ghosts, clock>>

(* stageMarkdownSave: the payload exists before its bytes are complete     *)
(* (version 0).                                                            *)
StageCreate ==
    /\ pc = "create"
    /\ \E i \in Inodes :
          Fresh(i) /\ disk' = [disk EXCEPT !["staging"] = [ino |-> i, ver |-> 0]]
    /\ Goto("fill")
    /\ UNCHANGED <<orphans, journal, tx, locals, client, ghosts, clock, used>>

StageFill ==
    /\ pc = "fill"
    /\ \/ /\ disk' = [disk EXCEPT !["staging"].ver = want]
          /\ Goto("stage")
          /\ UNCHANGED used
       \/ Fault("refused") /\ Goto("failed") /\ UNCHANGED disk
    /\ UNCHANGED <<orphans, journal, tx, locals, client, ghosts, clock>>

StageRecord ==
    /\ pc = "stage"
    /\ WriteJournal([tx EXCEPT !.phase = "staged", !.targetID = disk["staging"]],
                    "check-source", "failed")
    /\ UNCHANGED <<storage, locals, client, ghosts, clock>>

(* commitMarkdownSave: the source must still be the file identified.       *)
CheckSource ==
    /\ pc = "check-source"
    /\ Goto(IF Same("source", tx.sourceID) THEN "isolating" ELSE "failed")
    /\ UNCHANGED <<storage, journal, tx, locals, client, ghosts, clock, used>>

RecordIsolating ==
    /\ pc = "isolating"
    /\ WriteJournal(InPhase("source-isolating"), "isolate", "discard")
    /\ UNCHANGED <<storage, locals, client, ghosts, clock>>

Isolate ==
    /\ pc = "isolate"
    /\ IF Present("source")
       THEN DurableRename([disk EXCEPT !["quarantine"] = disk["source"], !["source"] = NoFile],
                          "check-quarantine", "failed")
       ELSE Goto("failed") /\ UNCHANGED <<disk, used>>
    /\ UNCHANGED <<orphans, journal, tx, locals, client, ghosts, clock>>

(* The rename may have taken a file another program had just put there.    *)
CheckQuarantine ==
    /\ pc = "check-quarantine"
    /\ Goto(IF Same("quarantine", tx.sourceID) THEN "isolated" ELSE "move-back")
    /\ UNCHANGED <<storage, journal, tx, locals, client, ghosts, clock, used>>

(* moveMarkdownFileNoReplace: an exclusive copy, then the original goes.   *)
MoveBack ==
    /\ pc = "move-back"
    /\ IF Present("source")
       THEN Goto("failed") /\ UNCHANGED <<disk, rm>>
       ELSE /\ \E i \in Inodes :
                  /\ Fresh(i)
                  /\ disk' = [disk EXCEPT !["source"] = [disk["quarantine"] EXCEPT !.ino = i]]
            /\ StartRemoval("quarantine", disk["quarantine"], "failed", "failed")
    /\ UNCHANGED <<orphans, journal, tx, gate, tidy, client, ghosts, clock, used>>

RecordIsolated ==
    /\ pc = "isolated"
    /\ WriteJournal(InPhase("source-isolated"), "check-isolated", "restore")
    /\ tidy' = (pc' = "restore")
    /\ UNCHANGED <<storage, rm, gate, client, ghosts, clock>>

(* commitMarkdownSaveIsolated.                                             *)
CheckIsolated ==
    /\ pc = "check-isolated"
    /\ Goto(IF Same("quarantine", tx.sourceID) /\ Same("staging", tx.targetID)
            THEN "link" ELSE "failed")
    /\ UNCHANGED <<storage, journal, tx, locals, client, ghosts, clock, used>>

(* Mutated Link: the payload is renamed over whatever is there.            *)
LinkReplacing ==
    /\ pc = "link"
    /\ disk' = [disk EXCEPT !["source"] = disk["staging"]]
    /\ Goto("linked")
    /\ UNCHANGED <<orphans, journal, tx, locals, client, ghosts, clock, used>>

(* A hard link never replaces a file; syncing the directory may fail.      *)
Link ==
    /\ pc = "link"
    /\ IF Present("source")
       THEN Goto("failed") /\ UNCHANGED <<disk, used>>
       ELSE \/ /\ disk' = [disk EXCEPT !["source"] = disk["staging"]]
               /\ \/ Goto("linked") /\ UNCHANGED used
                  \/ Fault("unsynced") /\ Goto("unlink")
            \/ Fault("refused") /\ Goto("failed") /\ UNCHANGED disk
    /\ UNCHANGED <<orphans, journal, tx, locals, client, ghosts, clock>>

CheckLinked ==
    /\ pc = "linked"
    /\ Goto(IF Same("source", tx.targetID) THEN "install" ELSE "unlink")
    /\ UNCHANGED <<storage, journal, tx, locals, client, ghosts, clock, used>>

(* The commit: what the save replaces is superseded, and what it installed *)
(* is owed unless another program has changed it already.                  *)
RecordInstalled ==
    /\ pc = "install"
    /\ WriteJournal(InPhase("installed"), "finalize", "unlink")
    /\ owed' = IF pc' = "unlink" THEN owed
               ELSE (owed \ {tx.sourceID.ver})
                    \cup (IF Same("source", tx.targetID) THEN {want} ELSE {})
    /\ UNCHANGED <<storage, locals, client, refused, clock>>

(* finalizeMarkdownSave resumes at the recorded phase; the caller of a     *)
(* save ignores its errors, the gate does not.                             *)
FinalizeError == IF gate THEN "failed" ELSE "succeeded"

Finalize ==
    /\ pc = "finalize"
    /\ \/ /\ tx.phase = "installed"
          /\ StartRemoval("quarantine", tx.sourceID, "remove-source", FinalizeError)
       \/ /\ tx.phase = "source-removed"
          /\ StartRemoval("staging", tx.targetID, "remove-staging", FinalizeError)
       \/ /\ tx.phase = "finalized"
          /\ Goto("discard") /\ UNCHANGED rm
    /\ UNCHANGED <<storage, journal, tx, gate, tidy, client, ghosts, clock, used>>

RecordSourceRemoved ==
    /\ pc = "remove-source"
    /\ WriteJournal(InPhase("source-removed"), "finalize", FinalizeError)
    /\ UNCHANGED <<storage, locals, client, ghosts, clock>>

RecordFinalized ==
    /\ pc = "remove-staging"
    /\ WriteJournal(InPhase("finalized"), "finalize", FinalizeError)
    /\ UNCHANGED <<storage, locals, client, ghosts, clock>>

-----------------------------------------------------------------------------
(* Rollback.                                                               *)

(* rollbackMarkdownSaveCommit takes its own link away and nothing else.    *)
Unlink ==
    /\ pc = "unlink"
    /\ IF Same("source", tx.targetID)
       THEN StartRemoval("source", tx.targetID, "restore", "failed")
       ELSE Goto(IF Present("source") THEN "failed" ELSE "restore") /\ UNCHANGED rm
    /\ UNCHANGED <<storage, journal, tx, gate, tidy, client, ghosts, clock, used>>

(* rollbackMarkdownSaveIsolation: a test that the path is free ...         *)
RestoreCheck ==
    /\ pc = "restore"
    /\ Goto(IF Same("quarantine", tx.sourceID) /\ ~Present("source")
            THEN "restore-rename" ELSE "failed")
    /\ UNCHANGED <<storage, journal, tx, locals, client, ghosts, clock, used>>

(* ... and a rename, which replaces what came in between.                  *)
RestoreRename ==
    /\ pc = "restore-rename"
    /\ DurableRename([disk EXCEPT !["source"] = disk["quarantine"], !["quarantine"] = NoFile],
                     "roll-back", "failed")
    /\ UNCHANGED <<orphans, journal, tx, locals, client, ghosts, clock>>

(* Mutated RecordRolledBack: a phase no recovery knows.                    *)
RecordRolledBackMisspelt ==
    /\ pc = "roll-back"
    /\ WriteJournal(InPhase("rolledback"), IF tidy THEN "drop" ELSE "failed", "failed")
    /\ UNCHANGED <<storage, locals, client, ghosts, clock>>

RecordRolledBack ==
    /\ pc = "roll-back"
    /\ WriteJournal(InPhase("rolled-back"), IF tidy THEN "drop" ELSE "failed", "failed")
    /\ UNCHANGED <<storage, locals, client, ghosts, clock>>

(* finalizeMarkdownSaveRollback.                                           *)
DropPayload ==
    /\ pc = "drop"
    /\ StartRemoval("staging", tx.targetID, "discard", "failed")
    /\ UNCHANGED <<storage, journal, tx, gate, tidy, client, ghosts, clock, used>>

Kernel ==
    \/ GateEnter \/ RecoverPrecommit \/ GatePassed \/ AnswerFailed \/ AnswerSaved
    \/ Begin \/ StageCreate \/ StageFill \/ StageRecord
    \/ CheckSource \/ RecordIsolating \/ Isolate \/ CheckQuarantine \/ MoveBack
    \/ RecordIsolated \/ CheckIsolated \/ Link \/ CheckLinked \/ RecordInstalled
    \/ Finalize \/ RecordSourceRemoved \/ RecordFinalized
    \/ Unlink \/ RestoreCheck \/ RestoreRename \/ RecordRolledBack \/ DropPayload
    \/ RemoveIsolate \/ RemoveCheck \/ RemoveAbandon \/ Discard

-----------------------------------------------------------------------------
(* Other programs, and the end of the process.                             *)

Edited(kind) ==
    /\ kind \in Writers
    /\ used.edits < MaxEdits
    /\ used' = [used EXCEPT !.edits = @ + 1]
    /\ UNCHANGED <<journal, pc, tx, locals, client, refused>>

(* The file is opened and written: every hard link to it changes.          *)
EditInPlace ==
    /\ Edited("inplace")
    /\ Present("source")
    /\ LET touch(f) == IF f.ino = disk["source"].ino THEN [f EXCEPT !.ver = clock] ELSE f
       IN  /\ disk' = [p \in Path |-> touch(disk[p])]
           /\ orphans' = {[o EXCEPT !.file = touch(o.file)] : o \in orphans}
    /\ owed' = (owed \ {disk["source"].ver}) \cup {clock}
    /\ clock' = clock + 1

(* A new file is renamed over the path, or created where there was none.   *)
EditPut ==
    /\ Edited("put")
    /\ \E i \in Inodes :
          Fresh(i) /\ disk' = [disk EXCEPT !["source"] = [ino |-> i, ver |-> clock]]
    /\ owed' = (owed \ {disk["source"].ver}) \cup {clock}
    /\ clock' = clock + 1
    /\ UNCHANGED orphans

EditDelete ==
    /\ Edited("delete")
    /\ Present("source")
    /\ disk' = [disk EXCEPT !["source"] = NoFile]
    /\ owed' = owed \ {disk["source"].ver}
    /\ UNCHANGED <<orphans, clock>>

Environment == EditInPlace \/ EditPut \/ EditDelete

(* What is in memory is gone; a leaf being removed keeps its private name. *)
Crash ==
    /\ pc # "idle"
    /\ used.crashes < MaxCrashes
    /\ used' = [used EXCEPT !.crashes = @ + 1]
    /\ orphans' = Abandoned
    /\ disk' = [disk EXCEPT !["removing"] = NoFile]
    /\ Goto("idle") /\ tx' = NoTx /\ rm' = NoRm /\ gate' = FALSE /\ tidy' = FALSE
    /\ answer' = "none"
    /\ UNCHANGED <<journal, op, want, rev, ghosts, clock>>

Next == Open \/ Save \/ Kernel \/ Environment \/ Crash

Spec == Init /\ [][Next]_vars

(* A running operation goes on, and the client asks for something again:   *)
(* every view of a document and every refresh of the tree is an operation. *)
FairSpec == Spec /\ WF_vars(Kernel) /\ WF_vars(Open)

-----------------------------------------------------------------------------
TypeOK ==
    /\ disk \in [Path -> File]
    /\ orphans \subseteq [of : Path, file : File]
    /\ journal \in Transaction
    /\ pc \in Steps
    /\ tx \in Transaction
    /\ rm \in Removal
    /\ gate \in BOOLEAN /\ tidy \in BOOLEAN
    /\ op \in {"open", "save"} /\ want \in Nat /\ rev \in Nat
    /\ answer \in {"ok", "error", "blocked", "none"}
    /\ owed \subseteq Nat /\ refused \subseteq Nat
    /\ clock \in Nat
    /\ used \in [saves : Nat, edits : Nat, crashes : Nat, faults : Nat]

AtRest == pc = "idle" /\ journal.phase = "none"

(* Between transactions the document's path holds a version that somebody  *)
(* is owed: a save that stopped anywhere, or a recovery that stopped       *)
(* anywhere, leaves the version it found or the one it installed, never a  *)
(* half-written payload or a superseded version; and the path is empty     *)
(* only where other programs delete files.                                 *)
OwedAtRest ==
    AtRest => IF Present("source") THEN disk["source"].ver \in owed
              ELSE "delete" \in Writers

(* A save answered with an error does not take effect: what it left at the *)
(* document's path while its record says it is undecided is taken away by  *)
(* the recovery, and no recovery installs it.                              *)
FailedSaveNeverLands ==
    journal.phase \notin Precommit => disk["source"].ver \notin refused

(* What the answers to saves promised holds of the document's path: both   *)
(* of the above.                                                           *)
AnswersHold == OwedAtRest /\ FailedSaveNeverLands

(* Once the commit is recorded no step goes back on it: the record moves   *)
(* to the end of the cleanup or disappears with it.                        *)
CommitIsFinal ==
    [][journal.phase \in Committed => journal'.phase \in Committed \cup {"none"}]_vars

(* No step of the kernel takes the last copy of an owed version off the    *)
(* disk, but for the rename of rollbackMarkdownSaveIsolation when another  *)
(* program has put a file at the path since it was tested to be free.      *)
OnlyRestoreDestroys ==
    [][\A v \in owed \cap owed' : OnDisk(v) =>
          \/ OnDisk(v)'
          \/ pc = "restore-rename" /\ disk["source"].ver = v]_vars

(* Whatever was interrupted, the gate opens again.                         *)
GateReopens == journal.phase # "none" ~> journal.phase = "none"
=============================================================================
