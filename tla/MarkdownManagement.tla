-------------------------- MODULE MarkdownManagement --------------------------
(***************************************************************************)
(* Editors of one Markdown document in several windows, and what keeps     *)
(* them in step (app/src/markdown/MarkdownEditor.ts, documentSource.ts,    *)
(* documentManagement.ts, managementCoordinator.ts in the renderers,       *)
(* app/electron/markdownManagementCoordinator.js in the main process).     *)
(*                                                                         *)
(* Whoever changes the document asks the coordinator to prepare: every     *)
(* window flushes its other editors of it and answers their revision.      *)
(* When all agree the coordinator grants a lease, the kernel is asked, and *)
(* the lease is spent on a commit that tells every window what changed.    *)
(* The kernel refuses a revision that is not the document's, and tells     *)
(* every window of each change over its own channel.                       *)
(*                                                                         *)
(* A text is the set of the edits in it, and stands for its own revision,  *)
(* which the kernel takes from the content.  A reload reads when it asks   *)
(* and applies the answer later.  A window answers the coordinator within  *)
(* five seconds unless it waits for a save, or a fault is spent on it.     *)
(* Left out: windows in a browser, which have no coordinator, a rename     *)
(* typed into the title of an editor, duplicates and new documents.        *)
(***************************************************************************)
EXTENDS Integers, Sequences, FiniteSets, FiniteSetsExt, SequencesExt

CONSTANTS Editors, Windows, Edits,
          WindowOf,    \* the window of each editor
          TreeWindow,  \* the window whose file tree renames or removes
          Jobs,        \* what the file tree does: "title", "move", "remove"
          Title,       \* the edit that renaming makes to the text
          MaxOps,      \* bound: operations under way at a time
          MaxStimuli   \* bound: edits, tabs closed, faults, and jobs of the file
                       \* tree (one at most)

ASSUME WindowAssumption ==
    /\ WindowOf \in [Editors -> Windows]
    /\ TreeWindow \in Windows
ASSUME JobsAssumption == Jobs \subseteq {"title", "move", "remove"}
ASSUME BoundsAssumption == MaxOps \in Nat /\ MaxStimuli \in Nat \ {0}
ASSUME OwnersAssumption == "tree" \notin Editors /\ Title \notin Edits
ASSUME FiniteAssumption == IsFiniteSet(Editors)

Ids == 1..MaxOps
Nothing == [doc |-> {}, got |-> {}, path |-> "old", on |-> FALSE]
Free == [owner |-> "tree", kind |-> "save", phase |-> "none", nested |-> FALSE,
         from |-> "old", rev |-> {}, body |-> {}, result |-> "none",
         withheld |-> FALSE]
Away == [at |-> "none", matched |-> {}, waiting |-> {}, refused |-> FALSE]
Quiet == [phase |-> "none", left |-> {}, ok |-> TRUE, revs |-> {}, matches |-> FALSE]

VARIABLES
    disk,     \* the document, as the kernel has it: a text (a set of edits, and the
              \* title) and a path, "old", "new" or "gone"
    typed,    \* edits made so far
    ed,       \* each editor
    reload,   \* its refreshAnnotations, when one is under way
    op,       \* the operations, as those who began them see them: the owner is an editor
              \* or "tree", the kind "save", "title", "rename", "restore", "move" or
              \* "remove", the phase "none", "prepare", "load", "get", "request",
              \* "answer", "commit" or "over", the result "none", "ok", "conflict", "error"
    pending,  \* the operations the coordinator waits for
    leases,   \* those it granted a lease
    guest,    \* what each window does for an operation
    events,   \* what the kernel told each window and it has not handled
    jobs,     \* what the file tree has left to do
    original, \* the text before renaming changed its title
    alive,    \* windows that have not crashed
    stimuli   \* how many more stimuli may come

coordinator == <<pending, leases>>
budget == <<typed, stimuli>>
tree == <<jobs, original>>
vars == <<disk, ed, reload, op, coordinator, guest, events, tree, alive, budget>>

\* The operation by which an editor saves, if any.
Saving(e) == \E i \in Ids : op[i].owner = e /\ op[i].phase # "none"
Open(e) == ed[e].open
At(w, path) == {e \in Editors : Open(e) /\ WindowOf[e] = w /\ ed[e].path = path}
PrepareActive(w) == \E i \in Ids : guest[i][w].at = "busy"
Told(i) == \E w \in Windows : \E n \in DOMAIN events[w] : events[w][n].op = i
FreeIds == {i \in Ids : /\ op[i].phase = "none" /\ i \notin leases
                        /\ guest[i] = [w \in Windows |-> Away]
                        /\ ~Told(i)}
\* A window runs what its promises owe before anything else.
Settled(w) ==
    /\ \A e \in Editors : WindowOf[e] = w /\ ed[e].flushing => Saving(e)
    /\ \A i \in Ids : guest[i][w].at = "busy" => guest[i][w].waiting # {}

Init ==
    /\ disk = [content |-> {}, path |-> "old"]
    /\ typed = {}
    /\ ed = [e \in Editors |->
               [view |-> {}, rev |-> {}, path |-> "old", dirty |-> FALSE,
                last |-> "saved", timer |-> FALSE, flushing |-> FALSE,
                dialog |-> FALSE, open |-> TRUE]]
    /\ reload = [e \in Editors |-> Nothing]
    /\ op = [i \in Ids |-> Free]
    /\ pending = [i \in Ids |-> Quiet]
    /\ leases = {}
    /\ guest = [i \in Ids |-> [w \in Windows |-> Away]]
    /\ events = [w \in Windows |-> <<>>]
    /\ jobs \in {{}} \cup {{job} : job \in Jobs}
    /\ original = {}
    /\ alive = Windows
    /\ stimuli = MaxStimuli - Cardinality(jobs)
Stimulus == stimuli > 0 /\ stimuli' = stimuli - 1
-----------------------------------------------------------------------------
(* Editing and flushing (MarkdownEditor).                                  *)

Type(e, x) ==
    /\ Open(e) /\ ~ed[e].dialog /\ Settled(WindowOf[e])
    /\ x \notin typed
    /\ Stimulus
    /\ typed' = typed \cup {x}
    /\ ed' = [ed EXCEPT ![e].view = @ \cup {x}, ![e].dirty = TRUE, ![e].timer = TRUE]
    /\ UNCHANGED <<disk, reload, op, coordinator, guest, events, tree, alive>>

\* flush: the timer is cleared, and whoever calls shares one promise.
Flushed(editor) ==
    [editor EXCEPT !.timer = FALSE, !.flushing = @ \/ editor.dirty]

TimerFires(e) ==
    /\ Open(e) /\ ed[e].timer /\ Settled(WindowOf[e])
    /\ ed' = [ed EXCEPT ![e] = Flushed(@)]
    /\ UNCHANGED <<disk, reload, op, coordinator, guest, events, tree, alive, budget>>

\* The windows a new operation asks; none when it is nested.
Asking(i, request) ==
    /\ op' = [op EXCEPT ![i] = request]
    /\ IF request.nested
       THEN UNCHANGED <<pending, guest>>
       ELSE /\ pending' = [pending EXCEPT ![i] = [Quiet EXCEPT !.phase = "prepare",
                             !.left = alive,
                             !.revs = IF request.owner = "tree" THEN {} ELSE {request.rev}]]
            /\ guest' = [guest EXCEPT ![i] = [w \in Windows |->
                             IF w \in alive THEN [Away EXCEPT !.at = "prepare"] ELSE Away]]

SaveOnce(e) ==
    /\ ed[e].flushing /\ ed[e].dirty /\ ~Saving(e)
    /\ FreeIds # {}
    /\ LET nested == PrepareActive(WindowOf[e])
       IN Asking(Min(FreeIds),
                 [Free EXCEPT !.owner = e, !.nested = nested, !.from = ed[e].path,
                              !.phase = IF nested THEN "request" ELSE "prepare",
                              !.rev = ed[e].rev, !.body = ed[e].view])
    /\ UNCHANGED <<disk, ed, reload, leases, events, tree, alive, budget>>

\* The flush of an editor ends: so many prepares wait for it no longer.
Released(e, ok) ==
    [i \in Ids |-> [w \in Windows |->
        IF e \in guest[i][w].waiting
        THEN [guest[i][w] EXCEPT !.waiting = @ \ {e}, !.refused = @ \/ ~ok]
        ELSE guest[i][w]]]

SaveSucceedsClean(i) ==
    LET e == op[i].owner
    IN /\ ed' = [ed EXCEPT ![e].rev = op[i].body, ![e].dirty = FALSE,
                           ![e].last = "saved", ![e].flushing = FALSE]
       /\ guest' = Released(e, TRUE)

SaveSucceedsUnnoted(i) ==
    LET e == op[i].owner
        dirty == ed[e].view # op[i].body
    IN /\ ed' = [ed EXCEPT ![e].rev = op[i].body, ![e].dirty = dirty,
                           ![e].flushing = dirty]
       /\ guest' = IF dirty THEN guest ELSE Released(e, TRUE)

SaveSucceeds(i) ==
    LET e == op[i].owner
        dirty == ed[e].view # op[i].body
    IN /\ ed' = [ed EXCEPT ![e].rev = op[i].body, ![e].dirty = dirty,
                           ![e].last = "saved", ![e].flushing = dirty]
       /\ guest' = IF dirty THEN guest ELSE Released(e, TRUE)

SaveFails(i) ==
    LET e == op[i].owner
    IN /\ ed' = [ed EXCEPT ![e].last = op[i].result, ![e].flushing = FALSE,
                           ![e].dialog = @ \/ (op[i].result = "conflict" /\ Open(e))]
       /\ guest' = Released(e, FALSE)

\* An operation that ended is kept while a window has still to hear of it.
Spent(i) ==
    IF Told(i) \/ \E w \in Windows : guest[i][w].at # "none"
    THEN [op[i] EXCEPT !.phase = "none", !.nested = FALSE, !.withheld = FALSE,
                       !.body = {}, !.result = IF Told(i) THEN @ ELSE "none",
                       !.rev = IF \E w \in Windows : guest[i][w].at = "commit" THEN @ ELSE {}]
    ELSE Free

SaveEnds(i) ==
    /\ op[i].phase = "over" /\ op[i].owner \in Editors
    /\ op' = [op EXCEPT ![i] = Spent(i)]
    /\ IF WindowOf[op[i].owner] \notin alive THEN UNCHANGED <<ed, guest>>
       ELSE IF op[i].result = "ok" THEN SaveSucceeds(i) ELSE SaveFails(i)
    /\ UNCHANGED <<disk, reload, coordinator, events, tree, alive, budget>>

\* The reader answers the conflict with "refresh", between two saves.
Refresh(e) ==
    /\ Open(e) /\ ed[e].dialog /\ ~Saving(e) /\ Settled(WindowOf[e])
    /\ disk.path = ed[e].path
    /\ ed' = [ed EXCEPT ![e].dirty = FALSE, ![e].dialog = FALSE,
                        ![e].view = disk.content, ![e].rev = disk.content]
    /\ UNCHANGED <<disk, reload, op, coordinator, guest, events, tree, alive, budget>>

Dismiss(e) ==
    /\ ed[e].dialog
    /\ ed' = [ed EXCEPT ![e].dialog = FALSE]
    /\ UNCHANGED <<disk, reload, op, coordinator, guest, events, tree, alive, budget>>

\* destroy: what is unsaved is flushed in the background.
Closed(editor) ==
    [editor EXCEPT !.open = FALSE, !.timer = FALSE, !.dialog = FALSE,
                   !.flushing = @ \/ editor.dirty]

CloseTab(e) ==
    /\ Open(e) /\ ~ed[e].dialog /\ Settled(WindowOf[e])
    /\ Stimulus
    /\ ed' = [ed EXCEPT ![e] = Closed(@)]
    /\ UNCHANGED <<disk, reload, op, coordinator, guest, events, tree, alive, typed>>
-----------------------------------------------------------------------------
(* refreshAnnotations: the document is read again.  The answer takes its   *)
(* time, and is dropped when the editor has moved on.                      *)

Reloaded(e, path) ==
    IF Saving(e) THEN reload[e]
    ELSE IF disk.path # path THEN Nothing
    ELSE [doc |-> ed[e].view, got |-> disk.content, path |-> path, on |-> TRUE]

ApplyReloadTextOnly(e) ==
    /\ reload[e].on /\ Settled(WindowOf[e])
    /\ reload' = [reload EXCEPT ![e] = Nothing]
    /\ ed' = IF ~Open(e) \/ Saving(e) \/ ed[e].dirty \/ ed[e].view # reload[e].doc THEN ed
             ELSE [ed EXCEPT ![e].view = reload[e].got, ![e].last = "saved"]
    /\ UNCHANGED <<disk, op, coordinator, guest, events, tree, alive, budget>>

ApplyReload(e) ==
    /\ reload[e].on /\ Settled(WindowOf[e])
    /\ reload' = [reload EXCEPT ![e] = Nothing]
    /\ LET got == reload[e].got
       IN ed' = IF ~Open(e) \/ Saving(e) \/ ed[e].path # reload[e].path THEN ed
                ELSE IF ed[e].dirty
                THEN IF got = ed[e].rev THEN ed ELSE [ed EXCEPT ![e].last = "conflict"]
                ELSE IF ed[e].view # reload[e].doc THEN ed
                ELSE [ed EXCEPT ![e].view = got, ![e].rev = got, ![e].last = "saved"]
    /\ UNCHANGED <<disk, op, coordinator, guest, events, tree, alive, budget>>
-----------------------------------------------------------------------------
(* A window asked to prepare (handleMarkdownManagementPrepare), and the    *)
(* coordinator that collects the answers.                                  *)

\* What the coordinator does once all have answered.
Finish(i, p) ==
    IF p.left # {}
    THEN pending' = [pending EXCEPT ![i] = p] /\ UNCHANGED <<leases, op>>
    ELSE /\ pending' = [pending EXCEPT ![i] = Quiet]
         /\ IF ~p.ok \/ (p.matches /\ Cardinality(p.revs) # 1)
            THEN /\ op' = [op EXCEPT ![i].phase = "over", ![i].result = "error"]
                 /\ UNCHANGED leases
            ELSE /\ leases' = leases \cup {i}
                 /\ op' = [op EXCEPT ![i].phase = IF op[i].owner # "tree" THEN "request"
                                                  ELSE IF ~p.matches THEN "load"
                                                  ELSE IF op[i].kind = "title" THEN "get"
                                                  ELSE "request",
                                     ![i].rev = IF p.matches
                                                THEN CHOOSE r \in p.revs : TRUE
                                                ELSE op[i].rev]

\* ack: of an operation given up already nothing is heard.
Answered(i, w, ok, revs, matches) ==
    IF pending[i].phase = "prepare" /\ w \in pending[i].left
    THEN Finish(i, [pending[i] EXCEPT !.left = @ \ {w}, !.ok = @ /\ ok,
                                      !.revs = @ \cup revs, !.matches = @ \/ matches])
    ELSE UNCHANGED <<pending, leases, op>>

PrepareAt(i, w) ==
    /\ guest[i][w].at = "prepare" /\ Settled(w)
    /\ LET matched == At(w, op[i].from) \ {op[i].owner}
           slow == {e \in matched : ed[e].dirty \/ ed[e].flushing}
       IN IF matched = {}
          THEN /\ guest' = [guest EXCEPT ![i][w] = Away]
               /\ Answered(i, w, TRUE, {}, FALSE)
               /\ UNCHANGED ed
          ELSE /\ ed' = [e \in Editors |-> IF e \in matched THEN Flushed(ed[e]) ELSE ed[e]]
               /\ guest' = [guest EXCEPT ![i][w] =
                     [at |-> "busy", matched |-> matched, waiting |-> slow,
                      refused |-> \E e \in matched \ slow : ed[e].last # "saved"]]
               /\ UNCHANGED <<pending, leases, op>>
    /\ UNCHANGED <<disk, reload, events, tree, alive, budget>>

PreparedAt(i, w) ==
    /\ guest[i][w].at = "busy" /\ guest[i][w].waiting = {}
    /\ LET revs == {ed[e].rev : e \in guest[i][w].matched}
       IN Answered(i, w, ~guest[i][w].refused /\ Cardinality(revs) = 1, revs, TRUE)
    /\ guest' = [guest EXCEPT ![i][w] = Away]
    /\ UNCHANGED <<disk, ed, reload, events, tree, alive, budget>>

GivenUp(i) ==
    /\ pending' = [pending EXCEPT ![i] = Quiet]
    /\ op' = [op EXCEPT ![i].phase = "over", ![i].result = "error"]

TimeoutNever(i) == pending[i].phase = "timeout" /\ UNCHANGED vars

\* Five seconds.  A window answers at once unless an editor has to be saved;
\* one that does not is a fault.
Timeout(i) ==
    /\ pending[i].phase # "none"
    /\ IF \A w \in pending[i].left : guest[i][w].at = "busy"
       THEN UNCHANGED stimuli
       ELSE Stimulus
    /\ GivenUp(i)
    /\ UNCHANGED <<disk, ed, reload, leases, guest, events, tree, alive, typed>>

\* changeWorkspace: a window that comes or goes ends all that is under way.
Upset ==
    /\ leases' = {}
    /\ pending' = [i \in Ids |-> Quiet]
    /\ op' = [i \in Ids |-> IF pending[i].phase = "none" THEN op[i]
                            ELSE [op[i] EXCEPT !.phase = "over", !.result = "error"]]

\* Another window, without an editor of the document, registers or leaves.
OtherWindow ==
    /\ Stimulus
    /\ Upset
    /\ UNCHANGED <<disk, ed, reload, guest, events, tree, alive, typed>>

Crash(w) ==
    /\ Stimulus /\ w \in alive
    /\ alive' = alive \ {w}
    /\ Upset
    /\ ed' = [e \in Editors |-> IF WindowOf[e] # w THEN ed[e]
                ELSE [ed[e] EXCEPT !.open = FALSE, !.timer = FALSE, !.dialog = FALSE,
                                   !.flushing = FALSE]]
    /\ reload' = [e \in Editors |-> IF WindowOf[e] = w THEN Nothing ELSE reload[e]]
    /\ guest' = [i \in Ids |-> [guest[i] EXCEPT ![w] = Away]]
    /\ events' = [events EXCEPT ![w] = <<>>]
    /\ jobs' = IF w = TreeWindow THEN {} ELSE jobs
    /\ UNCHANGED <<disk, original, typed>>
-----------------------------------------------------------------------------
(* The kernel, and the answer.                                             *)

\* A window that has still to hear of a save hears of the next one with it.
Heard(queue, event) ==
    IF queue # <<>> /\ Last(queue) = event THEN queue ELSE Append(queue, event)

Tell(kind, i) ==
    events' = [w \in Windows |-> IF w \notin alive THEN <<>>
                 ELSE Heard(events[w], [kind |-> kind, from |-> op[i].from,
                                        op |-> IF kind = "save" THEN 0 ELSE i])]

Saves == {"save", "title", "restore"}

Perform(i) ==
    IF op[i].kind \in Saves
    THEN /\ disk' = [disk EXCEPT !.content = op[i].body]
         /\ Tell("save", i)
    ELSE IF op[i].kind = "remove"
    THEN disk' = [disk EXCEPT !.path = "gone"] /\ Tell("remove", i)
    ELSE disk' = [disk EXCEPT !.path = "new"] /\ Tell("rename", i)

Verdict(i) ==
    IF disk.path # op[i].from THEN "error"
    ELSE IF disk.content # op[i].rev THEN "conflict"
    ELSE "ok"

Request(i) ==
    /\ op[i].phase = "request"
    /\ op' = [op EXCEPT ![i].phase = "answer", ![i].result = Verdict(i)]
    /\ IF Verdict(i) = "ok" THEN Perform(i) ELSE UNCHANGED <<disk, events>>
    /\ UNCHANGED <<ed, reload, coordinator, guest, tree, alive, budget>>

\* The answer, or the request itself, is lost.
RequestLost(i) ==
    /\ op[i].phase = "request"
    /\ Stimulus
    /\ op' = [op EXCEPT ![i].phase = "answer", ![i].result = "error"]
    /\ \/ UNCHANGED <<disk, events>>
       \/ Verdict(i) = "ok" /\ Perform(i)
    /\ UNCHANGED <<ed, reload, coordinator, guest, tree, alive, typed>>

Owner(i) == IF op[i].owner = "tree" THEN TreeWindow ELSE WindowOf[op[i].owner]

\* executeMarkdownManagementMutation, from the answer on: abort or commit.
Answer(i) ==
    /\ op[i].phase = "answer"
    /\ leases' = leases \ {i}
    /\ IF op[i].result = "ok" /\ i \in leases /\ Owner(i) \in alive
       THEN /\ op' = [op EXCEPT ![i].phase = "commit"]
            /\ pending' = [pending EXCEPT ![i] = [Quiet EXCEPT !.phase = "commit", !.left = alive]]
            /\ guest' = [guest EXCEPT ![i] = [w \in Windows |->
                            IF w \in alive THEN [Away EXCEPT !.at = "commit"] ELSE Away]]
       ELSE /\ op' = [op EXCEPT ![i].phase = "over",
                         ![i].result = IF @ = "ok" /\ ~op[i].nested THEN "error" ELSE @]
            /\ UNCHANGED <<pending, guest>>
    /\ UNCHANGED <<disk, ed, reload, events, tree, alive, budget>>

Renamed(editor) ==
    [editor EXCEPT !.path = "new", !.view = @ \cup {Title}, !.dirty = FALSE,
                   !.timer = FALSE, !.last = "saved"]

\* handleMarkdownManagementCommit.  An operation given up is not unsaid.
CommitAt(i, w) ==
    /\ guest[i][w].at = "commit" /\ Settled(w)
    /\ guest' = [guest EXCEPT ![i][w] = Away]
    /\ LET matched == At(w, op[i].from)
       IN /\ ed' = [e \in Editors |->
               IF e \notin matched THEN ed[e]
               ELSE CASE op[i].kind = "rename" -> [Renamed(ed[e]) EXCEPT !.rev = op[i].rev]
                      [] op[i].kind = "move"   -> [ed[e] EXCEPT !.path = "new", !.rev = op[i].rev]
                      [] op[i].kind = "remove" -> Closed(ed[e])
                      [] OTHER -> ed[e]]
          /\ reload' = [e \in Editors |->
               IF e \in matched /\ op[i].kind \in Saves /\ ~ed[e].dirty
               THEN Reloaded(e, op[i].from) ELSE reload[e]]
    /\ IF pending[i].phase = "commit"
       THEN IF pending[i].left = {w}
            THEN /\ pending' = [pending EXCEPT ![i] = Quiet]
                 /\ op' = [op EXCEPT ![i].phase = "over"]
            ELSE /\ pending' = [pending EXCEPT ![i].left = @ \ {w}]
                 /\ UNCHANGED op
       ELSE UNCHANGED <<pending, op>>
    /\ UNCHANGED <<disk, leases, events, tree, alive, budget>>
-----------------------------------------------------------------------------
(* The file tree: move, remove, and a rename that saves the new title      *)
(* first and puts the old text back when the renaming fails.               *)

TreeBusy == \E i \in Ids : op[i].owner = "tree" /\ op[i].phase # "none"
NextJobs == IF jobs \cap {"rename", "restore"} = {} THEN jobs
            ELSE jobs \cap {"rename", "restore"}

TreeStarts ==
    /\ ~TreeBusy /\ TreeWindow \in alive
    /\ FreeIds # {}
    /\ \E job \in NextJobs :
         /\ job = "remove" => disk.path # "gone"
         /\ jobs' = jobs \ {job}
         /\ Asking(Min(FreeIds),
                   [Free EXCEPT !.owner = "tree", !.kind = job, !.phase = "prepare",
                                !.from = IF job = "remove" THEN disk.path ELSE "old",
                                !.body = IF job = "restore" THEN original ELSE {}])
    /\ UNCHANGED <<disk, ed, reload, leases, events, original, alive, budget>>

\* loadRevision, when no editor answered with one; its failure keeps the lease.
LoadRevision(i) ==
    /\ op[i].phase = "load"
    /\ op' = [op EXCEPT ![i] =
                 IF disk.path = op[i].from
                 THEN [@ EXCEPT !.rev = disk.content,
                                !.phase = IF op[i].kind = "title" THEN "get" ELSE "request"]
                 ELSE [@ EXCEPT !.phase = "over", !.result = "error"]]
    /\ UNCHANGED <<disk, ed, reload, coordinator, guest, events, tree, alive, budget>>

\* renameMarkdownDocumentTitle reads the text it will patch.
GetContent(i) ==
    /\ op[i].phase = "get"
    /\ IF Verdict(i) = "ok"
       THEN /\ original' = disk.content
            /\ op' = [op EXCEPT ![i].phase = "request",
                                ![i].body = disk.content \cup {Title}]
            /\ UNCHANGED leases
       ELSE /\ op' = [op EXCEPT ![i].phase = "over", ![i].result = "error"]
            /\ leases' = leases \ {i}
            /\ UNCHANGED original
    /\ UNCHANGED <<disk, ed, reload, pending, guest, events, jobs, alive, budget>>

\* What an event of the kernel's does to the editors of a window.
Followed(w, event) ==
    [e \in Editors |->
        IF e \notin At(w, event.from) THEN ed[e]
        ELSE IF event.kind = "remove" THEN Closed(ed[e])
        ELSE [ed[e] EXCEPT !.path = "new"]]

TreeEndsUnheard(i) ==
    /\ op[i].phase = "over" /\ op[i].owner = "tree"
    /\ op' = [op EXCEPT ![i] = Spent(i)]
    /\ jobs' = IF op[i].kind = "title" /\ op[i].result = "ok" THEN jobs \cup {"rename"}
               ELSE IF op[i].kind = "rename" /\ op[i].result # "ok" THEN jobs \cup {"restore"}
               ELSE jobs
    /\ UNCHANGED <<disk, ed, reload, coordinator, guest, events, original, alive, budget>>

TreeEnds(i) ==
    /\ op[i].phase = "over" /\ op[i].owner = "tree"
    /\ op' = [op EXCEPT ![i] = Spent(i)]
    /\ jobs' = IF op[i].kind = "title" /\ op[i].result = "ok" THEN jobs \cup {"rename"}
               ELSE IF op[i].kind = "rename" /\ op[i].result # "ok" THEN jobs \cup {"restore"}
               ELSE jobs
    /\ ed' = IF op[i].withheld /\ op[i].result # "ok" /\ TreeWindow \in alive
             THEN Followed(TreeWindow, [kind |-> IF op[i].kind = "remove" THEN "remove" ELSE "rename",
                                        from |-> op[i].from])
             ELSE ed
    /\ UNCHANGED <<disk, reload, coordinator, guest, events, original, alive, budget>>

\* The websocket: the window that began an operation waits for its end.
EventAt(w) ==
    /\ events[w] # <<>> /\ Settled(w)
    /\ events' = [events EXCEPT ![w] = Tail(@)]
    /\ LET event == Head(events[w])
           i == event.op
           own == w = TreeWindow /\ event.kind # "save"
       IN IF event.kind = "save"
          THEN /\ reload' = [e \in Editors |-> IF e \in At(w, event.from)
                                               THEN Reloaded(e, event.from) ELSE reload[e]]
               /\ UNCHANGED <<ed, op>>
          ELSE /\ UNCHANGED reload
               /\ IF own /\ op[i].phase # "none"
                  THEN op' = [op EXCEPT ![i].withheld = TRUE] /\ UNCHANGED ed
                  ELSE /\ ed' = IF own /\ op[i].result = "ok" THEN ed ELSE Followed(w, event)
                       /\ UNCHANGED op
    /\ UNCHANGED <<disk, coordinator, guest, tree, alive, budget>>

External ==
    \/ \E e \in Editors, x \in Edits : Type(e, x)
    \/ \E e \in Editors : Refresh(e) \/ CloseTab(e)
    \/ \E i \in Ids : RequestLost(i)
    \/ \E w \in Windows : Crash(w)
    \/ OtherWindow \/ TreeStarts

Progress ==
    \/ \E e \in Editors : TimerFires(e) \/ SaveOnce(e) \/ Dismiss(e) \/ ApplyReload(e)
    \/ \E i \in Ids : \/ SaveEnds(i) \/ Timeout(i) \/ Request(i) \/ Answer(i)
                      \/ LoadRevision(i) \/ GetContent(i) \/ TreeEnds(i)
    \/ \E i \in Ids, w \in Windows : PrepareAt(i, w) \/ PreparedAt(i, w) \/ CommitAt(i, w)
    \/ \E w \in Windows : EventAt(w)

Next == External \/ Progress

Spec == Init /\ [][Next]_vars
-----------------------------------------------------------------------------
\* The window of an open editor whose path is not the document's has still to
\* hear of the move: from the kernel, from a commit, or from the end of the
\* operation it began itself and whose event it withholds
\* (documentManagement.ts, applyMarkdownManagementEvent and its pending set).
PathFollowed ==
    \A e \in Editors :
        LET w == WindowOf[e]
        IN Open(e) /\ ed[e].path # disk.path =>
             \/ \E n \in DOMAIN events[w] : /\ events[w][n].kind # "save"
                                            /\ events[w][n].from = ed[e].path
             \/ w = TreeWindow /\ \E i \in Ids : op[i].withheld
             \/ \E i \in Ids : guest[i][w].at = "commit"

\* The steps by which the code gives something up, each named where a property
\* below admits it.
RefreshChosen == \E e \in Editors : Refresh(e)
Crashed == \E w \in Windows : Crash(w)
\* A rename is committed to an editor changed since it was prepared: "dirty" is
\* reset, so nothing saves the change (MarkdownEditor.ts:521).
RenamedWhileTyping ==
    \E i \in Ids, w \in Windows :
        /\ op[i].kind = "rename"
        /\ \E e \in At(w, op[i].from) : ed[e].dirty
        /\ CommitAt(i, w)
\* A commit gives its revision to an editor that holds another one by now.
CommittedOverStale ==
    \E i \in Ids, w \in Windows :
        /\ op[i].kind \in {"rename", "move"}
        /\ \E e \in At(w, op[i].from) : ed[e].rev # op[i].rev
        /\ CommitAt(i, w)
\* A save of a text that its own revision is not of: the kernel finds the
\* revision current and stores the text over edits the editor does not show.
OverwroteUnseen ==
    \E i \in Ids : /\ op[i].owner \in Editors
                   /\ ~(op[i].rev \subseteq op[i].body)
                   /\ Request(i) \/ RequestLost(i)
\* A failed rename puts the text it began from back, with whatever was saved since.
RolledBack == \E i \in Ids : op[i].kind = "restore" /\ (Request(i) \/ RequestLost(i))
\* A save fails for an editor that will not try again: closed, or declared saved.
SaveInVain ==
    \E i \in Ids :
        /\ op[i].result # "ok" /\ op[i].owner \in Editors
        /\ ~Open(op[i].owner) \/ ~ed[op[i].owner].dirty
        /\ SaveEnds(i)

SavedBy(e, x) ==
    \E i \in Ids : /\ op[i].owner = e /\ x \in op[i].body
                   /\ op[i].phase \in {"answer", "commit", "over"}
                   /\ op[i].result = "ok"
Kept(x) ==
    \/ \E e \in Editors : /\ x \in ed[e].view /\ ed[e].dirty
                          /\ Open(e) \/ ed[e].flushing
                          /\ ~SavedBy(e, x)
    \/ \E i \in Ids : /\ op[i].owner \in Editors /\ x \in op[i].body
                      /\ op[i].phase # "none" /\ op[i].result # "ok"
Lost == {x \in typed : disk.path # "gone" /\ x \notin disk.content /\ ~Kept(x)}

\* An edit is in the stored text, in an editor that knows it is unsaved, or in
\* a save on its way, unless the reader discards it, its window crashes, or one
\* of the steps above drops it (MarkdownEditor.saveOnce, refreshAnnotations,
\* applyWorkspaceDocumentRename; documentManagement.ts:757-804).
EditsStay ==
    [][\/ Lost' \subseteq Lost
       \/ RefreshChosen \/ Crashed \/ RenamedWhileTyping \/ RolledBack \/ SaveInVain
       \/ OverwroteUnseen]_vars

CleanYetRefusing(e) == Open(e) /\ ~ed[e].dirty /\ ~Saving(e) /\ ed[e].last # "saved"

Mismatch(e) == Open(e) /\ ~ed[e].dirty /\ ~Saving(e) /\ ed[e].view # ed[e].rev

\* A clean editor shows the text its revision is of, so that its next save is
\* refused when the stored text is another: except once a commit gave a
\* revision to an editor that was changed, or reloaded, after it was prepared,
\* or once a save failed in vain (MarkdownEditor.ts:466-491, 501-530).
ContentMatchesRevision ==
    [][\A e \in Editors : Mismatch(e)' /\ ~Mismatch(e) =>
          RenamedWhileTyping \/ CommittedOverStale \/ SaveInVain]_vars

RefusesAnew(e) == CleanYetRefusing(e)' /\ ~CleanYetRefusing(e)
Leaked == {i \in leases : op[i].phase \notin {"load", "get", "request", "answer"}}

\* What would refuse later changes is left behind for one cause only.  An editor with
\* nothing to save refuses to be prepared (its flush answers lastSaveStatus) only since
\* a refresh, which does not reset the status of the conflict it ends, or since a save
\* that failed after a rename had declared the editor saved (MarkdownEditor.ts:682-689,
\* 753-756); and a lease outlives its operation only when loadRevision found nothing
\* (documentManagement.ts:124-168: neither commit nor abort is called then).
NothingLeftBehind ==
    [][/\ \A e \in Editors : RefusesAnew(e) => Refresh(e) \/ SaveInVain
       /\ \A i \in Leaked' \ Leaked : LoadRevision(i)]_vars

AtRest ==
    /\ \A i \in Ids : op[i].phase = "none" /\ \A w \in Windows : guest[i][w].at = "none"
    /\ \A e \in Editors : ~ed[e].timer /\ ~ed[e].flushing /\ ~reload[e].on
    /\ \A w \in alive : events[w] = <<>>

\* Short of rest some step is always left: editors that save at once and wait for each
\* other's preparation go on when the coordinator's five seconds are over, and no save,
\* preparation, commit or reload waits for an answer that nobody will give.
NothingHangs == AtRest \/ ENABLED Progress
=============================================================================
