------------------------------ MODULE AssetScan ------------------------------
(***************************************************************************)
(* The removal of an unused asset (kernel/api/asset.go, model/assets.go,   *)
(* model/markdown_assets.go), and what makes it see the edits that are not *)
(* on disk yet: a barrier asks every window registered as a main session   *)
(* to save its Markdown editors and waits, five seconds at most, for their *)
(* answers (kernel/api/asset_save_barrier.go, app/src/markdown/            *)
(* saveBarrier.ts).  Then the Markdown files are read without any lock,    *)
(* and what nobody refers to is removed.                                   *)
(*                                                                         *)
(* The registration of sessions is util/websocket.go with layout/Model.ts, *)
(* the editors' saving MarkdownEditor.ts, and the moments a file is away   *)
(* during a save commitMarkdownSave.  A document is abstracted to whether  *)
(* it refers to the asset, the saving of a window's changes to the steps a *)
(* scan can tell apart; a save is refused by a mishap alone.  The block    *)
(* documents and databases, which are read as well, are left out.          *)
(***************************************************************************)
EXTENDS Integers, Sequences, FiniteSets, SequencesExt

CONSTANTS Docs, Windows, WindowOf, \* Markdown documents, each edited in one window
          Order,       \* the order in which a directory is walked
          Requests,    \* requests to remove what is unused
          MaxEdits, MaxMishaps  \* bounds

ASSUME WindowsAssumption == WindowOf \in [Docs -> Windows]
ASSUME OrderAssumption == Order \in Seq(Docs) /\ IsInjective(Order) /\ Range(Order) = Docs
ASSUME FreeAssumption == "free" \notin Docs
ASSUME BoundsAssumption == {MaxEdits, MaxMishaps} \subseteq Nat

VARIABLES
    asset,        \* the asset is there
    disk,         \* per document, whether its file refers to the asset
    lock,         \* markdownFileOperationLock: the document being saved, or "free"
    away,         \* the document whose file is not at its path
    ed,           \* per document, its editor
    live,         \* per window, its connection, 0 when it has none
    made,         \* per window, how many connections it has made
    entry,        \* per window, the connection registered for it, 0 for none
    inMap,        \* per window, whether sessions has a map for its application
    adding,       \* per window, AddPushChan between its look for the map and its store
    dropping,     \* per window, RemovePushChan between its count and its drop of the map
    stale,        \* per window, connections that closed and the kernel has not noticed
    inbox,        \* per window, barriers announced to it
    handler,      \* per window and request, handleMarkdownSaveBarrier
    request,      \* per request, where it is
    pending,      \* per request, its barrier
    scan,         \* per request, what it has left to read and whether it found the asset
    edits, mishaps, \* bounds
    excused,      \* history: per request, documents it may overlook
    stranded,     \* history: editors with an edit no save will take
    displaced     \* history: windows whose registration was lost though they are there

editors == <<disk, lock, away, ed>>
sessions == <<live, made, entry, inMap, adding, dropping, stale>>
barrier == <<inbox, handler, request, pending>>
bounds == <<edits, mishaps>>
history == <<excused, stranded, displaced>>
vars == <<asset, editors, sessions, barrier, scan, bounds, history>>

Idle == [step |-> "none"]
Unset == [expected |-> {}, acked |-> {}, closed |-> FALSE, err |-> FALSE]
Unread == [left |-> {}, found |-> FALSE]
Saving == {"sent", "isolated", "installed"}
DocsOf(w) == {d \in Docs : WindowOf[d] = w}

Init ==
    /\ asset = TRUE
    /\ disk = [d \in Docs |-> FALSE]
    /\ lock = "free" /\ away = {}
    /\ ed = [d \in Docs |-> [open |-> TRUE, text |-> disk[d], dirty |-> FALSE, timer |-> FALSE,
                             flush |-> "none", sent |-> FALSE, typed |-> FALSE, ok |-> TRUE,
                             status |-> "saved"]]
    /\ live = [w \in Windows |-> 1] /\ made = live /\ entry = live
    /\ inMap = [w \in Windows |-> TRUE]
    /\ adding = [w \in Windows |-> Idle] /\ dropping = [w \in Windows |-> FALSE]
    /\ stale = [w \in Windows |-> {}]
    /\ inbox = [w \in Windows |-> {}]
    /\ handler = [w \in Windows |-> [r \in Requests |-> Idle]]
    /\ request = [r \in Requests |-> "none"]
    /\ pending = [r \in Requests |-> Unset]
    /\ scan = [r \in Requests |-> Unread]
    /\ edits = 0 /\ mishaps = 0
    /\ excused = [r \in Requests |-> {}] /\ stranded = {} /\ displaced = {}

Fault == mishaps < MaxMishaps /\ mishaps' = mishaps + 1
-----------------------------------------------------------------------------
(* The editors (MarkdownEditor.ts).                                        *)

\* A request whose barrier will still have d saved as it is now.
Covers(r, d) ==
    LET h == handler[WindowOf[d]][r]
    IN /\ request[r] \in {"listed", "waiting"}
       /\ \/ h.step = "none"
          \/ h.step = "flushing" /\ d \in h.waits /\ ed[d].flush \in Saving

\* The requests that are under way and will not learn of a new reference in d.
Misses(d) == {r \in Requests : request[r] \notin {"none", "over"} /\ ~Covers(r, d)}

Excuse(d, rs) == [r \in Requests |-> IF r \in rs THEN excused[r] \cup {d} ELSE excused[r]]

\* The user types: the edit is scheduled to be saved.
Type(d, ref) ==
    /\ edits < MaxEdits /\ ed[d].open
    /\ edits' = edits + 1
    /\ ed' = [ed EXCEPT ![d].text = ref, ![d].dirty = TRUE, ![d].typed = TRUE, ![d].timer = TRUE]
    /\ excused' = IF ref /\ ~ed[d].text THEN Excuse(d, Misses(d)) ELSE excused
    /\ stranded' = stranded \ {d}
    /\ UNCHANGED <<asset, disk, lock, away, sessions, barrier, scan, mishaps, displaced>>

\* flush: the timer is cleared, and who calls during a flush shares its promise, even when
\* its last save is over and it only waits for the table appearance.
Flushed(editor) ==
    LET calm == [editor EXCEPT !.timer = FALSE]
    IN IF editor.flush # "none" THEN calm
       ELSE IF editor.dirty
            THEN [calm EXCEPT !.flush = "sent", !.sent = editor.text, !.typed = FALSE]
            ELSE [calm EXCEPT !.flush = "table", !.ok = editor.status = "saved"]

Strands(d) == ed[d].flush = "table" /\ ed[d].dirty
StrandedBy(ds) == stranded' = stranded \cup {d \in ds : Strands(d)}

TimerFires(d) ==
    /\ ed[d].timer /\ ed[d].open
    /\ ed' = [ed EXCEPT ![d] = Flushed(ed[d])]
    /\ StrandedBy({d})
    /\ UNCHANGED <<asset, disk, lock, away, sessions, barrier, scan, bounds, excused, displaced>>

\* destroy: an unsaved edit is flushed before the tab goes.
CloseTab(d) ==
    /\ ed[d].open /\ edits < MaxEdits
    /\ edits' = edits + 1
    /\ LET left == IF ed[d].dirty THEN Flushed(ed[d]) ELSE [ed[d] EXCEPT !.timer = FALSE]
       IN ed' = [ed EXCEPT ![d] = [left EXCEPT !.open = FALSE]]
    /\ StrandedBy({d})
    /\ UNCHANGED <<asset, disk, lock, away, sessions, barrier, scan, mishaps, excused, displaced>>

\* The kernel takes the file from its path, and puts the new one there.
Isolate(d) ==
    /\ ed[d].flush = "sent" /\ lock = "free"
    /\ lock' = d /\ away' = {d}
    /\ ed' = [ed EXCEPT ![d].flush = "isolated"]
    /\ UNCHANGED <<asset, disk, sessions, barrier, scan, bounds, history>>

Install(d) ==
    /\ ed[d].flush = "isolated"
    /\ disk' = [disk EXCEPT ![d] = ed[d].sent]
    /\ lock' = "free" /\ away' = {}
    /\ ed' = [ed EXCEPT ![d].flush = "installed"]
    /\ UNCHANGED <<asset, sessions, barrier, scan, bounds, history>>

\* Mutant: if (this.dirty) for while (this.dirty).
SavedOnce(d) ==
    /\ ed[d].flush = "installed"
    /\ ed' = [ed EXCEPT ![d].flush = "table", ![d].dirty = ed[d].typed, ![d].ok = TRUE,
                        ![d].status = "saved"]
    /\ UNCHANGED <<asset, disk, lock, away, sessions, barrier, scan, bounds, history>>

\* saveOnce's answer, and flushDirty goes on while there is something to save.
Saved(d) ==
    /\ ed[d].flush = "installed"
    /\ ed' = [ed EXCEPT ![d] =
                IF @.typed THEN [@ EXCEPT !.flush = "sent", !.sent = ed[d].text, !.typed = FALSE,
                                          !.status = "saved"]
                ELSE [@ EXCEPT !.flush = "table", !.dirty = FALSE, !.ok = TRUE, !.status = "saved"]]
    /\ UNCHANGED <<asset, disk, lock, away, sessions, barrier, scan, bounds, history>>

SaveRefused(d) ==
    /\ ed[d].flush = "sent" /\ Fault
    /\ ed' = [ed EXCEPT ![d].flush = "table", ![d].ok = FALSE, ![d].status = "error"]
    /\ UNCHANGED <<asset, disk, lock, away, sessions, barrier, scan, edits, history>>

\* A handler h that waits for the flush of d learns its result.
Told(d, h) ==
    IF h.step = "flushing" /\ d \in h.waits
    THEN [h EXCEPT !.waits = @ \ {d}, !.ok = @ /\ ed[d].ok] ELSE h

\* Mutant: the flush of an editor that was closed settles for nobody.
FlushEndsUnsettled(d) ==
    /\ ed[d].flush = "table"
    /\ ed' = [ed EXCEPT ![d].flush = "none",
                        ![d].text = IF ed[d].open THEN @ ELSE disk[d]]
    /\ handler' = [handler EXCEPT ![WindowOf[d]] = [r \in Requests |->
                     IF ed[d].open THEN Told(d, @[r]) ELSE @[r]]]
    /\ UNCHANGED <<asset, disk, lock, away, sessions, inbox, request, pending, scan, bounds, history>>

\* The table appearance is stored too: the promise is fulfilled, for all who wait for it.
FlushEnds(d) ==
    /\ ed[d].flush = "table"
    /\ ed' = [ed EXCEPT ![d].flush = "none",
                        ![d].text = IF ed[d].open THEN @ ELSE disk[d]]
    /\ handler' = [handler EXCEPT ![WindowOf[d]] = [r \in Requests |-> Told(d, @[r])]]
    /\ UNCHANGED <<asset, disk, lock, away, sessions, inbox, request, pending, scan, bounds, history>>

-----------------------------------------------------------------------------
(* The windows' connections (layout/Model.ts, util/websocket.go).          *)

Break(w) ==
    /\ live[w] # 0 /\ adding[w] = Idle /\ Fault
    /\ live' = [live EXCEPT ![w] = 0]
    /\ stale' = [stale EXCEPT ![w] = @ \cup {live[w]}]
    /\ inbox' = [inbox EXCEPT ![w] = {}]
    /\ UNCHANGED <<asset, editors, made, entry, inMap, adding, dropping, handler, request, pending,
                   scan, edits, history>>

\* The window connects again with the same identifiers: AddPushChan looks for the map.
Connect(w) ==
    /\ live[w] = 0
    /\ made' = [made EXCEPT ![w] = @ + 1]
    /\ live' = [live EXCEPT ![w] = made[w] + 1]
    /\ adding' = [adding EXCEPT ![w] = [step |-> "store", found |-> inMap[w]]]
    /\ UNCHANGED <<asset, editors, entry, inMap, dropping, stale, barrier, scan, bounds, history>>

\* Mutant: LoadOrStore for Store.
RegisterFirst(w) ==
    /\ adding[w] # Idle
    /\ adding' = [adding EXCEPT ![w] = Idle]
    /\ IF adding[w].found /\ ~inMap[w]
       THEN displaced' = displaced \cup {w} /\ UNCHANGED <<entry, inMap>>
       ELSE /\ entry' = [entry EXCEPT ![w] = IF @ = 0 THEN live[w] ELSE @]
            /\ inMap' = [inMap EXCEPT ![w] = TRUE]
            /\ displaced' = displaced \ {w}
    /\ UNCHANGED <<asset, editors, live, made, dropping, stale, barrier, scan, bounds, excused, stranded>>

\* AddPushChan stores the session: in the map it found, even if that was dropped since.
Register(w) ==
    /\ adding[w] # Idle
    /\ adding' = [adding EXCEPT ![w] = Idle]
    /\ IF adding[w].found /\ ~inMap[w]
       THEN displaced' = displaced \cup {w} /\ UNCHANGED <<entry, inMap>>
       ELSE /\ entry' = [entry EXCEPT ![w] = live[w]]
            /\ inMap' = [inMap EXCEPT ![w] = TRUE]
            /\ displaced' = displaced \ {w}
    /\ UNCHANGED <<asset, editors, live, made, dropping, stale, barrier, scan, bounds, excused, stranded>>

\* RemovePushChan: what is registered under the identifiers goes, whichever session it is,
\* and then the map if it was seen empty.
Unregister(w, n) ==
    /\ n \in stale[w] /\ ~dropping[w]
    /\ stale' = [stale EXCEPT ![w] = @ \ {n}]
    /\ entry' = [entry EXCEPT ![w] = 0]
    /\ dropping' = [dropping EXCEPT ![w] = inMap[w]]
    /\ displaced' = IF entry[w] \notin {0, n} THEN displaced \cup {w} ELSE displaced
    /\ UNCHANGED <<asset, editors, live, made, inMap, adding, barrier, scan, bounds, excused, stranded>>

DropMap(w) ==
    /\ dropping[w]
    /\ dropping' = [dropping EXCEPT ![w] = FALSE]
    /\ inMap' = [inMap EXCEPT ![w] = FALSE]
    /\ entry' = [entry EXCEPT ![w] = 0]
    /\ displaced' = IF entry[w] # 0 THEN displaced \cup {w} ELSE displaced
    /\ UNCHANGED <<asset, editors, live, made, adding, stale, barrier, scan, bounds, excused, stranded>>
-----------------------------------------------------------------------------
(* The barrier (api/asset_save_barrier.go, saveBarrier.ts).                *)

Registered == {w \in Windows : entry[w] # 0}

\* begin: the sessions of the moment are expected.
Begin(r) ==
    /\ request[r] = "none"
    /\ request' = [request EXCEPT ![r] = "listed"]
    /\ pending' = [pending EXCEPT ![r] = [Unset EXCEPT !.expected = Registered,
                                                       !.closed = Registered = {}]]
    /\ excused' = [excused EXCEPT ![r] = {d \in Docs : WindowOf[d] \notin Registered}]
    /\ UNCHANGED <<asset, editors, sessions, inbox, handler, scan, bounds, stranded, displaced>>

\* BroadcastByType: to those registered now, if they are there to hear it.
Broadcast(r) ==
    /\ request[r] = "listed"
    /\ request' = [request EXCEPT ![r] = "waiting"]
    /\ inbox' = [w \in Windows |-> IF w \in Registered /\ entry[w] = live[w]
                                   THEN inbox[w] \cup {r} ELSE inbox[w]]
    /\ UNCHANGED <<asset, editors, sessions, handler, pending, scan, bounds, history>>

\* Mutant: pendingMarkdownFlushes is not waited for.
TrackedOpen(w) == {d \in DocsOf(w) : ed[d].open}

\* handleMarkdownSaveBarrier, flushMarkdownEditors: the open editors are flushed, and the
\* flushes of closed ones that are not over are waited for.
Tracked(w) == {d \in DocsOf(w) : ed[d].open \/ ed[d].flush # "none"}

FlushAll(w, r) ==
    LET open == {d \in DocsOf(w) : ed[d].open}
    IN /\ r \in inbox[w]
       /\ inbox' = [inbox EXCEPT ![w] = @ \ {r}]
       /\ handler' = [handler EXCEPT ![w][r] = [step |-> "flushing", waits |-> Tracked(w), ok |-> TRUE]]
       /\ ed' = [d \in Docs |-> IF d \in open THEN Flushed(ed[d]) ELSE ed[d]]
       /\ excused' = [excused EXCEPT ![r] = @ \cup {d \in DocsOf(w) : Strands(d)}]
       /\ StrandedBy(open)
       /\ UNCHANGED <<asset, disk, lock, away, sessions, request, pending, scan, bounds, displaced>>

\* Mutant: the session is not looked for among the expected.
AckedByAny(barr, w, ok) ==
    LET acked == barr.acked \cup {w}
    IN IF barr.closed THEN barr
       ELSE IF ok THEN [barr EXCEPT !.acked = acked, !.closed = acked = barr.expected]
       ELSE [barr EXCEPT !.closed = TRUE, !.err = TRUE]

\* markdownSaveBarrierManager.ack.
Acked(barr, w, ok) ==
    LET acked == barr.acked \cup {w}
    IN IF w \notin barr.expected \/ barr.closed THEN barr
       ELSE IF ok THEN [barr EXCEPT !.acked = acked, !.closed = acked = barr.expected]
       ELSE [barr EXCEPT !.closed = TRUE, !.err = TRUE]

\* The answer of a window whose flushes are over.
Ack(w, r) ==
    /\ handler[w][r].step = "flushing" /\ handler[w][r].waits = {}
    /\ handler' = [handler EXCEPT ![w][r] = [step |-> "over"]]
    /\ pending' = IF request[r] = "waiting"
                  THEN [pending EXCEPT ![r] = Acked(pending[r], w, handler[w][r].ok)] ELSE pending
    /\ UNCHANGED <<asset, editors, sessions, inbox, request, scan, bounds, history>>

\* The answer does not reach the kernel.
Unheard(w, r) ==
    /\ handler[w][r].step = "flushing" /\ handler[w][r].waits = {} /\ Fault
    /\ handler' = [handler EXCEPT ![w][r] = [step |-> "over"]]
    /\ UNCHANGED <<asset, editors, sessions, inbox, request, pending, scan, edits, history>>

\* The timer: the barrier fails, unless it is over.
Timeout(r) ==
    /\ request[r] = "waiting" /\ ~pending[r].closed
    /\ pending' = [pending EXCEPT ![r].closed = TRUE, ![r].err = TRUE]
    /\ UNCHANGED <<asset, editors, sessions, inbox, handler, request, scan, bounds, history>>

WaitEnds(r) ==
    /\ request[r] = "waiting" /\ pending[r].closed
    /\ request' = [request EXCEPT ![r] = IF pending[r].err THEN "over" ELSE "list"]
    /\ UNCHANGED <<asset, editors, sessions, inbox, handler, pending, scan, bounds, history>>
-----------------------------------------------------------------------------
(* The scan (model/assets.go, model/markdown_assets.go).                   *)

\* The directory is listed, without the lock: a file that a save has put away is not in it.
ListFiles(r) ==
    /\ request[r] = "list"
    /\ request' = [request EXCEPT ![r] = "walk"]
    /\ scan' = [scan EXCEPT ![r].left = Docs \ away]
    /\ excused' = [excused EXCEPT ![r] = @ \cup away]
    /\ UNCHANGED <<asset, editors, sessions, inbox, handler, pending, bounds, stranded, displaced>>

Place(d) == CHOOSE i \in DOMAIN Order : Order[i] = d

\* The next of the listed files is read.  When it cannot be, the scan ends with an error.
ReadFile(r) ==
    /\ request[r] = "walk"
    /\ \E d \in scan[r].left :
         /\ \A other \in scan[r].left : Place(d) <= Place(other)
         /\ \/ /\ d \in away
               /\ request' = [request EXCEPT ![r] = "over"] /\ scan' = [scan EXCEPT ![r] = Unread]
            \/ /\ d \notin away
               /\ scan' = [scan EXCEPT ![r].left = @ \ {d}, ![r].found = @ \/ disk[d]]
               /\ request' = request
    /\ UNCHANGED <<asset, editors, sessions, inbox, handler, pending, bounds, history>>

\* What was not found is copied to the history, and then removed without another look.
ScanEnds(r) ==
    /\ request[r] = "walk" /\ scan[r].left = {}
    /\ request' = [request EXCEPT ![r] = IF scan[r].found THEN "over" ELSE "remove"]
    /\ scan' = [scan EXCEPT ![r] = Unread]
    /\ UNCHANGED <<asset, editors, sessions, inbox, handler, pending, bounds, history>>

RemoveUnused(r) ==
    /\ request[r] = "remove"
    /\ asset' = FALSE
    /\ request' = [request EXCEPT ![r] = "over"]
    /\ UNCHANGED <<editors, sessions, inbox, handler, pending, scan, bounds, history>>
-----------------------------------------------------------------------------
SystemStep ==
    \/ \E d \in Docs : TimerFires(d) \/ Isolate(d) \/ Install(d) \/ Saved(d) \/ FlushEnds(d)
    \/ \E w \in Windows : Connect(w) \/ Register(w) \/ DropMap(w)
    \/ \E w \in Windows : \E n \in stale[w] : Unregister(w, n)
    \/ \E w \in Windows, r \in Requests : FlushAll(w, r) \/ Ack(w, r)
    \/ \E r \in Requests : Broadcast(r) \/ Timeout(r) \/ WaitEnds(r)
                           \/ ListFiles(r) \/ ReadFile(r) \/ ScanEnds(r) \/ RemoveUnused(r)

Mishap ==
    \/ \E d \in Docs : SaveRefused(d)
    \/ \E w \in Windows, r \in Requests : Unheard(w, r)
    \/ \E w \in Windows : Break(w)

Next == \/ \E d \in Docs, ref \in BOOLEAN : Type(d, ref)
        \/ \E d \in Docs : CloseTab(d)
        \/ \E r \in Requests : Begin(r)
        \/ SystemStep \/ Mishap

Spec == Init /\ [][Next]_vars
-----------------------------------------------------------------------------
AtRest ==
    /\ \A d \in Docs : ed[d].flush = "none" /\ ~ed[d].timer
    /\ \A w \in Windows : live[w] # 0 /\ adding[w] = Idle /\ stale[w] = {} /\ ~dropping[w]
                          /\ inbox[w] = {}
    /\ \A w \in Windows, r \in Requests : handler[w][r].step \in {"none", "over"}
    /\ \A r \in Requests : request[r] \in {"none", "over"}

TypeOK ==
    /\ asset \in BOOLEAN /\ disk \in [Docs -> BOOLEAN]
    /\ lock \in Docs \cup {"free"} /\ away = {lock} \ {"free"}
    /\ ed \in [Docs -> [open : BOOLEAN, text : BOOLEAN, dirty : BOOLEAN, timer : BOOLEAN,
                        flush : Saving \cup {"none", "table"}, sent : BOOLEAN,
                        typed : BOOLEAN, ok : BOOLEAN, status : {"saved", "error"}]]
    /\ \A d \in Docs : /\ ed[d].flush = "isolated" <=> lock = d
                       /\ ed[d].typed => ed[d].dirty
                       /\ ~ed[d].dirty /\ ed[d].flush = "none" => ed[d].text = disk[d]
    /\ \A w \in Windows : entry[w] \in 0..made[w] /\ (entry[w] # 0 => inMap[w])
    /\ \A r \in Requests : /\ pending[r].acked \subseteq pending[r].expected
                           /\ request[r] \notin {"none", "listed", "waiting", "over"} => ~pending[r].err

\* What is removed is referred to by no document, neither in its file nor in its editor,
\* but those the request may overlook: whose window was not registered when the barrier
\* listed the sessions, that got the reference after their editor was saved for the
\* barrier, whose flush was past its last save when the barrier came, or whose file was
\* away when the directory was listed.
RemovesUnused ==
    [][asset /\ ~asset' =>
         \E r \in Requests : request[r] = "remove" /\ request'[r] = "over" /\
             \A d \in Docs : ed[d].text \/ disk[d] => d \in excused[r]]_vars

\* An unsaved edit is being saved or scheduled to be, or its save has failed; except for
\* one typed when the last save of a flush was over, if a flush is asked for before that
\* flush ends.
UnsavedIsScheduled ==
    \A d \in Docs : ed[d].dirty /\ ed[d].flush \notin Saving =>
        \/ ed[d].open /\ ed[d].timer
        \/ ed[d].status = "error" \/ d \in stranded

\* A window that is connected is registered, so that it is asked, once AddPushChan is over;
\* unless the late end of an earlier connection took its place in the registry, or the map
\* it was put in had been dropped.
ConnectedIsRegistered ==
    \A w \in Windows :
        live[w] # 0 /\ adding[w] = Idle => entry[w] = live[w] \/ w \in displaced

\* Short of rest something is always under way: no request waits for a window that has
\* gone, has not heard, or cannot save.
NothingHangs == AtRest \/ ENABLED SystemStep
=============================================================================
