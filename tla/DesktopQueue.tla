----------------------------- MODULE DesktopQueue -----------------------------
(***************************************************************************)
(* The desktop's scan queue (metaxtract-gui: scan.rs, application.rs,      *)
(* desktop.rs, recovery.rs, sessions.rs, ingestion.rs): sources wait for   *)
(* one scan at a time, in the case that is open, while background tasks    *)
(* open, copy and refresh cases, the window is closed and the process      *)
(* dies.  The queue of every case is kept in a settings file.              *)
(*                                                                         *)
(* Desktop::update is one frame, here a round of stages: close, callback,  *)
(* result, queue, input, persist.  Background threads step between frames: *)
(* a frame looks at each of them in one place only, so that a step in its  *)
(* middle is a step before or after it.                                    *)
(***************************************************************************)
EXTENDS ListParts, FiniteSets, SequencesExt

CONSTANTS
  Sources,       \* what can be scanned
  Saved,         \* case files
  Sessions,      \* temporary sessions, each with a case in a directory of its own
  Handles,       \* scan threads
  None,
  QueueLimit,    \* sources in the queue (64 in the code)
  PendingLimit,  \* saved queues (32 in the code)
  MaxClicks      \* bound on clicks

ASSUME DesktopAssumption ==
  /\ Saved \cap Sessions = {} /\ None \notin Saved \cup Sessions \cup Sources \cup Handles
  /\ QueueLimit \in Nat \ {0} /\ PendingLimit \in Nat

VARIABLES
  up, stage,     \* whether the program runs, and what the frame does next
  case,          \* Desktop.case
  readonly,      \* Desktop.readonly
  session,       \* Desktop.temporary_session
  scan,          \* ScanUi
  ui,            \* SessionUi
  task,          \* the background operation; Desktop.busy while there is one
  thread,        \* the scan threads of the process
  window,        \* the window's close requests
  pending,       \* Settings.pending, the queues that wait for their cases
  file,          \* the same, in desktop.json
  dirs,          \* the directories of the sessions
  owed,          \* history: what the user was shown as waiting: <<case, source>>
  fresh,         \* history: what this frame added to it
  released,      \* history: sessions that the user has saved or discarded
  clicks         \* bound: how often the user did something

process == <<case, readonly, session, scan, ui, task, thread, window, pending>>
disk    == <<file, dirs>>
history == <<owed, fresh, released>>
desktopVars == <<up, stage, process, disk, history, clicks>>

Cases == Saved \cup Sessions
busy == task # None
running == scan.active # None

Idle == [state |-> "none", case |-> None, source |-> None, control |-> "run", left |-> FALSE]
NewScanUi == [queue |-> << >>, held |-> FALSE, closing |-> FALSE, active |-> None,
              source |-> None, refresh |-> FALSE]
NewSessionUi == [confirm |-> FALSE, discard |-> FALSE, wanted |-> None]
NewWindow == [asked |-> FALSE, cancelled |-> FALSE, next |-> FALSE, leaving |-> FALSE]

(* Desktop::new *)
Started(settings) ==
  /\ up' = TRUE /\ stage' = "close"
  /\ case' = None /\ readonly' = FALSE /\ session' = None
  /\ scan' = NewScanUi /\ ui' = NewSessionUi /\ task' = None
  /\ thread' = [h \in Handles |-> Idle]
  /\ window' = NewWindow
  /\ pending' = settings

Init ==
  /\ up = FALSE /\ stage = "close"
  /\ case = None /\ readonly = FALSE /\ session = None
  /\ scan = NewScanUi /\ ui = NewSessionUi /\ task = None
  /\ thread = [h \in Handles |-> Idle]
  /\ window = NewWindow
  /\ pending = << >> /\ file = << >> /\ dirs = {}
  /\ owed = {} /\ fresh = {} /\ released = {} /\ clicks = 0

Start == ~up /\ Started(file) /\ UNCHANGED <<disk, history, clicks>>

-----------------------------------------------------------------------------
(* Queues and what is saved of them. *)
Waiting(list) ==
  UNION {{<<list[i].case, list[i].sources[n]>> : n \in DOMAIN list[i].sources} : i \in DOMAIN list}
Without(list, c) == Kept(list, {i \in DOMAIN list : list[i].case # c})
EntryOf(list, c) == Kept(list, {i \in DOMAIN list : list[i].case = c})

(* prepare: inputs that are there, each once. *)
Prepare(sources, there) == Kept(sources, {i \in DOMAIN sources : sources[i] \in there})

(* ScanUi::move_selected: each selected source passes the one before it, in *)
(* turn, unless that one is selected too; down is up seen from the end.     *)
Swap(queue, i, j) == [queue EXCEPT ![i] = queue[j], ![j] = queue[i]]
MoveUp(queue, selected) ==
  LET f[i \in 0..Len(queue)] ==
        IF i = 0 THEN queue
        ELSE LET q == f[i - 1]
             IN IF i > 1 /\ q[i] \in selected /\ q[i - 1] \notin selected THEN Swap(q, i, i - 1) ELSE q
  IN f[Len(queue)]
MoveDown(queue, selected) == Reverse(MoveUp(Reverse(queue), selected))

(* Settings::save replaces the file, or fails and leaves it. *)
Save(settings) == file' \in {settings, file}

(* Desktop::task: one at a time; what is asked for meanwhile is refused. *)
RunTask(work, c, sources) ==
  task' = IF busy THEN task
          ELSE [work |-> work, case |-> c, sources |-> sources, write |-> work # "open" \/ ~readonly,
                done |-> "no"]

canSwitchCase == ~busy /\ ~running /\ scan.queue = << >>

(* start_scan, of the scan interface as it is left by its caller. *)
StartScan(ui_, source) ==
  IF busy \/ running \/ readonly \/ case = None
    THEN scan' = ui_ /\ UNCHANGED thread
    ELSE \E h \in Handles :
           /\ thread[h].state = "none"
           /\ thread' = [thread EXCEPT ![h] = [Idle EXCEPT !.state = "running", !.case = case,
                                                           !.source = source]]
           /\ scan' = [ui_ EXCEPT !.active = h, !.source = source]

Controlled(request) ==
  IF running THEN [thread EXCEPT ![scan.active].control = request] ELSE thread

-----------------------------------------------------------------------------
(* Frame: the window's close request. *)

(* Broken variant of Close: a session is not asked about once it is idle. *)
CloseUnasked ==
  /\ up /\ stage = "close" /\ stage' = "callback"
  /\ window' = [window EXCEPT !.cancelled = window.asked /\ (busy \/ running)]
  /\ scan' = IF window.asked /\ (busy \/ running)
               THEN [scan EXCEPT !.held = TRUE, !.closing = TRUE] ELSE scan
  /\ thread' = IF window.asked THEN Controlled("pause") ELSE thread
  /\ UNCHANGED <<up, case, readonly, session, ui, task, pending, disk, history, clicks>>

(* A session that is not saved is asked about when nothing runs; a scan is  *)
(* paused and waited for.                                                   *)
Close ==
  /\ up /\ stage = "close" /\ stage' = "callback"
  /\ LET working == busy \/ running
         asks == window.asked /\ session # None /\ ~ui.discard /\ ~working
     IN /\ window' = [window EXCEPT !.cancelled = window.asked /\ (asks \/ working),
                                    !.leaving = @ /\ ~asks]
        /\ ui' = [ui EXCEPT !.confirm = @ \/ asks]
        /\ scan' = IF window.asked /\ working
                     THEN [scan EXCEPT !.held = TRUE, !.closing = TRUE] ELSE scan
        /\ thread' = IF window.asked /\ working THEN Controlled("pause") ELSE thread
  /\ UNCHANGED <<up, case, readonly, session, task, pending, disk, history, clicks>>

-----------------------------------------------------------------------------
(* Frame: the callback of a background operation that has ended. *)

(* Broken variant of Loaded: closing starts again with the new case. *)
LoadedOpen(c, write, temporary, more, there) ==
  /\ case' = c
  /\ readonly' = ~write
  /\ session' = temporary
  /\ LET settings == IF session # None /\ session # temporary THEN Without(pending, session)
                     ELSE pending
         saved == EntryOf(settings, c)
         restored == IF saved = << >> THEN << >> ELSE Prepare(saved[1].sources, there)
     IN /\ pending' = settings
        /\ scan' = [NewScanUi EXCEPT !.queue = restored \o more, !.held = saved # << >>]
        /\ owed' = {o \in owed : o[1] = c /\ saved # << >> => o[2] \in there}
        /\ fresh' = {<<c, more[i]>> : i \in DOMAIN more}
  /\ IF temporary = None THEN Save(pending) ELSE UNCHANGED file
  /\ dirs' = dirs \ ({session} \ {temporary})

(* loaded: everything of the old case is forgotten but the wish to close;   *)
(* a session that is left goes with its directory and its saved queue; the  *)
(* saved queue of the case comes back, held, but for sources that are gone. *)
Loaded(c, write, temporary, more, there) ==
  /\ case' = c
  /\ readonly' = ~write
  /\ session' = temporary
  /\ LET settings == IF session # None /\ temporary = None THEN Without(pending, session)
                     ELSE pending
         saved == EntryOf(settings, c)
         restored == IF saved = << >> THEN << >> ELSE Prepare(saved[1].sources, there)
     IN /\ pending' = settings
        /\ scan' = [NewScanUi EXCEPT !.queue = restored \o more, !.held = saved # << >>,
                                     !.closing = scan.closing]
        /\ owed' = {o \in owed : o[1] = c /\ saved # << >> => o[2] \in there}
        /\ fresh' = {<<c, more[i]>> : i \in DOMAIN more}
  /\ IF temporary = None THEN Save(pending) ELSE UNCHANGED file
  /\ dirs' = dirs \ ({session} \ {temporary})

Callback ==
  /\ up /\ stage = "callback" /\ stage' = "result"
  /\ IF ~busy \/ task.done = "no"
       THEN UNCHANGED <<case, readonly, session, scan, task, pending, disk, history>>
       ELSE /\ task' = None
            /\ IF task.done = "failed" \/ task.work = "refresh"
                 THEN UNCHANGED <<case, readonly, session, scan, pending, disk, history>>
                 ELSE \E there \in SUBSET Sources :
                        LET temporary == IF task.case \in Sessions THEN task.case ELSE None
                            more == IF task.work = "quick" THEN task.sources ELSE << >>
                        IN /\ Loaded(task.case, task.write, temporary, more, there)
                           /\ released' = IF task.work = "copy" /\ session # None
                                            THEN released \cup {session} ELSE released
  /\ UNCHANGED <<up, ui, thread, window, clicks>>

-----------------------------------------------------------------------------
(* Frame: poll_scan. *)

(* The result of the active scan: unless it has completed, the queue waits. *)
Result ==
  /\ up /\ stage = "result" /\ stage' = "queue"
  /\ IF running /\ thread[scan.active].state \notin {"none", "running"}
       THEN LET ended == thread[scan.active]
            IN /\ scan' = [scan EXCEPT !.active = None, !.source = None, !.refresh = TRUE,
                                       !.held = @ \/ ended.state # "completed"]
               /\ thread' = [thread EXCEPT ![scan.active] = Idle]
       ELSE UNCHANGED <<scan, thread>>
  /\ UNCHANGED <<up, case, readonly, session, ui, task, window, pending, disk, history, clicks>>

(* A refresh of the case if a scan has ended; else the next source, unless  *)
(* the queue is held or the window closes; which it does when all is idle.  *)
(* The source is taken from the queue even if start_scan then returns.      *)
Queue ==
  /\ up /\ stage = "queue" /\ stage' = "input"
  /\ IF scan.refresh /\ ~busy /\ case # None
       THEN /\ scan' = [scan EXCEPT !.refresh = FALSE]
            /\ RunTask("refresh", case, << >>)
            /\ UNCHANGED <<thread, window, owed, fresh>>
     ELSE IF ~busy /\ ~running /\ ~scan.held /\ ~scan.closing /\ scan.queue # << >>
       THEN /\ StartScan([scan EXCEPT !.queue = Tail(@)], Head(scan.queue))
            /\ owed' = owed \ {<<case, Head(scan.queue)>>}
            /\ fresh' = fresh \ {<<case, Head(scan.queue)>>}
            /\ UNCHANGED <<task, window>>
     ELSE /\ window' = [window EXCEPT !.next = scan.closing /\ ~running /\ ~busy]
          /\ UNCHANGED <<scan, task, thread, owed, fresh>>
  /\ UNCHANGED <<up, case, readonly, session, ui, pending, disk, released, clicks>>

-----------------------------------------------------------------------------
(* Frame: what the user does in it, one thing or nothing; nothing in the    *)
(* one that closes the window.                                              *)
NoInput ==
  /\ up /\ stage = "input" /\ stage' = "persist"
  /\ UNCHANGED <<up, process, disk, history, clicks>>

Input ==
  /\ up /\ stage = "input" /\ stage' = "persist"
  /\ (window.asked => window.cancelled) /\ clicks < MaxClicks
  /\ clicks' = clicks + 1
  /\ UNCHANGED <<up, dirs>>

(* quick_analysis_many: a new session, its queue to be the source. *)
QuickAnalysis(s) ==
  IF canSwitchCase
    THEN \E t \in Sessions :
           /\ t \notin dirs /\ \A o \in Waiting(pending) \cup Waiting(file) : o[1] # t
           /\ RunTask("quick", t, <<s>>)
    ELSE UNCHANGED task

(* ingest_paths, of a source chosen, dropped or analysed again: if no case  *)
(* is open, into a session; else into the queue, unless it is there already *)
(* or is being scanned.                                                     *)
Ingest ==
  /\ Input
  /\ \E s \in Sources :
       /\ ~busy /\ ~readonly /\ s \notin ToSet(scan.queue) \cup {scan.source}
       /\ IF case = None
            THEN QuickAnalysis(s) /\ UNCHANGED <<scan, fresh>>
            ELSE LET room == Len(scan.queue) < QueueLimit
                 IN /\ scan' = [scan EXCEPT !.queue = IF room THEN Append(@, s) ELSE @,
                                            !.held = FALSE]
                    /\ fresh' = IF room THEN {<<case, s>>} ELSE {}
                    /\ UNCHANGED task
  /\ UNCHANGED <<case, readonly, session, ui, thread, window, pending, owed, released, file>>

Pause ==
  /\ Input /\ running
  /\ scan' = [scan EXCEPT !.held = TRUE]
  /\ \E request \in {"pause", "cancel"} :
       thread' = IF thread[scan.active].control = "cancel" THEN thread ELSE Controlled(request)
  /\ UNCHANGED <<case, readonly, session, ui, task, window, pending, history, file>>

HoldOrContinue ==
  /\ Input
  /\ scan' = [scan EXCEPT !.held = ~@]
  /\ UNCHANGED <<case, readonly, session, ui, task, thread, window, pending, history, file>>

RemoveSelected ==
  /\ Input
  /\ \E selected \in SUBSET ToSet(scan.queue) \ {{}} :
       /\ scan' = [scan EXCEPT !.queue = Kept(@, {i \in DOMAIN @ : @[i] \notin selected})]
       /\ owed' = owed \ {<<case, s>> : s \in selected}
       /\ fresh' = fresh \ {<<case, s>> : s \in selected}
  /\ UNCHANGED <<case, readonly, session, ui, task, thread, window, pending, released, file>>

Move ==
  /\ Input
  /\ \E selected \in SUBSET ToSet(scan.queue) \ {{}} :
       scan' \in {[scan EXCEPT !.queue = MoveUp(@, selected)],
                  [scan EXCEPT !.queue = MoveDown(@, selected)]}
  /\ UNCHANGED <<case, readonly, session, ui, task, thread, window, pending, history, file>>

(* Of a scan that the case has from before: it may be of any source. *)
Resume ==
  /\ Input /\ ~running /\ ~busy /\ ~readonly
  /\ \E s \in Sources : StartScan([scan EXCEPT !.held = FALSE], s)
  /\ UNCHANGED <<case, readonly, session, ui, task, window, pending, history, file>>

(* The checkbox on the welcome page. *)
SetReadonly ==
  /\ Input /\ case = None
  /\ readonly' = ~readonly
  /\ UNCHANGED <<case, session, scan, ui, task, thread, window, pending, history, file>>

Asking(what) == ui' = [ui EXCEPT !.wanted = what]

(* A file to be created is not there yet. *)
Unused(c) == c # case /\ \A o \in Waiting(pending) \cup Waiting(file) : o[1] # c

(* Once chosen, past the question whether to discard the session.  A case   *)
(* is opened also while a scan runs, which the user leaves to itself.       *)
Chosen(what) ==
  IF what.purpose = "quick" THEN QuickAnalysis(what.arg) /\ UNCHANGED thread
  ELSE /\ RunTask(what.purpose, what.arg, << >>)
       /\ thread' = IF running /\ ~busy THEN [thread EXCEPT ![scan.active].left = TRUE] ELSE thread

(* Bound: one scan can be left for another only while a handle is free. *)
Spare == running => \E h \in Handles : thread[h].state = "none"

(* The user has agreed to the end of the session that is open.  What he     *)
(* agreed to and did not use holds for a later session too (discard_once).  *)
LetGo ==
  /\ owed' = {o \in owed : o[1] # session}
  /\ fresh' = {o \in fresh : o[1] # session}
  /\ released' = released \cup ({session} \ {None})

(* chosen and chosen_many: another case, or a new session; asks about the   *)
(* session that is open unless its end was agreed to.                       *)
Choose ==
  /\ Input /\ Spare
  /\ \E what \in [purpose : {"open"}, arg : Saved] \cup [purpose : {"quick"}, arg : Sources]
                  \cup [purpose : {"new"}, arg : {c \in Saved : Unused(c)}] :
       IF session # None /\ ~ui.discard
         THEN Asking(what) /\ UNCHANGED <<task, thread, history>>
         ELSE ui' = [ui EXCEPT !.discard = FALSE] /\ Chosen(what) /\ LetGo
  /\ UNCHANGED <<case, readonly, session, scan, window, pending, file>>

(* chosen, to save a copy of the case; the modal closes when asked from it. *)
SaveCopy ==
  /\ Input /\ case # None
  /\ \E c \in Saved :
       /\ Unused(c)
       /\ IF canSwitchCase THEN RunTask("copy", c, << >>) ELSE UNCHANGED task
  /\ ui' \in {NewSessionUi, [ui EXCEPT !.discard = FALSE]}
  /\ UNCHANGED <<case, readonly, session, scan, thread, window, pending, history, file>>

asked == ui.confirm \/ ui.wanted # None

KeepWorking ==
  /\ Input /\ asked
  /\ ui' = NewSessionUi
  /\ scan' = [scan EXCEPT !.closing = FALSE]
  /\ window' = [window EXCEPT !.leaving = FALSE]
  /\ UNCHANGED <<case, readonly, session, task, thread, pending, history, file>>

(* Discard and continue: with what was chosen, or with closing the window. *)
Discard ==
  /\ Input /\ asked /\ Spare
  /\ IF ui.wanted # None
       THEN /\ Chosen(ui.wanted)
            /\ ui' = NewSessionUi /\ UNCHANGED window
       ELSE /\ ui' = [ui EXCEPT !.confirm = FALSE, !.discard = TRUE]
            /\ window' = [window EXCEPT !.next = TRUE]
            /\ UNCHANGED <<task, thread>>
  /\ LetGo
  /\ UNCHANGED <<case, readonly, session, scan, pending, file>>

(* The welcome page's recovery of saved queues. *)
Restore ==
  /\ Input /\ case = None
  /\ \E i \in DOMAIN pending : RunTask("restore", pending[i].case, << >>)
  /\ UNCHANGED <<case, readonly, session, scan, ui, thread, window, pending, history, file>>

Forget ==
  /\ Input /\ case = None
  /\ \E i \in DOMAIN pending :
       /\ pending' = RemoveAt(pending, i)
       /\ owed' = owed \ Waiting(<<pending[i]>>)
       /\ Save(pending')
  /\ UNCHANGED <<case, readonly, session, scan, ui, task, thread, fresh, released, window>>

-----------------------------------------------------------------------------
(* Frame: persist_pending_queue, save_display_preferences, and the end of   *)
(* the program if the window closes.                                        *)

(* The saved queues with that of the open case. *)
Pending ==
  IF case = None THEN pending
  ELSE LET others == Without(pending, case)
           all == IF scan.queue = << >> THEN others
                  ELSE Append(others, [case |-> case, sources |-> scan.queue])
       IN SubSeq(all, 1, IF Len(all) < PendingLimit THEN Len(all) ELSE PendingLimit)

(* Broken variant of Persist: while the queue is held it is not looked at. *)
PersistUnlessHeld ==
  /\ up /\ stage = "persist"
  /\ stage' = IF window.asked /\ ~window.cancelled THEN "quit" ELSE "close"
  /\ pending' = IF scan.held THEN pending ELSE Pending
  /\ Save(pending') /\ UNCHANGED scan
  /\ window' = [window EXCEPT !.asked = window.next, !.cancelled = FALSE, !.next = FALSE]
  /\ owed' = owed \cup {o \in fresh : ~(ui.discard /\ o[1] = session)}
  /\ fresh' = {}
  /\ UNCHANGED <<up, case, readonly, session, ui, task, thread, dirs, released, clicks>>

(* If the queue cannot be saved it is held, and a later autosave may do it. *)
Persist ==
  /\ up /\ stage = "persist"
  /\ stage' = IF window.asked /\ ~window.cancelled THEN "quit" ELSE "close"
  /\ pending' = Pending
  /\ Save(Pending)
  /\ \/ file' = Pending /\ UNCHANGED scan
     \/ scan' = [scan EXCEPT !.held = @ \/ Pending # pending]
  /\ window' = [window EXCEPT !.asked = window.next, !.cancelled = FALSE, !.next = FALSE]
  /\ owed' = owed \cup {o \in fresh : ~(ui.discard /\ o[1] = session)}
  /\ fresh' = {}
  /\ UNCHANGED <<up, case, readonly, session, ui, task, thread, dirs, released, clicks>>

(* The process ends, and its threads with it. *)
Gone ==
  /\ up' = FALSE /\ stage' = "close"
  /\ case' = None /\ readonly' = FALSE /\ session' = None
  /\ scan' = NewScanUi /\ ui' = NewSessionUi /\ task' = None
  /\ thread' = [h \in Handles |-> Idle]
  /\ window' = NewWindow /\ pending' = << >>

(* Desktop::drop.  What the file does not have is forgotten if this or the  *)
(* last save failed, of which the user was told.                            *)
Quit ==
  /\ up /\ stage = "quit"
  /\ Gone
  /\ IF session = None THEN UNCHANGED file ELSE Save(Without(pending, session))
  /\ dirs' = dirs \ {session}
  /\ owed' = IF file' = Without(pending, session) THEN owed ELSE owed \cap Waiting(file')
  /\ released' = IF ui.discard THEN released \cup ({session} \ {None}) ELSE released
  /\ UNCHANGED <<fresh, clicks>>

Crash ==
  /\ up
  /\ Gone
  /\ owed' = IF file = pending THEN owed ELSE owed \cap Waiting(file)
  /\ fresh' = {}
  /\ UNCHANGED <<disk, released, clicks>>

-----------------------------------------------------------------------------
(* Around the frames. *)

(* The user closes the window. *)
CloseWindow ==
  /\ up /\ stage = "close" /\ ~window.asked /\ clicks < MaxClicks
  /\ clicks' = clicks + 1
  /\ window' = [window EXCEPT !.asked = TRUE, !.leaving = TRUE]
  /\ UNCHANGED <<up, stage, case, readonly, session, scan, ui, task, thread, pending, disk, history>>

(* A background operation ends.  A recovery that fails after it has taken   *)
(* charge of its session takes the session with it (recovery.rs:48).        *)
TaskEnds ==
  /\ up /\ stage = "close" /\ busy /\ task.done = "no"
  /\ \/ /\ task.work = "restore" /\ task.case \in Sessions => task.case \in dirs
        /\ task' = [task EXCEPT !.done = "yes"]
        /\ dirs' = IF task.work = "quick" THEN dirs \cup {task.case} ELSE dirs
        /\ released' = IF task.work = "quick" THEN released \ {task.case} ELSE released
        /\ UNCHANGED owed
     \/ /\ task' = [task EXCEPT !.done = "failed"]
        /\ \/ UNCHANGED <<dirs, owed, released>>
           \/ /\ task.work = "restore" /\ task.case \in dirs
              /\ dirs' = dirs \ {task.case}
              /\ released' = released \cup {task.case}
              /\ owed' = {o \in owed : o[1] # task.case}
  /\ UNCHANGED <<up, stage, case, readonly, session, scan, ui, thread, window, pending, file, fresh, clicks>>

(* The scan of a thread ends: in its own way, as it was told, or by an      *)
(* error.  Nobody asks for the result of one that is not the active one.    *)
ScanEnds(h) ==
  /\ up /\ stage = "close" /\ thread[h].state = "running"
  /\ \E state \in {"completed", "stopped", "failed"} :
       /\ state = "stopped" => thread[h].control # "run"
       /\ thread' = [thread EXCEPT ![h] = IF scan.active = h THEN [@ EXCEPT !.state = state] ELSE Idle]
  /\ UNCHANGED <<up, stage, case, readonly, session, scan, ui, task, window, pending, disk, history, clicks>>

FrameStep == Close \/ Callback \/ Result \/ Queue \/ Persist \/ Quit
Click ==
  \/ Ingest \/ Pause \/ HoldOrContinue \/ RemoveSelected \/ Move \/ Resume \/ SetReadonly
  \/ Choose \/ SaveCopy \/ KeepWorking \/ Discard \/ Restore \/ Forget
Next ==
  \/ Start \/ FrameStep \/ NoInput \/ Click \/ CloseWindow \/ Crash
  \/ TaskEnds \/ \E h \in Handles : ScanEnds(h)

Spec == Init /\ [][Next]_desktopVars

(* Frames go on: egui draws when it is asked to, and tasks, scans and       *)
(* poll_scan ask.  A background operation ends, and so does a scan (by      *)
(* strong fairness: they step at one stage of the frames only).             *)
FairSpec ==
  /\ Spec
  /\ WF_desktopVars(FrameStep \/ NoInput \/ Click) /\ SF_desktopVars(TaskEnds)
  /\ \A h \in Handles : SF_desktopVars(ScanEnds(h))

-----------------------------------------------------------------------------
QueueOK(queue) == queue \in Seq(Sources) /\ Len(queue) <= QueueLimit /\ IsInjective(queue)
PendingOK(list) ==
  /\ Len(list) <= PendingLimit
  /\ \A i \in DOMAIN list : list[i].case \in Cases /\ QueueOK(list[i].sources) /\ list[i].sources # << >>
  /\ \A i, j \in DOMAIN list : list[i].case = list[j].case => i = j

(* The queue is within its limit and has no source twice; each case has one *)
(* saved queue, which is not empty; a session is that of the open case.     *)
DesktopTypeOK ==
  /\ QueueOK(scan.queue)
  /\ PendingOK(pending) /\ PendingOK(file)
  /\ case \in Cases \cup {None} /\ (session # None => case = session)
  /\ case \in Sessions => session = case
  /\ scan.active \in Handles \cup {None}
  /\ stage \in {"close", "callback", "result", "queue", "input", "persist", "quit"}

(* A source that the user saw waiting waits, over frames, cases, crashes    *)
(* and restarts, in the queue, in the queue saved for its case, and in the  *)
(* file when the program does not run: until it is taken from the head of   *)
(* the queue to be scanned (scan.rs:278), he takes it out himself, it is    *)
(* gone when its case is opened, or he is told that a save or a recovery    *)
(* has failed (docs/application.md:102, recovery.rs:54).                    *)
WaitingKept ==
  /\ up /\ stage = "close" =>
       \A o \in owed :
         \/ o[1] = case /\ o[2] \in ToSet(scan.queue)
         \/ o[1] # case /\ o \in Waiting(pending)
  /\ ~up => owed \subseteq Waiting(file)

(* A scan runs under the eyes of the user, in the case that is open, where  *)
(* he can pause it, unless he opened another case while it ran: a scan that *)
(* a queue, a resume or a session starts is never a second one, and no      *)
(* operation begun before it replaces its case (scan.rs:123,                *)
(* application.rs:209).                                                     *)
ScanIsWatched ==
  \A h \in Handles :
    thread[h].state # "none" => thread[h].left \/ (scan.active = h /\ thread[h].case = case)

(* A session's directory goes only if the user has let go of the session,   *)
(* and the case that is open has its directory (application.rs:232).        *)
SessionKept ==
  [][/\ dirs \ dirs' \subseteq released'
     /\ session' # None => session' \in dirs']_desktopVars

(* The window does not close on a scan or on a background operation, which  *)
(* would be cut off without a checkpoint (docs/application.md:101).         *)
ClosesIdle ==
  [][Quit => ~busy /\ \A h \in Handles : thread[h].state = "none"]_desktopVars

(* When the user closes the window and is done clicking, the window closes  *)
(* or he is asked about his session (scan.rs:282).                          *)
CloseEnds == window.leaving ~> ~window.leaving

(* No source is lost while it waits, over crashes and restarts, and no      *)
(* thread scans out of the sight of a user who has not left it.             *)
DesktopSound == DesktopTypeOK /\ WaitingKept /\ ScanIsWatched
=============================================================================
