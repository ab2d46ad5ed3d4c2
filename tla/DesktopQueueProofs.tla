-------------------------- MODULE DesktopQueueProofs --------------------------
(***************************************************************************)
(* Proofs about DesktopQueue: a temporary session keeps its directory      *)
(* until the user lets go of it, a scan runs in the case that is open, and *)
(* what the user put into a queue waits in it, over crashes and failures,  *)
(* until it is taken from it to be scanned.                                *)
(*                                                                         *)
(* The first two are about a background operation that takes some frames   *)
(* to end.  What was true when it was begun, that the user had let go of   *)
(* his session, that its case is no session with a directory, that no scan *)
(* runs, has to be true still when its callback replaces the case          *)
(* (TaskInv, WatchInv).  The frame that closes the window has the same     *)
(* trouble: it decides at its beginning and acts at its end (ClosingInv).  *)
(*                                                                         *)
(* The third follows one source from the queue of the open case            *)
(* (JustAdded) to the settings in memory (StillWaits) and to the settings  *)
(* file (OwedInv).  The queues are the same data in    *)
(* three places, and what Vec::retain, the moves and the removals do to    *)
(* them is computed by recursion; RecursionLemmas has the induction.       *)
(***************************************************************************)
EXTENDS DesktopQueue, RecursionLemmas

Asked == [purpose : {"open", "new"}, arg : Saved] \cup [purpose : {"quick"}, arg : Sources]
Works == {"open", "new", "copy", "quick", "restore", "refresh"}

UiType == ui \in [confirm : BOOLEAN, discard : BOOLEAN, wanted : Asked \cup {None}]
WindowType == window \in [asked : BOOLEAN, cancelled : BOOLEAN, next : BOOLEAN, leaving : BOOLEAN]
TaskType ==
  busy => task \in [work : Works, case : {task.case}, sources : {task.sources}, write : {task.write},
                    done : {"no", "yes", "failed"}]

(* The session is that of the open case, and has its directory. *)
SessionInv ==
  /\ dirs \subseteq Sessions
  /\ session # None => case = session /\ session \in dirs

(* An operation that will leave a session was begun with his leave; what it *)
(* opens is a case file, or a session with a directory when it is done.     *)
TaskInv ==
  busy =>
    /\ task.work \in {"open", "new", "copy"} => task.case \in Saved
    /\ task.work \in {"open", "new", "quick"} => session \in released \cup {None}
    /\ task.work = "restore" => session = None
    /\ task.work = "quick" => task.case \in Sessions /\ (task.done = "no" => task.case \notin dirs)
    /\ task.work # "refresh" /\ task.done = "yes" /\ task.case \in Sessions => task.case \in dirs

(* A frame that closes the window has nothing left to ask. *)
ClosingInv ==
  /\ stage \notin {"close", "quit"} /\ window.asked /\ ~window.cancelled =>
       /\ session = None \/ ui.discard
       /\ stage = "callback" => ~busy
  /\ stage = "quit" => session = None \/ ui.discard

KeptInv == UiType /\ WindowType /\ TaskType /\ SessionInv /\ TaskInv /\ ClosingInv

-----------------------------------------------------------------------------
(* An operation begins, if none is under way, or goes on.                   *)
LEMMA TaskBegins ==
  ASSUME TaskType, TaskInv, UNCHANGED <<session, dirs>>, released \subseteq released',
         NEW work \in Works, NEW c, NEW sources, RunTask(work, c, sources),
         work \in {"open", "new", "copy"} => c \in Saved,
         work \in {"open", "new", "quick"} => session \in released' \cup {None},
         work = "restore" => session = None,
         work = "quick" => c \in Sessions \ dirs
  PROVE  TaskType' /\ TaskInv'
<1>1. CASE busy
  BY <1>1 DEF RunTask, busy, TaskType, TaskInv
<1>2. CASE ~busy
  <2>1. task' = [work |-> work, case |-> c, sources |-> sources, write |-> work # "open" \/ ~readonly,
                 done |-> "no"]
    BY <1>2 DEF RunTask
  <2>2. TaskType'
    BY <2>1 DEF TaskType, busy
  <2>3. task'.work = work /\ task'.case = c /\ task'.done = "no"
    BY <2>1
  <2> QED BY <2>2, <2>3 DEF TaskInv
<1> QED BY <1>1, <1>2

LEMMA TaskGoesOn ==
  ASSUME TaskType, TaskInv, UNCHANGED <<task, session, dirs>>, released \subseteq released'
  PROVE  TaskType' /\ TaskInv'
BY DEF TaskType, TaskInv, busy

LEMMA QuickBegins ==
  ASSUME TaskType, TaskInv, UNCHANGED <<session, dirs>>, released \subseteq released',
         session \in released' \cup {None}, NEW s \in Sources, QuickAnalysis(s)
  PROVE  TaskType' /\ TaskInv'
<1>1. CASE canSwitchCase
  <2>1. PICK t \in Sessions : t \notin dirs /\ RunTask("quick", t, <<s>>)
    BY <1>1 DEF QuickAnalysis
  <2> QED BY <2>1, TaskBegins DEF Works
<1>2. CASE ~canSwitchCase
  BY <1>2, TaskGoesOn DEF QuickAnalysis
<1> QED BY <1>1, <1>2

LEMMA ChosenBegins ==
  ASSUME TaskType, TaskInv, UNCHANGED <<session, dirs>>, LetGo, NEW what \in Asked, Chosen(what)
  PROVE  TaskType' /\ TaskInv'
<1>1. released \subseteq released' /\ session \in released' \cup {None}
  BY DEF LetGo
<1>2. CASE what.purpose = "quick"
  BY <1>1, <1>2, QuickBegins DEF Chosen, Asked
<1>3. CASE what.purpose # "quick"
  <2>1. what.purpose \in {"open", "new"} /\ what.arg \in Saved /\ RunTask(what.purpose, what.arg, << >>)
    BY <1>3 DEF Chosen, Asked
  <2> QED BY <1>1, <2>1, TaskBegins DEF Works
<1> QED BY <1>2, <1>3

-----------------------------------------------------------------------------
LEMMA GoneKept ==
  ASSUME KeptInv, dirs' \subseteq dirs, stage' = "close", session' = None, ui' = NewSessionUi, task' = None,
         window' = NewWindow
  PROVE  KeptInv'
BY DEF KeptInv, UiType, WindowType, TaskType, SessionInv, TaskInv, ClosingInv, NewSessionUi, NewWindow, busy

LEMMA EndKept == ASSUME KeptInv, Start \/ Quit \/ Crash PROVE KeptInv' /\ dirs \ dirs' \subseteq released'
<1>1. CASE Start \/ Crash
  BY <1>1, GoneKept DEF Start, Started, Crash, Gone, disk
<1>2. CASE Quit
  <2>1. /\ dirs' = dirs \ {session} /\ (session = None \/ ui.discard)
        /\ released' = IF ui.discard THEN released \cup ({session} \ {None}) ELSE released
    BY <1>2 DEF Quit, KeptInv, ClosingInv
  <2>2. None \notin dirs
    BY DesktopAssumption DEF KeptInv, SessionInv
  <2>3. dirs \ dirs' \subseteq released'
    BY <2>1, <2>2
  <2>4. /\ dirs' \subseteq dirs /\ stage' = "close" /\ session' = None /\ ui' = NewSessionUi
        /\ task' = None /\ window' = NewWindow
    BY <1>2, <2>1 DEF Quit, Gone
  <2> QED BY <2>3, <2>4, GoneKept
<1> QED BY <1>1, <1>2

(* The callback replaces the case, and with it the session.                 *)
LEMMA CallbackKept ==
  ASSUME KeptInv, Callback PROVE KeptInv' /\ dirs \ dirs' \subseteq released'
<1> USE DesktopAssumption
<1>1. /\ stage = "callback" /\ stage' = "result" /\ UNCHANGED <<ui, window>>
  BY DEF Callback
<1>2. CASE UNCHANGED <<task, case, session, dirs, released>>
  BY <1>1, <1>2 DEF KeptInv, UiType, WindowType, TaskType, SessionInv, TaskInv, ClosingInv, busy
<1>3. CASE task' = None /\ UNCHANGED <<case, session, dirs, released>>
  BY <1>1, <1>3 DEF KeptInv, UiType, WindowType, TaskType, SessionInv, TaskInv, ClosingInv, busy
<1>4. CASE /\ busy /\ task.done \notin {"no", "failed"} /\ task.work # "refresh" /\ task' = None
           /\ \E there \in SUBSET Sources :
                LET temporary == IF task.case \in Sessions THEN task.case ELSE None
                    more == IF task.work = "quick" THEN task.sources ELSE << >>
                IN /\ Loaded(task.case, task.write, temporary, more, there)
                   /\ released' = IF task.work = "copy" /\ session # None
                                    THEN released \cup {session} ELSE released
  <2> DEFINE temporary == IF task.case \in Sessions THEN task.case ELSE None
  <2>1. /\ case' = task.case /\ session' = temporary /\ dirs' = dirs \ ({session} \ {temporary})
        /\ released' = IF task.work = "copy" /\ session # None THEN released \cup {session} ELSE released
    BY <1>4 DEF Loaded
  <2>2. task.work \in Works \ {"refresh"} /\ task.done = "yes"
    BY <1>4 DEF KeptInv, TaskType
  <2>3. task.case \in Sessions => task.case \in dirs
    BY <1>4, <2>2 DEF KeptInv, TaskInv
  <2>4. session \in released' \cup {None} \/ session = temporary
    BY <1>4, <2>1, <2>2 DEF KeptInv, TaskInv, Works
  <2>5. dirs \ dirs' \subseteq released'
    <3>1. None \notin dirs
      BY DEF KeptInv, SessionInv
    <3> QED BY <2>1, <2>4, <3>1
  <2>6. UiType' /\ WindowType' /\ TaskType' /\ TaskInv' /\ ClosingInv'
    BY <1>1, <1>4 DEF KeptInv, UiType, WindowType, TaskType, TaskInv, ClosingInv, busy
  <2>7. SessionInv'
    BY <2>1, <2>3 DEF KeptInv, SessionInv
  <2> QED BY <2>5, <2>6, <2>7 DEF KeptInv
<1> QED BY <1>2, <1>3, <1>4 DEF Callback, disk, history

LEMMA CloseKept == ASSUME KeptInv, Close PROVE KeptInv' /\ UNCHANGED dirs
<1> DEFINE working == busy \/ running
           asks == window.asked /\ session # None /\ ~ui.discard /\ ~working
<1>1. /\ stage' = "callback"
      /\ window' = [window EXCEPT !.cancelled = window.asked /\ (asks \/ working), !.leaving = @ /\ ~asks]
      /\ ui' = [ui EXCEPT !.confirm = @ \/ asks]
      /\ UNCHANGED <<case, session, task, dirs, released>>
  BY DEF Close, disk, history
<1>2. asks \in BOOLEAN /\ working \in BOOLEAN
  BY DEF busy, running, KeptInv, UiType, WindowType
<1> HIDE DEF asks
<1>3. /\ UiType' /\ WindowType' /\ ui'.discard = ui.discard
      /\ window'.asked = window.asked /\ window'.cancelled = (window.asked /\ (asks \/ working))
  BY <1>1, <1>2 DEF KeptInv, UiType, WindowType
<1>4. ClosingInv'
  <2>1. window'.asked /\ ~window'.cancelled => ~busy /\ (session = None \/ ui.discard)
    BY <1>3 DEF asks
  <2> QED BY <1>1, <1>3, <2>1 DEF ClosingInv, busy
<1>5. TaskType' /\ TaskInv' /\ SessionInv'
  BY <1>1, TaskGoesOn DEF KeptInv, SessionInv
<1> QED BY <1>1, <1>3, <1>4, <1>5 DEF KeptInv

(* The rest of the frame does not ask about the session again.              *)
LEMMA PersistKept == ASSUME KeptInv, Persist PROVE KeptInv' /\ UNCHANGED dirs
<1>1. /\ stage = "persist" /\ stage' = IF window.asked /\ ~window.cancelled THEN "quit" ELSE "close"
      /\ window' = [window EXCEPT !.asked = window.next, !.cancelled = FALSE, !.next = FALSE]
      /\ UNCHANGED <<case, session, ui, task, dirs, released>>
  BY DEF Persist
<1>2. UiType' /\ WindowType'
  BY <1>1 DEF KeptInv, UiType, WindowType
<1>3. ClosingInv'
  BY <1>1 DEF KeptInv, ClosingInv
<1>4. TaskType' /\ TaskInv' /\ SessionInv'
  BY <1>1, TaskGoesOn DEF KeptInv, SessionInv
<1> QED BY <1>1, <1>2, <1>3, <1>4 DEF KeptInv

LEMMA QueueKept == ASSUME KeptInv, Queue PROVE KeptInv' /\ UNCHANGED dirs
<1>1. /\ stage = "queue" /\ stage' = "input" /\ UNCHANGED <<case, session, ui, dirs, released>>
      /\ RunTask("refresh", case, << >>) \/ UNCHANGED task
      /\ window' = window \/ window' = [window EXCEPT !.next = scan.closing /\ ~running /\ ~busy]
  BY DEF Queue, disk, history
<1>2. UiType' /\ WindowType' /\ window'.asked = window.asked /\ window'.cancelled = window.cancelled
  <2>1. (scan.closing /\ ~running /\ ~busy) \in BOOLEAN
    BY DEF running
  <2> QED BY <1>1, <2>1 DEF KeptInv, UiType, WindowType
<1>3. ClosingInv'
  BY <1>1, <1>2 DEF KeptInv, ClosingInv
<1>4. TaskType' /\ TaskInv'
  BY <1>1, TaskGoesOn, TaskBegins DEF KeptInv, Works
<1> QED BY <1>1, <1>2, <1>3, <1>4 DEF KeptInv, SessionInv

(* The user does nothing in the frame that closes the window.               *)
LEMMA ClickStage ==
  ASSUME Input \/ NoInput
  PROVE  /\ stage = "input" /\ stage' = "persist" /\ UNCHANGED dirs
         /\ Input => (window.asked => window.cancelled)
BY DEF Input, NoInput, disk

LEMMA ClickKept ==
  ASSUME KeptInv, Input, UNCHANGED <<case, session>>, UiType', TaskType', TaskInv',
         \/ window' = window
         \/ window' = [window EXCEPT !.leaving = FALSE]
         \/ window' = [window EXCEPT !.next = TRUE]
  PROVE  KeptInv' /\ UNCHANGED dirs
<1>1. WindowType' /\ window'.asked = window.asked /\ window'.cancelled = window.cancelled
  BY DEF KeptInv, WindowType
<1>2. ClosingInv'
  BY <1>1, ClickStage DEF KeptInv, ClosingInv
<1> QED BY <1>1, <1>2, ClickStage DEF KeptInv, SessionInv

LEMMA IngestKept == ASSUME KeptInv, Ingest PROVE KeptInv' /\ UNCHANGED dirs
<1>1. Input /\ UNCHANGED <<case, session, ui, window, released, dirs>>
  BY DEF Ingest, Input
<1>2. TaskType' /\ TaskInv'
  <2>1. CASE UNCHANGED task
    BY <1>1, <2>1, TaskGoesOn DEF KeptInv
  <2>2. CASE case = None /\ \E s \in Sources : QuickAnalysis(s)
    <3>1. session = None
      BY <2>2, DesktopAssumption DEF KeptInv, SessionInv
    <3> QED BY <1>1, <2>2, <3>1, QuickBegins DEF KeptInv
  <2> QED BY <2>1, <2>2 DEF Ingest
<1>3. UiType'
  BY <1>1 DEF KeptInv, UiType
<1> QED BY <1>1, <1>2, <1>3, ClickKept

LEMMA ChooseKept == ASSUME KeptInv, Choose PROVE KeptInv' /\ UNCHANGED dirs
<1>1. Input /\ UNCHANGED <<case, session, window, dirs>>
  BY DEF Choose, Input
<1>2. PICK what \in Asked :
        IF session # None /\ ~ui.discard
          THEN Asking(what) /\ UNCHANGED <<task, thread, history>>
          ELSE ui' = [ui EXCEPT !.discard = FALSE] /\ Chosen(what) /\ LetGo
  <2>1. [purpose : {"open"}, arg : Saved] \cup [purpose : {"quick"}, arg : Sources]
          \cup [purpose : {"new"}, arg : {c \in Saved : Unused(c)}] \subseteq Asked
    BY DEF Asked
  <2> QED BY <2>1 DEF Choose
<1>3. UiType'
  BY <1>2 DEF KeptInv, UiType, Asking
<1>4. TaskType' /\ TaskInv'
  BY <1>1, <1>2, ChosenBegins, TaskGoesOn DEF KeptInv, history
<1> QED BY <1>1, <1>3, <1>4, ClickKept

LEMMA SaveCopyKept == ASSUME KeptInv, SaveCopy PROVE KeptInv' /\ UNCHANGED dirs
<1>1. Input /\ UNCHANGED <<case, session, window, released, dirs>>
  BY DEF SaveCopy, Input, history
<1>2. UiType'
  <2>1. ui' = NewSessionUi \/ ui' = [ui EXCEPT !.discard = FALSE]
    BY DEF SaveCopy
  <2>2. ui' = NewSessionUi => UiType'
    BY DEF UiType, NewSessionUi
  <2>3. ui' = [ui EXCEPT !.discard = FALSE] => UiType'
    BY DEF KeptInv, UiType
  <2> QED BY <2>1, <2>2, <2>3
<1>3. (\E c \in Saved : RunTask("copy", c, << >>)) \/ UNCHANGED task
  BY DEF SaveCopy
<1>4. TaskType' /\ TaskInv'
  BY <1>1, <1>3, TaskBegins, TaskGoesOn DEF KeptInv, Works
<1> QED BY <1>1, <1>2, <1>4, ClickKept

LEMMA DiscardKept == ASSUME KeptInv, Discard PROVE KeptInv' /\ UNCHANGED dirs
<1>1. Input /\ UNCHANGED <<case, session, dirs>> /\ LetGo
  BY DEF Discard, Input
<1>2. CASE ui.wanted # None /\ Chosen(ui.wanted) /\ ui' = NewSessionUi /\ UNCHANGED window
  <2>1. UiType'
    BY <1>2 DEF UiType, NewSessionUi
  <2>2. ui.wanted \in Asked
    BY <1>2 DEF KeptInv, UiType
  <2>3. TaskType' /\ TaskInv'
    BY <1>1, <1>2, <2>2, ChosenBegins DEF KeptInv
  <2> QED BY <1>1, <1>2, <2>1, <2>3, ClickKept
<1>3. CASE /\ ui' = [ui EXCEPT !.confirm = FALSE, !.discard = TRUE] /\ UNCHANGED task
           /\ window' = [window EXCEPT !.next = TRUE]
  <2>1. UiType'
    BY <1>3 DEF KeptInv, UiType
  <2>2. released \subseteq released'
    BY <1>1 DEF LetGo
  <2>3. TaskType' /\ TaskInv'
    BY <1>1, <1>3, <2>2, TaskGoesOn DEF KeptInv
  <2> QED BY <1>1, <1>3, <2>1, <2>3, ClickKept
<1> QED BY <1>2, <1>3 DEF Discard

LEMMA RestoreKept == ASSUME KeptInv, Restore PROVE KeptInv' /\ UNCHANGED dirs
<1>1. Input /\ case = None /\ UNCHANGED <<case, session, ui, window, released, dirs>>
  BY DEF Restore, Input, history
<1>2. PICK i \in DOMAIN pending : RunTask("restore", pending[i].case, << >>)
  BY DEF Restore
<1>3. session = None
  BY <1>1, DesktopAssumption DEF KeptInv, SessionInv
<1>4. TaskType' /\ TaskInv'
  BY <1>1, <1>2, <1>3, TaskBegins DEF KeptInv, Works
<1>5. UiType'
  BY <1>1 DEF KeptInv, UiType
<1> QED BY <1>1, <1>4, <1>5, ClickKept

LEMMA KeepWorkingKept == ASSUME KeptInv, KeepWorking PROVE KeptInv' /\ UNCHANGED dirs
<1>1. /\ Input /\ ui' = NewSessionUi /\ window' = [window EXCEPT !.leaving = FALSE]
      /\ UNCHANGED <<case, session, task, released, dirs>>
  BY DEF KeepWorking, Input, history
<1>2. UiType' /\ TaskType' /\ TaskInv'
  BY <1>1, TaskGoesOn DEF KeptInv, UiType, NewSessionUi
<1> QED BY <1>1, <1>2, ClickKept

LEMMA InputKept == ASSUME KeptInv, Click \/ NoInput PROVE KeptInv' /\ UNCHANGED dirs
<1>1. CASE Ingest \/ Choose \/ SaveCopy \/ Discard \/ Restore \/ KeepWorking
  BY <1>1, IngestKept, ChooseKept, SaveCopyKept, DiscardKept, RestoreKept, KeepWorkingKept
<1>2. CASE (Input \/ NoInput) /\ UNCHANGED <<case, session, ui, task, window, released, dirs>>
  <2>1. UiType' /\ WindowType' /\ TaskType' /\ TaskInv' /\ SessionInv'
    BY <1>2, TaskGoesOn DEF KeptInv, UiType, WindowType, SessionInv
  <2>2. ClosingInv'
    BY <1>2, ClickStage DEF KeptInv, ClosingInv
  <2> QED BY <1>2, <2>1, <2>2 DEF KeptInv
<1>3. \/ Ingest \/ Choose \/ SaveCopy \/ Discard \/ Restore \/ KeepWorking
      \/ (Input \/ NoInput) /\ UNCHANGED <<case, session, ui, task, window, released, dirs>>
  BY DEF Click, Pause, HoldOrContinue, RemoveSelected, Move, Resume, SetReadonly, Forget, NoInput, Input,
     process, disk, history
<1> QED BY <1>1, <1>2, <1>3

LEMMA CloseWindowKept == ASSUME KeptInv, CloseWindow PROVE KeptInv' /\ UNCHANGED dirs
<1>1. /\ stage = "close" /\ window' = [window EXCEPT !.asked = TRUE, !.leaving = TRUE]
      /\ UNCHANGED <<stage, case, session, ui, task, released, dirs>>
  BY DEF CloseWindow, disk, history
<1>2. UiType' /\ WindowType' /\ ClosingInv'
  BY <1>1 DEF KeptInv, UiType, WindowType, ClosingInv
<1> QED BY <1>1, <1>2, TaskGoesOn DEF KeptInv, SessionInv

(* A quick analysis has a new session: the one that is open stays let go.   *)
LEMMA TaskEndsKept == ASSUME KeptInv, TaskEnds PROVE KeptInv' /\ dirs \ dirs' \subseteq released'
<1>1. stage = "close" /\ busy /\ task.done = "no" /\ UNCHANGED <<stage, case, session, ui, window>>
  BY DEF TaskEnds
<1>2. UiType' /\ WindowType' /\ ClosingInv'
  BY <1>1 DEF KeptInv, UiType, WindowType, ClosingInv
<1>3. PICK done \in {"yes", "failed"} : task' = [task EXCEPT !.done = done]
  BY DEF TaskEnds
<1>4. TaskType' /\ task'.work = task.work /\ task'.case = task.case /\ task'.done = done
  BY <1>1, <1>3 DEF KeptInv, TaskType, busy
<1>5. \/ /\ done = "yes"
         /\ task.work = "restore" /\ task.case \in Sessions => task.case \in dirs
         /\ dirs' = IF task.work = "quick" THEN dirs \cup {task.case} ELSE dirs
         /\ released' = IF task.work = "quick" THEN released \ {task.case} ELSE released
      \/ done = "failed" /\ UNCHANGED <<dirs, released>>
      \/ /\ done = "failed" /\ task.work = "restore" /\ dirs' = dirs \ {task.case}
         /\ released' = released \cup {task.case}
  <2>1. task' = [task EXCEPT !.done = "yes"] => task'.done = "yes"
    BY <1>1 DEF KeptInv, TaskType
  <2>2. task' = [task EXCEPT !.done = "failed"] => task'.done = "failed"
    BY <1>1 DEF KeptInv, TaskType
  <2> QED BY <1>4, <2>1, <2>2 DEF TaskEnds
<1>6. /\ task.work = "quick" => task.case \in Sessions \ dirs /\ session # task.case
      /\ task.work = "restore" => session = None
  BY <1>1, DesktopAssumption DEF KeptInv, TaskInv, SessionInv
<1>7. SessionInv' /\ dirs \ dirs' \subseteq released'
  BY <1>1, <1>5, <1>6 DEF KeptInv, SessionInv
<1>8. TaskInv'
  BY <1>1, <1>4, <1>5, <1>6, DesktopAssumption DEF KeptInv, TaskInv, TaskType, Works
<1> QED BY <1>2, <1>4, <1>7, <1>8 DEF KeptInv

LEMMA SessionStep ==
  KeptInv /\ [Next]_desktopVars => KeptInv' /\ dirs \ dirs' \subseteq released'
<1> SUFFICES ASSUME KeptInv, [Next]_desktopVars PROVE KeptInv' /\ dirs \ dirs' \subseteq released'
  OBVIOUS
<1>1. CASE Start \/ Quit \/ Crash \/ Callback \/ Close \/ Queue \/ Persist
  BY <1>1, EndKept, CallbackKept, CloseKept, QueueKept, PersistKept
<1>2. CASE NoInput \/ Click \/ CloseWindow \/ TaskEnds
  BY <1>2, InputKept, CloseWindowKept, TaskEndsKept
<1>3. CASE Result \/ UNCHANGED <<stage, case, session, ui, task, window, dirs, released>>
  <2>1. /\ UNCHANGED <<case, session, ui, task, window, dirs, released>>
        /\ stage' = stage \/ (stage = "result" /\ stage' = "queue")
    BY <1>3 DEF Result, disk, history
  <2>2. UiType' /\ WindowType' /\ SessionInv'
    BY <2>1 DEF KeptInv, UiType, WindowType, SessionInv
  <2>3. ClosingInv'
    BY <2>1 DEF KeptInv, ClosingInv, busy
  <2>4. TaskType' /\ TaskInv'
    BY <2>1, TaskGoesOn DEF KeptInv
  <2> QED BY <2>1, <2>2, <2>3, <2>4 DEF KeptInv
<1>4. (\E h \in Handles : ScanEnds(h)) \/ UNCHANGED desktopVars =>
        UNCHANGED <<stage, case, session, ui, task, window, dirs, released>>
  BY DEF ScanEnds, desktopVars, process, disk, history
<1> QED BY <1>1, <1>2, <1>3, <1>4 DEF Next, FrameStep

LEMMA SessionInit == Init => KeptInv
BY DEF Init, KeptInv, UiType, WindowType, TaskType, SessionInv, TaskInv, ClosingInv, NewSessionUi, NewWindow,
   busy

(* The directory of a temporary session, with the case in it, goes only     *)
(* when the user has let go of the session, and the case that is open keeps *)
(* its directory: whatever operation was under way, however the window was  *)
(* closed, and also for a user who changes cases during a scan.             *)
THEOREM SessionsAreKept == Spec => SessionKept
<1>1. Init => KeptInv
  BY SessionInit
<1>2. KeptInv /\ [Next]_desktopVars => KeptInv'
  BY SessionStep
<1>3. KeptInv /\ [Next]_desktopVars =>
        [/\ dirs \ dirs' \subseteq released'
         /\ session' # None => session' \in dirs']_desktopVars
  BY SessionStep DEF KeptInv, SessionInv
<1> QED BY <1>1, <1>2, <1>3, PTL DEF Spec, SessionKept

-----------------------------------------------------------------------------
(* The active scan is the only one that the user did not leave, and of the  *)
(* open case; an operation that will replace the case was begun when no     *)
(* scan ran, and none begins, or the user left the scan by it.              *)
ThreadStates == {"none", "running", "completed", "stopped", "failed"}

ScanType ==
  scan \in [queue : {scan.queue}, held : BOOLEAN, closing : BOOLEAN, active : Handles \cup {None},
            source : {scan.source}, refresh : BOOLEAN]
ThreadsType ==
  /\ thread = [h \in Handles |-> thread[h]]
  /\ \A h \in Handles : thread[h] \in [state : ThreadStates, case : {thread[h].case},
                                       source : {thread[h].source}, control : {"run", "pause", "cancel"},
                                       left : BOOLEAN]

WatchInv ==
  /\ ScanType /\ ThreadsType
  /\ ScanIsWatched
  /\ running => case # None
  /\ busy /\ task.work # "refresh" /\ running => thread[scan.active].left

LEMMA Unwatched ==
  ASSUME WatchInv, ~running PROVE \A h \in Handles : thread[h].state = "none" \/ thread[h].left
BY DesktopAssumption DEF WatchInv, ScanIsWatched, running

(* The threads may be told something, or end, and nothing else.             *)
LEMMA WatchFrame ==
  ASSUME WatchInv, ScanType', ThreadsType', scan'.active = scan.active, case' = case,
         \A h \in Handles : thread'[h].state # "none" =>
           /\ thread[h].state # "none" /\ thread'[h].case = thread[h].case
           /\ thread[h].left => thread'[h].left,
         busy' /\ task'.work # "refresh" /\ running => thread'[scan.active].left
  PROVE  WatchInv'
BY DEF WatchInv, ScanIsWatched, running

LEMMA ToldThreads ==
  ASSUME WatchInv, NEW request \in {"run", "pause", "cancel"},
         thread' = Controlled(request) \/ UNCHANGED thread
  PROVE  /\ ThreadsType'
         /\ \A h \in Handles : /\ thread'[h].state # "none" => thread[h].state # "none"
                               /\ thread'[h].case = thread[h].case /\ thread'[h].left = thread[h].left
         /\ running => scan.active \in Handles
<1>1. CASE UNCHANGED thread
  BY <1>1 DEF WatchInv, ThreadsType, ScanType, running
<1>2. CASE running /\ thread' = [thread EXCEPT ![scan.active].control = request]
  <2>1. scan.active \in Handles
    BY <1>2 DEF WatchInv, ScanType, running
  <2>2. PICK g \in Handles : thread' = [thread EXCEPT ![g].control = request]
    BY <1>2, <2>1
  <2>3. \A h \in Handles : thread'[h] = IF h = g THEN [thread[g] EXCEPT !.control = request] ELSE thread[h]
    BY <2>2 DEF WatchInv, ThreadsType
  <2>4. thread' = [h \in Handles |-> thread'[h]]
    BY <2>2 DEF WatchInv, ThreadsType
  <2>5. /\ [thread[g] EXCEPT !.control = request] \in
             [state : ThreadStates, case : {thread[g].case}, source : {thread[g].source},
              control : {"run", "pause", "cancel"}, left : BOOLEAN]
        /\ [thread[g] EXCEPT !.control = request].state = thread[g].state
        /\ [thread[g] EXCEPT !.control = request].case = thread[g].case
        /\ [thread[g] EXCEPT !.control = request].left = thread[g].left
        /\ [thread[g] EXCEPT !.control = request].source = thread[g].source
    BY DEF WatchInv, ThreadsType
  <2> QED BY <2>1, <2>3, <2>4, <2>5 DEF WatchInv, ThreadsType
<1> QED BY <1>1, <1>2 DEF Controlled, WatchInv, ScanType, running

ScanLike(view) ==
  view \in [queue : {view.queue}, held : BOOLEAN, closing : BOOLEAN, active : {scan.active},
           source : {view.source}, refresh : BOOLEAN]

LEMMA ScanEdited ==
  ASSUME WatchInv, ScanLike(scan')
  PROVE  ScanType' /\ scan'.active = scan.active
BY DEF WatchInv, ScanLike, ScanType

LEMMA ScanStarts ==
  ASSUME WatchInv, UNCHANGED <<case, task>>, NEW view, ScanLike(view), NEW source, StartScan(view, source)
  PROVE  WatchInv'
<1>1. CASE scan' = view /\ UNCHANGED thread
  <2>1. ScanType' /\ scan'.active = scan.active
    BY <1>1, ScanEdited
  <2> QED BY <1>1, <2>1, WatchFrame DEF WatchInv, ThreadsType, busy
<1>2. CASE /\ ~busy /\ ~running /\ case # None
           /\ \E h \in Handles :
                /\ thread[h].state = "none"
                /\ thread' = [thread EXCEPT ![h] = [Idle EXCEPT !.state = "running", !.case = case,
                                                                !.source = source]]
                /\ scan' = [view EXCEPT !.active = h, !.source = source]
  <2>1. PICK h \in Handles :
          /\ thread' = [thread EXCEPT ![h] = [Idle EXCEPT !.state = "running", !.case = case,
                                                          !.source = source]]
          /\ scan' = [view EXCEPT !.active = h, !.source = source]
    BY <1>2
  <2>2. ScanType' /\ scan'.active = h
    BY <2>1 DEF ScanLike, ScanType
  <2> DEFINE new == [Idle EXCEPT !.state = "running", !.case = case, !.source = source]
  <2>3. /\ new \in [state : ThreadStates, case : {new.case}, source : {new.source},
                    control : {"run", "pause", "cancel"}, left : BOOLEAN]
        /\ new.case = case
    BY DEF Idle, ThreadStates
  <2> HIDE DEF new
  <2>4. \A g \in Handles : thread'[g] = IF g = h THEN new ELSE thread[g]
    BY <2>1 DEF WatchInv, ThreadsType, new
  <2>5. thread' = [g \in Handles |-> thread'[g]]
    BY <2>1 DEF WatchInv, ThreadsType
  <2>6. ThreadsType'
    BY <2>3, <2>4, <2>5 DEF WatchInv, ThreadsType
  <2>7. ScanIsWatched'
    BY <1>2, <2>2, <2>3, <2>4, Unwatched DEF ScanIsWatched
  <2> QED BY <1>2, <2>2, <2>6, <2>7 DEF WatchInv, running, busy
<1> QED BY <1>1, <1>2 DEF StartScan

LEMMA WatchReset ==
  ASSUME scan' = NewScanUi, task' = None, thread' = [h \in Handles |-> Idle] PROVE WatchInv'
<1>1. ScanType' /\ scan'.active = None
  BY DEF NewScanUi, ScanType
<1>2. ThreadsType' /\ \A h \in Handles : thread'[h].state = "none"
  BY DEF ThreadsType, ThreadStates, Idle
<1> QED BY <1>1, <1>2 DEF WatchInv, ScanIsWatched, running, busy

LEMMA WatchCallback == ASSUME WatchInv, Callback PROVE WatchInv'
<1>1. UNCHANGED thread
  BY DEF Callback
<1>2. CASE UNCHANGED <<task, case, scan>> \/ (task' = None /\ UNCHANGED <<case, scan>>)
  BY <1>1, <1>2, WatchFrame DEF WatchInv, ScanType, ThreadsType, busy
<1>3. CASE /\ busy /\ task.work # "refresh" /\ task' = None
           /\ \E there \in SUBSET Sources :
                LET temporary == IF task.case \in Sessions THEN task.case ELSE None
                    more == IF task.work = "quick" THEN task.sources ELSE << >>
                IN Loaded(task.case, task.write, temporary, more, there)
  <2> DEFINE temporary == IF task.case \in Sessions THEN task.case ELSE None
             more == IF task.work = "quick" THEN task.sources ELSE << >>
             settings == IF session # None /\ temporary = None THEN Without(pending, session) ELSE pending
             saved == EntryOf(settings, task.case)
             restored(there) == IF saved = << >> THEN << >> ELSE Prepare(saved[1].sources, there)
  <2>1. PICK there \in SUBSET Sources : Loaded(task.case, task.write, temporary, more, there)
    BY <1>3
  <2>2. scan' = [NewScanUi EXCEPT !.queue = restored(there) \o more, !.held = saved # << >>,
                                  !.closing = scan.closing]
    BY <2>1 DEF Loaded
  <2> HIDE DEF saved, restored, more
  <2>3. ScanType' /\ scan'.active = None
    BY <2>2 DEF ScanType, WatchInv, NewScanUi
  <2>4. \A h \in Handles : thread[h].state = "none" \/ thread[h].left
    <3>1. running => thread[scan.active].left
      BY <1>3 DEF WatchInv
    <3> QED BY <3>1, Unwatched DEF WatchInv, ScanIsWatched
  <2>5. ThreadsType' /\ ScanIsWatched' /\ ~running' /\ ~busy'
    BY <1>1, <1>3, <2>3, <2>4 DEF WatchInv, ThreadsType, ScanIsWatched, running, busy
  <2> QED BY <2>3, <2>5 DEF WatchInv
<1> QED BY <1>2, <1>3 DEF Callback

LEMMA WatchClose == ASSUME WatchInv, Close PROVE WatchInv'
<1>1. UNCHANGED <<case, task>> /\ (thread' = Controlled("pause") \/ UNCHANGED thread)
  BY DEF Close
<1>2. ScanLike(scan')
  <2>1. scan' = [scan EXCEPT !.held = TRUE, !.closing = TRUE] \/ scan' = scan
    BY DEF Close
  <2> QED BY <2>1 DEF WatchInv, ScanType, ScanLike
<1> QED BY <1>1, <1>2, ScanEdited, ToldThreads, WatchFrame DEF WatchInv, busy

(* The result of the active scan is taken, and its thread is gone.          *)
LEMMA WatchResult == ASSUME WatchInv, Result PROVE WatchInv'
<1>1. UNCHANGED <<case, task>>
  BY DEF Result
<1>2. CASE running /\ thread[scan.active].state \notin {"none", "running"}
  <2>1. PICK h \in Handles : h = scan.active
    BY <1>2 DEF WatchInv, ScanType, running
  <2>2. PICK held \in BOOLEAN :
          /\ scan' = [scan EXCEPT !.active = None, !.source = None, !.refresh = TRUE, !.held = held]
          /\ thread' = [thread EXCEPT ![h] = Idle]
    <3>1. (scan.held \/ thread[h].state # "completed") \in BOOLEAN
      OBVIOUS
    <3> QED BY <1>2, <2>1, <3>1 DEF Result
  <2>3. ScanType' /\ scan'.active = None
    BY <2>2 DEF WatchInv, ScanType
  <2>4. \A g \in Handles : thread'[g] = IF g = h THEN Idle ELSE thread[g]
    BY <2>2 DEF WatchInv, ThreadsType
  <2>5. ThreadsType'
    BY <2>2, <2>4 DEF WatchInv, ThreadsType, Idle, ThreadStates
  <2>6. \A g \in Handles : thread'[g].state = "none" \/ thread'[g].left
    BY <2>1, <2>4 DEF WatchInv, ScanIsWatched, Idle
  <2> QED BY <1>1, <2>3, <2>5, <2>6 DEF WatchInv, ScanIsWatched, running
<1>3. CASE UNCHANGED <<scan, thread>>
  BY <1>1, <1>3, WatchFrame DEF WatchInv, ScanType, ThreadsType, busy
<1> QED BY <1>2, <1>3 DEF Result

LEMMA WatchQueue == ASSUME WatchInv, Queue PROVE WatchInv'
<1>1. UNCHANGED case
  BY DEF Queue
<1>2. CASE scan' = [scan EXCEPT !.refresh = FALSE] /\ RunTask("refresh", case, << >>) /\ UNCHANGED thread
  <2>1. ScanLike(scan')
    BY <1>2 DEF WatchInv, ScanType, ScanLike
  <2>2. busy' /\ task'.work # "refresh" /\ running => thread[scan.active].left
    BY <1>2 DEF RunTask, WatchInv, busy
  <2> QED BY <1>1, <1>2, <2>1, <2>2, ScanEdited, WatchFrame DEF WatchInv, ThreadsType
<1>3. CASE StartScan([scan EXCEPT !.queue = Tail(@)], Head(scan.queue)) /\ UNCHANGED task
  <2>1. ScanLike([scan EXCEPT !.queue = Tail(@)])
    BY DEF WatchInv, ScanType, ScanLike
  <2> QED BY <1>1, <1>3, <2>1, ScanStarts
<1>4. CASE UNCHANGED <<scan, task, thread>>
  BY <1>1, <1>4, WatchFrame DEF WatchInv, ScanType, ThreadsType, busy
<1> QED BY <1>2, <1>3, <1>4 DEF Queue

LEMMA WatchClick ==
  ASSUME WatchInv, UNCHANGED <<case, thread>>, ScanLike(scan') \/ UNCHANGED scan, task' = task \/ ~running
  PROVE  WatchInv'
<1>1. ScanType' /\ scan'.active = scan.active
  BY ScanEdited DEF WatchInv, ScanType
<1> QED BY <1>1, WatchFrame DEF WatchInv, ThreadsType, busy

(* What the user does to the queue, and what is done when it is saved.      *)
LEMMA WatchEdits ==
  ASSUME WatchInv, Ingest \/ HoldOrContinue \/ RemoveSelected \/ Move \/ KeepWorking \/ Persist
  PROVE  WatchInv'
<1>1. UNCHANGED <<case, thread>>
  BY DEF Ingest, HoldOrContinue, RemoveSelected, Move, KeepWorking, Persist
<1>2. CASE KeepWorking
  <2>1. scan' = [scan EXCEPT !.closing = FALSE] /\ UNCHANGED task
    BY <1>2 DEF KeepWorking
  <2>2. ScanLike(scan')
    BY <2>1 DEF WatchInv, ScanType, ScanLike
  <2> QED BY <1>1, <2>1, <2>2, WatchClick
<1>3. CASE HoldOrContinue
  <2>1. scan' = [scan EXCEPT !.held = ~@] /\ UNCHANGED task
    BY <1>3 DEF HoldOrContinue
  <2>2. ScanLike(scan')
    BY <2>1 DEF WatchInv, ScanType, ScanLike
  <2> QED BY <1>1, <2>1, <2>2, WatchClick
<1>4. CASE Persist
  <2>1. UNCHANGED task /\ (UNCHANGED scan \/ scan' = [scan EXCEPT !.held = @ \/ Pending # pending])
    BY <1>4 DEF Persist
  <2>2. UNCHANGED scan \/ ScanLike(scan')
    BY <2>1 DEF WatchInv, ScanType, ScanLike
  <2> QED BY <1>1, <2>1, <2>2, WatchClick
<1>5. CASE RemoveSelected
  <2>1. PICK selected \in SUBSET ToSet(scan.queue) \ {{}} :
          scan' = [scan EXCEPT !.queue = Kept(@, {i \in DOMAIN @ : @[i] \notin selected})]
    BY <1>5 DEF RemoveSelected
  <2> DEFINE q == Kept(scan.queue, {i \in DOMAIN scan.queue : scan.queue[i] \notin selected})
  <2>2. scan' = [scan EXCEPT !.queue = q]
    BY <2>1
  <2> HIDE DEF q
  <2>3. ScanLike(scan')
    BY <2>2 DEF WatchInv, ScanType, ScanLike
  <2>4. UNCHANGED task
    BY <1>5 DEF RemoveSelected
  <2> QED BY <1>1, <2>3, <2>4, WatchClick
<1>6. CASE Move
  <2>1. PICK selected \in SUBSET ToSet(scan.queue) \ {{}} :
          \/ scan' = [scan EXCEPT !.queue = MoveUp(@, selected)]
          \/ scan' = [scan EXCEPT !.queue = MoveDown(@, selected)]
    BY <1>6 DEF Move
  <2>2. ScanLike(scan')
    BY <2>1 DEF WatchInv, ScanType, ScanLike
  <2>3. UNCHANGED task
    BY <1>6 DEF Move
  <2> QED BY <1>1, <2>2, <2>3, WatchClick
<1>7. CASE Ingest
  <2>1. PICK s \in Sources :
          \/ QuickAnalysis(s) /\ UNCHANGED scan
          \/ /\ scan' = [scan EXCEPT !.queue = IF Len(scan.queue) < QueueLimit THEN Append(@, s) ELSE @,
                                     !.held = FALSE]
             /\ UNCHANGED task
    BY <1>7 DEF Ingest
  <2>2. UNCHANGED scan \/ ScanLike(scan')
    BY <2>1 DEF WatchInv, ScanType, ScanLike
  <2>3. task' = task \/ ~running
    BY <2>1 DEF QuickAnalysis, canSwitchCase
  <2> QED BY <1>1, <2>2, <2>3, WatchClick
<1> QED BY <1>2, <1>3, <1>4, <1>5, <1>6, <1>7

LEMMA WatchPause == ASSUME WatchInv, Pause PROVE WatchInv'
<1>1. UNCHANGED <<case, task>> /\ scan' = [scan EXCEPT !.held = TRUE]
  BY DEF Pause
<1>2. PICK request \in {"pause", "cancel"} : thread' = Controlled(request) \/ UNCHANGED thread
  BY DEF Pause
<1>3. ScanLike(scan')
  BY <1>1 DEF WatchInv, ScanType, ScanLike
<1> QED BY <1>1, <1>2, <1>3, ScanEdited, ToldThreads, WatchFrame DEF WatchInv, busy

LEMMA WatchResume == ASSUME WatchInv, Resume PROVE WatchInv'
<1>1. ScanLike([scan EXCEPT !.held = FALSE])
  BY DEF WatchInv, ScanType, ScanLike
<1> QED BY <1>1, ScanStarts DEF Resume

(* An operation that opens another case leaves the scan that runs.          *)
LEMMA WatchChosen ==
  ASSUME WatchInv, UNCHANGED <<case, scan>>, NEW what, Chosen(what) PROVE WatchInv'
<1>1. CASE UNCHANGED thread /\ (task' = task \/ ~running)
  BY <1>1, WatchClick
<1>2. CASE running /\ thread' = [thread EXCEPT ![scan.active].left = TRUE]
  <2>1. PICK g \in Handles : g = scan.active
    BY <1>2 DEF WatchInv, ScanType, running
  <2>2. \A h \in Handles : thread'[h] = IF h = g THEN [thread[g] EXCEPT !.left = TRUE] ELSE thread[h]
    BY <1>2, <2>1 DEF WatchInv, ThreadsType
  <2>3. thread' = [h \in Handles |-> thread'[h]]
    BY <1>2, <2>1 DEF WatchInv, ThreadsType
  <2>4. /\ [thread[g] EXCEPT !.left = TRUE] \in
             [state : ThreadStates, case : {thread[g].case}, source : {thread[g].source},
              control : {"run", "pause", "cancel"}, left : BOOLEAN]
        /\ [thread[g] EXCEPT !.left = TRUE].state = thread[g].state
        /\ [thread[g] EXCEPT !.left = TRUE].case = thread[g].case
        /\ [thread[g] EXCEPT !.left = TRUE].source = thread[g].source
        /\ [thread[g] EXCEPT !.left = TRUE].left
    BY DEF WatchInv, ThreadsType
  <2>5. ThreadsType'
    BY <2>2, <2>3, <2>4 DEF WatchInv, ThreadsType
  <2>6. thread'[scan.active].left
    BY <2>1, <2>2, <2>4
  <2> QED BY <2>2, <2>4, <2>5, <2>6, WatchFrame DEF WatchInv, ScanType
<1> QED BY <1>1, <1>2 DEF Chosen, QuickAnalysis, canSwitchCase, RunTask

LEMMA WatchChoices ==
  ASSUME WatchInv,
         Choose \/ Discard \/ SaveCopy \/ Restore \/ SetReadonly \/ Forget \/ NoInput \/ CloseWindow
  PROVE  WatchInv'
<1>1. UNCHANGED <<case, scan>>
  BY DEF Choose, Discard, SaveCopy, Restore, SetReadonly, Forget, NoInput, CloseWindow, process
<1>2. CASE Choose \/ Discard
  <2>1. (\E what : Chosen(what)) \/ UNCHANGED <<task, thread>>
    BY <1>2 DEF Choose, Discard
  <2> QED BY <1>1, <2>1, WatchChosen, WatchClick
<1>3. CASE SaveCopy \/ Restore \/ SetReadonly \/ Forget \/ NoInput \/ CloseWindow
  <2>1. UNCHANGED thread
    BY <1>3 DEF SaveCopy, Restore, SetReadonly, Forget, NoInput, CloseWindow, process
  <2>2. task' = task \/ ~running
    <3>1. CASE SaveCopy
      BY <3>1 DEF SaveCopy, canSwitchCase
    <3>2. CASE Restore
      BY <3>2 DEF Restore, WatchInv
    <3>3. CASE SetReadonly \/ Forget \/ NoInput \/ CloseWindow
      BY <3>3 DEF SetReadonly, Forget, NoInput, CloseWindow, process
    <3> QED BY <1>3, <3>1, <3>2, <3>3
  <2> QED BY <1>1, <2>1, <2>2, WatchClick
<1> QED BY <1>2, <1>3

LEMMA WatchTaskEnds == ASSUME TaskType, WatchInv, TaskEnds PROVE WatchInv'
<1>1. UNCHANGED <<case, scan, thread>> /\ busy
  BY DEF TaskEnds
<1>2. PICK done \in {"yes", "failed"} : task' = [task EXCEPT !.done = done]
  BY DEF TaskEnds
<1>3. task'.work = task.work
  BY <1>1, <1>2 DEF TaskType
<1> QED BY <1>1, <1>3, WatchFrame DEF WatchInv, ScanType, ThreadsType

LEMMA WatchThread == ASSUME WatchInv, NEW h \in Handles, ScanEnds(h) PROVE WatchInv'
<1>1. UNCHANGED <<case, scan, task>> /\ thread[h].state = "running"
  BY DEF ScanEnds
<1>2. PICK new : /\ thread' = [thread EXCEPT ![h] = new]
                 /\ \/ new = Idle /\ scan.active # h
                    \/ \E state \in {"completed", "stopped", "failed"} : new = [thread[h] EXCEPT !.state = state]
  <2>1. PICK state \in {"completed", "stopped", "failed"} :
          thread' = [thread EXCEPT ![h] = IF scan.active = h THEN [@ EXCEPT !.state = state] ELSE Idle]
    BY DEF ScanEnds
  <2> QED BY <2>1
<1>3. /\ new \in [state : ThreadStates, case : {new.case}, source : {new.source},
                  control : {"run", "pause", "cancel"}, left : BOOLEAN]
      /\ \/ new.state = "none" /\ scan.active # h
         \/ new.case = thread[h].case /\ new.left = thread[h].left
  <2>1. CASE new = Idle /\ scan.active # h
    BY <2>1 DEF ThreadStates, Idle
  <2>2. ASSUME NEW state \in {"completed", "stopped", "failed"}, new = [thread[h] EXCEPT !.state = state]
        PROVE  /\ new \in [state : ThreadStates, case : {new.case}, source : {new.source},
                            control : {"run", "pause", "cancel"}, left : BOOLEAN]
               /\ new.case = thread[h].case /\ new.left = thread[h].left
    BY <2>2 DEF WatchInv, ThreadsType, ThreadStates
  <2> QED BY <1>2, <2>1, <2>2
<1>4. /\ thread' = [g \in Handles |-> thread'[g]]
      /\ \A g \in Handles : thread'[g] = IF g = h THEN new ELSE thread[g]
  BY <1>2 DEF WatchInv, ThreadsType
<1>5. ThreadsType'
  BY <1>3, <1>4 DEF WatchInv, ThreadsType
<1>6. running => scan.active \in Handles
  BY DEF WatchInv, ScanType, running
<1> QED BY <1>1, <1>3, <1>4, <1>5, <1>6, WatchFrame DEF WatchInv, ScanType, busy

LEMMA WatchStep == TaskType /\ WatchInv /\ [Next]_desktopVars => WatchInv'
<1> SUFFICES ASSUME TaskType, WatchInv, [Next]_desktopVars PROVE WatchInv'
  OBVIOUS
<1>1. CASE Start \/ Quit \/ Crash
  BY <1>1, WatchReset DEF Start, Started, Quit, Crash, Gone
<1>2. CASE Close \/ Callback \/ Result \/ Queue
  BY <1>2, WatchClose, WatchCallback, WatchResult, WatchQueue
<1>3. CASE Click \/ NoInput \/ Persist \/ CloseWindow
  BY <1>3, WatchEdits, WatchPause, WatchResume, WatchChoices DEF Click
<1>4. CASE TaskEnds \/ \E h \in Handles : ScanEnds(h)
  BY <1>4, WatchTaskEnds, WatchThread
<1>5. CASE UNCHANGED desktopVars
  BY <1>5, WatchClick DEF desktopVars, process
<1> QED BY <1>1, <1>2, <1>3, <1>4, <1>5 DEF Next, FrameStep

(* There is never a scan but the one that the user sees and can pause,      *)
(* which writes to the case that is open, and those that he left by opening *)
(* another case: although cases are opened, copied and left by operations   *)
(* that end some frames after they were asked for.                          *)
THEOREM ScansAreWatched == Spec => []ScanIsWatched
<1>1. Init => KeptInv /\ WatchInv
  BY SessionInit, WatchReset DEF Init, KeptInv, WatchInv, ScanIsWatched, ScanType, ThreadsType, ThreadStates,
     NewScanUi, Idle, running, busy
<1>2. KeptInv /\ WatchInv /\ [Next]_desktopVars => KeptInv' /\ WatchInv'
  BY SessionStep, WatchStep DEF KeptInv
<1>3. WatchInv => ScanIsWatched
  BY DEF WatchInv
<1> QED BY <1>1, <1>2, <1>3, PTL DEF Spec

-----------------------------------------------------------------------------
(* What the settings and the queue are made of.                             *)

LEMMA KeptQueue ==
  ASSUME NEW q, QueueOK(q), NEW positions \in SUBSET DOMAIN q
  PROVE  /\ QueueOK(Kept(q, positions))
         /\ \A s : s \in ToSet(Kept(q, positions)) <=> \E p \in positions : s = q[p]
<1>1. QueueOK(Kept(q, positions))
  <2>1. Len(q) \in Nat /\ Len(Kept(q, positions)) \in Nat /\ QueueLimit \in Nat
    BY KeptElements, DesktopAssumption DEF QueueOK
  <2> QED BY <2>1, KeptElements DEF QueueOK
<1>2. \A s : s \in ToSet(Kept(q, positions)) <=> \E p \in positions : s = q[p]
  <2>1. /\ \A i \in DOMAIN Kept(q, positions) : \E p \in positions : Kept(q, positions)[i] = q[p]
        /\ \A p \in positions : \E i \in DOMAIN Kept(q, positions) : Kept(q, positions)[i] = q[p]
    BY KeptElements DEF QueueOK
  <2> QED BY <2>1 DEF ToSet
<1> QED BY <1>1, <1>2

LEMMA PreparedQueue ==
  ASSUME NEW q, QueueOK(q), NEW there
  PROVE  /\ QueueOK(Prepare(q, there))
         /\ \A s : s \in ToSet(Prepare(q, there)) <=> s \in ToSet(q) /\ s \in there
<1> DEFINE positions == {i \in DOMAIN q : q[i] \in there}
<1>1. /\ QueueOK(Kept(q, positions))
      /\ \A s : s \in ToSet(Kept(q, positions)) <=> \E p \in positions : s = q[p]
  <2>1. positions \in SUBSET DOMAIN q
    OBVIOUS
  <2> HIDE DEF positions
  <2> QED BY <2>1, KeptQueue
<1>2. \A s : (\E p \in positions : s = q[p]) <=> s \in ToSet(q) /\ s \in there
  BY DEF ToSet
<1> QED BY <1>1, <1>2 DEF Prepare

-----------------------------------------------------------------------------
(* What the settings have of a case, and no two entries of one case.        *)
Entries == [case : Cases, sources : {q \in Seq(Sources) : QueueOK(q) /\ q # << >>}]
Unique(list) == \A i, j \in DOMAIN list : list[i].case = list[j].case => i = j

LEMMA WaitingIs ==
  ASSUME NEW list, NEW o
  PROVE  o \in Waiting(list) <=>
           \E i \in DOMAIN list : \E n \in DOMAIN list[i].sources : o = <<list[i].case, list[i].sources[n]>>
BY DEF Waiting

LEMMA WithoutIs ==
  ASSUME NEW list \in Seq(Entries), NEW c
  PROVE  /\ Without(list, c) \in Seq(Entries) /\ Len(Without(list, c)) <= Len(list)
         /\ Unique(list) => Unique(Without(list, c))
         /\ \A i \in DOMAIN Without(list, c) :
              Without(list, c)[i].case # c /\ \E j \in DOMAIN list : Without(list, c)[i] = list[j]
         /\ \A o \in Waiting(list) : o[1] # c => o \in Waiting(Without(list, c))
         /\ \A o \in Waiting(Without(list, c)) : o \in Waiting(list) /\ o[1] # c
<1> DEFINE positions == {i \in DOMAIN list : list[i].case # c}
           kept == Kept(list, positions)
<1>1. kept \in Seq(Entries) /\ Keeps(kept, list, positions)
  <2>1. positions \in SUBSET DOMAIN list
    OBVIOUS
  <2> HIDE DEF positions
  <2> QED BY <2>1, KeptIs
<1>2. kept = Without(list, c)
  BY DEF Without
<1> HIDE DEF kept
<1>3. PICK at \in [DOMAIN kept -> positions] :
        /\ \A i \in DOMAIN kept : kept[i] = list[at[i]]
        /\ \A i, j \in DOMAIN kept : i < j => at[i] < at[j]
        /\ \A p \in positions : \E i \in DOMAIN kept : at[i] = p
  BY <1>1 DEF Keeps
<1>4. \A i \in DOMAIN kept : at[i] \in DOMAIN list /\ kept[i].case # c /\ kept[i] = list[at[i]]
  BY <1>3
<1>5. Unique(list) => Unique(kept)
  <2> SUFFICES ASSUME Unique(list), NEW i \in DOMAIN kept, NEW j \in DOMAIN kept,
                      kept[i].case = kept[j].case
               PROVE  i = j
    BY DEF Unique
  <2>1. at[i] = at[j]
    BY <1>3, <1>4 DEF Unique
  <2>2. i \in Nat /\ j \in Nat /\ at[i] \in Nat /\ at[j] \in Nat
    BY <1>1, <1>4
  <2> QED BY <1>3, <2>1, <2>2
<1>6. ASSUME NEW o \in Waiting(list), o[1] # c PROVE o \in Waiting(kept)
  <2>1. PICK p \in DOMAIN list : \E n \in DOMAIN list[p].sources : o = <<list[p].case, list[p].sources[n]>>
    BY WaitingIs
  <2>2. p \in positions
    BY <1>6, <2>1
  <2>3. PICK i \in DOMAIN kept : kept[i] = list[p]
    BY <1>3, <2>2
  <2> QED BY <2>1, <2>3, WaitingIs
<1>7. ASSUME NEW o \in Waiting(kept) PROVE o \in Waiting(list) /\ o[1] # c
  <2>1. PICK i \in DOMAIN kept : \E n \in DOMAIN kept[i].sources : o = <<kept[i].case, kept[i].sources[n]>>
    BY WaitingIs
  <2>2. at[i] \in DOMAIN list /\ kept[i] = list[at[i]] /\ kept[i].case # c
    BY <1>3, <1>4
  <2>3. o \in Waiting(list)
    BY <2>1, <2>2, WaitingIs
  <2> QED BY <2>1, <2>2, <2>3
<1>8. Len(kept) <= Len(list)
  BY <1>1 DEF Keeps
<1> QED BY <1>1, <1>2, <1>4, <1>5, <1>6, <1>7, <1>8

LEMMA EntryIs ==
  ASSUME NEW list \in Seq(Entries), NEW c
  PROVE  IF EntryOf(list, c) = << >> THEN \A i \in DOMAIN list : list[i].case # c
         ELSE \E i \in DOMAIN list : list[i].case = c /\ EntryOf(list, c)[1] = list[i]
<1> DEFINE positions == {i \in DOMAIN list : list[i].case = c}
           kept == Kept(list, positions)
<1>1. /\ \A i \in DOMAIN kept : \E p \in positions : kept[i] = list[p]
      /\ \A p \in positions : \E i \in DOMAIN kept : kept[i] = list[p]
      /\ kept \in Seq(Entries)
  <2>1. positions \in SUBSET DOMAIN list
    OBVIOUS
  <2> HIDE DEF positions
  <2> QED BY <2>1, KeptElements
<1>2. kept = EntryOf(list, c)
  BY DEF EntryOf
<1> HIDE DEF kept
<1>3. kept = << >> => DOMAIN kept = {}
  OBVIOUS
<1>4. kept # << >> => 1 \in DOMAIN kept
  BY <1>1
<1> QED BY <1>1, <1>2, <1>3, <1>4

-----------------------------------------------------------------------------
(* The orders a queue can be brought into: moving sources neither adds one  *)
(* nor loses one.                                                           *)
Orders(q) == {r \in Seq(Sources) : QueueOK(r) /\ Len(r) = Len(q) /\ ToSet(r) = ToSet(q)}

LEMMA SwapOrders ==
  ASSUME NEW q, NEW r \in Orders(q), NEW i \in DOMAIN r, NEW j \in DOMAIN r PROVE Swap(r, i, j) \in Orders(q)
<1> DEFINE t == Swap(r, i, j)
<1>1. r \in Seq(Sources) /\ QueueOK(r) /\ Len(r) = Len(q) /\ ToSet(r) = ToSet(q)
  BY DEF Orders
<1>2. /\ t \in Seq(Sources) /\ Len(t) = Len(r) /\ DOMAIN t = DOMAIN r
      /\ \A k \in DOMAIN r : t[k] = IF k = j THEN r[i] ELSE IF k = i THEN r[j] ELSE r[k]
  BY <1>1 DEF Swap
<1> HIDE DEF t
<1>3. IsInjective(t)
  BY <1>1, <1>2 DEF QueueOK, IsInjective
<1>4. ToSet(t) = ToSet(r)
  <2>1. \A k \in DOMAIN r : \E l \in DOMAIN t : t[l] = r[k]
    <3> TAKE k \in DOMAIN r
    <3>1. CASE k = i
      BY <1>2, <3>1
    <3>2. CASE k = j /\ k # i
      BY <1>2, <3>2
    <3>3. CASE k # i /\ k # j
      BY <1>2, <3>3
    <3> QED BY <3>1, <3>2, <3>3
  <2>2. \A k \in DOMAIN t : \E l \in DOMAIN r : r[l] = t[k]
    BY <1>2
  <2> QED BY <2>1, <2>2 DEF ToSet
<1>5. QueueOK(t)
  BY <1>1, <1>2, <1>3 DEF QueueOK
<1> QED BY <1>1, <1>2, <1>4, <1>5 DEF Orders, t

LEMMA MoveUpOrders ==
  ASSUME NEW queue, QueueOK(queue), NEW selected PROVE MoveUp(queue, selected) \in Orders(queue)
<1> DEFINE N == Len(queue)
           S == Orders(queue)
           Step(q, i) == IF i > 1 /\ q[i] \in selected /\ q[i - 1] \notin selected THEN Swap(q, i, i - 1) ELSE q
           At(f, i) == IF i = 0 THEN queue ELSE Step(f[i - 1], i)
           step == [x \in S \X (1..N) |-> Step(x[1], x[2])]
           Is(f) == f = [i \in 0..N |-> At(f, i)]
<1>1. N \in Nat /\ queue \in S /\ \A i \in 1..N : i \in Nat \ {0} /\ i - 1 \in 0..N /\ (i > 1 => i - 1 \in 1..N)
  BY DEF QueueOK, Orders
<1>2. \A x \in S, i \in 1..N : Step(x, i) \in S
  <2> TAKE x \in S, i \in 1..N
  <2>1. DOMAIN x = 1..N
    BY DEF Orders
  <2> QED BY <1>1, <2>1, SwapOrders
<1>3. step \in [S \X (1..N) -> S] /\ \A x \in S, i \in 1..N : step[<<x, i>>] = Step(x, i)
  <2> HIDE DEF S, N, Step
  <2> QED BY <1>2
<1>4. Recursive(N, S, queue, step)
  <2> HIDE DEF S, N, step
  <2> QED BY <1>1, <1>3, Recursion
<1>5. \E g : Is(g)
  <2>1. PICK g \in [0..N -> S] : g[0] = queue /\ \A i \in 1..N : g[i] = step[<<g[i - 1], i>>]
    BY <1>4 DEF Recursive
  <2>2. \A i \in 1..N : g[i] = Step(g[i - 1], i)
    <3> HIDE DEF S, N, step, Step
    <3> QED BY <1>1, <1>3, <2>1
  <2>3. \A i \in 0..N : g[i] = At(g, i)
    <3>1. \A i \in 0..N : i = 0 \/ i \in 1..N
      BY <1>1
    <3> HIDE DEF N, Step
    <3> QED BY <1>1, <2>1, <2>2, <3>1
  <2>4. Is(g)
    <3> HIDE DEF At, N
    <3> QED BY <2>1, <2>3
  <2> QED BY <2>4
<1>6. PICK f : Is(f) /\ f = CHOOSE g : Is(g)
  <2> HIDE DEF Is
  <2> QED BY <1>5
<1>7. MoveUp(queue, selected) = f[N]
  BY <1>6 DEF MoveUp
<1>8. DOMAIN f = 0..N /\ \A i \in 0..N : f[i] = At(f, i)
  <2> HIDE DEF At, N
  <2> QED BY <1>6
<1>9. f[0] = queue /\ \A i \in 1..N : f[i] = Step(f[i - 1], i)
  <2>1. 0 \in 0..N /\ \A i \in 1..N : i \in 0..N
    BY <1>1
  <2> HIDE DEF N, Step
  <2> QED BY <1>1, <1>8, <2>1
<1>10. 0..N \subseteq {i \in 0..N : f[i] \in S}
  <2> DEFINE R == {i \in 0..N : f[i] \in S}
  <2>1. 0 \in R /\ \A i \in 1..N : i - 1 \in R => i \in R
    <3>1. 0 \in 0..N /\ \A i \in 1..N : i \in 0..N
      BY <1>1
    <3> HIDE DEF N, Step, S
    <3> QED BY <1>1, <1>2, <1>9, <3>1
  <2> HIDE DEF R, N
  <2>2. 0..N \subseteq R
    BY <1>1, <2>1, UpTo
  <2> QED BY <2>2 DEF R
<1>11. N \in 0..N
  BY <1>1
<1> QED BY <1>7, <1>10, <1>11

LEMMA ReverseOrders == ASSUME NEW q, NEW r \in Orders(q) PROVE Reverse(r) \in Orders(q)
<1>1. r \in Seq(Sources) /\ QueueOK(r) /\ Len(r) = Len(q) /\ ToSet(r) = ToSet(q)
  BY DEF Orders
<1> DEFINE N == Len(r)
           t == Reverse(r)
<1>2. N \in Nat /\ DOMAIN r = 1..N
  BY <1>1
<1>3. t = [i \in 1..N |-> r[(N - i) + 1]]
  BY DEF Reverse
<1>4. \A i \in 1..N : (N - i) + 1 \in 1..N /\ (N - ((N - i) + 1)) + 1 = i
  BY <1>2
<1>5. t \in Seq(Sources) /\ Len(t) = N /\ DOMAIN t = 1..N
  <2>1. \A i \in 1..N : r[(N - i) + 1] \in Sources
    BY <1>1, <1>2, <1>4
  <2> QED BY <1>2, <1>3, <2>1
<1>6. \A i \in 1..N : t[i] = r[(N - i) + 1]
  BY <1>3
<1> HIDE DEF t
<1>7. IsInjective(t)
  <2> SUFFICES ASSUME NEW i \in 1..N, NEW j \in 1..N, t[i] = t[j] PROVE i = j
    BY <1>5 DEF IsInjective
  <2>1. (N - i) + 1 = (N - j) + 1
    BY <1>1, <1>2, <1>4, <1>6 DEF QueueOK, IsInjective
  <2> QED BY <1>2, <2>1
<1>8. ToSet(t) = ToSet(r)
  <2>1. \A i \in 1..N : \E j \in 1..N : t[j] = r[i]
    <3> TAKE i \in 1..N
    <3>1. PICK j \in 1..N : j = (N - i) + 1 /\ (N - j) + 1 = i
      BY <1>4
    <3> QED BY <1>6, <3>1
  <2>2. \A i \in 1..N : \E j \in 1..N : r[j] = t[i]
    BY <1>4, <1>6
  <2>3. DOMAIN r = 1..N /\ DOMAIN t = 1..N
    BY <1>2, <1>5
  <2>4. ASSUME NEW x \in ToSet(t) PROVE x \in ToSet(r)
    BY <2>2, <2>3 DEF ToSet
  <2>5. ASSUME NEW x \in ToSet(r) PROVE x \in ToSet(t)
    BY <2>1, <2>3 DEF ToSet
  <2> HIDE DEF N
  <2> QED BY <2>4, <2>5
<1>9. QueueOK(t)
  BY <1>1, <1>5, <1>7 DEF QueueOK
<1> QED BY <1>1, <1>5, <1>8, <1>9 DEF Orders, t

LEMMA MoveDownOrders ==
  ASSUME NEW queue, QueueOK(queue), NEW selected PROVE MoveDown(queue, selected) \in Orders(queue)
<1>1. queue \in Orders(queue)
  BY DEF Orders, QueueOK
<1>2. Reverse(queue) \in Orders(queue)
  BY <1>1, ReverseOrders
<1>3. QueueOK(Reverse(queue)) /\ Orders(Reverse(queue)) = Orders(queue)
  BY <1>2 DEF Orders
<1>4. MoveUp(Reverse(queue), selected) \in Orders(queue)
  BY <1>3, MoveUpOrders
<1> QED BY <1>4, ReverseOrders DEF MoveDown

-----------------------------------------------------------------------------
(* The invariant of the queues.  A list that can be saved: one entry a case. *)
Saves == {list \in Seq(Entries) : Unique(list) /\ Len(list) <= PendingLimit}

QueuesInv ==
  /\ QueueOK(scan.queue)
  /\ pending \in Saves /\ file \in Saves
  /\ case \in Cases \cup {None} /\ (case \in Sessions => session = case)
  /\ stage \in {"close", "callback", "result", "queue", "input", "persist", "quit"}

(* An operation that is under way will leave nothing behind in the session  *)
(* that it leaves, and a quick scan has its session to itself.              *)
BegunInv ==
  busy =>
    /\ task.work # "refresh" => task.case \in Cases /\ \A o \in owed \cup fresh : o[1] # session
    /\ task.work = "restore" => case = None
    /\ task.work = "quick" =>
         /\ task.write /\ \E s \in Sources : task.sources = <<s>>
         /\ task.case # case
         /\ \A i \in DOMAIN pending : pending[i].case # task.case
         /\ \A o \in owed : o[1] # task.case

(* A source waits in the settings, and in the queue of the open case.       *)
StillWaits(o) == o \in Waiting(pending) /\ (o[1] = case => o[2] \in ToSet(scan.queue))
(* Until the frame persists it, a new source waits in the queue only.       *)
JustAdded(o) == o[1] = case /\ o[2] \in ToSet(scan.queue)

(* What the program owes to the user waits, in memory while it runs and in  *)
(* the file when it does not.                                               *)
OwedInv ==
  /\ owed \subseteq Cases \X Sources /\ fresh \subseteq Cases \X Sources
  /\ up => /\ \A o \in owed : StillWaits(o)
           /\ \A o \in fresh : JustAdded(o)
           /\ stage \in {"close", "callback", "quit"} => fresh = {}
  /\ ~up => owed \subseteq Waiting(file) /\ fresh = {}

(* A session that the user discards has nothing that waits.                 *)
AskedInv ==
  /\ ui.discard \/ ui.confirm \/ ui.wanted # None => case # None
  /\ ui.discard => \A o \in owed : o[1] # session

WaitInv == QueuesInv /\ BegunInv /\ OwedInv /\ AskedInv

-----------------------------------------------------------------------------
(* A step that takes nothing out of the queue but what it owes no longer.   *)
FreshStage == stage \in {"close", "callback", "quit"} => fresh = {}

LEMMA OwedFrame ==
  ASSUME OwedInv, up, up', UNCHANGED <<case, pending>>, owed' \subseteq owed, fresh' \subseteq fresh,
         FreshStage',
         \A o \in owed' \cup fresh' :
           o[1] = case /\ o[2] \in ToSet(scan.queue) => o[2] \in ToSet(scan'.queue)
  PROVE  OwedInv'
<1>1. \A o \in owed' : StillWaits(o)'
  BY DEF OwedInv, StillWaits
<1>2. \A o \in fresh' : JustAdded(o)'
  BY DEF OwedInv, JustAdded
<1> QED BY <1>1, <1>2 DEF OwedInv, FreshStage

LEMMA BegunFrame ==
  ASSUME BegunInv, UNCHANGED <<case, session, task>>, owed' \subseteq owed, fresh' \subseteq fresh,
         \A i \in DOMAIN pending' : \E j \in DOMAIN pending : pending'[i].case = pending[j].case
  PROVE  BegunInv'
BY DEF BegunInv, busy

LEMMA StartsFrom ==
  ASSUME WatchInv, NEW view, ScanLike(view), NEW source, StartScan(view, source)
  PROVE  scan'.queue = view.queue /\ scan'.held = view.held
<1>1. CASE scan' = view
  BY <1>1
<1>2. CASE \E h \in Handles : scan' = [view EXCEPT !.active = h, !.source = source]
  BY <1>2 DEF ScanLike
<1> QED BY <1>1, <1>2 DEF StartScan

-----------------------------------------------------------------------------
(* The program ends with what waits in the file, and begins with it.        *)
LEMMA GoneWaits ==
  ASSUME WaitInv, Gone, file' \in Saves, owed' \subseteq owed, owed' \subseteq Waiting(file'), fresh' = {}
  PROVE  WaitInv'
<1>1. QueueOK(<< >>) /\ << >> \in Saves
  BY DesktopAssumption DEF QueueOK, IsInjective, Saves, Unique
<1>2. /\ scan'.queue = << >> /\ pending' = << >> /\ task' = None /\ case' = None /\ session' = None /\ ~up'
      /\ ui'.discard = FALSE /\ ui'.confirm = FALSE /\ ui'.wanted = None /\ stage' = "close"
  BY DEF Gone, NewScanUi, NewSessionUi
<1>3. QueuesInv'
  BY <1>1, <1>2, DesktopAssumption DEF QueuesInv, Cases
<1>4. BegunInv' /\ AskedInv'
  BY <1>2 DEF BegunInv, AskedInv, busy
<1>5. OwedInv'
  BY <1>2 DEF WaitInv, OwedInv
<1> QED BY <1>3, <1>4, <1>5 DEF WaitInv

LEMMA StartWaits == ASSUME WaitInv, Start PROVE WaitInv'
<1>1. /\ scan'.queue = << >> /\ pending' = file /\ task' = None /\ case' = None /\ session' = None /\ up'
      /\ ui'.discard = FALSE /\ ui'.confirm = FALSE /\ ui'.wanted = None /\ stage' = "close"
      /\ ~up /\ UNCHANGED <<file, owed, fresh>>
  BY DEF Start, Started, NewScanUi, NewSessionUi, disk, history
<1>2. QueueOK(<< >>)
  BY DesktopAssumption DEF QueueOK, IsInjective
<1>3. QueuesInv'
  BY <1>1, <1>2, DesktopAssumption DEF WaitInv, QueuesInv, Cases
<1>4. BegunInv' /\ AskedInv'
  BY <1>1 DEF BegunInv, AskedInv, busy
<1>5. \A o \in owed' : StillWaits(o)'
  <2>1. \A o \in owed : o \in Waiting(file) /\ o[1] \in Cases
    BY <1>1 DEF WaitInv, OwedInv
  <2> QED BY <1>1, <2>1, DesktopAssumption DEF StillWaits, Cases
<1>6. OwedInv'
  BY <1>1, <1>5 DEF WaitInv, OwedInv
<1> QED BY <1>3, <1>4, <1>6 DEF WaitInv

LEMMA CrashWaits == ASSUME WaitInv, Crash PROVE WaitInv'
<1>1. up /\ Gone /\ file' = file /\ fresh' = {}
  BY DEF Crash, disk
<1>2. owed' \subseteq owed /\ owed' \subseteq Waiting(file')
  <2>1. CASE file = pending
    BY <1>1, <2>1 DEF Crash, WaitInv, OwedInv, StillWaits
  <2>2. CASE file # pending
    BY <1>1, <2>2 DEF Crash
  <2> QED BY <2>1, <2>2
<1> QED BY <1>1, <1>2, GoneWaits DEF WaitInv, QueuesInv

LEMMA WithoutSaves == ASSUME NEW list \in Saves, NEW c PROVE Without(list, c) \in Saves
<1>1. list \in Seq(Entries) /\ Unique(list) /\ Len(list) <= PendingLimit /\ Len(list) \in Nat
  BY DEF Saves
<1>2. /\ Without(list, c) \in Seq(Entries) /\ Len(Without(list, c)) <= Len(list)
      /\ Unique(Without(list, c))
  BY <1>1, WithoutIs
<1>3. Len(Without(list, c)) <= PendingLimit
  BY <1>1, <1>2, DesktopAssumption
<1> QED BY <1>2, <1>3 DEF Saves

LEMMA QuitWaits == ASSUME KeptInv, WaitInv, Quit PROVE WaitInv'
<1>1. up /\ stage = "quit" /\ Gone /\ fresh' = fresh /\ fresh = {}
  BY DEF Quit, WaitInv, OwedInv
<1> DEFINE kept == Without(pending, session)
<1>2. file' \in {kept, file} /\ file' \in Saves
  <2>1. kept \in Saves
    BY WithoutSaves DEF WaitInv, QueuesInv
  <2>2. file' \in {kept, file}
    BY DEF Quit, Save
  <2> HIDE DEF kept
  <2> QED BY <2>1, <2>2 DEF WaitInv, QueuesInv
<1>3. owed' \subseteq owed /\ owed' \subseteq Waiting(file')
  <2>1. CASE file' = kept
    <3>1. owed' = owed
      BY <2>1 DEF Quit
    <3>2. session = None \/ ui.discard
      BY <1>1 DEF KeptInv, ClosingInv
    <3>3. \A o \in owed : o[1] # session
      BY <3>2, DesktopAssumption DEF WaitInv, AskedInv, OwedInv, Cases
    <3>4. \A o \in owed' : o \in Waiting(pending) /\ o[1] # session
      BY <1>1, <3>1, <3>3 DEF WaitInv, OwedInv, StillWaits
    <3>5. \A o \in Waiting(pending) : o[1] # session => o \in Waiting(kept)
      BY WithoutIs DEF WaitInv, QueuesInv, Saves
    <3> QED BY <2>1, <3>1, <3>4, <3>5
  <2>2. CASE file' # kept
    BY <2>2 DEF Quit
  <2> QED BY <2>1, <2>2
<1> QED BY <1>1, <1>2, <1>3, GoneWaits

LEMMA QueuesFrame ==
  ASSUME QueuesInv, UNCHANGED <<case, session, pending, file>>, QueueOK(scan'.queue),
         stage' \in {"close", "callback", "result", "queue", "input", "persist", "quit"}
  PROVE  QueuesInv'
BY DEF QueuesInv

LEMMA CloseWaits == ASSUME KeptInv, WatchInv, WaitInv, Close PROVE WaitInv'
<1> DEFINE working == busy \/ running
           asks == window.asked /\ session # None /\ ~ui.discard /\ ~working
<1>1. /\ up /\ stage = "close" /\ stage' = "callback"
      /\ UNCHANGED <<up, case, readonly, session, task, pending, file, owed, fresh>>
      /\ ui' = [ui EXCEPT !.confirm = @ \/ asks]
      /\ scan' = [scan EXCEPT !.held = TRUE, !.closing = TRUE] \/ scan' = scan
  BY DEF Close, disk, history
<1>2. scan'.queue = scan.queue /\ (scan'.held = TRUE \/ scan'.held = scan.held)
  BY <1>1 DEF WatchInv, ScanType
<1>3. /\ ui'.discard = ui.discard /\ ui'.wanted = ui.wanted
      /\ ui'.confirm => ui.confirm \/ session # None
  BY <1>1 DEF KeptInv, UiType
<1>4. session # None => case # None
  BY DesktopAssumption DEF KeptInv, SessionInv
<1>6. QueuesInv'
  BY <1>1, <1>2, QueuesFrame DEF WaitInv, QueuesInv
<1>7. BegunInv'
  BY <1>1, BegunFrame DEF WaitInv
<1>8. OwedInv'
  <2>1. FreshStage'
    BY <1>1 DEF WaitInv, OwedInv, FreshStage
  <2> QED BY <1>1, <1>2, <2>1, OwedFrame DEF WaitInv
<1>9. AskedInv'
  BY <1>1, <1>2, <1>3, <1>4 DEF WaitInv, AskedInv
<1> QED BY <1>6, <1>7, <1>8, <1>9 DEF WaitInv

LEMMA ResultWaits == ASSUME WatchInv, WaitInv, Result PROVE WaitInv'
<1>1. /\ up /\ stage = "result" /\ stage' = "queue"
      /\ UNCHANGED <<up, case, readonly, session, ui, task, pending, file, owed, fresh>>
  BY DEF Result, disk, history
<1>2. scan'.queue = scan.queue
  BY DEF Result, WatchInv, ScanType
<1>3. FreshStage'
  BY <1>1 DEF FreshStage
<1>4. OwedInv'
  BY <1>1, <1>2, <1>3, OwedFrame DEF WaitInv
<1>5. QueuesInv'
  BY <1>1, <1>2, QueuesFrame DEF WaitInv, QueuesInv
<1>6. BegunInv' /\ AskedInv'
  BY <1>1, BegunFrame DEF WaitInv, AskedInv
<1> QED BY <1>4, <1>5, <1>6 DEF WaitInv

-----------------------------------------------------------------------------
LEMMA TailQueue ==
  ASSUME NEW q, QueueOK(q), q # << >>
  PROVE  QueueOK(Tail(q)) /\ \A s \in ToSet(q) : s = Head(q) \/ s \in ToSet(Tail(q))
<1>1. /\ q \in Seq(Sources) /\ Len(q) \in Nat /\ Len(q) > 0 /\ Len(q) <= QueueLimit /\ IsInjective(q)
      /\ QueueLimit \in Nat
  BY DesktopAssumption DEF QueueOK
<1>2. /\ Tail(q) \in Seq(Sources) /\ Len(Tail(q)) = Len(q) - 1
      /\ \A i \in 1..(Len(q) - 1) : Tail(q)[i] = q[i + 1]
  BY <1>1
<1>3. DOMAIN q = 1..Len(q) /\ DOMAIN Tail(q) = 1..(Len(q) - 1)
  BY <1>1, <1>2
<1>4. QueueOK(Tail(q))
  <2>1. ASSUME NEW i \in DOMAIN Tail(q), NEW j \in DOMAIN Tail(q), Tail(q)[i] = Tail(q)[j] PROVE i = j
    <3>1. i + 1 \in DOMAIN q /\ j + 1 \in DOMAIN q /\ q[i + 1] = q[j + 1]
      BY <1>1, <1>2, <1>3, <2>1
    <3>2. i + 1 = j + 1
      BY <1>1, <3>1 DEF IsInjective
    <3> QED BY <1>3, <3>2
  <2>2. IsInjective(Tail(q))
    BY <2>1 DEF IsInjective
  <2>3. Len(Tail(q)) <= QueueLimit
    BY <1>1, <1>2
  <2> QED BY <1>2, <2>2, <2>3 DEF QueueOK
<1>5. ASSUME NEW s \in ToSet(q) PROVE s = Head(q) \/ s \in ToSet(Tail(q))
  <2>1. PICK i \in 1..Len(q) : s = q[i]
    BY <1>3 DEF ToSet
  <2>2. CASE i = 1
    BY <1>1, <2>1, <2>2
  <2>3. CASE i # 1
    <3>1. i - 1 \in 1..(Len(q) - 1) /\ (i - 1) + 1 = i
      BY <1>1, <2>3
    <3>2. Tail(q)[i - 1] = s
      BY <1>2, <2>1, <3>1
    <3> QED BY <1>3, <3>1, <3>2 DEF ToSet
  <2> QED BY <2>2, <2>3
<1> QED BY <1>4, <1>5

(* A refresh begins in between.                                             *)
LEMMA RefreshBegins ==
  ASSUME BegunInv, UNCHANGED <<case, session, pending, owed, fresh>>, RunTask("refresh", case, << >>)
  PROVE  BegunInv'
<1>1. CASE busy
  BY <1>1 DEF RunTask, busy, BegunInv
<1>2. CASE ~busy
  <2>1. task'.work = "refresh"
    BY <1>2 DEF RunTask
  <2> QED BY <2>1 DEF BegunInv
<1> QED BY <1>1, <1>2

LEMMA QueueWaits == ASSUME WatchInv, WaitInv, Queue PROVE WaitInv'
<1>1. /\ up /\ stage = "queue" /\ stage' = "input"
      /\ UNCHANGED <<up, case, readonly, session, ui, pending, file>>
  BY DEF Queue, disk
<1>2. FreshStage'
  BY <1>1 DEF FreshStage
<1>3. CASE /\ scan' = [scan EXCEPT !.refresh = FALSE] /\ RunTask("refresh", case, << >>)
           /\ UNCHANGED <<owed, fresh>>
  <2>1. scan'.queue = scan.queue
    BY <1>3 DEF WatchInv, ScanType
  <2>2. QueuesInv' /\ OwedInv' /\ AskedInv'
    BY <1>1, <1>2, <1>3, <2>1, QueuesFrame, OwedFrame DEF WaitInv, QueuesInv, AskedInv
  <2> QED BY <1>1, <1>3, <2>2, RefreshBegins DEF WaitInv
<1>4. CASE /\ scan.queue # << >> /\ UNCHANGED task
           /\ StartScan([scan EXCEPT !.queue = Tail(@)], Head(scan.queue))
           /\ owed' = owed \ {<<case, Head(scan.queue)>>}
           /\ fresh' = fresh \ {<<case, Head(scan.queue)>>}
  <2> DEFINE view == [scan EXCEPT !.queue = Tail(@)]
  <2>1. ScanLike(view) /\ view.queue = Tail(scan.queue)
    BY DEF WatchInv, ScanType, ScanLike
  <2> HIDE DEF view
  <2>2. StartScan(view, Head(scan.queue))
    BY <1>4 DEF view
  <2>3. scan'.queue = Tail(scan.queue)
    BY <2>1, <2>2, StartsFrom
  <2>4. /\ QueueOK(Tail(scan.queue))
        /\ \A s \in ToSet(scan.queue) : s = Head(scan.queue) \/ s \in ToSet(Tail(scan.queue))
    BY <1>4, TailQueue DEF WaitInv, QueuesInv
  <2>5. \A o \in owed' \cup fresh' : o = <<o[1], o[2]>> /\ o # <<case, Head(scan.queue)>>
    BY <1>4 DEF WaitInv, OwedInv
  <2>6. \A o \in owed' \cup fresh' :
          o[1] = case /\ o[2] \in ToSet(scan.queue) => o[2] \in ToSet(scan'.queue)
    BY <2>3, <2>4, <2>5
  <2>7. OwedInv'
    BY <1>1, <1>2, <1>4, <2>6, OwedFrame DEF WaitInv
  <2>8. QueuesInv'
    BY <1>1, <2>3, <2>4, QueuesFrame DEF WaitInv
  <2>9. BegunInv'
    BY <1>1, <1>4, BegunFrame DEF WaitInv
  <2>10. AskedInv'
    BY <1>1, <1>4 DEF WaitInv, AskedInv
  <2> QED BY <2>7, <2>8, <2>9, <2>10 DEF WaitInv
<1>5. CASE UNCHANGED <<scan, task, owed, fresh>>
  <2>1. OwedInv'
    BY <1>1, <1>2, <1>5, OwedFrame DEF WaitInv
  <2> QED BY <1>1, <1>5, <2>1, QueuesFrame, BegunFrame DEF WaitInv, QueuesInv, AskedInv
<1> QED BY <1>3, <1>4, <1>5 DEF Queue

-----------------------------------------------------------------------------
(* The settings have room for the queue of the open case.                   *)
RoomLeft == case # None => Len(Without(pending, case)) < PendingLimit

LEMMA AppendSaves ==
  ASSUME NEW list \in Saves, Len(list) < PendingLimit, NEW c \in Cases, NEW q, QueueOK(q), q # << >>,
         \A i \in DOMAIN list : list[i].case # c
  PROVE  /\ Append(list, [case |-> c, sources |-> q]) \in Saves
         /\ Len(Append(list, [case |-> c, sources |-> q])) <= PendingLimit
         /\ \A o \in Waiting(list) : o \in Waiting(Append(list, [case |-> c, sources |-> q]))
         /\ \A s \in ToSet(q) : <<c, s>> \in Waiting(Append(list, [case |-> c, sources |-> q]))
         /\ \A i \in DOMAIN Append(list, [case |-> c, sources |-> q]) :
              \/ Append(list, [case |-> c, sources |-> q])[i].case = c
              \/ i \in DOMAIN list /\ Append(list, [case |-> c, sources |-> q])[i] = list[i]
<1> DEFINE entry == [case |-> c, sources |-> q]
           all == Append(list, entry)
           n == Len(list)
<1>1. entry \in Entries /\ entry.case = c /\ entry.sources = q
  BY DEF Entries, QueueOK
<1>2. list \in Seq(Entries) /\ Unique(list) /\ n \in Nat /\ DOMAIN list = 1..n /\ PendingLimit \in Nat
  BY DesktopAssumption DEF Saves
<1> HIDE DEF entry
<1>3. /\ all \in Seq(Entries) /\ Len(all) = n + 1 /\ DOMAIN all = 1..(n + 1)
      /\ all[n + 1] = entry /\ \A i \in 1..n : all[i] = list[i]
  BY <1>1, <1>2
<1> HIDE DEF all
<1>4. \A i \in DOMAIN all : i = n + 1 \/ i \in 1..n
  BY <1>2, <1>3
<1>5. Unique(all)
  BY <1>1, <1>2, <1>3, <1>4 DEF Unique
<1>6. Len(all) <= PendingLimit
  BY <1>2, <1>3
<1>7. \A o \in Waiting(list) : o \in Waiting(all)
  <2> TAKE o \in Waiting(list)
  <2>1. PICK i \in DOMAIN list : \E k \in DOMAIN list[i].sources : o = <<list[i].case, list[i].sources[k]>>
    BY WaitingIs
  <2>2. i \in DOMAIN all /\ all[i] = list[i]
    BY <1>2, <1>3
  <2> QED BY <2>1, <2>2, WaitingIs
<1>8. \A s \in ToSet(q) : <<c, s>> \in Waiting(all)
  <2> TAKE s \in ToSet(q)
  <2>1. n + 1 \in DOMAIN all /\ all[n + 1].case = c /\ all[n + 1].sources = q
    BY <1>1, <1>2, <1>3
  <2>2. PICK k \in DOMAIN q : s = q[k]
    BY DEF ToSet
  <2> QED BY <2>1, <2>2, WaitingIs
<1>9. all \in Saves
  BY <1>3, <1>5, <1>6 DEF Saves
<1>10. \A i \in DOMAIN all : all[i].case = c \/ (i \in DOMAIN list /\ all[i] = list[i])
  BY <1>1, <1>2, <1>3, <1>4
<1> QED BY <1>6, <1>7, <1>8, <1>9, <1>10 DEF all, entry

-----------------------------------------------------------------------------
LEMMA PendingIs ==
  ASSUME QueuesInv, RoomLeft
  PROVE  /\ Pending \in Saves
         /\ \A o \in Waiting(pending) : o[1] # case => o \in Waiting(Pending)
         /\ case # None => \A s \in ToSet(scan.queue) : <<case, s>> \in Waiting(Pending)
         /\ \A i \in DOMAIN Pending : \/ case # None /\ Pending[i].case = case
                                      \/ \E j \in DOMAIN pending : Pending[i].case = pending[j].case
<1>1. CASE case = None
  <2>1. Pending = pending
    BY <1>1 DEF Pending
  <2> QED BY <1>1, <2>1 DEF QueuesInv
<1>2. CASE case # None
  <2> DEFINE others == Without(pending, case)
             entry == [case |-> case, sources |-> scan.queue]
             all == IF scan.queue = << >> THEN others ELSE Append(others, entry)
  <2>1. /\ others \in Saves /\ Len(others) < PendingLimit
        /\ \A i \in DOMAIN others : others[i].case # case /\ \E j \in DOMAIN pending : others[i] = pending[j]
        /\ \A o \in Waiting(pending) : o[1] # case => o \in Waiting(others)
    <3>1. pending \in Seq(Entries) /\ pending \in Saves
      BY DEF QueuesInv, Saves
    <3> QED BY <1>2, <3>1, WithoutIs, WithoutSaves DEF RoomLeft
  <2>2. case \in Cases /\ QueueOK(scan.queue)
    BY <1>2 DEF QueuesInv
  <2> HIDE DEF others
  <2>3. /\ all \in Saves
        /\ \A o \in Waiting(others) : o \in Waiting(all)
        /\ \A s \in ToSet(scan.queue) : <<case, s>> \in Waiting(all)
        /\ \A i \in DOMAIN all : all[i].case = case \/ (i \in DOMAIN others /\ all[i] = others[i])
    <3>1. CASE scan.queue = << >>
      <4>1. ToSet(scan.queue) = {}
        BY <3>1 DEF ToSet
      <4> QED BY <2>1, <3>1, <4>1
    <3>2. CASE scan.queue # << >>
      BY <2>1, <2>2, <3>2, AppendSaves
    <3> QED BY <3>1, <3>2
  <2>4. Pending = all
    <3>1. Pending = SubSeq(all, 1, IF Len(all) < PendingLimit THEN Len(all) ELSE PendingLimit)
      BY <1>2 DEF Pending, others
    <3> HIDE DEF all
    <3>2. all \in Seq(Entries) /\ Len(all) \in Nat /\ Len(all) <= PendingLimit /\ PendingLimit \in Nat
      BY <2>3, DesktopAssumption DEF Saves
    <3>3. Pending = SubSeq(all, 1, Len(all))
      BY <3>1, <3>2
    <3> QED BY <3>2, <3>3
  <2> HIDE DEF all
  <2> QED BY <1>2, <2>1, <2>3, <2>4
<1> QED BY <1>1, <1>2

LEMMA PersistWaits == ASSUME WatchInv, WaitInv, RoomLeft, Persist PROVE WaitInv'
<1>1. /\ up /\ stage = "persist" /\ stage' \in {"close", "quit"} /\ pending' = Pending /\ file' \in {Pending, file}
      /\ UNCHANGED <<up, case, readonly, session, ui, task, thread>> /\ fresh' = {}
      /\ owed' = owed \cup {o \in fresh : ~(ui.discard /\ o[1] = session)}
  BY DEF Persist, Save
<1>2. scan'.queue = scan.queue /\ (scan.held => scan'.held)
  <2>1. UNCHANGED scan \/ scan' = [scan EXCEPT !.held = @ \/ Pending # pending]
    BY DEF Persist
  <2> QED BY <2>1 DEF WatchInv, ScanType
<1>3. /\ Pending \in Saves
      /\ \A o \in Waiting(pending) : o[1] # case => o \in Waiting(Pending)
      /\ case # None => \A s \in ToSet(scan.queue) : <<case, s>> \in Waiting(Pending)
      /\ \A i \in DOMAIN Pending : \/ case # None /\ Pending[i].case = case
                                   \/ \E j \in DOMAIN pending : Pending[i].case = pending[j].case
  BY PendingIs DEF WaitInv
<1>4. QueuesInv'
  BY <1>1, <1>2, <1>3 DEF WaitInv, QueuesInv
<1>6. \A o \in owed \cup fresh : o = <<o[1], o[2]>> /\ o[1] \in Cases
  BY DEF WaitInv, OwedInv
<1>7. ASSUME NEW o \in owed' PROVE StillWaits(o)'
  <2>1. (o[1] # case /\ o \in Waiting(pending)) \/ (o[1] = case /\ o[2] \in ToSet(scan.queue))
    BY <1>1 DEF WaitInv, OwedInv, StillWaits, JustAdded
  <2>3. CASE o[1] # case /\ o \in Waiting(pending)
    BY <1>1, <1>3, <2>3 DEF StillWaits
  <2>4. CASE o[1] = case /\ o[2] \in ToSet(scan.queue)
    <3>1. case # None /\ o = <<case, o[2]>>
      BY <1>1, <1>6, <2>4, DesktopAssumption DEF Cases
    <3> QED BY <1>1, <1>2, <1>3, <2>4, <3>1 DEF StillWaits
  <2> QED BY <2>1, <2>3, <2>4
<1>8. OwedInv'
  BY <1>1, <1>7 DEF WaitInv, OwedInv
<1>9. BegunInv'
  <2> SUFFICES ASSUME busy PROVE BegunInv'
    BY <1>1 DEF BegunInv, busy
  <2>1. task.work # "refresh" => task.case \in Cases /\ \A o \in owed' \cup fresh' : o[1] # session
    BY <1>1 DEF WaitInv, BegunInv
  <2>2. task.work = "quick" => /\ \A i \in DOMAIN pending' : pending'[i].case # task.case
                               /\ \A o \in owed' : o[1] # task.case
    <3>1. ASSUME task.work = "quick", NEW o \in owed' PROVE o[1] # task.case
      BY <1>1, <3>1 DEF WaitInv, BegunInv, OwedInv, JustAdded
    <3>2. ASSUME task.work = "quick", NEW i \in DOMAIN pending' PROVE pending'[i].case # task.case
      BY <1>1, <1>3, <3>2 DEF WaitInv, BegunInv
    <3> QED BY <3>1, <3>2
  <2> QED BY <1>1, <2>1, <2>2 DEF WaitInv, BegunInv, busy
<1>10. AskedInv'
  BY <1>1, <1>2 DEF WaitInv, AskedInv
<1> QED BY <1>4, <1>8, <1>9, <1>10 DEF WaitInv

-----------------------------------------------------------------------------
LEMMA CallbackWaits == ASSUME KeptInv, WatchInv, WaitInv, Callback PROVE WaitInv'
<1>1. /\ up /\ stage = "callback" /\ stage' = "result" /\ UNCHANGED <<up, ui, thread>>
  BY DEF Callback
<1>2. fresh = {}
  BY <1>1 DEF WaitInv, OwedInv
<1>3. CASE /\ UNCHANGED <<case, readonly, session, scan, pending, disk, history>>
           /\ task' = task \/ task' = None
  <2>1. OwedInv'
    BY <1>1, <1>2, <1>3, OwedFrame DEF WaitInv, FreshStage, history
  <2>2. BegunInv'
    BY <1>3 DEF WaitInv, BegunInv, busy, history
  <2> QED BY <1>1, <1>3, <2>1, <2>2, QueuesFrame DEF WaitInv, QueuesInv, AskedInv, disk, history
<1>4. CASE /\ busy /\ task.done \notin {"no", "failed"} /\ task.work # "refresh" /\ task' = None
           /\ \E there \in SUBSET Sources :
                LET temporary == IF task.case \in Sessions THEN task.case ELSE None
                    more == IF task.work = "quick" THEN task.sources ELSE << >>
                IN Loaded(task.case, task.write, temporary, more, there)
  <2> DEFINE c == task.case
             temporary == IF c \in Sessions THEN c ELSE None
             more == IF task.work = "quick" THEN task.sources ELSE << >>
             settings == IF session # None /\ temporary = None THEN Without(pending, session) ELSE pending
             saved == EntryOf(settings, c)
             restored(there) == IF saved = << >> THEN << >> ELSE Prepare(saved[1].sources, there)
  <2>1. PICK there \in SUBSET Sources : Loaded(c, task.write, temporary, more, there)
    BY <1>4
  <2>2. /\ case' = c /\ readonly' = ~task.write /\ session' = temporary /\ pending' = settings
        /\ scan' = [NewScanUi EXCEPT !.queue = restored(there) \o more, !.held = saved # << >>,
                                     !.closing = scan.closing]
        /\ owed' = {o \in owed : o[1] = c /\ saved # << >> => o[2] \in there}
        /\ fresh' = {<<c, more[i]>> : i \in DOMAIN more}
        /\ file' \in {pending, file}
    BY <2>1 DEF Loaded, Save
  <2>3. /\ c \in Cases /\ \A o \in owed : o[1] # session
        /\ task.work = "restore" => case = None
        /\ task.work = "quick" => /\ task.write /\ (\E s \in Sources : more = <<s>>) /\ c # case
                                  /\ \A i \in DOMAIN pending : pending[i].case # c
                                  /\ \A o \in owed : o[1] # c
        /\ task.work # "quick" => more = << >>
    BY <1>4 DEF WaitInv, BegunInv
  <2>4. settings \in Saves /\ \A o \in Waiting(pending) : o[1] # session => o \in Waiting(settings)
    <3>1. pending \in Saves /\ pending \in Seq(Entries)
      BY DEF WaitInv, QueuesInv, Saves
    <3> QED BY <3>1, WithoutSaves, WithoutIs
  <2>5. task.work = "quick" => \A i \in DOMAIN settings : settings[i].case # c
    <3>1. pending \in Seq(Entries)
      BY DEF WaitInv, QueuesInv, Saves
    <3> QED BY <2>3, <3>1, WithoutIs
  <2> HIDE DEF settings, more, temporary, c
  <2>6. IF saved = << >> THEN \A i \in DOMAIN settings : settings[i].case # c
        ELSE \E i \in DOMAIN settings : settings[i].case = c /\ saved[1] = settings[i]
    BY <2>4, EntryIs DEF Saves
  <2> HIDE DEF saved
  <2>7. \A i \in DOMAIN settings : QueueOK(settings[i].sources) /\ settings[i].case \in Cases
    <3>1. \A i \in DOMAIN settings : settings[i] \in Entries
      BY <2>4 DEF Saves
    <3> QED BY <3>1 DEF Entries
  <2> DEFINE q == restored(there)
  <2>8. /\ QueueOK(q) /\ (saved = << >> => q = << >>)
        /\ saved # << >> => \A s : s \in ToSet(q) <=> s \in ToSet(saved[1].sources) /\ s \in there
    <3>1. CASE saved = << >>
      BY <3>1, DesktopAssumption DEF QueueOK, IsInjective
    <3>2. CASE saved # << >>
      BY <2>6, <2>7, <3>2, PreparedQueue
    <3> QED BY <3>1, <3>2
  <2> HIDE DEF restored
  <2>9. /\ QueueOK(q \o more) /\ ToSet(q) \subseteq ToSet(q \o more) /\ ToSet(more) \subseteq ToSet(q \o more)
    <3>1. CASE task.work = "quick"
      <4>1. q = << >>
        BY <2>5, <2>6, <2>8, <3>1
      <4>2. PICK s \in Sources : more = <<s>>
        BY <2>3, <3>1
      <4>3. q \o more = <<s>> /\ DOMAIN <<s>> = {1} /\ Len(<<s>>) = 1
        BY <4>1, <4>2
      <4>4. QueueOK(<<s>>)
        BY <4>3, DesktopAssumption DEF QueueOK, IsInjective
      <4>5. ToSet(q) = {}
        BY <4>1 DEF ToSet
      <4> QED BY <3>1, <4>2, <4>3, <4>4, <4>5
    <3>2. CASE task.work # "quick"
      <4>1. more = << >> /\ q \o more = q
        BY <2>3, <2>8, <3>2 DEF QueueOK
      <4>2. ToSet(more) = {}
        BY <4>1 DEF ToSet
      <4> QED BY <2>8, <4>1, <4>2
    <3> QED BY <3>1, <3>2
  <2>10. scan'.queue = q \o more /\ scan'.held = (saved # << >>)
    BY <2>2 DEF NewScanUi
  <2> HIDE DEF q
  <2>11. QueuesInv'
    <3>1. c \in Sessions => temporary = c
      BY DEF temporary
    <3> QED BY <1>1, <2>2, <2>3, <2>4, <2>9, <2>10, <3>1 DEF WaitInv, QueuesInv
  <2>12. BegunInv'
    BY <1>4 DEF BegunInv, busy
  <2>13. AskedInv'
    <3>2. case' # None
      BY <2>2, <2>3, DesktopAssumption DEF Cases
    <3>3. ASSUME ui'.discard, NEW o \in owed' PROVE o[1] # session'
      <4>1. o \in owed /\ o[1] \in Cases /\ ui.discard /\ case # None
        BY <1>1, <2>2, <3>3 DEF WaitInv, AskedInv, OwedInv
      <4>2. CASE temporary = None
        BY <2>2, <4>1, <4>2, DesktopAssumption DEF Cases
      <4>3. CASE temporary # None
        <5>1. temporary = c /\ c \in Sessions
          BY <4>3 DEF temporary
        <5>2. task.work \in {"quick", "restore"}
          BY <1>4, <5>1, DesktopAssumption DEF KeptInv, TaskType, TaskInv, Works, c
        <5> QED BY <2>2, <2>3, <4>1, <5>1, <5>2
      <4> QED BY <4>2, <4>3
    <3> QED BY <3>2, <3>3 DEF AskedInv
  <2>15. ASSUME NEW o \in owed' PROVE StillWaits(o)'
    <3>1. o \in owed /\ o \in Waiting(pending) /\ (o[1] = c /\ saved # << >> => o[2] \in there)
      BY <1>1, <2>2 DEF WaitInv, OwedInv, StillWaits
    <3>2. o \in Waiting(settings)
      BY <2>3, <2>4, <3>1
    <3>3. o[1] = c => o[2] \in ToSet(q \o more)
      <4> SUFFICES ASSUME o[1] = c PROVE o[2] \in ToSet(q \o more)
        OBVIOUS
      <4>1. PICK i \in DOMAIN settings : \E n \in DOMAIN settings[i].sources :
              o = <<settings[i].case, settings[i].sources[n]>>
        BY <3>2, WaitingIs
      <4>2. settings[i].case = c /\ o[2] \in ToSet(settings[i].sources)
        BY <4>1 DEF ToSet
      <4>3. saved # << >> /\ saved[1] = settings[i]
        BY <2>4, <2>6, <4>2 DEF Saves, Unique
      <4> QED BY <2>8, <2>9, <3>1, <4>2, <4>3
    <3> QED BY <2>2, <2>10, <3>2, <3>3 DEF StillWaits
  <2>16. ASSUME NEW o \in fresh' PROVE JustAdded(o)' /\ o \in Cases \X Sources
    <3>1. PICK i \in DOMAIN more : o = <<c, more[i]>>
      BY <2>2
    <3>2. more[i] \in ToSet(more) /\ more[i] \in Sources
      BY <2>3 DEF ToSet
    <3> QED BY <2>2, <2>3, <2>9, <2>10, <3>1, <3>2 DEF JustAdded
  <2>17. OwedInv'
    <3>1. owed' \subseteq Cases \X Sources
      BY <2>2 DEF WaitInv, OwedInv
    <3> QED BY <1>1, <2>15, <2>16, <3>1 DEF OwedInv
  <2> QED BY <2>11, <2>12, <2>13, <2>17 DEF WaitInv
<1> QED BY <1>3, <1>4 DEF Callback

-----------------------------------------------------------------------------
LEMMA TaskStarts ==
  ASSUME BegunInv, UNCHANGED <<case, session, pending>>, owed' \subseteq owed, fresh' \subseteq fresh,
         NEW work \in Works, NEW c \in Cases, NEW sources, RunTask(work, c, sources),
         \A o \in owed' \cup fresh' : o[1] # session,
         work = "restore" => case = None,
         work = "quick" => /\ \E s \in Sources : sources = <<s>>
                           /\ c # case /\ \A i \in DOMAIN pending : pending[i].case # c
                           /\ \A o \in owed' : o[1] # c
  PROVE  BegunInv'
<1>1. CASE busy
  <2>1. task' = task
    BY <1>1 DEF RunTask
  <2> QED BY <2>1, BegunFrame
<1>2. CASE ~busy
  <2>1. /\ task'.work = work /\ task'.case = c /\ task'.sources = sources
        /\ task'.write = (work # "open" \/ ~readonly)
    BY <1>2 DEF RunTask
  <2> QED BY <2>1 DEF BegunInv
<1> QED BY <1>1, <1>2

LEMMA QuickStarts ==
  ASSUME KeptInv, WatchInv, WaitInv, up, UNCHANGED <<case, session, pending>>, owed' \subseteq owed,
         fresh' \subseteq fresh,
         \A o \in owed' \cup fresh' : o[1] # session,
         NEW s \in Sources, QuickAnalysis(s)
  PROVE  BegunInv'
<1>1. CASE ~canSwitchCase
  BY <1>1, BegunFrame DEF QuickAnalysis, WaitInv
<1>2. CASE canSwitchCase
  <2>1. PICK t \in Sessions : /\ t \notin dirs /\ \A o \in Waiting(pending) \cup Waiting(file) : o[1] # t
                              /\ RunTask("quick", t, <<s>>)
    BY <1>2 DEF QuickAnalysis
  <2>2. t # case
    BY <2>1, DesktopAssumption DEF WaitInv, QueuesInv, KeptInv, SessionInv
  <2>3. ASSUME NEW i \in DOMAIN pending PROVE pending[i].case # t
    <3>1. pending[i] \in Entries
      BY DEF WaitInv, QueuesInv, Saves
    <3>2. pending[i].sources \in Seq(Sources) /\ pending[i].sources # << >>
      BY <3>1 DEF Entries
    <3>3. 1 \in DOMAIN pending[i].sources
      BY <3>2
    <3>4. <<pending[i].case, pending[i].sources[1]>> \in Waiting(pending)
      BY <3>3, WaitingIs
    <3> QED BY <2>1, <3>4
  <2>4. \A o \in owed : o[1] # t
    BY <2>1 DEF WaitInv, OwedInv, StillWaits
  <2>5. t \in Cases /\ "quick" \in Works
    BY DEF Cases, Works
  <2> QED BY <2>1, <2>2, <2>3, <2>4, <2>5, TaskStarts DEF WaitInv
<1> QED BY <1>1, <1>2

LEMMA ChosenStarts ==
  ASSUME KeptInv, WatchInv, WaitInv, up, UNCHANGED <<case, session, pending>>, LetGo, NEW what \in Asked,
         Chosen(what)
  PROVE  BegunInv'
<1>1. owed' \subseteq owed /\ fresh' \subseteq fresh /\ \A o \in owed' \cup fresh' : o[1] # session
  BY DEF LetGo
<1>2. CASE what.purpose = "quick"
  <2>1. QuickAnalysis(what.arg) /\ what.arg \in Sources
    BY <1>2 DEF Chosen, Asked
  <2> QED BY <1>1, <2>1, QuickStarts
<1>3. CASE what.purpose # "quick"
  <2>1. what.purpose \in {"open", "new"} /\ what.arg \in Saved /\ RunTask(what.purpose, what.arg, << >>)
    BY <1>3 DEF Chosen, Asked
  <2>2. what.purpose \in Works /\ what.arg \in Cases /\ what.purpose \notin {"restore", "quick"}
    BY <2>1 DEF Works, Cases
  <2> QED BY <1>1, <2>1, <2>2, TaskStarts DEF WaitInv
<1> QED BY <1>2, <1>3

(* A click that leaves the queue alone.                                     *)
LEMMA OtherClick ==
  ASSUME KeptInv, WatchInv, WaitInv, Input \/ NoInput, UNCHANGED <<case, session, pending, file>>,
         scan'.queue = scan.queue, BegunInv', AskedInv',
         owed' \subseteq owed, fresh' \subseteq fresh
  PROVE  WaitInv'
<1>1. up /\ up' /\ stage' = "persist"
  BY DEF Input, NoInput
<1>2. QueuesInv'
  BY <1>1, QueuesFrame DEF WaitInv, QueuesInv
<1>3. OwedInv'
  BY <1>1, OwedFrame DEF WaitInv, FreshStage
<1> QED BY <1>2, <1>3 DEF WaitInv

LEMMA AskedFrame ==
  ASSUME AskedInv, UNCHANGED <<case, session, readonly>>, owed' \subseteq owed,
         ui'.discard => ui.discard, ui'.confirm => ui.confirm, ui'.wanted # None => ui.wanted # None
  PROVE  AskedInv'
BY DEF AskedInv

LEMMA PauseWaits == ASSUME KeptInv, WatchInv, WaitInv, Pause PROVE WaitInv'
<1>1. /\ Input /\ UNCHANGED <<case, readonly, session, ui, task, pending, file, owed, fresh>>
      /\ scan' = [scan EXCEPT !.held = TRUE]
  BY DEF Pause, history
<1>2. scan'.queue = scan.queue
  BY <1>1 DEF WatchInv, ScanType
<1>3. BegunInv' /\ AskedInv'
  BY <1>1, BegunFrame, AskedFrame DEF WaitInv
<1> QED BY <1>1, <1>2, <1>3, OtherClick

LEMMA HoldWaits == ASSUME KeptInv, WatchInv, WaitInv, HoldOrContinue PROVE WaitInv'
<1>1. /\ Input /\ UNCHANGED <<case, readonly, session, ui, task, thread, pending, file, owed, fresh>>
      /\ scan' = [scan EXCEPT !.held = ~@]
  BY DEF HoldOrContinue, history
<1>2. scan'.queue = scan.queue
  BY <1>1 DEF WatchInv, ScanType
<1>3. BegunInv' /\ AskedInv'
  BY <1>1, BegunFrame, AskedFrame DEF WaitInv
<1> QED BY <1>1, <1>2, <1>3, OtherClick

LEMMA ResumeWaits == ASSUME KeptInv, WatchInv, WaitInv, Resume PROVE WaitInv'
<1>1. /\ Input /\ ~readonly /\ UNCHANGED <<case, readonly, session, ui, task, pending, file, owed, fresh>>
  BY DEF Resume, history
<1> DEFINE view == [scan EXCEPT !.held = FALSE]
<1>2. ScanLike(view) /\ view.queue = scan.queue
  BY DEF WatchInv, ScanType, ScanLike
<1> HIDE DEF view
<1>3. PICK s \in Sources : StartScan(view, s)
  BY DEF Resume, view
<1>4. scan'.queue = scan.queue
  BY <1>2, <1>3, StartsFrom
<1>5. BegunInv' /\ AskedInv'
  BY <1>1, BegunFrame, AskedFrame DEF WaitInv
<1> QED BY <1>1, <1>4, <1>5, OtherClick

(* Sources are taken out of the queue, and the user knows it.               *)
LEMMA RemoveWaits == ASSUME KeptInv, WatchInv, WaitInv, RemoveSelected PROVE WaitInv'
<1>1. /\ Input /\ UNCHANGED <<case, readonly, session, ui, task, thread, pending, file>>
  BY DEF RemoveSelected
<1>2. PICK selected \in SUBSET ToSet(scan.queue) \ {{}} :
        /\ scan' = [scan EXCEPT !.queue = Kept(@, {i \in DOMAIN @ : @[i] \notin selected})]
        /\ owed' = owed \ {<<case, s>> : s \in selected}
        /\ fresh' = fresh \ {<<case, s>> : s \in selected}
  BY DEF RemoveSelected
<1> DEFINE positions == {i \in DOMAIN scan.queue : scan.queue[i] \notin selected}
           q == Kept(scan.queue, positions)
<1>3. /\ QueueOK(q) /\ \A s : s \in ToSet(q) <=> \E p \in positions : s = scan.queue[p]
  <2>1. positions \in SUBSET DOMAIN scan.queue
    OBVIOUS
  <2> HIDE DEF positions
  <2> QED BY <2>1, KeptQueue DEF WaitInv, QueuesInv
<1>4. \A s \in ToSet(scan.queue) : s \in ToSet(q) \/ s \in selected
  <2> TAKE s \in ToSet(scan.queue)
  <2>1. PICK i \in DOMAIN scan.queue : s = scan.queue[i]
    BY DEF ToSet
  <2>2. s \notin selected => i \in positions
    BY <2>1
  <2> HIDE DEF positions, q
  <2> QED BY <1>3, <2>1, <2>2
<1>5. scan' = [scan EXCEPT !.queue = q]
  BY <1>2
<1> HIDE DEF q, positions
<1>7. scan'.queue = q /\ scan'.held = scan.held
  BY <1>5 DEF WatchInv, ScanType
<1>8. owed' \subseteq owed /\ fresh' \subseteq fresh /\ up /\ up' /\ stage' = "persist"
  BY <1>1, <1>2 DEF Input
<1>10. \A o \in owed' \cup fresh' : o[1] = case /\ o[2] \in ToSet(scan.queue) => o[2] \in ToSet(scan'.queue)
  <2> SUFFICES ASSUME NEW o \in owed' \cup fresh', o[1] = case, o[2] \in ToSet(scan.queue)
               PROVE  o[2] \in ToSet(scan'.queue)
    OBVIOUS
  <2>1. o = <<case, o[2]>>
    BY <1>8 DEF WaitInv, OwedInv
  <2>2. o[2] \notin selected
    BY <1>2, <2>1
  <2> QED BY <1>4, <1>7, <2>2
<1>11. OwedInv'
  BY <1>1, <1>8, <1>10, OwedFrame DEF WaitInv, FreshStage
<1>12. QueuesInv' /\ BegunInv'
  BY <1>1, <1>3, <1>7, <1>8, QueuesFrame, BegunFrame DEF WaitInv
<1>13. AskedInv'
  BY <1>1, <1>8, AskedFrame DEF WaitInv
<1> QED BY <1>11, <1>12, <1>13 DEF WaitInv

LEMMA MoveWaits == ASSUME KeptInv, WatchInv, WaitInv, Move PROVE WaitInv'
<1>1. /\ Input /\ UNCHANGED <<case, readonly, session, ui, task, thread, pending, file, owed, fresh>>
  BY DEF Move, history
<1>2. PICK q : q \in Orders(scan.queue) /\ scan' = [scan EXCEPT !.queue = q]
  <2>1. PICK selected \in SUBSET ToSet(scan.queue) \ {{}} :
          \/ scan' = [scan EXCEPT !.queue = MoveUp(scan.queue, selected)]
          \/ scan' = [scan EXCEPT !.queue = MoveDown(scan.queue, selected)]
    BY DEF Move
  <2>2. MoveUp(scan.queue, selected) \in Orders(scan.queue) /\ MoveDown(scan.queue, selected) \in Orders(scan.queue)
    BY MoveUpOrders, MoveDownOrders DEF WaitInv, QueuesInv
  <2> QED BY <2>1, <2>2
<1>3. QueueOK(q) /\ ToSet(q) = ToSet(scan.queue)
  BY <1>2 DEF Orders, WaitInv, QueuesInv, QueueOK
<1>4. scan'.queue = q /\ scan'.held = scan.held
  BY <1>2 DEF WatchInv, ScanType
<1>5. up /\ up' /\ stage' = "persist"
  BY <1>1 DEF Input
<1>6. OwedInv'
  BY <1>1, <1>3, <1>4, <1>5, OwedFrame DEF WaitInv, FreshStage
<1>7. QueuesInv' /\ BegunInv'
  BY <1>1, <1>3, <1>4, <1>5, QueuesFrame, BegunFrame DEF WaitInv
<1>8. AskedInv'
  BY <1>1, AskedFrame DEF WaitInv
<1> QED BY <1>6, <1>7, <1>8 DEF WaitInv

-----------------------------------------------------------------------------
LEMMA AppendQueue ==
  ASSUME NEW q, QueueOK(q), NEW s \in Sources, s \notin ToSet(q), Len(q) < QueueLimit
  PROVE  QueueOK(Append(q, s)) /\ ToSet(q) \subseteq ToSet(Append(q, s)) /\ s \in ToSet(Append(q, s))
<1> DEFINE n == Len(q)
           t == Append(q, s)
<1>1. q \in Seq(Sources) /\ n \in Nat /\ DOMAIN q = 1..n /\ IsInjective(q) /\ QueueLimit \in Nat
  BY DesktopAssumption DEF QueueOK
<1>2. /\ t \in Seq(Sources) /\ Len(t) = n + 1 /\ DOMAIN t = 1..(n + 1)
      /\ t[n + 1] = s /\ \A i \in 1..n : t[i] = q[i] /\ q[i] # s
  BY <1>1 DEF ToSet
<1> HIDE DEF t
<1>3. \A i \in 1..(n + 1) : i = n + 1 \/ i \in 1..n
  BY <1>1
<1>4. IsInjective(t)
  BY <1>1, <1>2, <1>3 DEF IsInjective
<1>5. Len(t) <= QueueLimit
  BY <1>1, <1>2
<1>6. QueueOK(t)
  BY <1>2, <1>4, <1>5 DEF QueueOK
<1>7. ToSet(q) \subseteq ToSet(t) /\ s \in ToSet(t)
  <2>1. \A i \in DOMAIN q : i \in DOMAIN t /\ t[i] = q[i]
    BY <1>1, <1>2
  <2>2. n + 1 \in DOMAIN t
    BY <1>1, <1>2
  <2> QED BY <1>2, <2>1, <2>2 DEF ToSet
<1> QED BY <1>6, <1>7 DEF t

LEMMA IngestWaits == ASSUME KeptInv, WatchInv, WaitInv, Ingest PROVE WaitInv'
<1>1. /\ Input /\ UNCHANGED <<case, readonly, session, ui, thread, window, pending, owed, file>>
      /\ up /\ up' /\ stage = "input" /\ stage' = "persist"
  BY DEF Ingest, Input
<1>2. PICK s \in Sources :
        /\ ~busy /\ ~readonly /\ s \notin ToSet(scan.queue)
        /\ IF case = None
             THEN QuickAnalysis(s) /\ UNCHANGED <<scan, fresh>>
             ELSE LET room == Len(scan.queue) < QueueLimit
                  IN /\ scan' = [scan EXCEPT !.queue = IF room THEN Append(@, s) ELSE @,
                                             !.held = FALSE]
                     /\ fresh' = IF room THEN {<<case, s>>} ELSE {}
                     /\ UNCHANGED task
  BY DEF Ingest
<1>4. CASE case = None
  <2>1. \A o \in owed \cup fresh : o[1] # session
    <3>1. session = None
      BY <1>4, DesktopAssumption DEF KeptInv, SessionInv
    <3> QED BY <3>1, DesktopAssumption DEF WaitInv, OwedInv, Cases
  <2>2. BegunInv'
    BY <1>1, <1>2, <1>4, <2>1, QuickStarts
  <2>3. AskedInv'
    BY <1>1, <1>2, <1>4 DEF WaitInv, AskedInv
  <2> QED BY <1>1, <1>2, <1>4, <2>2, <2>3, OtherClick
<1>5. CASE case # None
  <2> DEFINE room == Len(scan.queue) < QueueLimit
             q == IF room THEN Append(scan.queue, s) ELSE scan.queue
  <2>1. scan' = [scan EXCEPT !.queue = q, !.held = FALSE] /\ fresh' = (IF room THEN {<<case, s>>} ELSE {})
        /\ task' = task /\ ~busy
    BY <1>2, <1>5
  <2>2. QueueOK(scan.queue)
    BY DEF WaitInv, QueuesInv
  <2>3. QueueOK(q) /\ ToSet(scan.queue) \subseteq ToSet(q) /\ (room => s \in ToSet(q))
    BY <1>2, <2>2, AppendQueue
  <2> HIDE DEF q
  <2>4. scan'.queue = q
    BY <2>1 DEF WatchInv, ScanType
  <2>5. QueuesInv'
    BY <1>1, <2>3, <2>4, QueuesFrame DEF WaitInv
  <2>6. BegunInv'
    BY <2>1 DEF BegunInv, busy
  <2>7. AskedInv'
    BY <1>1, <1>2 DEF WaitInv, AskedInv
  <2>8. \A o \in owed' : StillWaits(o)'
    BY <1>1, <2>3, <2>4 DEF WaitInv, OwedInv, StillWaits
  <2>9. \A o \in fresh' : JustAdded(o)' /\ o \in Cases \X Sources
    BY <1>1, <1>5, <2>1, <2>3, <2>4 DEF WaitInv, QueuesInv, JustAdded
  <2>10. OwedInv'
    BY <1>1, <2>8, <2>9 DEF WaitInv, OwedInv
  <2> QED BY <2>5, <2>6, <2>7, <2>10 DEF WaitInv
<1> QED BY <1>4, <1>5

LEMMA ChooseWaits == ASSUME KeptInv, WatchInv, WaitInv, Choose PROVE WaitInv'
<1>1. Input /\ up /\ UNCHANGED <<case, readonly, session, scan, pending, file>>
  BY DEF Choose, Input
<1>2. PICK what \in Asked :
        IF session # None /\ ~ui.discard
          THEN Asking(what) /\ UNCHANGED <<task, thread, history>>
          ELSE ui' = [ui EXCEPT !.discard = FALSE] /\ Chosen(what) /\ LetGo
  <2>1. [purpose : {"open"}, arg : Saved] \cup [purpose : {"quick"}, arg : Sources]
          \cup [purpose : {"new"}, arg : {c \in Saved : Unused(c)}] \subseteq Asked
    BY DEF Asked
  <2> QED BY <2>1 DEF Choose
<1>4. CASE session # None /\ Asking(what) /\ UNCHANGED <<task, history>>
  <2>1. case # None
    BY <1>4, DesktopAssumption DEF KeptInv, SessionInv
  <2>2. ui'.discard = ui.discard
    BY <1>4 DEF Asking, KeptInv, UiType
  <2>3. BegunInv' /\ AskedInv'
    BY <1>1, <1>4, <2>1, <2>2, BegunFrame DEF WaitInv, AskedInv, history
  <2> QED BY <1>1, <1>4, <2>3, OtherClick DEF history
<1>5. CASE ui' = [ui EXCEPT !.discard = FALSE] /\ Chosen(what) /\ LetGo
  <2>1. owed' \subseteq owed /\ fresh' \subseteq fresh
    BY <1>5 DEF LetGo
  <2>2. ui'.discard = FALSE /\ ui'.confirm = ui.confirm /\ ui'.wanted = ui.wanted
    BY <1>5 DEF KeptInv, UiType
  <2>3. BegunInv'
    BY <1>1, <1>5, ChosenStarts
  <2>4. AskedInv'
    BY <1>1, <2>1, <2>2, AskedFrame DEF WaitInv
  <2> QED BY <1>1, <2>1, <2>3, <2>4, OtherClick
<1> QED BY <1>2, <1>4, <1>5

(* A copy of the case is begun when nothing waits in it.                    *)
LEMMA SaveCopyWaits == ASSUME KeptInv, WatchInv, WaitInv, SaveCopy PROVE WaitInv'
<1>1. Input /\ up /\ UNCHANGED <<case, readonly, session, scan, thread, pending, owed, fresh, file>>
  BY DEF SaveCopy, Input, history
<1>3. ui' = NewSessionUi \/ ui' = [ui EXCEPT !.discard = FALSE]
  BY DEF SaveCopy
<1>4. /\ ui'.discard = FALSE /\ (ui'.confirm => ui.confirm)
      /\ ui'.wanted # None => ui.wanted # None
  <2>1. CASE ui' = NewSessionUi
    BY <2>1 DEF NewSessionUi
  <2>2. CASE ui' = [ui EXCEPT !.discard = FALSE]
    BY <2>2 DEF KeptInv, UiType
  <2> QED BY <1>3, <2>1, <2>2
<1>5. PICK c \in Saved : IF canSwitchCase THEN RunTask("copy", c, << >>) ELSE UNCHANGED task
  BY DEF SaveCopy
<1>6. BegunInv'
  <2>1. CASE canSwitchCase
    <3>1. ToSet(scan.queue) = {}
      BY <2>1 DEF canSwitchCase, ToSet
    <3>2. ASSUME NEW o \in owed \cup fresh, o[1] = session PROVE FALSE
      <4>1. session # None
        BY <3>2, DesktopAssumption DEF WaitInv, OwedInv, Cases
      <4>2. o[1] = case
        BY <3>2, <4>1 DEF KeptInv, SessionInv
      <4> QED BY <1>1, <3>1, <4>2 DEF WaitInv, OwedInv, StillWaits, JustAdded
    <3>3. c \in Cases /\ "copy" \in Works
      BY DEF Cases, Works
    <3> QED BY <1>1, <1>5, <2>1, <3>2, <3>3, TaskStarts DEF WaitInv
  <2>2. CASE ~canSwitchCase
    BY <1>1, <1>5, <2>2, BegunFrame DEF WaitInv
  <2> QED BY <2>1, <2>2
<1>7. AskedInv'
  BY <1>1, <1>4, AskedFrame DEF WaitInv
<1> QED BY <1>1, <1>6, <1>7, OtherClick

LEMMA KeepWorkingWaits == ASSUME KeptInv, WatchInv, WaitInv, KeepWorking PROVE WaitInv'
<1>1. /\ Input /\ ui' = NewSessionUi /\ scan' = [scan EXCEPT !.closing = FALSE]
      /\ UNCHANGED <<case, readonly, session, task, thread, pending, owed, fresh, file>>
  BY DEF KeepWorking, history
<1>2. scan'.queue = scan.queue
  BY <1>1 DEF WatchInv, ScanType
<1>3. ui'.discard = FALSE /\ ui'.confirm = FALSE /\ ui'.wanted = None
  BY <1>1 DEF NewSessionUi
<1>4. BegunInv' /\ AskedInv'
  BY <1>1, <1>2, <1>3, BegunFrame, AskedFrame DEF WaitInv
<1> QED BY <1>1, <1>2, <1>4, OtherClick

LEMMA DiscardWaits == ASSUME KeptInv, WatchInv, WaitInv, Discard PROVE WaitInv'
<1>1. /\ Input /\ up /\ LetGo /\ asked
      /\ UNCHANGED <<case, readonly, session, scan, pending, file>>
  BY DEF Discard, Input
<1>2. owed' \subseteq owed /\ fresh' \subseteq fresh /\ \A o \in owed' : o[1] # session
  BY <1>1 DEF LetGo
<1>4. CASE ui.wanted # None /\ Chosen(ui.wanted) /\ ui' = NewSessionUi
  <2>1. ui.wanted \in Asked
    BY <1>4 DEF KeptInv, UiType
  <2>2. BegunInv'
    BY <1>1, <1>4, <2>1, ChosenStarts
  <2>3. ui'.discard = FALSE /\ ui'.confirm = FALSE /\ ui'.wanted = None
    BY <1>4 DEF NewSessionUi
  <2>4. AskedInv'
    BY <1>1, <1>2, <2>3, AskedFrame DEF WaitInv
  <2> QED BY <1>1, <1>2, <2>2, <2>4, OtherClick
<1>5. CASE ui' = [ui EXCEPT !.confirm = FALSE, !.discard = TRUE] /\ UNCHANGED task
  <2>1. ui'.wanted = ui.wanted /\ case # None
    BY <1>1, <1>5 DEF KeptInv, UiType, asked, WaitInv, AskedInv
  <2>2. BegunInv'
    BY <1>1, <1>2, <1>5, BegunFrame DEF WaitInv
  <2>3. AskedInv'
    BY <1>1, <1>2, <2>1 DEF WaitInv, AskedInv
  <2> QED BY <1>1, <1>2, <2>2, <2>3, OtherClick
<1> QED BY <1>4, <1>5 DEF Discard

LEMMA RestoreWaits == ASSUME KeptInv, WatchInv, WaitInv, Restore PROVE WaitInv'
<1>1. /\ Input /\ case = None
      /\ UNCHANGED <<case, readonly, session, scan, ui, thread, pending, owed, fresh, file>>
  BY DEF Restore, history
<1>2. PICK i \in DOMAIN pending : RunTask("restore", pending[i].case, << >>)
  BY DEF Restore
<1>3. pending[i].case \in Cases /\ "restore" \in Works
  <2>1. pending[i] \in Entries
    BY DEF WaitInv, QueuesInv, Saves
  <2> QED BY <2>1 DEF Entries, Works
<1>4. \A o \in owed \cup fresh : o[1] # session
  <2>1. session = None
    BY <1>1, DesktopAssumption DEF KeptInv, SessionInv
  <2> QED BY <2>1, DesktopAssumption DEF WaitInv, OwedInv, Cases
<1>5. BegunInv'
  BY <1>1, <1>2, <1>3, <1>4, TaskStarts DEF WaitInv
<1>6. AskedInv'
  BY <1>1, AskedFrame DEF WaitInv
<1> QED BY <1>1, <1>5, <1>6, OtherClick

-----------------------------------------------------------------------------
LEMMA Joined ==
  ASSUME NEW S, NEW a \in Seq(S), NEW b \in Seq(S)
  PROVE  /\ a \o b \in Seq(S) /\ Len(a \o b) = Len(a) + Len(b)
         /\ \A k \in 1..(Len(a) + Len(b)) : (a \o b)[k] = IF k <= Len(a) THEN a[k] ELSE b[k - Len(a)]
OBVIOUS

LEMMA RemovedIs ==
  ASSUME NEW list \in Saves, NEW i \in DOMAIN list
  PROVE  /\ RemoveAt(list, i) \in Saves
         /\ \A o \in Waiting(list) : o \notin Waiting(<<list[i]>>) => o \in Waiting(RemoveAt(list, i))
         /\ \A k \in DOMAIN RemoveAt(list, i) : \E j \in DOMAIN list : RemoveAt(list, i)[k].case = list[j].case
<1> DEFINE n == Len(list)
           rest == RemoveAt(list, i)
<1>1. list \in Seq(Entries) /\ Unique(list) /\ n \in Nat /\ DOMAIN list = 1..n /\ i \in 1..n
      /\ PendingLimit \in Nat /\ n <= PendingLimit
  BY DesktopAssumption DEF Saves
<1>2. /\ rest \in Seq(Entries) /\ Len(rest) = n - 1 /\ DOMAIN rest = 1..(n - 1)
      /\ \A k \in 1..(n - 1) : rest[k] = IF k < i THEN list[k] ELSE list[k + 1]
  <2> DEFINE a == SubSeq(list, 1, i - 1)
             b == SubSeq(list, i + 1, n)
  <2>1. a \in Seq(Entries) /\ Len(a) = i - 1 /\ \A k \in 1..(i - 1) : a[k] = list[k]
    BY <1>1
  <2>2. b \in Seq(Entries) /\ Len(b) = n - i /\ \A k \in 1..(n - i) : b[k] = list[i + k]
    BY <1>1
  <2>3. rest = a \o b
    BY DEF RemoveAt
  <2> HIDE DEF rest, a, b
  <2>4. rest \in Seq(Entries) /\ Len(rest) = n - 1
    <3>1. a \o b \in Seq(Entries) /\ Len(a \o b) = Len(a) + Len(b)
      BY ONLY <2>1, <2>2, Joined
    <3>2. Len(a) + Len(b) = n - 1
      <4>1. i \in Int /\ n \in Int
        BY <1>1
      <4> QED BY <2>1, <2>2, <4>1
    <3> QED BY <2>3, <3>1, <3>2
  <2>5. \A k \in 1..(n - 1) : rest[k] = IF k < i THEN list[k] ELSE list[k + 1]
    <3> TAKE k \in 1..(n - 1)
    <3>1. CASE k < i
      BY <1>1, <2>1, <2>2, <2>3, <3>1
    <3>2. CASE ~(k < i)
      <4>1. k - (i - 1) \in 1..(n - i) /\ i + (k - (i - 1)) = k + 1 /\ k > i - 1
        BY <1>1, <3>2
      <4>2. rest[k] = b[k - (i - 1)]
        <5>1. \A l \in 1..(Len(a) + Len(b)) : (a \o b)[l] = IF l <= Len(a) THEN a[l] ELSE b[l - Len(a)]
          BY ONLY <2>1, <2>2, Joined
        <5>2. Len(a) = i - 1 /\ Len(a) + Len(b) = n - 1 /\ ~(k <= Len(a))
          <6>1. i \in Int /\ n \in Int /\ k \in Int
            BY <1>1
          <6>2. Len(a) = i - 1 /\ Len(b) = n - i
            BY <2>1, <2>2
          <6>3. (i - 1) + (n - i) = n - 1 /\ ~(k <= i - 1)
            BY <4>1, <6>1
          <6> QED BY <6>2, <6>3
        <5> QED BY <2>3, <5>1, <5>2
      <4> QED BY <2>2, <3>2, <4>1, <4>2
    <3> QED BY <3>1, <3>2
  <2> QED BY <1>1, <2>4, <2>5
<1> HIDE DEF rest
<1>3. Unique(rest)
  <2> SUFFICES ASSUME NEW k \in 1..(n - 1), NEW l \in 1..(n - 1), rest[k].case = rest[l].case PROVE k = l
    BY <1>2 DEF Unique
  <2>1. PICK x \in 1..n, y \in 1..n : /\ x = (IF k < i THEN k ELSE k + 1) /\ y = (IF l < i THEN l ELSE l + 1)
                                      /\ rest[k] = list[x] /\ rest[l] = list[y]
    BY <1>1, <1>2
  <2>2. x = y
    BY <1>1, <2>1 DEF Unique
  <2> QED BY <1>1, <2>1, <2>2
<1>4. ASSUME NEW o \in Waiting(list), o \notin Waiting(<<list[i]>>) PROVE o \in Waiting(rest)
  <2>1. PICK j \in DOMAIN list : \E m \in DOMAIN list[j].sources : o = <<list[j].case, list[j].sources[m]>>
    BY WaitingIs
  <2>2. j # i
    <3> SUFFICES ASSUME j = i PROVE o \in Waiting(<<list[i]>>)
      BY <1>4
    <3>1. 1 \in DOMAIN <<list[i]>> /\ <<list[i]>>[1] = list[i]
      OBVIOUS
    <3> QED BY <2>1, <3>1, WaitingIs
  <2>3. \E k \in 1..(n - 1) : rest[k] = list[j]
    <3>1. CASE j < i
      BY <1>1, <1>2, <3>1
    <3>2. CASE j > i
      <4>1. j - 1 \in 1..(n - 1) /\ ~(j - 1 < i) /\ (j - 1) + 1 = j
        BY <1>1, <3>2
      <4> QED BY <1>2, <4>1
    <3> QED BY <1>1, <2>2, <3>1, <3>2
  <2>4. PICK k \in DOMAIN rest : rest[k] = list[j]
    BY <1>2, <2>3
  <2> QED BY <2>1, <2>4, WaitingIs
<1>5. Len(rest) <= PendingLimit
  BY <1>1, <1>2
<1>6. \A k \in DOMAIN rest : \E j \in DOMAIN list : rest[k].case = list[j].case
  BY <1>1, <1>2
<1> QED BY <1>2, <1>3, <1>4, <1>5, <1>6 DEF rest, Saves

LEMMA ForgetWaits == ASSUME KeptInv, WatchInv, WaitInv, Forget PROVE WaitInv'
<1>1. /\ Input /\ case = None /\ up /\ up' /\ stage' = "persist"
      /\ UNCHANGED <<case, readonly, session, scan, ui, task, thread, fresh>>
  BY DEF Forget, Input
<1>2. PICK i \in DOMAIN pending : /\ pending' = RemoveAt(pending, i)
                                  /\ owed' = owed \ Waiting(<<pending[i]>>)
                                  /\ file' \in {pending', file}
  BY DEF Forget, Save
<1>3. pending \in Saves /\ file \in Saves
  BY DEF WaitInv, QueuesInv
<1>4. /\ pending' \in Saves
      /\ \A o \in Waiting(pending) : o \notin Waiting(<<pending[i]>>) => o \in Waiting(pending')
      /\ \A k \in DOMAIN pending' : \E j \in DOMAIN pending : pending'[k].case = pending[j].case
  BY <1>2, <1>3, RemovedIs
<1>5. QueuesInv'
  BY <1>1, <1>2, <1>3, <1>4 DEF WaitInv, QueuesInv
<1>6. BegunInv' /\ AskedInv'
  BY <1>1, <1>2, <1>4, BegunFrame, AskedFrame DEF WaitInv
<1>8. \A o \in owed' : StillWaits(o)'
  BY <1>1, <1>2, <1>4 DEF WaitInv, OwedInv, StillWaits
<1>9. \A o \in fresh' : JustAdded(o)'
  BY <1>1 DEF WaitInv, OwedInv, JustAdded
<1>10. OwedInv'
  BY <1>1, <1>2, <1>8, <1>9 DEF WaitInv, OwedInv
<1> QED BY <1>5, <1>6, <1>10 DEF WaitInv

LEMMA IdleClickWaits == ASSUME KeptInv, WatchInv, WaitInv, SetReadonly \/ NoInput PROVE WaitInv'
<1>1. /\ Input \/ NoInput
      /\ UNCHANGED <<case, session, scan, ui, task, thread, pending, file, owed, fresh>>
      /\ readonly' = readonly \/ case = None
  BY DEF SetReadonly, NoInput, process, disk, history
<1>2. BegunInv' /\ AskedInv'
  BY <1>1, BegunFrame DEF WaitInv, AskedInv
<1> QED BY <1>1, <1>2, OtherClick

(* Between the frames. *)
LEMMA BetweenWaits ==
  ASSUME WaitInv, up, up', stage' = stage, FreshStage',
         UNCHANGED <<case, readonly, session, scan, pending, file, ui>>,
         owed' \subseteq owed, fresh' \subseteq fresh, BegunInv'
  PROVE  WaitInv'
<1>1. QueuesInv'
  BY DEF WaitInv, QueuesInv
<1>2. AskedInv'
  BY AskedFrame DEF WaitInv
<1>3. OwedInv'
  BY OwedFrame DEF WaitInv
<1> QED BY <1>1, <1>2, <1>3 DEF WaitInv

LEMMA CloseWindowWaits == ASSUME WatchInv, WaitInv, CloseWindow PROVE WaitInv'
<1>1. /\ up /\ up' /\ stage = "close" /\ stage' = stage
      /\ UNCHANGED <<case, readonly, session, scan, ui, task, thread, pending, file, owed, fresh>>
  BY DEF CloseWindow, disk, history
<1>2. BegunInv'
  BY <1>1, BegunFrame DEF WaitInv
<1>3. FreshStage'
  BY <1>1 DEF WaitInv, OwedInv, FreshStage
<1> QED BY <1>1, <1>2, <1>3, BetweenWaits

LEMMA TaskEndsWaits == ASSUME KeptInv, WatchInv, WaitInv, TaskEnds PROVE WaitInv'
<1>1. /\ up /\ up' /\ stage = "close" /\ stage' = stage /\ busy
      /\ UNCHANGED <<case, readonly, session, scan, ui, thread, pending, file, fresh>>
  BY DEF TaskEnds
<1>2. owed' \subseteq owed
  BY DEF TaskEnds
<1>3. PICK done \in {"yes", "failed"} : task' = [task EXCEPT !.done = done]
  BY DEF TaskEnds
<1>4. /\ task'.work = task.work /\ task'.case = task.case /\ task'.sources = task.sources
      /\ task'.write = task.write
  BY <1>1, <1>3 DEF KeptInv, TaskType
<1>5. BegunInv'
  BY <1>1, <1>2, <1>4 DEF WaitInv, BegunInv
<1>6. FreshStage'
  BY <1>1 DEF WaitInv, OwedInv, FreshStage
<1> QED BY <1>1, <1>2, <1>5, <1>6, BetweenWaits

LEMMA ScanEndsWaits ==
  ASSUME WaitInv, NEW h \in Handles, ScanEnds(h) PROVE WaitInv'
<1>1. /\ up /\ up' /\ stage = "close" /\ stage' = stage
      /\ UNCHANGED <<case, readonly, session, scan, ui, task, pending, file, owed, fresh>>
  BY DEF ScanEnds, disk, history
<1>2. BegunInv'
  BY <1>1, BegunFrame DEF WaitInv
<1>3. FreshStage'
  BY <1>1 DEF WaitInv, OwedInv, FreshStage
<1> QED BY <1>1, <1>2, <1>3, BetweenWaits

LEMMA StutterWaits == ASSUME WaitInv, UNCHANGED desktopVars PROVE WaitInv'
<1>1. UNCHANGED <<up, stage, case, readonly, session, scan, ui, task, thread, pending, file, owed, fresh>>
  BY DEF desktopVars, process, disk, history
<1>2. QueuesInv' /\ BegunInv' /\ AskedInv'
  BY <1>1 DEF WaitInv, QueuesInv, BegunInv, AskedInv, busy
<1>3. OwedInv'
  BY <1>1 DEF WaitInv, OwedInv, StillWaits, JustAdded
<1> QED BY <1>2, <1>3 DEF WaitInv

LEMMA WaitStep ==
  ASSUME KeptInv, WatchInv, WaitInv, RoomLeft, [Next]_desktopVars PROVE WaitInv'
<1>1. CASE FrameStep \/ NoInput
  BY <1>1, CloseWaits, CallbackWaits, ResultWaits, QueueWaits, PersistWaits, QuitWaits, IdleClickWaits
     DEF FrameStep
<1>2. CASE Click
  <2>1. CASE Ingest \/ Pause \/ HoldOrContinue \/ RemoveSelected \/ Move \/ Resume \/ SetReadonly
    BY <2>1, IngestWaits, PauseWaits, HoldWaits, RemoveWaits, MoveWaits, ResumeWaits, IdleClickWaits
  <2>2. CASE Choose \/ SaveCopy \/ KeepWorking \/ Discard \/ Restore \/ Forget
    BY <2>2, ChooseWaits, SaveCopyWaits, KeepWorkingWaits, DiscardWaits, RestoreWaits, ForgetWaits
  <2> QED BY <1>2, <2>1, <2>2 DEF Click
<1>3. CASE Start \/ Crash \/ CloseWindow \/ TaskEnds
  BY <1>3, StartWaits, CrashWaits, CloseWindowWaits, TaskEndsWaits
<1>4. CASE (\E h \in Handles : ScanEnds(h)) \/ UNCHANGED desktopVars
  BY <1>4, ScanEndsWaits, StutterWaits
<1> QED BY <1>1, <1>2, <1>3, <1>4 DEF Next

LEMMA WaitInit == Init => WaitInv
<1> SUFFICES ASSUME Init PROVE WaitInv
  OBVIOUS
<1>1. QueueOK(<< >>) /\ << >> \in Saves
  BY DesktopAssumption DEF QueueOK, IsInjective, Saves, Unique
<1>2. /\ scan.queue = << >> /\ pending = << >> /\ file = << >> /\ task = None /\ case = None /\ session = None
      /\ ui.discard = FALSE /\ ui.confirm = FALSE /\ ui.wanted = None /\ stage = "close" /\ ~up
      /\ owed = {} /\ fresh = {}
  BY DEF Init, NewScanUi, NewSessionUi
<1> QED BY <1>1, <1>2, DesktopAssumption DEF WaitInv, QueuesInv, BegunInv, OwedInv, AskedInv, busy, Cases

LEMMA WaitSound == ASSUME KeptInv, WatchInv, WaitInv PROVE DesktopSound
<1>1. ASSUME NEW list \in Saves PROVE PendingOK(list)
  <2>1. \A i \in DOMAIN list : list[i] \in Entries
    BY DEF Saves
  <2> QED BY <2>1 DEF Saves, PendingOK, Entries, Unique
<1>2. DesktopTypeOK
  BY <1>1, DesktopAssumption DEF KeptInv, SessionInv, WatchInv, ScanType, WaitInv, QueuesInv,
     DesktopTypeOK, Cases
<1>3. WaitingKept
  BY DEF WaitInv, OwedInv, StillWaits, WaitingKept
<1> QED BY <1>2, <1>3 DEF DesktopSound, WatchInv

LEMMA WaitingInit == Init => KeptInv /\ WatchInv /\ WaitInv
BY SessionInit, WaitInit, WatchReset DEF Init, KeptInv, WatchInv, ScanIsWatched, ScanType, ThreadsType,
   ThreadStates, NewScanUi, Idle, running, busy

LEMMA WaitingStep ==
  ASSUME KeptInv, WatchInv, WaitInv, RoomLeft, [Next]_desktopVars
  PROVE  KeptInv' /\ WatchInv' /\ WaitInv'
BY SessionStep, WatchStep, WaitStep DEF KeptInv

(* A case that is not in the settings leaves room for itself: as many cases *)
(* as the settings hold, or fewer, always have room.                        *)
LEMMA FewCases ==
  ASSUME IsFiniteSet(Cases), Cardinality(Cases) <= PendingLimit, QueuesInv PROVE RoomLeft
<1> SUFFICES ASSUME case # None PROVE Len(Without(pending, case)) < PendingLimit
  BY DEF RoomLeft
<1> DEFINE others == Without(pending, case)
           T == Cases \ {case}
           f == [i \in DOMAIN others |-> others[i].case]
<1>1. /\ others \in Seq(Entries) /\ Unique(others)
      /\ \A i \in DOMAIN others : others[i].case # case
  BY WithoutIs DEF QueuesInv, Saves
<1> HIDE DEF others
<1>2. f \in Injection(DOMAIN others, T)
  <2>0. \A i \in DOMAIN others : others[i] \in Entries
    BY <1>1
  <2>1. \A i \in DOMAIN others : others[i].case \in T
    BY <1>1, <2>0 DEF Entries
  <2>2. f \in [DOMAIN others -> T]
    BY <2>1
  <2>3. \A i, j \in DOMAIN others : f[i] = f[j] => i = j
    BY <1>1 DEF Unique
  <2> HIDE DEF f, T
  <2> QED BY <2>2, <2>3 DEF Injection, IsInjective
<1>3. /\ IsFiniteSet(T) /\ Cardinality(Cases) \in Nat /\ Cardinality(T) = Cardinality(Cases) - 1
  <2>1. case \in Cases
    BY DEF QueuesInv
  <2> QED BY <2>1, FS_RemoveElement, FS_CardinalityType
<1>4. Cardinality(DOMAIN others) <= Cardinality(T)
  <2> HIDE DEF f, T
  <2> QED BY <1>2, <1>3, FS_Injection
<1>5. Len(others) \in Nat /\ DOMAIN others = 1..Len(others)
  BY <1>1
<1>6. Cardinality(1..Len(others)) = Len(others)
  <2>1. PICK n \in Nat : n = Len(others)
    BY <1>5
  <2>2. Cardinality(1..n) = IF 1 > n THEN 0 ELSE n - 1 + 1
    BY FS_Interval
  <2>3. Cardinality(1..n) = n
    BY <2>2
  <2> QED BY <2>1, <2>3
<1> QED BY <1>3, <1>4, <1>5, <1>6, DesktopAssumption DEF others

(* A source that the user put into a queue waits until it is taken from its *)
(* head to be scanned, he takes it out, it is gone or he is told of a       *)
(* failure: over crashes and restarts between any two steps, changes of     *)
(* cases also during a scan, and cases that are read-only; and every scan   *)
(* that he did not leave runs under his eyes.  That asks for room in the    *)
(* settings: Persist truncates them to PendingLimit entries                 *)
(* (recovery.rs:74), the newest first.                                      *)
THEOREM DesktopIsSound == Spec /\ []RoomLeft => []DesktopSound
<1>1. Init => KeptInv /\ WatchInv /\ WaitInv
  BY WaitingInit
<1>2. KeptInv /\ WatchInv /\ WaitInv /\ RoomLeft /\ [Next]_desktopVars => KeptInv' /\ WatchInv' /\ WaitInv'
  BY WaitingStep
<1>3. KeptInv /\ WatchInv /\ WaitInv => DesktopSound
  BY WaitSound
<1> QED BY <1>1, <1>2, <1>3, PTL DEF Spec

(* With no more cases than the settings have entries there is always room.  *)
THEOREM FewCasesAreSound ==
  ASSUME IsFiniteSet(Cases), Cardinality(Cases) <= PendingLimit
  PROVE  Spec => []DesktopSound
<1>1. Init => KeptInv /\ WatchInv /\ WaitInv
  BY WaitingInit
<1>2. KeptInv /\ WatchInv /\ WaitInv /\ [Next]_desktopVars => KeptInv' /\ WatchInv' /\ WaitInv'
  BY FewCases, WaitingStep DEF WaitInv
<1>3. KeptInv /\ WatchInv /\ WaitInv => DesktopSound
  BY WaitSound
<1> QED BY <1>1, <1>2, <1>3, PTL DEF Spec
=============================================================================
