---------------------------- MODULE GSWindowProofs ----------------------------
(***************************************************************************)
(* Proofs about a screensaver window and its dialogs, for any number of    *)
(* dialogs, windows, lines and queued keys: every child process is one     *)
(* that the window will end, keys reach the dialog they were typed for,    *)
(* and a locked window is deactivated only after a dialog accepted the     *)
(* user.                                                                   *)
(***************************************************************************)
EXTENDS GSWindow, TLAPS

-----------------------------------------------------------------------------
(* The inductive invariant, in parts that few actions touch together *)

Lines == {"id", "failed", "ok", "cancel", "quit"}

Process == [alive: BOOLEAN, shown: BOOLEAN, accepted: BOOLEAN,
            last: Lines \cup {"none"}]

(***************************************************************************)
(* The fields of the window: a dialog that runs is up, and one that is     *)
(* still to be spawned has no predecessor, so that no pid is overwritten;  *)
(* the socket is that of the dialog.  A window that is gone has nothing.   *)
(***************************************************************************)
PidsOf(w, n) ==
  /\ w.lock_pid \in 0..n
  /\ w.lock_pid # NoPid => w.dialog_up
  /\ w.popup_idle => w.dialog_up /\ w.lock_pid = NoPid
  /\ w.socket \in {NoPid, w.lock_pid}
  /\ ~w.exists => w.lock_pid = NoPid /\ ~w.popup_idle

\* The keys in the queue, and the ones delivered.
KeyOrder ==
  /\ key_events \in Seq([kind: KeyKinds, for: Nat])
  /\ Len(key_events) <= MaxQueuedEvents
  /\ \A i \in 1..Len(key_events) : key_events[i].for = ExpectedDialog
  /\ key_events # <<>> => Head(key_events).kind = "text"
  /\ \A d \in delivered : d[1] = d[2]

(***************************************************************************)
(* The processes: those to come have done nothing, and only one that has   *)
(* accepted the user has written RESPONSE=OK.                              *)
(***************************************************************************)
ProcessOrder ==
  /\ dialogs \in [Pids -> Process] /\ pipes \in [Pids -> Seq(Lines)]
  /\ \A p \in Pids : Len(pipes[p]) <= MaxLines
  /\ \A p \in Pids : p > spawned => ~dialogs[p].alive /\ ~dialogs[p].accepted
                                       /\ pipes[p] = <<>>
  /\ \A p \in Pids : \A i \in 1..Len(pipes[p]) :
       pipes[p][i] = "ok" => dialogs[p].accepted

\* A response that is kept is one that this window has read, of a dialog that
\* had accepted the user.
OfWindow(id, ok, read) ==
  ok => \E p \in Pids : <<id, p>> \in read /\ dialogs[p].accepted

ResponseOrder == OfWindow(window.id, window.response_ok, answers)

Counters ==
  /\ emits \in 0..MaxEmits /\ spawned \in 0..MaxDialogs /\ running \in BOOLEAN
  /\ shakes \in Seq((0..MaxWindows) \X Pids)
  /\ children \in [dialogs: SUBSET Pids, keyboards: SUBSET Pids]

WindowInv ==
  /\ window \in WindowState /\ PidsOf(window, spawned) /\ ChildrenAreKnown
  /\ KeyOrder /\ ProcessOrder /\ ResponseOrder /\ Counters

\* The parts that an action leaves alone.
LEMMA KeysStay ==
  ASSUME KeyOrder, UNCHANGED <<key_events, delivered>>, ExpectedDialog' = ExpectedDialog
  PROVE  KeyOrder'
BY DEF KeyOrder

LEMMA KeysDropped ==
  ASSUME KeyOrder, key_events' = <<>>, UNCHANGED delivered
  PROVE  KeyOrder'
<1>1. key_events' \in Seq([kind: KeyKinds, for: Nat]) /\ Len(key_events') = 0
  OBVIOUS
<1> QED BY <1>1, WindowBoundsAssumption DEF KeyOrder

LEMMA ProcessesStay ==
  ASSUME ProcessOrder, UNCHANGED <<dialogs, pipes, spawned>>
  PROVE  ProcessOrder'
BY DEF ProcessOrder

LEMMA ChildrenStay ==
  ASSUME ChildrenAreKnown, UNCHANGED children, window'.lock_pid = window.lock_pid,
         window'.lock_watch = window.lock_watch,
         window'.keyboard_pid = window.keyboard_pid
  PROVE  ChildrenAreKnown'
BY DEF ChildrenAreKnown

LEMMA ExpectedStays ==
  ASSUME window'.lock_pid = window.lock_pid, spawned' = spawned
  PROVE  ExpectedDialog' = ExpectedDialog
BY DEF ExpectedDialog

-----------------------------------------------------------------------------
(* Requests and input *)

\* What a request to unlock makes of the window.
LEMMA RequestKeeps ==
  ASSUME WindowInv, RequestUnlock(window), spawned' = spawned, window.exists
  PROVE  /\ window' \in WindowState /\ PidsOf(window', spawned')
         /\ window'.lock_pid = window.lock_pid /\ window'.lock_watch = window.lock_watch
         /\ window'.keyboard_pid = window.keyboard_pid
         /\ window'.response_ok = window.response_ok /\ window'.id = window.id
         /\ emits' \in 0..MaxEmits
<1>1. window' = window \/ (~window.dialog_up
        /\ window' = [window EXCEPT !.popup_idle = TRUE, !.dialog_up = TRUE])
  BY DEF RequestUnlock, UnlockRequested
<1>2. emits' \in 0..MaxEmits
  BY WindowBoundsAssumption DEF RequestUnlock, WindowInv, Counters
<1>3. window \in WindowState /\ PidsOf(window, spawned)
  BY DEF WindowInv
<1>4. CASE window' = window
  BY <1>2, <1>3, <1>4
<1>5. CASE ~window.dialog_up
             /\ window' = [window EXCEPT !.popup_idle = TRUE, !.dialog_up = TRUE]
  <2>1. window.lock_pid = NoPid
    BY <1>3, <1>5 DEF PidsOf
  <2>2. /\ window' \in WindowState /\ window'.popup_idle /\ window'.dialog_up
        /\ window'.lock_pid = window.lock_pid /\ window'.lock_watch = window.lock_watch
        /\ window'.keyboard_pid = window.keyboard_pid
        /\ window'.response_ok = window.response_ok /\ window'.id = window.id
        /\ window'.socket = window.socket /\ window'.exists = window.exists
    BY <1>3, <1>5 DEF WindowState
  <2> QED BY <1>2, <1>3, <2>1, <2>2 DEF PidsOf
<1> QED BY <1>1, <1>4, <1>5

\* The same when there is activity.
LEMMA ActivityKeeps ==
  ASSUME WindowInv, ActivityHandled(window), spawned' = spawned, window.exists
  PROVE  /\ window' \in WindowState /\ PidsOf(window', spawned')
         /\ window'.lock_pid = window.lock_pid /\ window'.lock_watch = window.lock_watch
         /\ window'.keyboard_pid = window.keyboard_pid
         /\ window'.response_ok = window.response_ok /\ window'.id = window.id
         /\ emits' \in 0..MaxEmits
<1>1. CASE window.socket = NoPid
  BY <1>1, RequestKeeps DEF ActivityHandled
<1>2. CASE window.socket # NoPid
  BY <1>2 DEF ActivityHandled, WindowInv, Counters
<1> QED BY <1>1, <1>2

\* A key is queued for the dialog that the user sees or waits for, and the
\* queue begins with text.
LEMMA KeyIsQueued ==
  ASSUME WindowInv, NEW kind \in KeyKinds, key_events' = queue_key_event(kind),
         ExpectedDialog' = ExpectedDialog,
         \A d \in delivered' : d \in delivered \/ d[1] = d[2]
  PROVE  KeyOrder'
<1>1. KeyOrder /\ ExpectedDialog \in Nat
  BY WindowBoundsAssumption
  DEF WindowInv, ExpectedDialog, Counters, PidsOf
<1>2. \A d \in delivered' : d[1] = d[2]
  BY <1>1 DEF KeyOrder
<1>3. CASE key_events' = key_events
  BY <1>1, <1>2, <1>3 DEF KeyOrder
<1>4. CASE key_events' # key_events
  <2> DEFINE k == [kind |-> kind, for |-> ExpectedDialog]
  <2>1. /\ key_events' = Append(key_events, k) /\ Len(key_events) < MaxQueuedEvents
        /\ kind # "focus" /\ (key_events = <<>> => kind # "submit")
    BY <1>1, <1>4, WindowBoundsAssumption DEF queue_key_event, KeyOrder
  <2>2. k \in [kind: KeyKinds, for: Nat] /\ k.for = ExpectedDialog /\ k.kind = kind
    BY <1>1
  <2> HIDE DEF k
  <2>3. /\ key_events' \in Seq([kind: KeyKinds, for: Nat])
        /\ Len(key_events') = Len(key_events) + 1
        /\ \A i \in 1..Len(key_events) : key_events'[i] = key_events[i]
        /\ key_events'[Len(key_events) + 1] = k
    BY <1>1, <2>1, <2>2 DEF KeyOrder
  <2>4. Len(key_events') <= MaxQueuedEvents
    BY <1>1, <2>1, <2>3, WindowBoundsAssumption DEF KeyOrder
  <2>5. \A i \in 1..Len(key_events') : key_events'[i].for = ExpectedDialog
    <3> TAKE i \in 1..Len(key_events')
    <3>1. i \in 1..Len(key_events) \/ i = Len(key_events) + 1
      BY <1>1, <2>3 DEF KeyOrder
    <3> QED BY <1>1, <2>2, <2>3, <3>1 DEF KeyOrder
  <2>6. Head(key_events').kind = "text"
    <3>1. Head(key_events') = key_events'[1]
      BY <2>3
    <3>2. CASE key_events = <<>>
      BY <2>1, <2>2, <2>3, <3>1, <3>2 DEF KeyKinds
    <3>3. CASE key_events # <<>>
      <4>1. Len(key_events) > 0 /\ key_events[1] = Head(key_events)
        BY <1>1, <3>3 DEF KeyOrder
      <4> QED BY <1>1, <2>3, <3>1, <3>3, <4>1 DEF KeyOrder
    <3> QED BY <3>2, <3>3
  <2> QED BY <1>2, <2>3, <2>4, <2>5, <2>6 DEF KeyOrder
<1> QED BY <1>3, <1>4

-----------------------------------------------------------------------------
(* The dialog goes down *)

\* Nothing is left of the processes but what they have accepted.
LEMMA DialogFinishes ==
  ASSUME WindowInv, gs_window_dialog_finish, spawned' = spawned
  PROVE  /\ ProcessOrder'
         /\ \A p \in Pids : dialogs'[p].accepted <=> dialogs[p].accepted
         /\ children' = [dialogs |-> {}, keyboards |-> {}]
         /\ key_events' = <<>>
<1>1. /\ dialogs \in [Pids -> Process] /\ pipes \in [Pids -> Seq(Lines)]
      /\ ProcessOrder
  BY DEF WindowInv, ProcessOrder
<1> DEFINE q == window.lock_pid
<1>2. /\ dialogs' = [p \in Pids |-> IF p = q
                       THEN [Gone EXCEPT !.accepted = dialogs[p].accepted] ELSE dialogs[p]]
      /\ pipes' = [p \in Pids |-> IF p = q THEN <<>> ELSE pipes[p]]
      /\ key_events' = <<>>
  BY DEF gs_window_dialog_finish, Reaped
<1>3. \A p \in Pids : /\ dialogs'[p] \in Process
                      /\ dialogs'[p].accepted <=> dialogs[p].accepted
                      /\ dialogs'[p].alive => dialogs[p].alive
  <2> SUFFICES ASSUME NEW p \in Pids
               PROVE  /\ dialogs'[p] \in Process
                      /\ dialogs'[p].accepted <=> dialogs[p].accepted
                      /\ dialogs'[p].alive => dialogs[p].alive
    OBVIOUS
  <2> DEFINE a == dialogs[p].accepted
  <2>1. a \in BOOLEAN /\ dialogs[p] \in Process
    BY <1>1 DEF Process
  <2>2. CASE p = q
    <3>1. dialogs'[p] = [alive |-> FALSE, shown |-> FALSE, accepted |-> a, last |-> "none"]
      BY <1>2, <2>2 DEF Gone, Fresh
    <3> HIDE DEF a
    <3>2. /\ dialogs'[p] \in Process /\ dialogs'[p].accepted = a /\ ~dialogs'[p].alive
      BY <2>1, <3>1 DEF Process
    <3> QED BY <3>2 DEF a
  <2>3. CASE p # q
    BY <1>2, <2>1, <2>3
  <2> QED BY <2>2, <2>3
<1>4. \A p \in Pids : pipes'[p] = pipes[p] \/ pipes'[p] = <<>>
  BY <1>2
<1>5. dialogs' \in [Pids -> Process]
  <2>1. dialogs' = [p \in Pids |-> dialogs'[p]]
    BY <1>2
  <2> QED BY <1>3, <2>1
<1>6. pipes' \in [Pids -> Seq(Lines)]
  BY <1>1, <1>2
<1>7. \A p \in Pids : Len(pipes'[p]) <= MaxLines
  <2>1. Len(<<>>) = 0
    OBVIOUS
  <2> QED BY <1>1, <1>4, <2>1, WindowBoundsAssumption DEF ProcessOrder
<1>8. \A p \in Pids : \A i \in 1..Len(pipes'[p]) :
        pipes'[p][i] = "ok" => dialogs'[p].accepted
  <2> SUFFICES ASSUME NEW p \in Pids, NEW i \in 1..Len(pipes'[p]), pipes'[p][i] = "ok"
               PROVE  dialogs'[p].accepted
    OBVIOUS
  <2>1. pipes'[p] = pipes[p]
    BY <1>4
  <2> QED BY <1>1, <1>3, <2>1 DEF ProcessOrder
<1>9. ProcessOrder'
  BY <1>1, <1>3, <1>4, <1>5, <1>6, <1>7, <1>8 DEF ProcessOrder
<1>10. children' = [dialogs |-> {}, keyboards |-> {}]
  <2>1. /\ children' = [children EXCEPT !.keyboards = @ \ {window.keyboard_pid},
                                        !.dialogs = @ \ {window.lock_pid}]
        /\ children \in [dialogs: SUBSET Pids, keyboards: SUBSET Pids]
    BY DEF gs_window_dialog_finish, KeyboardFinished, WindowInv, Counters
  <2>2. children.dialogs \ {window.lock_pid} = {}
        /\ children.keyboards \ {window.keyboard_pid} = {}
    BY DEF WindowInv, ChildrenAreKnown
  <2> QED BY <2>1, <2>2
<1> QED BY <1>2, <1>3, <1>9, <1>10

\* The invariant when the dialog of the window w has gone down.
LEMMA PopDownKeeps ==
  ASSUME WindowInv, NEW w \in WindowState, popdown_dialog(w), w.exists,
         OfWindow(w.id, w.response_ok, answers'),
         UNCHANGED <<shakes, spawned, delivered, running>>, emits' \in 0..MaxEmits
  PROVE  WindowInv'
<1>1. /\ ProcessOrder' /\ children' = [dialogs |-> {}, keyboards |-> {}]
      /\ \A p \in Pids : dialogs'[p].accepted <=> dialogs[p].accepted
      /\ key_events' = <<>>
  BY DialogFinishes DEF popdown_dialog
<1>2. /\ window' \in WindowState /\ window'.lock_pid = NoPid /\ window'.lock_watch = NoPid
      /\ window'.keyboard_pid = NoPid /\ window'.socket = NoPid /\ ~window'.popup_idle
      /\ window'.response_ok = w.response_ok /\ window'.id = w.id
  BY DEF popdown_dialog, PoppedDown, WindowState
<1>3. PidsOf(window', spawned')
  BY <1>2 DEF PidsOf, NoPid, WindowInv, Counters
<1>4. ChildrenAreKnown'
  BY <1>1, <1>2 DEF ChildrenAreKnown
<1>5. KeyOrder'
  BY <1>1, KeysDropped DEF WindowInv
<1>6. ResponseOrder'
  BY <1>1, <1>2 DEF ResponseOrder, OfWindow
<1>7. Counters'
  BY <1>1 DEF WindowInv, Counters
<1> QED BY <1>1, <1>2, <1>3, <1>4, <1>5, <1>6, <1>7 DEF WindowInv

-----------------------------------------------------------------------------
(* The processes *)

\* A process that ends keeps what it has accepted.
LEMMA KilledKeeps ==
  ASSUME WindowInv,
         dialogs' = dialogs
           \/ \E q \in Pids : dialogs' = [dialogs EXCEPT ![q].alive = FALSE],
         UNCHANGED <<pipes, spawned>>
  PROVE  ProcessOrder' /\ \A p \in Pids : dialogs'[p].accepted <=> dialogs[p].accepted
<1>1. ProcessOrder /\ dialogs \in [Pids -> Process]
  BY DEF WindowInv, ProcessOrder
<1>2. CASE dialogs' = dialogs
  BY <1>1, <1>2 DEF ProcessOrder
<1>3. ASSUME NEW q \in Pids, dialogs' = [dialogs EXCEPT ![q].alive = FALSE]
      PROVE  ProcessOrder' /\ \A p \in Pids : dialogs'[p].accepted <=> dialogs[p].accepted
  <2>1. dialogs' \in [Pids -> Process]
    BY <1>1, <1>3 DEF Process
  <2>2. \A p \in Pids : /\ dialogs'[p].accepted <=> dialogs[p].accepted
                        /\ dialogs'[p].alive => dialogs[p].alive
    BY <1>1, <1>3 DEF Process
  <2> QED BY <1>1, <2>1, <2>2 DEF ProcessOrder
<1> QED BY <1>2, <1>3

\* A line that is read leaves the others, also when its writer ends.
LEMMA LineTaken ==
  ASSUME ProcessOrder, NEW p \in Pids, pipes[p] # <<>>,
         pipes' = [pipes EXCEPT ![p] = Tail(@)], UNCHANGED spawned,
         dialogs' \in [Pids -> Process],
         \A q \in Pids : /\ dialogs'[q].accepted <=> dialogs[q].accepted
                         /\ dialogs'[q].alive => dialogs[q].alive
  PROVE  ProcessOrder'
<1>1. pipes \in [Pids -> Seq(Lines)] /\ pipes[p] \in Seq(Lines)
  BY DEF ProcessOrder
<1> DEFINE s == Tail(pipes[p])
<1>2. /\ s \in Seq(Lines) /\ Len(s) = Len(pipes[p]) - 1
      /\ \A i \in 1..Len(s) : i + 1 \in 1..Len(pipes[p]) /\ s[i] = pipes[p][i + 1]
  BY <1>1
<1>3. pipes' = [pipes EXCEPT ![p] = s]
  OBVIOUS
<1> HIDE DEF s
<1>4. pipes' \in [Pids -> Seq(Lines)] /\ pipes'[p] = s
      /\ \A q \in Pids : q # p => pipes'[q] = pipes[q]
  BY <1>1, <1>2, <1>3
<1>5. \A q \in Pids : Len(pipes'[q]) <= MaxLines
  BY <1>1, <1>2, <1>4, WindowBoundsAssumption DEF ProcessOrder
<1>6. \A q \in Pids : q > spawned => /\ ~dialogs'[q].alive /\ ~dialogs'[q].accepted
                                    /\ pipes'[q] = <<>>
  BY <1>4 DEF ProcessOrder
<1>7. \A q \in Pids : \A i \in 1..Len(pipes'[q]) :
        pipes'[q][i] = "ok" => dialogs[q].accepted
  BY <1>2, <1>4 DEF ProcessOrder
<1>8. \A q \in Pids : \A i \in 1..Len(pipes'[q]) :
        pipes'[q][i] = "ok" => dialogs'[q].accepted
  BY <1>7
<1> QED BY <1>4, <1>5, <1>6, <1>8 DEF ProcessOrder

\* What a process does keeps the order.
LEMMA DialogStepKeeps ==
  ASSUME WindowInv, NEW p \in Pids, dialog_step(p)
  PROVE  ProcessOrder' /\ \A q \in Pids : dialogs[q].accepted => dialogs'[q].accepted
<1>1. /\ ProcessOrder /\ dialogs \in [Pids -> Process] /\ dialogs[p] \in Process
      /\ pipes \in [Pids -> Seq(Lines)] /\ spawned' = spawned
  BY DEF WindowInv, ProcessOrder, dialog_step
<1>2. dialogs[p].alive
  BY DEF dialog_step, Dialog!CanWrite, Dialog!CanAccept
<1>3. ~(p > spawned)
  BY <1>1, <1>2 DEF ProcessOrder
<1>4. ASSUME NEW x \in Process, dialogs' = [dialogs EXCEPT ![p] = x],
             dialogs[p].accepted => x.accepted
      PROVE  /\ dialogs' \in [Pids -> Process]
             /\ \A q \in Pids : dialogs[q].accepted => dialogs'[q].accepted
             /\ \A q \in Pids : q > spawned' => ~dialogs'[q].alive /\ ~dialogs'[q].accepted
  BY <1>1, <1>3, <1>4 DEF ProcessOrder
<1>5. ASSUME NEW line \in Lines, Len(pipes[p]) < MaxLines, Dialog(p)!CanWrite(line),
             dialogs' = [dialogs EXCEPT ![p] = Dialog(p)!Wrote(line)],
             pipes' = [pipes EXCEPT ![p] = Append(@, line)]
      PROVE  ProcessOrder' /\ \A q \in Pids : dialogs[q].accepted => dialogs'[q].accepted
  <2> DEFINE x == Dialog(p)!Wrote(line)
             s == Append(pipes[p], line)
  <2>1. x \in Process /\ (x.accepted <=> dialogs[p].accepted)
    BY <1>1 DEF Dialog!Wrote, Process
  <2>2. line = "ok" => x.accepted
    BY <1>5, <2>1 DEF Dialog!CanWrite, Lines
  <2>3. /\ s \in Seq(Lines) /\ Len(s) = Len(pipes[p]) + 1 /\ s[Len(pipes[p]) + 1] = line
        /\ \A i \in 1..Len(pipes[p]) : s[i] = pipes[p][i]
    BY <1>1
  <2>4. dialogs' = [dialogs EXCEPT ![p] = x] /\ pipes' = [pipes EXCEPT ![p] = s]
    BY <1>5
  <2> HIDE DEF x, s
  <2>5. /\ dialogs' \in [Pids -> Process]
        /\ \A q \in Pids : dialogs[q].accepted => dialogs'[q].accepted
        /\ \A q \in Pids : q > spawned' => ~dialogs'[q].alive /\ ~dialogs'[q].accepted
    BY <1>4, <2>1, <2>4
  <2>6. /\ pipes' \in [Pids -> Seq(Lines)] /\ pipes'[p] = s /\ dialogs'[p] = x
        /\ \A q \in Pids : q # p => pipes'[q] = pipes[q]
    BY <1>1, <2>3, <2>4
  <2>7. \A q \in Pids : Len(pipes'[q]) <= MaxLines
    <3>1. Len(s) <= MaxLines
      BY <1>1, <1>5, <2>3, WindowBoundsAssumption
    <3> QED BY <1>1, <2>6, <3>1 DEF ProcessOrder
  <2>8. \A q \in Pids : \A i \in 1..Len(pipes'[q]) :
          pipes'[q][i] = "ok" => dialogs'[q].accepted
    <3> SUFFICES ASSUME NEW q \in Pids, NEW i \in 1..Len(pipes'[q]), pipes'[q][i] = "ok"
                 PROVE  dialogs'[q].accepted
      OBVIOUS
    <3>1. CASE q # p
      BY <1>1, <2>5, <2>6, <3>1 DEF ProcessOrder
    <3>2. CASE q = p
      <4>1. i \in 1..Len(pipes[p]) \/ i = Len(pipes[p]) + 1
        BY <1>1, <2>3, <2>6, <3>2
      <4>2. CASE i \in 1..Len(pipes[p])
        BY <1>1, <2>3, <2>5, <2>6, <3>2, <4>2 DEF ProcessOrder
      <4>3. CASE i = Len(pipes[p]) + 1
        BY <2>2, <2>3, <2>6, <3>2, <4>3
      <4> QED BY <4>1, <4>2, <4>3
    <3> QED BY <3>1, <3>2
  <2>9. \A q \in Pids : q > spawned' => pipes'[q] = <<>>
    BY <1>1, <1>3, <2>6 DEF ProcessOrder
  <2> QED BY <2>5, <2>6, <2>7, <2>8, <2>9 DEF ProcessOrder
<1>6. ASSUME dialogs' = [dialogs EXCEPT ![p] = Dialog(p)!Accepted]
             \/ dialogs' = [dialogs EXCEPT ![p] = Dialog(p)!Exited], UNCHANGED pipes
      PROVE  ProcessOrder' /\ \A q \in Pids : dialogs[q].accepted => dialogs'[q].accepted
  <2>1. PICK x \in Process : /\ dialogs' = [dialogs EXCEPT ![p] = x]
                             /\ dialogs[p].accepted => x.accepted
    <3>1. CASE dialogs' = [dialogs EXCEPT ![p] = Dialog(p)!Accepted]
      <4>1. Dialog(p)!Accepted \in Process /\ Dialog(p)!Accepted.accepted
        BY <1>1 DEF Dialog!Accepted, Process
      <4> QED BY <3>1, <4>1
    <3>2. CASE dialogs' = [dialogs EXCEPT ![p] = Dialog(p)!Exited]
      <4>1. /\ Dialog(p)!Exited \in Process
            /\ dialogs[p].accepted => Dialog(p)!Exited.accepted
        BY <1>1 DEF Dialog!Exited, Process
      <4> QED BY <3>2, <4>1
    <3> QED BY <1>6, <3>1, <3>2
  <2>2. /\ dialogs' \in [Pids -> Process]
        /\ \A q \in Pids : dialogs[q].accepted => dialogs'[q].accepted
        /\ \A q \in Pids : q > spawned' => ~dialogs'[q].alive /\ ~dialogs'[q].accepted
    BY <1>4, <2>1
  <2> QED BY <1>1, <1>6, <2>2 DEF ProcessOrder
<1> QED BY <1>5, <1>6 DEF dialog_step, Lines

-----------------------------------------------------------------------------
(* The steps *)

\* A step that leaves the processes, their children and the queue alone.
LEMMA FieldsMove ==
  ASSUME WindowInv, window' \in WindowState, PidsOf(window', spawned'),
         UNCHANGED <<key_events, dialogs, pipes, spawned, children, delivered, answers>>,
         window'.lock_pid = window.lock_pid, window'.lock_watch = window.lock_watch,
         window'.keyboard_pid = window.keyboard_pid,
         window'.response_ok = window.response_ok, window'.id = window.id,
         emits' \in 0..MaxEmits, shakes' \in Seq((0..MaxWindows) \X Pids),
         running' \in BOOLEAN
  PROVE  WindowInv'
<1>1. KeyOrder'
  BY KeysStay, ExpectedStays DEF WindowInv
<1>2. ProcessOrder' /\ ResponseOrder'
  BY ProcessesStay DEF WindowInv, ResponseOrder, OfWindow
<1>3. ChildrenAreKnown'
  BY ChildrenStay DEF WindowInv
<1>4. Counters'
  BY DEF WindowInv, Counters
<1> QED BY <1>1, <1>2, <1>3, <1>4 DEF WindowInv

LEMMA WindowStarts == WindowInit => WindowInv
<1> SUFFICES ASSUME WindowInit PROVE WindowInv
  OBVIOUS
<1>1. PICK lock \in BOOLEAN, keyboard \in BOOLEAN : window = NewWindow(1, lock, keyboard)
  BY DEF WindowInit
<1>2. /\ window \in WindowState /\ window.exists /\ window.lock_pid = NoPid
      /\ window.lock_watch = NoPid /\ window.keyboard_pid = NoPid
      /\ window.socket = NoPid /\ ~window.popup_idle /\ ~window.response_ok
  <2>1. 1 \in 0..MaxWindows /\ NoPid \in Pids \cup {NoPid}
    BY WindowBoundsAssumption
  <2> QED BY <1>1, <2>1 DEF NewWindow, WindowState
<1>3. PidsOf(window, spawned)
  BY <1>2 DEF WindowInit, PidsOf, NoPid
<1>4. ChildrenAreKnown
  BY <1>2 DEF WindowInit, ChildrenAreKnown
<1>5. KeyOrder
  <2>1. key_events = <<>> /\ delivered = {}
    BY DEF WindowInit
  <2>2. key_events \in Seq([kind: KeyKinds, for: Nat]) /\ Len(key_events) = 0
    BY <2>1
  <2> QED BY <2>1, <2>2, WindowBoundsAssumption DEF KeyOrder
<1>6. ProcessOrder
  <2>1. dialogs = [p \in Pids |-> Gone] /\ pipes = [p \in Pids |-> <<>>] /\ spawned = 0
    BY DEF WindowInit
  <2>2. Gone \in Process /\ ~Gone.alive /\ ~Gone.accepted
    BY DEF Gone, Fresh, Process
  <2>3. <<>> \in Seq(Lines) /\ Len(<<>>) = 0
    OBVIOUS
  <2> HIDE DEF Gone
  <2> QED BY <2>1, <2>2, <2>3, WindowBoundsAssumption DEF ProcessOrder
<1>7. Counters
  <2>1. shakes = <<>> /\ children = [dialogs |-> {}, keyboards |-> {}]
    BY DEF WindowInit
  <2>2. shakes \in Seq((0..MaxWindows) \X Pids)
    BY <2>1
  <2> QED BY <2>1, <2>2, WindowBoundsAssumption DEF WindowInit, Counters
<1> QED BY <1>2, <1>3, <1>4, <1>5, <1>6, <1>7 DEF WindowInv, ResponseOrder, OfWindow

LEMMA EnvironmentKeeps ==
  ASSUME WindowInv, WindowEnvironment, UNCHANGED running
  PROVE  WindowInv'
<1>0. /\ window \in WindowState /\ PidsOf(window, spawned) /\ KeyOrder /\ ProcessOrder
      /\ emits \in 0..MaxEmits /\ spawned \in 0..MaxDialogs /\ running \in BOOLEAN
      /\ shakes \in Seq((0..MaxWindows) \X Pids)
  BY DEF WindowInv, Counters
<1>1. ASSUME NEW kind \in KeyKinds, key_press_event(kind) PROVE WindowInv'
  <2>1. /\ window' \in WindowState /\ PidsOf(window', spawned')
        /\ window'.lock_pid = window.lock_pid /\ window'.lock_watch = window.lock_watch
        /\ window'.keyboard_pid = window.keyboard_pid
        /\ window'.response_ok = window.response_ok /\ window'.id = window.id
        /\ emits' \in 0..MaxEmits
        /\ UNCHANGED <<shakes, dialogs, pipes, spawned, children, answers>>
    BY <1>1, ActivityKeeps DEF key_press_event
  <2>2. \A d \in delivered' : d \in delivered \/ d[1] = d[2]
    <3>1. CASE window.socket = NoPid
      BY <1>1, <3>1 DEF key_press_event
    <3>2. CASE window.socket # NoPid
      <4>1. ExpectedDialog = window.socket
        BY <1>0, <3>2 DEF PidsOf, ExpectedDialog
      <4>2. delivered' \subseteq delivered \cup {<<ExpectedDialog, window.socket>>}
        BY <1>1 DEF key_press_event
      <4> QED BY <4>1, <4>2
    <3> QED BY <3>1, <3>2
  <2>3. KeyOrder'
    BY <1>1, <2>1, <2>2, KeyIsQueued, ExpectedStays DEF key_press_event
  <2>4. ProcessOrder' /\ ResponseOrder'
    BY <1>0, <2>1, ProcessesStay DEF WindowInv, ResponseOrder, OfWindow
  <2>5. ChildrenAreKnown'
    BY <2>1, ChildrenStay DEF WindowInv
  <2>6. Counters'
    BY <1>0, <2>1 DEF WindowInv, Counters
  <2> QED BY <2>1, <2>3, <2>4, <2>5, <2>6 DEF WindowInv
<1>2. CASE button_press_event
  BY <1>0, <1>2, ActivityKeeps, FieldsMove DEF button_press_event
<1>3. CASE gs_window_request_unlock
  BY <1>0, <1>3, RequestKeeps, FieldsMove DEF gs_window_request_unlock
<1>4. CASE gs_window_set_lock_enabled
  <2>1. window' = [window EXCEPT !.lock_enabled = TRUE]
        /\ UNCHANGED <<key_events, emits, shakes, dialogs, pipes, spawned, children,
                       delivered, answers>>
    BY <1>4 DEF gs_window_set_lock_enabled
  <2>2. /\ window' \in WindowState /\ window'.lock_pid = window.lock_pid
        /\ window'.lock_watch = window.lock_watch /\ window'.socket = window.socket
        /\ window'.keyboard_pid = window.keyboard_pid
        /\ window'.response_ok = window.response_ok /\ window'.id = window.id
        /\ window'.dialog_up = window.dialog_up /\ window'.exists = window.exists
        /\ window'.popup_idle = window.popup_idle
    BY <1>0, <2>1 DEF WindowState
  <2>3. PidsOf(window', spawned')
    BY <1>0, <2>1, <2>2 DEF PidsOf
  <2> QED BY <1>0, <2>1, <2>2, <2>3, FieldsMove
<1>5. CASE gs_window_cancel_unlock_request
  BY <1>0, <1>5, PopDownKeeps
  DEF gs_window_cancel_unlock_request, WindowInv, ResponseOrder, OfWindow
<1>6. CASE gs_window_destroy
  <2>1. /\ ProcessOrder' /\ children' = [dialogs |-> {}, keyboards |-> {}]
        /\ key_events' = <<>> /\ emits' = 0
        /\ UNCHANGED <<shakes, spawned, delivered, answers>>
    BY <1>6, DialogFinishes DEF gs_window_destroy
  <2>2. /\ window' \in WindowState /\ ~window'.exists /\ window'.lock_pid = NoPid
        /\ window'.lock_watch = NoPid /\ window'.keyboard_pid = NoPid
        /\ window'.socket = NoPid /\ ~window'.popup_idle /\ ~window'.response_ok
    <3>1. window.id \in 0..MaxWindows /\ NoPid \in Pids \cup {NoPid}
      BY <1>0 DEF WindowState
    <3>2. window' = [NewWindow(window.id, FALSE, FALSE) EXCEPT !.exists = FALSE]
      BY <1>6 DEF gs_window_destroy
    <3> QED BY <3>1, <3>2 DEF NewWindow, WindowState
  <2>3. PidsOf(window', spawned')
    BY <1>0, <2>1, <2>2 DEF PidsOf, NoPid
  <2>4. ChildrenAreKnown' /\ ResponseOrder'
    BY <2>1, <2>2 DEF ChildrenAreKnown, ResponseOrder, OfWindow
  <2>5. KeyOrder'
    BY <1>0, <2>1, KeysDropped
  <2>6. Counters'
    BY <1>0, <2>1, WindowBoundsAssumption DEF Counters
  <2> QED BY <2>1, <2>2, <2>3, <2>4, <2>5, <2>6 DEF WindowInv
<1>7. ASSUME NEW lock \in BOOLEAN, NEW keyboard \in BOOLEAN, gs_window_new(lock, keyboard)
      PROVE  WindowInv'
  <2>1. /\ ~window.exists /\ window.lock_pid = NoPid /\ window.keyboard_pid = NoPid
        /\ UNCHANGED <<key_events, emits, shakes, dialogs, pipes, spawned, children,
                       delivered, answers>>
    BY <1>0, <1>7 DEF gs_window_new, PidsOf, WindowInv, ChildrenAreKnown
  <2>2. /\ window' \in WindowState /\ window'.lock_pid = NoPid
        /\ window'.lock_watch = NoPid /\ window'.keyboard_pid = NoPid
        /\ window'.socket = NoPid /\ ~window'.popup_idle /\ ~window'.response_ok
    <3>1. window.id + 1 \in 0..MaxWindows /\ NoPid \in Pids \cup {NoPid}
      BY <1>0, <1>7, WindowBoundsAssumption DEF gs_window_new, WindowState
    <3>2. window' = NewWindow(window.id + 1, lock, keyboard)
      BY <1>7 DEF gs_window_new
    <3> QED BY <3>1, <3>2 DEF NewWindow, WindowState
  <2>3. PidsOf(window', spawned')
    BY <1>0, <2>1, <2>2 DEF PidsOf, NoPid
  <2>4. ChildrenAreKnown' /\ ResponseOrder'
    BY <2>1, <2>2 DEF WindowInv, ChildrenAreKnown, ResponseOrder, OfWindow
  <2>5. KeyOrder'
    BY <1>0, <2>1, <2>2, KeysStay, ExpectedStays
  <2>6. ProcessOrder' /\ Counters'
    BY <1>0, <2>1, ProcessesStay DEF WindowInv, Counters
  <2> QED BY <2>2, <2>3, <2>4, <2>5, <2>6 DEF WindowInv
<1>8. ASSUME NEW p \in Pids, dialog_step(p) PROVE WindowInv'
  <2>1. UNCHANGED <<window, key_events, emits, shakes, spawned, children, delivered, answers>>
    BY <1>8 DEF dialog_step
  <2>2. ProcessOrder' /\ \A q \in Pids : dialogs[q].accepted => dialogs'[q].accepted
    BY <1>8, DialogStepKeeps
  <2>3. KeyOrder'
    BY <1>0, <2>1, KeysStay, ExpectedStays
  <2>4. ResponseOrder'
    BY <2>1, <2>2 DEF WindowInv, ResponseOrder, OfWindow
  <2>5. ChildrenAreKnown' /\ Counters'
    BY <2>1 DEF WindowInv, ChildrenAreKnown, Counters
  <2> QED BY <1>0, <2>1, <2>2, <2>3, <2>4, <2>5 DEF WindowInv
<1> QED
  BY <1>1, <1>2, <1>3, <1>4, <1>5, <1>6, <1>7, <1>8 DEF WindowEnvironment

\* popup_dialog_idle spawns a dialog with a pid that was never used.
LEMMA PopupKeeps ==
  ASSUME WindowInv, popup_dialog_idle, UNCHANGED running
  PROVE  WindowInv'
<1> DEFINE w == [window EXCEPT !.popup_idle = FALSE, !.quit_requested = FALSE,
                               !.shake_in_progress = FALSE]
<1>0. /\ window \in WindowState /\ PidsOf(window, spawned) /\ KeyOrder /\ ProcessOrder
      /\ emits \in 0..MaxEmits /\ spawned \in 0..MaxDialogs /\ running \in BOOLEAN
      /\ shakes \in Seq((0..MaxWindows) \X Pids)
      /\ children \in [dialogs: SUBSET Pids, keyboards: SUBSET Pids]
  BY DEF WindowInv, Counters
<1>1. /\ window.popup_idle /\ window.lock_pid = NoPid /\ window.dialog_up /\ window.exists
      /\ UNCHANGED <<key_events, emits, shakes, pipes, delivered, answers>>
  BY <1>0 DEF popup_dialog_idle, PidsOf, WindowState
<1>2. /\ w \in WindowState /\ ~w.popup_idle /\ w.lock_pid = NoPid /\ w.dialog_up
      /\ w.lock_watch = window.lock_watch /\ w.socket = window.socket
      /\ w.keyboard_pid = window.keyboard_pid /\ w.id = window.id
      /\ w.response_ok = window.response_ok
      /\ w.exists
  BY <1>0, <1>1 DEF WindowState
<1>3. \/ window' = w /\ UNCHANGED <<dialogs, spawned, children>>
      \/ spawn_on_window(w)
  BY DEF popup_dialog_idle
<1> HIDE DEF w
<1>4. CASE window' = w /\ UNCHANGED <<dialogs, spawned, children>>
  <2>1. PidsOf(window', spawned')
    BY <1>0, <1>1, <1>2, <1>4 DEF PidsOf
  <2> QED BY <1>0, <1>1, <1>2, <1>4, <2>1, FieldsMove
<1>5. CASE spawn_on_window(w)
  <2> DEFINE p == spawned + 1
  <2>1. /\ p \in Pids /\ p # NoPid /\ spawned' = p /\ spawned < MaxDialogs
        /\ window' = [w EXCEPT !.lock_pid = p, !.lock_watch = p]
        /\ dialogs' = [dialogs EXCEPT ![p] = Fresh]
        /\ children' = [children EXCEPT !.dialogs = @ \cup {p}]
    BY <1>0, <1>5, WindowBoundsAssumption DEF spawn_on_window, Pids, NoPid
  <2> HIDE DEF p
  <2>2. /\ window' \in WindowState /\ window'.lock_pid = p /\ window'.lock_watch = p
        /\ window'.dialog_up /\ ~window'.popup_idle /\ window'.socket = window.socket
        /\ window'.keyboard_pid = window.keyboard_pid /\ window'.exists
        /\ window'.response_ok = window.response_ok /\ window'.id = window.id
    BY <1>2, <2>1 DEF WindowState
  <2>3. window.socket = NoPid /\ window.keyboard_pid = NoPid
    BY <1>0, <1>1 DEF PidsOf, WindowInv, ChildrenAreKnown
  <2>4. PidsOf(window', spawned')
    BY <2>1, <2>2, <2>3 DEF PidsOf, Pids
  <2>5. ChildrenAreKnown' /\ children' \in [dialogs: SUBSET Pids, keyboards: SUBSET Pids]
    <3>1. children.dialogs = {} /\ children.keyboards = {}
      BY <1>1, <2>3 DEF WindowInv, ChildrenAreKnown
    <3>2. children'.dialogs = {p} /\ children'.keyboards = {}
          /\ children' \in [dialogs: SUBSET Pids, keyboards: SUBSET Pids]
      BY <1>0, <2>1, <3>1
    <3> QED BY <2>1, <2>2, <2>3, <3>2 DEF ChildrenAreKnown
  <2>6. KeyOrder'
    <3>1. ExpectedDialog' = ExpectedDialog
      BY <1>1, <2>1, <2>2 DEF ExpectedDialog, p
    <3> QED BY <1>0, <1>1, <3>1, KeysStay
  <2>7. ProcessOrder' /\ \A q \in Pids : dialogs[q].accepted => dialogs'[q].accepted
    <3>1. Fresh \in Process /\ ~Fresh.accepted
      BY DEF Fresh, Process
    <3>2. p > spawned /\ \A q \in Pids : q > p => q > spawned
      BY <1>0 DEF p, Pids
    <3>3. ~dialogs[p].accepted /\ pipes[p] = <<>>
      BY <1>0, <2>1, <3>2 DEF ProcessOrder
    <3>4. dialogs' \in [Pids -> Process] /\ \A q \in Pids : q # p => dialogs'[q] = dialogs[q]
      BY <1>0, <2>1, <3>1 DEF ProcessOrder
    <3>5. \A q \in Pids : q > spawned' => q > spawned /\ q # p
      BY <1>0, <2>1 DEF p, Pids
    <3>6. \A q \in Pids : dialogs[q].accepted => dialogs'[q].accepted
      BY <3>3, <3>4
    <3> QED BY <1>0, <1>1, <3>4, <3>5, <3>6 DEF ProcessOrder
  <2>8. ResponseOrder'
    BY <1>1, <2>2, <2>7 DEF WindowInv, ResponseOrder, OfWindow
  <2>9. Counters'
    BY <1>0, <1>1, <2>1, <2>5, WindowBoundsAssumption DEF Counters, Pids
  <2> QED BY <2>2, <2>4, <2>5, <2>6, <2>7, <2>8, <2>9 DEF WindowInv
<1> QED BY <1>3, <1>4, <1>5

\* The watch of the dialog's output.
LEMMA WatchKeeps ==
  ASSUME WindowInv, NEW p \in Pids, lock_command_watch(p), UNCHANGED running
  PROVE  WindowInv'
<1>0. /\ window \in WindowState /\ PidsOf(window, spawned) /\ KeyOrder /\ ProcessOrder
      /\ emits \in 0..MaxEmits /\ spawned \in 0..MaxDialogs /\ running \in BOOLEAN
      /\ shakes \in Seq((0..MaxWindows) \X Pids)
      /\ children \in [dialogs: SUBSET Pids, keyboards: SUBSET Pids]
  BY DEF WindowInv, Counters
<1>1. p # NoPid
  BY DEF Pids, NoPid
<1>2. window.exists /\ window.lock_watch = p /\ window.lock_pid = p /\ spawned' = spawned
  <2>1. Watched(p) /\ spawned' = spawned
    BY DEF lock_command_watch, create_lock_socket, shake_dialog, request_quit, LineRead,
           response_read, end_of_file, read_error, Reads
  <2> QED BY <1>1, <2>1 DEF Watched, WindowInv, ChildrenAreKnown
<1>3. ASSUME NEW line, LineRead(p, line), UNCHANGED dialogs
      PROVE  ProcessOrder'
  BY <1>0, <1>3, LineTaken DEF LineRead, Reads, ProcessOrder
<1>4. CASE create_lock_socket(p)
  <2> DEFINE w == [window EXCEPT !.socket = p, !.lock_box = TRUE]
  <2>1. UNCHANGED <<emits, shakes, dialogs>> /\ ProcessOrder'
    BY <1>3, <1>4 DEF create_lock_socket
  <2>2. \/ /\ window' = [w EXCEPT !.keyboard_pid = p, !.keyboard_watch = TRUE]
           /\ children' = [children EXCEPT !.keyboards = @ \cup {p}]
        \/ window' = w /\ UNCHANGED children
    BY <1>4 DEF create_lock_socket
  <2>3. /\ w \in WindowState /\ w.socket = p /\ w.lock_pid = window.lock_pid
        /\ w.lock_watch = window.lock_watch /\ w.dialog_up = window.dialog_up
        /\ w.popup_idle = window.popup_idle /\ w.exists = window.exists
        /\ w.keyboard_pid = window.keyboard_pid /\ w.id = window.id
        /\ w.response_ok = window.response_ok
    BY <1>0 DEF WindowState
  <2> HIDE DEF w
  <2>4. /\ window' \in WindowState /\ window'.socket = p
        /\ window'.lock_pid = window.lock_pid /\ window'.lock_watch = window.lock_watch
        /\ window'.dialog_up = window.dialog_up /\ window'.popup_idle = window.popup_idle
        /\ window'.exists = window.exists /\ window'.id = window.id
        /\ window'.response_ok = window.response_ok
        /\ window'.keyboard_pid \in {window.keyboard_pid, p}
    BY <2>2, <2>3 DEF WindowState
  <2>5. PidsOf(window', spawned')
    BY <1>0, <1>2, <2>4 DEF PidsOf
  <2>6. ChildrenAreKnown' /\ children' \in [dialogs: SUBSET Pids, keyboards: SUBSET Pids]
    <3>1. CASE window' = w /\ UNCHANGED children
      BY <1>0, <1>2, <2>3, <3>1, ChildrenStay DEF WindowInv
    <3>2. CASE /\ window' = [w EXCEPT !.keyboard_pid = p, !.keyboard_watch = TRUE]
               /\ children' = [children EXCEPT !.keyboards = @ \cup {p}]
      <4>1. window'.keyboard_pid = p
        BY <2>3, <3>2 DEF WindowState
      <4>2. /\ children'.dialogs = children.dialogs
            /\ children'.keyboards = children.keyboards \cup {p}
            /\ children' \in [dialogs: SUBSET Pids, keyboards: SUBSET Pids]
        BY <1>0, <3>2
      <4>3. children.keyboards \subseteq {p}
        BY <1>2 DEF WindowInv, ChildrenAreKnown
      <4>4. children'.keyboards = {p} \ {NoPid}
        BY <1>1, <4>2, <4>3
      <4> QED BY <1>2, <2>4, <4>1, <4>2, <4>4 DEF WindowInv, ChildrenAreKnown
    <3> QED BY <2>2, <3>1, <3>2
  <2>7. KeyOrder'
    <3>1. CASE dialogs[p].alive
      <4>1. /\ key_events' = <<>>
            /\ delivered' = delivered \cup {<<key_events[i].for, p>> :
                                              i \in 1..Len(key_events)}
        BY <1>4, <3>1 DEF create_lock_socket, forward_key_events
      <4>2. \A i \in 1..Len(key_events) : key_events[i].for = p
        BY <1>0, <1>1, <1>2 DEF KeyOrder, ExpectedDialog
      <4>3. \A d \in delivered' : d[1] = d[2]
        BY <1>0, <4>1, <4>2 DEF KeyOrder
      <4>4. key_events' \in Seq([kind: KeyKinds, for: Nat]) /\ Len(key_events') = 0
        BY <4>1
      <4> QED BY <4>1, <4>3, <4>4, WindowBoundsAssumption DEF KeyOrder
    <3>2. CASE ~dialogs[p].alive
      BY <1>0, <1>2, <1>4, <2>4, <3>2, KeysStay, ExpectedStays DEF create_lock_socket
    <3> QED BY <3>1, <3>2
  <2>8. ResponseOrder'
    BY <1>4, <2>1, <2>4 DEF create_lock_socket, WindowInv, ResponseOrder, OfWindow
  <2>9. Counters'
    BY <1>0, <1>2, <2>1, <2>6 DEF Counters
  <2> QED BY <2>1, <2>4, <2>5, <2>6, <2>7, <2>8, <2>9 DEF WindowInv
<1>5. CASE shake_dialog(p) \/ request_quit(p)
  <2>1. PICK quit \in BOOLEAN, shake \in BOOLEAN :
          window' = [window EXCEPT !.quit_requested = quit, !.shake_in_progress = shake]
    <3>1. CASE shake_dialog(p)
      <4>1. window' = [window EXCEPT !.quit_requested = window.quit_requested,
                                     !.shake_in_progress = TRUE]
        BY <1>0, <3>1 DEF shake_dialog, WindowState
      <4>2. window.quit_requested \in BOOLEAN /\ TRUE \in BOOLEAN
        BY <1>0 DEF WindowState
      <4> QED BY <4>1, <4>2
    <3>2. CASE request_quit(p)
      <4>1. window' = [window EXCEPT !.quit_requested = TRUE,
                                     !.shake_in_progress = window.shake_in_progress]
        BY <1>0, <3>2 DEF request_quit, WindowState
      <4>2. window.shake_in_progress \in BOOLEAN /\ TRUE \in BOOLEAN
        BY <1>0 DEF WindowState
      <4> QED BY <4>1, <4>2
    <3> QED BY <1>5, <3>1, <3>2
  <2>2. /\ window' \in WindowState /\ window'.lock_pid = window.lock_pid
        /\ window'.lock_watch = window.lock_watch /\ window'.socket = window.socket
        /\ window'.keyboard_pid = window.keyboard_pid
        /\ window'.response_ok = window.response_ok /\ window'.id = window.id
        /\ window'.dialog_up = window.dialog_up /\ window'.exists = window.exists
        /\ window'.popup_idle = window.popup_idle
    BY <1>0, <2>1 DEF WindowState
  <2>3. PidsOf(window', spawned')
    BY <1>0, <1>2, <2>2 DEF PidsOf
  <2>4. UNCHANGED <<key_events, emits, children, delivered, answers>>
    BY <1>5 DEF shake_dialog, request_quit
  <2>5. ProcessOrder' /\ \A q \in Pids : dialogs'[q].accepted <=> dialogs[q].accepted
    <3>1. CASE UNCHANGED dialogs
      BY <1>3, <1>5, <3>1 DEF shake_dialog, request_quit
    <3>2. CASE dialogs' = [dialogs EXCEPT ![p].alive = FALSE]
      <4>1. pipes' = [pipes EXCEPT ![p] = Tail(@)] /\ pipes[p] # <<>>
        BY <1>5 DEF shake_dialog, request_quit, LineRead, Reads
      <4>2. dialogs' \in [Pids -> Process]
        BY <1>0, <3>2 DEF ProcessOrder, Process
      <4>3. \A q \in Pids : /\ dialogs'[q].accepted <=> dialogs[q].accepted
                            /\ dialogs'[q].alive => dialogs[q].alive
        BY <1>0, <3>2 DEF ProcessOrder, Process
      <4> QED BY <1>0, <1>2, <4>1, <4>2, <4>3, LineTaken
    <3>3. dialogs' = dialogs \/ dialogs' = [dialogs EXCEPT ![p].alive = FALSE]
      BY <1>1, <1>2, <1>5, <2>2
      DEF shake_dialog, request_quit, maybe_kill_dialog, Killed
    <3> QED BY <3>1, <3>2, <3>3
  <2>6. shakes' \in Seq((0..MaxWindows) \X Pids)
    <3> DEFINE e == <<window.id, p>>
               S == (0..MaxWindows) \X Pids
    <3>1. e \in S /\ shakes \in Seq(S)
      BY <1>0 DEF WindowState
    <3>2. shakes' = Append(shakes, e) \/ shakes' = shakes
      BY <1>5 DEF shake_dialog, request_quit
    <3> HIDE DEF e, S
    <3>3. shakes' \in Seq(S)
      BY <3>1, <3>2
    <3> QED BY <3>3 DEF S
  <2>7. KeyOrder' /\ ChildrenAreKnown'
    BY <1>0, <1>2, <2>2, <2>4, KeysStay, ExpectedStays, ChildrenStay DEF WindowInv
  <2>8. ResponseOrder'
    BY <2>2, <2>4, <2>5 DEF WindowInv, ResponseOrder, OfWindow
  <2>9. Counters'
    BY <1>0, <1>2, <2>4, <2>6 DEF Counters
  <2> QED BY <2>2, <2>3, <2>5, <2>7, <2>8, <2>9 DEF WindowInv
<1>6. ASSUME NEW ok \in BOOLEAN, response_read(p, ok) PROVE WindowInv'
  <2> DEFINE w == [window EXCEPT !.response_ok = ok]
  <2>1. /\ w \in WindowState /\ w.exists = window.exists /\ w.response_ok = ok
        /\ w.id = window.id
    BY <1>0 DEF WindowState
  <2>2. /\ dialog_finished(w) /\ Reads(p, IF ok THEN "ok" ELSE "cancel")
        /\ ok => <<window.id, p>> \in answers'
    BY <1>6 DEF response_read
  <2> HIDE DEF w
  <2>3. ok => dialogs[p].accepted
    <3> SUFFICES ASSUME ok PROVE dialogs[p].accepted
      OBVIOUS
    <3>1. pipes[p] \in Seq(Lines) /\ pipes[p] # <<>> /\ Head(pipes[p]) = "ok"
      BY <1>0, <2>2 DEF Reads, ProcessOrder
    <3>2. 1 \in 1..Len(pipes[p]) /\ pipes[p][1] = "ok"
      BY <3>1
    <3> QED BY <1>0, <3>2 DEF ProcessOrder
  <2>4. popdown_dialog(w) /\ UNCHANGED <<shakes, delivered>> /\ emits' \in 0..MaxEmits
    BY <1>0, <2>2, WindowBoundsAssumption DEF dialog_finished
  <2>5. OfWindow(w.id, w.response_ok, answers')
    BY <2>1, <2>2, <2>3 DEF OfWindow
  <2> QED BY <1>2, <2>1, <2>4, <2>5, PopDownKeeps
<1>7. CASE end_of_file(p)
  <2>1. /\ popdown_dialog(window) /\ UNCHANGED <<shakes, delivered, answers>>
        /\ emits' \in 0..MaxEmits
    BY <1>0, <1>7, WindowBoundsAssumption DEF end_of_file, dialog_finished
  <2>2. OfWindow(window.id, window.response_ok, answers')
    BY <2>1 DEF WindowInv, ResponseOrder
  <2> QED BY <1>0, <1>2, <2>1, <2>2, PopDownKeeps
<1>8. CASE read_error(p)
  <2>1. /\ window' = [window EXCEPT !.watch_dead = TRUE]
        /\ UNCHANGED <<key_events, emits, shakes, dialogs, pipes, spawned, children,
                       delivered, answers>>
    BY <1>8 DEF read_error
  <2>2. /\ window' \in WindowState /\ window'.lock_pid = window.lock_pid
        /\ window'.lock_watch = window.lock_watch /\ window'.socket = window.socket
        /\ window'.keyboard_pid = window.keyboard_pid
        /\ window'.response_ok = window.response_ok /\ window'.id = window.id
        /\ window'.dialog_up = window.dialog_up /\ window'.exists = window.exists
        /\ window'.popup_idle = window.popup_idle
    BY <1>0, <2>1 DEF WindowState
  <2>3. PidsOf(window', spawned')
    BY <1>0, <2>1, <2>2 DEF PidsOf
  <2> QED BY <1>0, <2>1, <2>2, <2>3, FieldsMove
<1> QED BY <1>4, <1>5, <1>6, <1>7, <1>8 DEF lock_command_watch

\* The other sources that are dispatched.
LEMMA SourceKeeps ==
  ASSUME WindowInv, WindowSource, UNCHANGED running
  PROVE  WindowInv'
<1>0. /\ window \in WindowState /\ PidsOf(window, spawned) /\ KeyOrder /\ ProcessOrder
      /\ emits \in 0..MaxEmits /\ spawned \in 0..MaxDialogs /\ running \in BOOLEAN
      /\ shakes \in Seq((0..MaxWindows) \X Pids)
      /\ children \in [dialogs: SUBSET Pids, keyboards: SUBSET Pids]
  BY DEF WindowInv, Counters
<1>1. CASE emit_deactivated_idle
  BY <1>0, <1>1, WindowBoundsAssumption, FieldsMove DEF emit_deactivated_idle
<1>2. CASE lock_plug_removed
  <2>1. /\ window' = [window EXCEPT !.socket = NoPid, !.lock_box = FALSE]
        /\ UNCHANGED <<key_events, emits, shakes, dialogs, pipes, spawned, children,
                       delivered, answers>>
    BY <1>2 DEF lock_plug_removed
  <2>2. /\ window' \in WindowState /\ window'.lock_pid = window.lock_pid
        /\ window'.lock_watch = window.lock_watch /\ window'.socket = NoPid
        /\ window'.keyboard_pid = window.keyboard_pid
        /\ window'.response_ok = window.response_ok /\ window'.id = window.id
        /\ window'.dialog_up = window.dialog_up /\ window'.exists = window.exists
        /\ window'.popup_idle = window.popup_idle
    BY <1>0, <2>1 DEF WindowState
  <2>3. PidsOf(window', spawned')
    BY <1>0, <2>1, <2>2 DEF PidsOf
  <2> QED BY <1>0, <2>1, <2>2, <2>3, FieldsMove
<1>3. ASSUME NEW error \in BOOLEAN, keyboard_command_watch(error) PROVE WindowInv'
  <2>1. UNCHANGED <<key_events, emits, shakes, dialogs, pipes, spawned, delivered, answers>>
    BY <1>3 DEF keyboard_command_watch
  <2>2. \/ /\ window' = [window EXCEPT !.keyboard_watch = FALSE] /\ UNCHANGED children
        \/ /\ window' = [window EXCEPT !.keyboard_watch = FALSE, !.keyboard_pid = NoPid]
           /\ children' = [children EXCEPT !.keyboards = @ \ {window.keyboard_pid}]
    BY <1>3 DEF keyboard_command_watch, KeyboardFinished
  <2>3. /\ window' \in WindowState /\ window'.lock_pid = window.lock_pid
        /\ window'.lock_watch = window.lock_watch /\ window'.socket = window.socket
        /\ window'.response_ok = window.response_ok /\ window'.id = window.id
        /\ window'.dialog_up = window.dialog_up /\ window'.exists = window.exists
        /\ window'.popup_idle = window.popup_idle
    BY <1>0, <2>2 DEF WindowState
  <2>4. PidsOf(window', spawned')
    BY <1>0, <2>1, <2>3 DEF PidsOf
  <2>5. ChildrenAreKnown' /\ children' \in [dialogs: SUBSET Pids, keyboards: SUBSET Pids]
    <3>1. CASE window' = [window EXCEPT !.keyboard_watch = FALSE] /\ UNCHANGED children
      <4>1. window'.keyboard_pid = window.keyboard_pid
        BY <1>0, <3>1 DEF WindowState
      <4> QED BY <1>0, <2>3, <3>1, <4>1, ChildrenStay DEF WindowInv
    <3>2. CASE /\ window' = [window EXCEPT !.keyboard_watch = FALSE, !.keyboard_pid = NoPid]
               /\ children' = [children EXCEPT !.keyboards = @ \ {window.keyboard_pid}]
      <4>1. window'.keyboard_pid = NoPid
        BY <1>0, <3>2 DEF WindowState
      <4>2. /\ children'.dialogs = children.dialogs
            /\ children'.keyboards = children.keyboards \ {window.keyboard_pid}
            /\ children' \in [dialogs: SUBSET Pids, keyboards: SUBSET Pids]
        BY <1>0, <3>2
      <4>3. children'.keyboards = {}
        BY <4>2 DEF WindowInv, ChildrenAreKnown
      <4> QED BY <2>3, <4>1, <4>2, <4>3 DEF WindowInv, ChildrenAreKnown
    <3> QED BY <2>2, <3>1, <3>2
  <2>6. KeyOrder'
    BY <1>0, <2>1, <2>3, KeysStay, ExpectedStays
  <2>7. ProcessOrder' /\ ResponseOrder' /\ Counters'
    BY <1>0, <2>1, <2>3, <2>5, ProcessesStay DEF WindowInv, ResponseOrder, OfWindow, Counters
  <2> QED BY <2>3, <2>4, <2>5, <2>6, <2>7 DEF WindowInv
<1> QED
  BY <1>1, <1>2, <1>3, PopupKeeps, WatchKeeps DEF WindowSource

\* The innermost call of shake_dialog returns.
LEMMA ShakeKeeps ==
  ASSUME WindowInv, shake_dialog_returns \/ shake_dialog_after_free
  PROVE  WindowInv'
<1>0. /\ window \in WindowState /\ PidsOf(window, spawned) /\ KeyOrder /\ ProcessOrder
      /\ emits \in 0..MaxEmits /\ spawned \in 0..MaxDialogs /\ running \in BOOLEAN
      /\ shakes \in Seq((0..MaxWindows) \X Pids)
      /\ children \in [dialogs: SUBSET Pids, keyboards: SUBSET Pids]
  BY DEF WindowInv, Counters
<1>1. shakes' \in Seq((0..MaxWindows) \X Pids)
  <2>1. shakes # <<>> /\ shakes' = SubSeq(shakes, 1, Len(shakes) - 1)
    BY DEF shake_dialog_returns, shake_dialog_after_free
  <2>2. Len(shakes) \in Nat /\ \A i \in 1..(Len(shakes) - 1) : i \in 1..Len(shakes)
    BY <1>0
  <2> QED BY <1>0, <2>1, <2>2
<1>2. CASE shake_dialog_after_free
  BY <1>0, <1>1, <1>2, FieldsMove DEF shake_dialog_after_free
<1>3. CASE shake_dialog_returns
  <2>1. /\ window' = [window EXCEPT !.shake_in_progress = FALSE]
        /\ dialogs' = maybe_kill_dialog(window')
        /\ UNCHANGED <<key_events, emits, pipes, spawned, children, delivered, answers,
                       running>>
    BY <1>3 DEF shake_dialog_returns
  <2>2. /\ window' \in WindowState /\ window'.lock_pid = window.lock_pid
        /\ window'.lock_watch = window.lock_watch /\ window'.socket = window.socket
        /\ window'.keyboard_pid = window.keyboard_pid
        /\ window'.response_ok = window.response_ok /\ window'.id = window.id
        /\ window'.dialog_up = window.dialog_up /\ window'.exists = window.exists
        /\ window'.popup_idle = window.popup_idle
    BY <1>0, <2>1 DEF WindowState
  <2>3. PidsOf(window', spawned')
    BY <1>0, <2>1, <2>2 DEF PidsOf
  <2>4. ProcessOrder' /\ \A q \in Pids : dialogs'[q].accepted <=> dialogs[q].accepted
    <3>1. window.lock_pid \in Pids \cup {NoPid}
      BY <1>0 DEF WindowState
    <3>2. dialogs' = dialogs \/ \E q \in Pids : dialogs' = [dialogs EXCEPT ![q].alive = FALSE]
      BY <2>1, <2>2, <3>1 DEF maybe_kill_dialog, Killed
    <3> QED BY <2>1, <3>2, KilledKeeps
  <2>5. KeyOrder' /\ ChildrenAreKnown'
    BY <1>0, <2>1, <2>2, KeysStay, ExpectedStays, ChildrenStay DEF WindowInv
  <2>6. ResponseOrder'
    <3>1. answers' = answers
      BY <2>1
    <3> QED BY <2>2, <2>4, <3>1 DEF WindowInv, ResponseOrder, OfWindow
  <2>7. Counters'
    BY <1>0, <1>1, <2>1 DEF Counters
  <2> QED BY <2>2, <2>3, <2>4, <2>5, <2>6, <2>7 DEF WindowInv
<1> QED BY <1>2, <1>3

\* Every step keeps the invariant.
LEMMA WindowStep == WindowInv /\ [WindowNext]_windowVars => WindowInv'
<1> SUFFICES ASSUME WindowInv, [WindowNext]_windowVars PROVE WindowInv'
  OBVIOUS
<1>1. CASE WindowNext
  BY <1>1, SourceKeeps, EnvironmentKeeps, ShakeKeeps DEF WindowNext
<1>2. CASE UNCHANGED windowVars
  <2>1. /\ window \in WindowState /\ PidsOf(window, spawned)
        /\ emits \in 0..MaxEmits /\ running \in BOOLEAN
        /\ shakes \in Seq((0..MaxWindows) \X Pids)
    BY DEF WindowInv, Counters
  <2> QED BY <1>2, <2>1, FieldsMove DEF windowVars
<1> QED BY <1>1, <1>2

LEMMA WindowInvHolds == WindowSpec => []WindowInv
BY WindowStarts, WindowStep, PTL DEF WindowSpec

-----------------------------------------------------------------------------
(* Theorems *)

(***************************************************************************)
(* Every dialog and keyboard process that has not been waited for is the   *)
(* one whose pid the window keeps and popdown_dialog ends, whatever spawns *)
(* fail, reads fail, shakes nest and windows go: no pid is overwritten.    *)
(***************************************************************************)
THEOREM Children == WindowSpec => []ChildrenAreKnown
<1>1. WindowInv => ChildrenAreKnown
  BY DEF WindowInv
<1> QED BY <1>1, WindowInvHolds, PTL

(***************************************************************************)
(* A dialog gets only keys that were typed for it: the queue is dropped    *)
(* when a dialog goes down, and a queue that is forwarded does not begin   *)
(* with the key that woke the screen.                                      *)
(***************************************************************************)
THEOREM Keys == WindowSpec => []KeysReachTheirDialog
<1>1. ASSUME WindowInv PROVE KeysReachTheirDialog
  <2>1. /\ window \in WindowState /\ KeyOrder /\ ProcessOrder
        /\ emits \in 0..MaxEmits /\ spawned \in 0..MaxDialogs /\ running \in BOOLEAN
        /\ shakes \in Seq((0..MaxWindows) \X Pids)
    BY <1>1 DEF WindowInv, Counters
  <2>2. children.dialogs \subseteq 1..spawned /\ children.keyboards \subseteq 1..spawned
    <3>1. window.lock_pid = NoPid \/ window.lock_pid \in 1..spawned
      BY <1>1, <2>1 DEF WindowInv, PidsOf, NoPid
    <3> QED BY <1>1, <3>1 DEF WindowInv, ChildrenAreKnown
  <2> QED BY <2>1, <2>2 DEF KeysReachTheirDialog, WindowType, KeyOrder, ProcessOrder
<1> QED BY <1>1, WindowInvHolds, PTL

(***************************************************************************)
(* The emission that deactivates a locked window is queued by the answer   *)
(* of the dialog that ends, or by the OK that dialog_response keeps of an  *)
(* earlier dialog, which this same window had read and was told to         *)
(* deactivate for: not by an end of file, a cancellation, a shake, a       *)
(* request or the answer of another window's dialog.                       *)
(***************************************************************************)
THEOREM AcceptedOnly == WindowSpec => OnlyAcceptedDeactivates
<1> DEFINE A == /\ emits' > emits /\ window.lock_enabled => OwnAnswer
                /\ answers' # answers => emits' = emits + 1
<1>1. ASSUME WindowInv, [WindowNext]_windowVars PROVE [A]_windowVars
  <2> SUFFICES ASSUME WindowNext PROVE A
    BY <1>1
  <2>0. /\ window \in WindowState /\ ProcessOrder /\ emits \in 0..MaxEmits
        /\ ResponseOrder
    BY <1>1 DEF WindowInv, Counters
  <2>1. ASSUME NEW p \in Pids, NEW ok \in BOOLEAN, response_read(p, ok)
        PROVE  A
    <3> DEFINE w == [window EXCEPT !.response_ok = ok]
    <3>1. /\ w.response_ok = ok /\ dialog_finished(w)
          /\ Reads(p, IF ok THEN "ok" ELSE "cancel")
          /\ ~ok => answers' = answers
      BY <2>0, <2>1 DEF response_read, WindowState
    <3> HIDE DEF w
    <3>2. CASE ok
      <4>1. /\ pipes[p] \in Seq(Lines) /\ pipes[p] # <<>> /\ Head(pipes[p]) = "ok"
            /\ window.lock_watch = p
        BY <2>0, <3>1, <3>2 DEF Reads, Watched, ProcessOrder
      <4>2. 1 \in 1..Len(pipes[p]) /\ pipes[p][1] = "ok"
        BY <4>1
      <4>3. dialogs[p].accepted
        BY <2>0, <4>2 DEF ProcessOrder
      <4>4. emits' = emits + 1
        BY <3>1, <3>2 DEF dialog_finished
      <4> QED BY <4>1, <4>3, <4>4 DEF OwnAnswer
    <3>3. CASE ~ok
      <4>1. emits' = emits
        BY <3>1, <3>3 DEF dialog_finished
      <4>2. ~(emits' > emits)
        BY <2>0, <4>1
      <4> QED BY <3>1, <3>3, <4>2
    <3> QED BY <3>2, <3>3
  <2>2. ASSUME NEW p \in Pids, end_of_file(p)
        PROVE  A
    <3>1. /\ answers' = answers
          /\ window.response_ok \/ emits' = emits
      BY <2>2 DEF end_of_file, dialog_finished
    <3>2. CASE window.response_ok
      <4>1. OwnAnswer
        BY <2>0, <3>2 DEF ResponseOrder, OfWindow, OwnAnswer
      <4> QED BY <3>1, <4>1
    <3>3. CASE emits' = emits
      <4>1. ~(emits' > emits)
        BY <2>0, <3>3
      <4> QED BY <3>1, <4>1
    <3> QED BY <3>1, <3>2, <3>3
  <2>3. ASSUME answers' = answers, emits' > emits => ~window.lock_enabled
        PROVE  A
    BY <2>3
  <2>4. CASE gs_window_request_unlock \/ button_press_event
               \/ \E kind \in KeyKinds : key_press_event(kind)
    <3>1. UNCHANGED answers /\ (EmitQueued(window) \/ emits' = emits)
      BY <2>4 DEF gs_window_request_unlock, button_press_event, key_press_event,
                  ActivityHandled, RequestUnlock
    <3>2. emits' = emits => ~(emits' > emits)
      BY <2>0
    <3> QED BY <2>3, <3>1, <3>2 DEF EmitQueued
  <2>5. CASE emit_deactivated_idle \/ gs_window_destroy
    <3>1. emits \in Nat /\ ~(emits - 1 > emits) /\ ~(0 > emits)
      BY <2>0, WindowBoundsAssumption
    <3>2. UNCHANGED answers /\ ~(emits' > emits)
      BY <2>5, <3>1 DEF emit_deactivated_idle, gs_window_destroy
    <3> QED BY <2>3, <3>2
  <2>6. CASE UNCHANGED <<emits, answers>>
    <3>1. ~(emits' > emits)
      BY <2>0, <2>6
    <3> QED BY <2>3, <2>6, <3>1
  <2> HIDE DEF A
  <2> QED
    BY <2>1, <2>2, <2>4, <2>5, <2>6
    DEF WindowNext, WindowSource, WindowEnvironment, popup_dialog_idle, lock_command_watch,
        create_lock_socket, shake_dialog, request_quit, read_error, lock_plug_removed,
        keyboard_command_watch, gs_window_set_lock_enabled,
        gs_window_cancel_unlock_request, gs_window_new, dialog_step, shake_dialog_returns,
        shake_dialog_after_free
<1>2. WindowInv /\ [WindowNext]_windowVars => [A]_windowVars
  BY <1>1
<1> HIDE DEF A
<1>3. WindowSpec => [][A]_windowVars
  BY <1>2, WindowInvHolds, PTL DEF WindowSpec
<1> QED BY <1>3 DEF A, OnlyAcceptedDeactivates
=============================================================================
