------------------------------- MODULE GSWindow -------------------------------
(***************************************************************************)
(* A screensaver window and its unlock dialog (gs-window-x11.c): the       *)
(* processes the window spawns and reaps, the lines it reads from them,    *)
(* the keys typed before the dialog can take them, and the shake.          *)
(*                                                                         *)
(* The handlers run in one main loop, but shake_dialog runs the loop again *)
(* inside the watch of the dialog's output.  `shakes' is the stack of      *)
(* those calls; while it is not empty any other source may be dispatched,  *)
(* and only the watches that are on the stack may not (GLib does not       *)
(* dispatch a source that is being dispatched).                            *)
(*                                                                         *)
(* GSManager sees the same window from the manager's side and has several  *)
(* of them; here the manager is reduced to the calls it makes.             *)
(***************************************************************************)
EXTENDS Naturals, Sequences

CONSTANTS
  MaxDialogs,    \* bound: dialogs spawned in all
  MaxWindows,    \* bound: windows created in all, one after the other
  MaxLines,      \* bound: unread lines in the pipe of one dialog
  MaxEmits,      \* bound: pending emissions of "deactivated"
  MaxQueuedEvents  \* MAX_QUEUED_EVENTS

ASSUME WindowBoundsAssumption ==
  /\ MaxDialogs \in Nat \ {0} /\ MaxWindows \in Nat \ {0}
  /\ MaxLines \in Nat \ {0} /\ MaxEmits \in Nat \ {0}
  /\ MaxQueuedEvents \in Nat \ {0}

Pids == 1..MaxDialogs
NoPid == 0

VARIABLES
  window,     \* GSWindowPrivate of the window there is, and which one it is
  key_events, \* its queue of key events, oldest first
  emits,      \* pending emit_deactivated_idle sources of it
  shakes,     \* the calls of shake_dialog that have not returned
  dialogs,    \* external: the dialog processes, by the protocol they obey
  pipes,      \* the unread lines of each
  spawned,    \* the number of dialogs spawned
  children,   \* dialogs and keyboards that have not been waited for
  delivered,  \* history: <<dialog a key was typed for, dialog it reached>>
  answers,    \* history: <<window, dialog whose RESPONSE=OK it has read>>
  running     \* the daemon runs

windowVars == <<window, key_events, emits, shakes, dialogs, pipes, spawned,
                children, delivered, answers, running>>

Dialog(p) == INSTANCE DialogProtocol WITH dialog <- dialogs[p]

Fresh == [alive |-> TRUE, shown |-> FALSE, accepted |-> FALSE, last |-> "none"]
Gone == [Fresh EXCEPT !.alive = FALSE]

\* kinds of keys: the ones that would submit or close a dialog, the ones that
\* would move its focus, and all others
KeyKinds == {"submit", "focus", "text"}

WindowState ==
  [id: 0..MaxWindows, exists: BOOLEAN, lock_enabled: BOOLEAN,
   dialog_up: BOOLEAN, popup_idle: BOOLEAN, lock_pid: Pids \cup {NoPid},
   lock_watch: Pids \cup {NoPid}, watch_dead: BOOLEAN, response_ok: BOOLEAN,
   quit_requested: BOOLEAN, shake_in_progress: BOOLEAN,
   keyboard_enabled: BOOLEAN, keyboard_pid: Pids \cup {NoPid},
   keyboard_watch: BOOLEAN, socket: Pids \cup {NoPid}, lock_box: BOOLEAN]

\* gs_window_init: what a new window has
NewWindow(id, lock, keyboard) ==
  [id |-> id, exists |-> TRUE, lock_enabled |-> lock, dialog_up |-> FALSE,
   popup_idle |-> FALSE, lock_pid |-> NoPid, lock_watch |-> NoPid,
   watch_dead |-> FALSE, response_ok |-> FALSE, quit_requested |-> FALSE,
   shake_in_progress |-> FALSE, keyboard_enabled |-> keyboard,
   keyboard_pid |-> NoPid, keyboard_watch |-> FALSE, socket |-> NoPid,
   lock_box |-> FALSE]

WindowType ==
  /\ window \in WindowState
  /\ key_events \in Seq([kind: KeyKinds, for: Nat])
  /\ Len(key_events) <= MaxQueuedEvents
  /\ emits \in 0..MaxEmits
  /\ shakes \in Seq((0..MaxWindows) \X Pids)
  /\ spawned \in 0..MaxDialogs
  /\ \A p \in Pids : Len(pipes[p]) <= MaxLines
  /\ children.dialogs \subseteq 1..spawned
  /\ children.keyboards \subseteq 1..spawned
  /\ running \in BOOLEAN

WindowInit ==
  /\ \E lock, keyboard \in BOOLEAN : window = NewWindow(1, lock, keyboard)
  /\ key_events = <<>> /\ emits = 0 /\ shakes = <<>>
  /\ dialogs = [p \in Pids |-> Gone] /\ pipes = [p \in Pids |-> <<>>]
  /\ spawned = 0 /\ children = [dialogs |-> {}, keyboards |-> {}]
  /\ delivered = {} /\ answers = {} /\ running = TRUE

-----------------------------------------------------------------------------
(* Requests *)

(***************************************************************************)
(* gs_window_request_unlock as the manager calls it: only while no dialog  *)
(* is up.  A window that is not locked is to be deactivated.               *)
(***************************************************************************)
UnlockRequested(w) ==
  IF w.dialog_up \/ w.lock_watch # NoPid \/ ~w.lock_enabled THEN w
  ELSE [w EXCEPT !.popup_idle = TRUE, !.dialog_up = TRUE]

EmitQueued(w) == ~w.dialog_up /\ w.lock_watch = NoPid /\ ~w.lock_enabled

\* the request as the last thing of a handler that has left the window w
RequestUnlock(w) ==
  /\ window' = UnlockRequested(w)
  /\ IF EmitQueued(w) THEN emits < MaxEmits /\ emits' = emits + 1
                      ELSE UNCHANGED emits

gs_window_request_unlock ==
  /\ window.exists
  /\ RequestUnlock(window)
  /\ UNCHANGED <<key_events, shakes, dialogs, pipes, spawned, children,
                 delivered, answers>>

\* gs_window_set_lock_enabled: the manager only ever locks
gs_window_set_lock_enabled ==
  /\ window.exists /\ ~window.lock_enabled
  /\ window' = [window EXCEPT !.lock_enabled = TRUE]
  /\ UNCHANGED <<key_events, emits, shakes, dialogs, pipes, spawned, children,
                 delivered, answers>>

-----------------------------------------------------------------------------
(* Input *)

\* the dialog that the user sees or is waiting for
ExpectedDialog == IF window.lock_pid = NoPid THEN spawned + 1
                                             ELSE window.lock_pid

\* queue_key_event: eat the key that would submit an empty entry
queue_key_event(kind) ==
  IF (key_events = <<>> /\ kind = "submit")
       \/ Len(key_events) >= MaxQueuedEvents \/ kind = "focus"
  THEN key_events
  ELSE Append(key_events, [kind |-> kind, for |-> ExpectedDialog])

\* maybe_handle_activity: not when there is a lock socket
ActivityHandled(w) ==
  IF w.socket = NoPid THEN RequestUnlock(w)
                      ELSE window' = w /\ UNCHANGED emits

(***************************************************************************)
(* gs_window_real_key_press_event: activity, then the key is queued, then  *)
(* it goes to the socket when there is one.                                *)
(***************************************************************************)
key_press_event(kind) ==
  /\ window.exists
  /\ ActivityHandled(window)
  /\ key_events' = queue_key_event(kind)
  /\ delivered' = IF window.socket # NoPid /\ dialogs[window.socket].alive
                  THEN delivered \cup {<<ExpectedDialog, window.socket>>}
                  ELSE delivered
  /\ UNCHANGED <<shakes, dialogs, pipes, spawned, children, answers>>

\* a button, the scroll wheel, or motion that is far enough
button_press_event ==
  /\ window.exists
  /\ ActivityHandled(window)
  /\ UNCHANGED <<key_events, shakes, dialogs, pipes, spawned, children,
                 delivered, answers>>

-----------------------------------------------------------------------------
(* The dialog and the keyboard go *)

\* a process that is sent SIGTERM ends
Killed(pid) ==
  IF pid = NoPid THEN dialogs ELSE [dialogs EXCEPT ![pid].alive = FALSE]

\* one that is waited for too leaves nothing but what it has accepted, and
\* the lines in its pipe are lost with the watch
Reaped(pid) ==
  /\ dialogs' = [p \in Pids |->
                   IF p = pid THEN [Gone EXCEPT !.accepted = dialogs[p].accepted]
                   ELSE dialogs[p]]
  /\ pipes' = [p \in Pids |-> IF p = pid THEN <<>> ELSE pipes[p]]

\* the fields of the window w when its dialog has gone down
PoppedDown(w) ==
  [w EXCEPT !.keyboard_pid = NoPid, !.keyboard_watch = FALSE,
            !.lock_pid = NoPid, !.dialog_up = FALSE,
            !.lock_box = FALSE, !.socket = NoPid, !.popup_idle = FALSE,
            !.lock_watch = NoPid, !.watch_dead = FALSE]

\* keyboard_command_finish: it is sent SIGTERM and waited for
KeyboardFinished == [children EXCEPT !.keyboards = @ \ {window.keyboard_pid}]

\* mutant: the dialog is not waited for
gs_window_dialog_finish_unwaited ==
  /\ Reaped(window.lock_pid)
  /\ children' = KeyboardFinished
  /\ key_events' = <<>>

\* mutant: the queue of keys is kept
gs_window_dialog_finish_keys ==
  /\ Reaped(window.lock_pid)
  /\ children' = [KeyboardFinished EXCEPT !.dialogs = @ \ {window.lock_pid}]
  /\ UNCHANGED key_events

\* both processes end and are waited for, and the queued keys are dropped
gs_window_dialog_finish ==
  /\ Reaped(window.lock_pid)
  /\ children' = [KeyboardFinished EXCEPT !.dialogs = @ \ {window.lock_pid}]
  /\ key_events' = <<>>

\* popdown_dialog, on the window w: then the sockets, the popup idle and the
\* watches are removed
popdown_dialog(w) ==
  /\ gs_window_dialog_finish
  /\ window' = PoppedDown(w)

\* mutant: the answer of a dialog that is cancelled is kept for the next one
gs_window_cancel_unlock_request_kept ==
  /\ window.exists
  /\ popdown_dialog([window EXCEPT !.response_ok =
       @ \/ \E p \in Pids \cap {window.lock_pid} : dialogs[p].accepted])
  /\ UNCHANGED <<emits, shakes, spawned, delivered, answers>>

\* gs_window_cancel_unlock_request, when a monitor is plugged in
gs_window_cancel_unlock_request ==
  /\ window.exists
  /\ popdown_dialog(window)
  /\ UNCHANGED <<emits, shakes, spawned, delivered, answers>>

\* gs_window_destroy, and gs_window_finalize of what is left; a source that
\* emits on it stays behind (GSManager has what that leads to)
gs_window_destroy ==
  /\ window.exists
  /\ gs_window_dialog_finish
  /\ window' = [NewWindow(window.id, FALSE, FALSE) EXCEPT !.exists = FALSE]
  /\ emits' = 0
  /\ UNCHANGED <<shakes, spawned, delivered, answers>>

gs_window_new(lock, keyboard) ==
  /\ ~window.exists /\ window.id < MaxWindows
  /\ window' = NewWindow(window.id + 1, lock, keyboard)
  /\ UNCHANGED <<key_events, emits, shakes, dialogs, pipes, spawned, children,
                 delivered, answers>>

emit_deactivated_idle ==
  /\ emits > 0
  /\ emits' = emits - 1
  /\ UNCHANGED <<window, key_events, shakes, dialogs, pipes, spawned, children,
                 delivered, answers>>

-----------------------------------------------------------------------------
(* The dialog comes *)

\* spawn_on_window for the dialog of the window w: its output is watched
spawn_on_window(w) ==
  LET p == spawned + 1
  IN /\ spawned < MaxDialogs
     /\ window' = [w EXCEPT !.lock_pid = p, !.lock_watch = p]
     /\ dialogs' = [dialogs EXCEPT ![p] = Fresh]
     /\ spawned' = p
     /\ children' = [children EXCEPT !.dialogs = @ \cup {p}]

(***************************************************************************)
(* popup_dialog_idle: the dialog is spawned, or that fails.                *)
(* dialog_response keeps the value of an earlier dialog.                   *)
(***************************************************************************)
popup_dialog_idle ==
  LET w == [window EXCEPT !.popup_idle = FALSE, !.quit_requested = FALSE,
                          !.shake_in_progress = FALSE]
  IN /\ window.popup_idle
     /\ \/ window' = w /\ UNCHANGED <<dialogs, spawned, children>>
        \/ spawn_on_window(w)
     /\ UNCHANGED <<key_events, emits, shakes, pipes, delivered, answers>>

\* external: the process writes a line, accepts the user, or ends
dialog_step(p) ==
  /\ \/ \E line \in {"id", "failed", "ok", "cancel", "quit"} :
          /\ Len(pipes[p]) < MaxLines
          /\ Dialog(p)!CanWrite(line)
          /\ dialogs' = [dialogs EXCEPT ![p] = Dialog(p)!Wrote(line)]
          /\ pipes' = [pipes EXCEPT ![p] = Append(@, line)]
     \/ /\ Dialog(p)!CanAccept
        /\ dialogs' = [dialogs EXCEPT ![p] = Dialog(p)!Accepted]
        /\ UNCHANGED pipes
     \/ /\ dialogs[p].alive
        /\ dialogs' = [dialogs EXCEPT ![p] = Dialog(p)!Exited]
        /\ UNCHANGED pipes
  /\ UNCHANGED <<window, key_events, emits, shakes, spawned, children,
                 delivered, answers>>

-----------------------------------------------------------------------------
(* lock_command_watch: one line, or the end of the output, of dialog p *)

\* its source is there and not being dispatched
Watched(p) ==
  /\ window.exists /\ window.lock_watch = p /\ ~window.watch_dead
  /\ \A i \in 1..Len(shakes) : shakes[i] # <<window.id, p>>

Reads(p, line) == Watched(p) /\ pipes[p] # <<>> /\ Head(pipes[p]) = line

LineRead(p, line) ==
  /\ Reads(p, line)
  /\ pipes' = [pipes EXCEPT ![p] = Tail(@)]
  /\ UNCHANGED spawned

\* forward_key_events: the queued keys go to the plug of dialog p
forward_key_events(p) ==
  /\ key_events' = <<>>
  /\ delivered' = delivered \cup {<<key_events[i].for, p>> :
                                    i \in 1..Len(key_events)}

(***************************************************************************)
(* create_lock_socket: when the dialog is still there its plug is added,   *)
(* the socket shown and the queued keys forwarded; embed_keyboard may fail *)
(* to spawn.                                                               *)
(***************************************************************************)
create_lock_socket(p) ==
  LET w == [window EXCEPT !.socket = p, !.lock_box = TRUE]
  IN /\ LineRead(p, "id")
     /\ \/ /\ window.keyboard_enabled
           /\ window' = [w EXCEPT !.keyboard_pid = p, !.keyboard_watch = TRUE]
           /\ children' = [children EXCEPT !.keyboards = @ \cup {p}]
        \/ window' = w /\ UNCHANGED children
     /\ IF dialogs[p].alive THEN forward_key_events(p)
                            ELSE UNCHANGED <<key_events, delivered>>
     /\ UNCHANGED <<emits, shakes, dialogs, answers>>

\* NOTICE=AUTH FAILED: the call of shake_dialog begins
shake_dialog(p) ==
  /\ LineRead(p, "failed")
  /\ window' = [window EXCEPT !.shake_in_progress = TRUE]
  /\ shakes' = Append(shakes, <<window.id, p>>)
  /\ UNCHANGED <<key_events, emits, dialogs, children, delivered, answers>>

\* mutant: the dialog is not ended when it asks for it
maybe_kill_dialog_never(w) == dialogs

\* maybe_kill_dialog for the window w: the process ends, it is not reaped
maybe_kill_dialog(w) ==
  IF ~w.shake_in_progress /\ w.quit_requested THEN Killed(w.lock_pid)
                                              ELSE dialogs

request_quit(p) ==
  /\ LineRead(p, "quit")
  /\ window' = [window EXCEPT !.quit_requested = TRUE]
  /\ dialogs' = maybe_kill_dialog(window')
  /\ UNCHANGED <<key_events, emits, shakes, children, delivered, answers>>

\* the dialog has finished: it goes down, and the window is deactivated when
\* the response, of this dialog or of an earlier one, is OK
dialog_finished(w) ==
  /\ popdown_dialog(w)
  /\ IF w.response_ok THEN emits < MaxEmits /\ emits' = emits + 1
                      ELSE UNCHANGED emits
  /\ UNCHANGED <<shakes, delivered>>

response_read(p, ok) ==
  /\ Reads(p, IF ok THEN "ok" ELSE "cancel")
  /\ dialog_finished([window EXCEPT !.response_ok = ok])
  /\ answers' = IF ok THEN answers \cup {<<window.id, p>>} ELSE answers
  /\ UNCHANGED spawned

end_of_file(p) ==
  /\ Watched(p) /\ pipes[p] = <<>> /\ ~dialogs[p].alive
  /\ dialog_finished(window)
  /\ UNCHANGED <<spawned, answers>>

\* G_IO_STATUS_ERROR: the source goes, lock_watch_id keeps its id
read_error(p) ==
  /\ Watched(p)
  /\ window' = [window EXCEPT !.watch_dead = TRUE]
  /\ UNCHANGED <<key_events, emits, shakes, dialogs, pipes, spawned, children,
                 delivered, answers>>

lock_command_watch(p) ==
  \/ create_lock_socket(p) \/ shake_dialog(p) \/ request_quit(p)
  \/ \E ok \in BOOLEAN : response_read(p, ok)
  \/ end_of_file(p) \/ read_error(p)

\* the innermost shake_dialog returns to a window that is still there
shake_dialog_returns ==
  /\ shakes # <<>> /\ window.exists /\ shakes[Len(shakes)][1] = window.id
  /\ window' = [window EXCEPT !.shake_in_progress = FALSE]
  /\ dialogs' = maybe_kill_dialog(window')
  /\ shakes' = SubSeq(shakes, 1, Len(shakes) - 1)
  /\ UNCHANGED <<key_events, emits, pipes, spawned, children, delivered,
                 answers, running>>

(***************************************************************************)
(* It returns to a window that was destroyed inside the nested loop, whose *)
(* memory has been freed: undefined.  What it reads there makes it stop    *)
(* without an effect on a window, or the daemon crashes.                   *)
(***************************************************************************)
shake_dialog_after_free ==
  /\ shakes # <<>>
  /\ ~window.exists \/ shakes[Len(shakes)][1] # window.id
  /\ shakes' = SubSeq(shakes, 1, Len(shakes) - 1)
  /\ running' \in BOOLEAN
  /\ UNCHANGED <<window, key_events, emits, dialogs, pipes, spawned, children,
                 delivered, answers>>

-----------------------------------------------------------------------------
(* The plug of the dialog and the keyboard *)

\* X tells that the plug of a dialog that has ended is gone
lock_plug_removed ==
  /\ window.exists /\ window.socket # NoPid /\ ~dialogs[window.socket].alive
  /\ window' = [window EXCEPT !.socket = NoPid, !.lock_box = FALSE]
  /\ UNCHANGED <<key_events, emits, shakes, dialogs, pipes, spawned, children,
                 delivered, answers>>

\* keyboard_command_watch: end of the output of the keyboard, which may come
\* at any time, or an error, after which only its source is gone
keyboard_command_watch(error) ==
  /\ window.exists /\ window.keyboard_watch
  /\ IF error
     THEN window' = [window EXCEPT !.keyboard_watch = FALSE]
          /\ UNCHANGED children
     ELSE /\ window' = [window EXCEPT !.keyboard_watch = FALSE,
                                      !.keyboard_pid = NoPid]
          /\ children' = KeyboardFinished
  /\ UNCHANGED <<key_events, emits, shakes, dialogs, pipes, spawned, delivered,
                 answers>>

-----------------------------------------------------------------------------

\* the sources that the main loop dispatches
WindowSource ==
  \/ popup_dialog_idle \/ emit_deactivated_idle
  \/ \E p \in Pids : lock_command_watch(p)
  \/ lock_plug_removed
  \/ \E error \in BOOLEAN : keyboard_command_watch(error)

\* what others do: the user, the manager, the dialogs
WindowEnvironment ==
  \/ \E kind \in KeyKinds : key_press_event(kind)
  \/ button_press_event
  \/ gs_window_request_unlock \/ gs_window_set_lock_enabled
  \/ gs_window_cancel_unlock_request \/ gs_window_destroy
  \/ \E lock, keyboard \in BOOLEAN : gs_window_new(lock, keyboard)
  \/ \E p \in Pids : dialog_step(p)

WindowNext ==
  /\ running
  /\ \/ (WindowSource \/ WindowEnvironment) /\ UNCHANGED running
     \/ shake_dialog_returns \/ shake_dialog_after_free

(***************************************************************************)
(* GLib dispatches a source that stays ready, and a shake lasts for eight  *)
(* rounds of 10 ms: it returns.                                            *)
(***************************************************************************)
WindowSpec ==
  /\ WindowInit /\ [][WindowNext]_windowVars
  /\ \A p \in Pids :
       WF_windowVars(running /\ lock_command_watch(p) /\ UNCHANGED running)
  /\ WF_windowVars(running /\ (shake_dialog_returns \/ shake_dialog_after_free))

-----------------------------------------------------------------------------
(* Properties *)

(***************************************************************************)
(* Every dialog and keyboard that has not been waited for is the one whose *)
(* pid the window keeps, so popdown_dialog will end it: none is orphaned   *)
(* or left as a zombie, through failed spawns, read errors, nested shakes  *)
(* and the end of the window.  The output that is watched is that of the   *)
(* dialog that will be waited for.                                         *)
(***************************************************************************)
ChildrenAreKnown ==
  /\ children.dialogs = {window.lock_pid} \ {NoPid}
  /\ children.keyboards = {window.keyboard_pid} \ {NoPid}
  /\ window.lock_watch \in {NoPid, window.lock_pid}
  /\ window.keyboard_pid \in {NoPid, window.lock_pid}

\* the dialog that is read, or one whose OK the window has read, accepted
OwnAnswer ==
  \E p \in Pids : /\ window.lock_watch = p \/ <<window.id, p>> \in answers
                  /\ dialogs[p].accepted

(***************************************************************************)
(* What deactivates a locked window is the answer of the dialog that ends: *)
(* it accepted the user.  dialog_response may still have the OK of an      *)
(* earlier dialog, but then that dialog was of the same window and did     *)
(* accept, and the window was told to deactivate when that answer was      *)
(* read, as it is for every OK: a left-over answer of another window, or   *)
(* one that never deactivated its own, deactivates nothing.                *)
(***************************************************************************)
OnlyAcceptedDeactivates ==
  [][/\ emits' > emits /\ window.lock_enabled => OwnAnswer
     /\ answers' # answers => emits' = emits + 1]_windowVars

(***************************************************************************)
(* The keys that a dialog gets were typed for it, never for one that has   *)
(* gone down before, and the first key forwarded to it is not the one that *)
(* woke the screen and would submit an empty password.  The queue keeps    *)
(* to its limit and the rest of the state to its type.                     *)
(***************************************************************************)
KeysReachTheirDialog ==
  /\ WindowType
  /\ \A d \in delivered : d[1] = d[2]
  /\ key_events # <<>> => Head(key_events).kind = "text"

(***************************************************************************)
(* A dialog that has asked to be terminated after its last failure ends,   *)
(* also when it is being shaken, unless its output can no longer be read.  *)
(***************************************************************************)
QuitIsGranted ==
  \A p \in Pids :
    dialogs[p].last = "quit" ~>
      ~dialogs[p].alive \/ window.watch_dead \/ ~running
=============================================================================
