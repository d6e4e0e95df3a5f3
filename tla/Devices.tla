-------------------------------- MODULE Devices --------------------------------
(***************************************************************************)
(* The daemon's use of the input devices and of the fade: the parts of     *)
(* gs-monitor.c and gs-manager.c that call GSGrab and GSFade.  A handler   *)
(* that grabs is in the call until it is done, and only then goes on (the  *)
(* field `then' of the call); meanwhile the daemon does nothing else, but  *)
(* the other clients of the X server do.                                   *)
(***************************************************************************)
EXTENDS GSGrab, GSFade, FiniteSets

CONSTANT MaxOtherGrabs   \* bound: grabs by other clients

ASSUME OthersAssumption == MaxOtherGrabs \in Nat

VARIABLES
  screen,   \* the manager and the monitor, as far as they use the devices
  others    \* the number of grabs by other clients

devicesVars == <<grab, server, call, fade, gamma, screen, others>>

NoScreen == [active |-> FALSE, windows |-> {}, unmapped |-> {}, dialog |-> None,
             release_timer |-> FALSE, unfade |-> FALSE]

DevicesType ==
  /\ GrabType /\ FadeType
  /\ screen \in [active: BOOLEAN, windows: SUBSET Windows,
                 unmapped: SUBSET Windows, dialog: Windows \cup {None},
                 release_timer: BOOLEAN, unfade: BOOLEAN]
  /\ others \in 0..MaxOtherGrabs

DevicesInit == GrabInit /\ FadeInit /\ screen = NoScreen /\ others = 0

\* the daemon's main loop dispatches a handler
Dispatching == call.op = "none"

\* the call has returned to the handler that goes on with `then'
Returned(then) == call.op = "done" /\ call.then = then

-----------------------------------------------------------------------------
(* gs-monitor.c *)

\* watcher_idle_notice_cb, in effect; the watcher is inactive while the
\* manager is active
idle_notice ==
  /\ Dispatching /\ ~screen.active
  /\ call' = CallGrabWindow(Offscreen, FALSE, "fade")
  /\ UNCHANGED <<grab, server, fade, gamma, screen, others>>

idle_notice_grabbed ==
  /\ Returned("fade")
  /\ call' = NoCall
  /\ IF call.result THEN gs_fade_async ELSE UNCHANGED <<fade, gamma>>
  /\ UNCHANGED <<grab, server, screen, others>>

\* watcher_idle_notice_cb, no longer in effect
idle_notice_ends ==
  /\ Dispatching /\ ~screen.active
  /\ gs_fade_reset
  /\ screen' = [screen EXCEPT !.release_timer = TRUE]
  /\ UNCHANGED <<grab, server, call, others>>

\* mutant: the manager is not asked whether it is active
release_grab_timeout_always ==
  /\ Dispatching /\ screen.release_timer
  /\ screen' = [screen EXCEPT !.release_timer = FALSE]
  /\ server' = Ungrabbed(server) /\ grab' = Reset(grab)
  /\ UNCHANGED <<call, fade, gamma, others>>

release_grab_timeout ==
  /\ Dispatching /\ screen.release_timer
  /\ screen' = [screen EXCEPT !.release_timer = FALSE]
  /\ IF screen.active THEN UNCHANGED <<server, grab>>
     ELSE server' = Ungrabbed(server) /\ grab' = Reset(grab)
  /\ UNCHANGED <<call, fade, gamma, others>>

-----------------------------------------------------------------------------
(* gs-manager.c *)

gs_manager_activate ==
  /\ Dispatching /\ ~screen.active
  /\ call' = CallGrabWindow(Root, FALSE, "activate")
  /\ UNCHANGED <<grab, server, fade, gamma, screen, others>>

\* the windows of the monitors W are created and shown; no blanking without
\* the grab
gs_manager_activated(W) ==
  /\ Returned("activate")
  /\ call' = NoCall
  /\ screen' = IF call.result
               THEN [screen EXCEPT !.active = TRUE, !.windows = W,
                                   !.unmapped = W, !.unfade = TRUE]
               ELSE screen
  /\ UNCHANGED <<grab, server, fade, gamma, others>>

\* window_map_event_cb; the pointer is on the window's monitor or not
window_map_event_cb(w, at_pointer) ==
  /\ Dispatching /\ w \in screen.unmapped
  /\ screen' = [screen EXCEPT !.unmapped = @ \ {w}]
  /\ call' = IF at_pointer THEN CallMoveToWindow(w, FALSE, "nothing") ELSE call
  /\ UNCHANGED <<grab, server, fade, gamma, others>>

move_returns ==
  /\ Returned("nothing")
  /\ call' = NoCall
  /\ UNCHANGED <<grab, server, fade, gamma, screen, others>>

\* mutant: only the timer is removed
unfade_idle_only ==
  /\ Dispatching /\ screen.unfade
  /\ screen' = [screen EXCEPT !.unfade = FALSE]
  /\ UNCHANGED <<fade, gamma, grab, server, call, others>>

\* unfade_idle, half a second after the last window was shown
unfade_idle ==
  /\ Dispatching /\ screen.unfade
  /\ screen' = [screen EXCEPT !.unfade = FALSE]
  /\ gs_fade_reset
  /\ UNCHANGED <<grab, server, call, others>>

\* handle_window_dialog_up
handle_window_dialog_up(w) ==
  /\ Dispatching /\ screen.active /\ screen.dialog = None /\ w \in screen.windows
  /\ screen' = [screen EXCEPT !.dialog = w]
  /\ call' = CallMoveToWindow(w, TRUE, "nothing")
  /\ UNCHANGED <<grab, server, fade, gamma, others>>

\* handle_window_dialog_down: the pointer is grabbed again
handle_window_dialog_down ==
  /\ Dispatching /\ screen.dialog # None
  /\ call' = CallMoveToWindow(screen.dialog, FALSE, "down")
  /\ UNCHANGED <<grab, server, fade, gamma, screen, others>>

dialog_is_down ==
  /\ Returned("down")
  /\ call' = NoCall
  /\ screen' = [screen EXCEPT !.dialog = None]
  /\ UNCHANGED <<grab, server, fade, gamma, others>>

\* the windows in W are destroyed: the server and the weak pointer of the
\* grab drop what they hold for one of them
LostWith(s, W) == [s EXCEPT !.keyboard = IF @ \in W THEN None ELSE @,
                            !.pointer = IF @ \in W THEN None ELSE @]

GrabLost(g, W) == IF g.window \in W THEN Reset(g) ELSE g

(***************************************************************************)
(* gs_manager_deactivate: the fade is reset, the devices are released and  *)
(* the windows destroyed, but one with a dialog grabs the devices again    *)
(* before it goes.                                                         *)
(***************************************************************************)
gs_manager_deactivate ==
  /\ Dispatching /\ screen.active
  /\ gs_fade_reset
  /\ server' = Ungrabbed(server) /\ grab' = Reset(grab)
  /\ IF screen.dialog = None
     THEN /\ screen' = [NoScreen EXCEPT !.release_timer = screen.release_timer]
          /\ UNCHANGED call
     ELSE /\ screen' = [screen EXCEPT !.unfade = FALSE]
          /\ call' = CallMoveToWindow(screen.dialog, FALSE, "destroy")
  /\ UNCHANGED others

gs_manager_destroy_windows ==
  /\ Returned("destroy")
  /\ call' = NoCall
  /\ server' = LostWith(server, screen.windows)
  /\ grab' = GrabLost(grab, screen.windows)
  /\ screen' = [NoScreen EXCEPT !.release_timer = screen.release_timer]
  /\ UNCHANGED <<fade, gamma, others>>

(***************************************************************************)
(* on_display_monitor_removed: its window is destroyed, all with the X     *)
(* server grabbed; a window with a dialog grabs the devices before it goes.*)
(***************************************************************************)
WithoutWindow(w) ==
  [screen EXCEPT !.windows = @ \ {w}, !.unmapped = @ \ {w},
                 !.dialog = IF @ = w THEN None ELSE @]

on_display_monitor_removed(w) ==
  /\ Dispatching /\ w \in screen.windows
  /\ IF w = screen.dialog
     THEN /\ server' = ServerGrabbed(server)
          /\ call' = CallMoveToWindow(w, FALSE, "unplug")
          /\ UNCHANGED <<grab, screen>>
     ELSE /\ server' = LostWith(server, {w}) /\ grab' = GrabLost(grab, {w})
          /\ screen' = WithoutWindow(w)
          /\ UNCHANGED call
  /\ UNCHANGED <<fade, gamma, others>>

monitor_is_removed ==
  /\ Returned("unplug")
  /\ call' = NoCall
  /\ server' = ServerUngrabbed(LostWith(server, {call.window}))
  /\ grab' = GrabLost(grab, {call.window})
  /\ screen' = WithoutWindow(call.window)
  /\ UNCHANGED <<fade, gamma, others>>

\* on_display_monitor_added, once a dialog is down: a window is shown
on_display_monitor_added(w) ==
  /\ Dispatching /\ screen.active /\ screen.dialog = None
  /\ w \in Windows \ screen.windows
  /\ screen' = [screen EXCEPT !.windows = @ \cup {w}, !.unmapped = @ \cup {w},
                              !.unfade = TRUE]
  /\ UNCHANGED <<grab, server, call, fade, gamma, others>>

(***************************************************************************)
(* window_grab_broken_cb, for the device that is broken: the record is     *)
(* dropped when the other device is not grabbed either.                    *)
(***************************************************************************)
window_grab_broken_cb(device) ==
  LET s == [server EXCEPT ![device] = None]
  IN /\ Dispatching /\ server[device] \in screen.windows
     /\ server' = s
     /\ grab' = IF s.keyboard \in Ours \/ s.pointer \in Ours THEN grab
                ELSE Reset(grab)
     /\ UNCHANGED <<call, fade, gamma, screen, others>>

-----------------------------------------------------------------------------
(* external: another client of the X server, served unless that is grabbed *)

other_grabs(device) ==
  /\ server.grabbed = 0 /\ others < MaxOtherGrabs /\ server[device] = None
  /\ server' = [server EXCEPT ![device] = Other]
  /\ others' = others + 1
  /\ UNCHANGED <<grab, call, fade, gamma, screen>>

other_releases(device) ==
  /\ server.grabbed = 0 /\ server[device] = Other
  /\ server' = [server EXCEPT ![device] = None]
  /\ UNCHANGED <<grab, call, fade, gamma, screen, others>>

-----------------------------------------------------------------------------

GrabStep == CallStep /\ UNCHANGED <<fade, gamma, screen, others>>

FadeStep ==
  Dispatching /\ fade_out_timer /\ UNCHANGED <<grab, server, call, screen, others>>

Continue ==
  \/ idle_notice_grabbed \/ move_returns \/ dialog_is_down
  \/ gs_manager_destroy_windows \/ monitor_is_removed
  \/ \E W \in (SUBSET Windows) \ {{}} : gs_manager_activated(W)

Handler ==
  \/ idle_notice \/ idle_notice_ends \/ release_grab_timeout
  \/ gs_manager_activate \/ unfade_idle
  \/ \E w \in Windows, at_pointer \in BOOLEAN : window_map_event_cb(w, at_pointer)
  \/ \E w \in Windows : handle_window_dialog_up(w)
  \/ handle_window_dialog_down \/ gs_manager_deactivate
  \/ \E w \in Windows : on_display_monitor_removed(w)
  \/ \E w \in Windows : on_display_monitor_added(w)
  \/ \E device \in {"keyboard", "pointer"} : window_grab_broken_cb(device)

OtherStep ==
  \E device \in {"keyboard", "pointer"} :
    other_grabs(device) \/ other_releases(device)

DevicesNext == GrabStep \/ FadeStep \/ Continue \/ Handler \/ OtherStep

(***************************************************************************)
(* The daemon's thread runs, and a timer that is due is dispatched when    *)
(* the main loop is next iterated.  A client that has                      *)
(* grabbed a device lets it go; the server, which is grabbed again and     *)
(* again by gs_grab_move, serves it in one of the intervals.               *)
(***************************************************************************)
DevicesSpec ==
  /\ DevicesInit /\ [][DevicesNext]_devicesVars
  /\ WF_devicesVars(GrabStep) /\ WF_devicesVars(Continue)
  /\ WF_devicesVars(FadeStep) /\ SF_devicesVars(unfade_idle)
  /\ SF_devicesVars(other_releases("keyboard"))
  /\ SF_devicesVars(other_releases("pointer"))

-----------------------------------------------------------------------------
(* Properties *)

(***************************************************************************)
(* While the screensaver is active the daemon itself does not let go of    *)
(* the keyboard: every move releases and grabs with the server grabbed,    *)
(* and the delayed release of the idle notice does not hit an activation   *)
(* that came meanwhile.  What remains is a window that is lost, and a move *)
(* that fails because another client has the pointer: the old grab is then *)
(* resumed with the pointer too, which fails again.                        *)
(***************************************************************************)
KeyboardIsKept ==
  [][screen.active /\ screen'.active /\ server.keyboard \in Ours
       /\ server'.keyboard \notin Ours
     => \/ server.pointer = Other                \* the move fails
        \/ screen'.windows # screen.windows      \* the window is destroyed
        \/ call'.then = "destroy"                \* deactivation has begun
        \/ screen' = screen /\ call' = call      \* the grab is broken
             /\ server.keyboard \in screen.windows]_devicesVars

(***************************************************************************)
(* What GSGrab records is what the server holds: a window that a move      *)
(* takes for grabbed already has a device, and it is one the daemon still  *)
(* has, through failed moves, destroyed windows and broken grabs.  The     *)
(* state is of its type.                                                   *)
(***************************************************************************)
RecordIsTrue ==
  /\ DevicesType
  /\ grab.window # None =>
       /\ server.keyboard = grab.window \/ server.pointer = grab.window
       /\ server.keyboard \in {grab.window, None, Other}
       /\ server.pointer \in {grab.window, None, Other}

(***************************************************************************)
(* gs_grab_move_to_window repeats until it has the devices, and gets them  *)
(* when the other clients let go, except in the one call that is made with *)
(* the server grabbed, when a monitor is unplugged.                        *)
(***************************************************************************)
MovesEnd == call.op \in {"move", "retry"} ~>
              call.op = "none" \/ call.then = "unplug"

(***************************************************************************)
(* A fade that has begun is undone or ends: with the timers of the manager *)
(* no screen stays dimmed behind an active screensaver, whichever of the   *)
(* two ways of setting the gamma the fade has fallen back to.  A ramp that *)
(* could not be read stays black, with the gamma number as it was.         *)
(***************************************************************************)
ActiveIsUndimmed ==
  screen.active ~>
    \/ ~screen.active \/ call.then = "unplug" \/ Blackened
    \/ \A c \in Crtcs : gamma.ramp[c] = Full

(***************************************************************************)
(* The comment of handle_window_dialog_up: the pointer is grabbed again    *)
(* when the dialog goes down.                                              *)
(***************************************************************************)
RegrabbedWhenDown ==
  call.op \in {"move", "retry"} /\ call.then \in {"down", "unplug"}
    ~> call.op = "done"
=============================================================================
