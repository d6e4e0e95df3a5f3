------------------------------ MODULE GSManager ------------------------------
(***************************************************************************)
(* The screensaver manager (gs-manager.c) with the windows it owns         *)
(* (gs-window-x11.c, seen from the manager), the theme jobs that run on    *)
(* them (gs-job.c) and the device grab (gs-grab-x11.c).                    *)
(*                                                                         *)
(* A window is named by the monitor it covers: `windows' is the set of     *)
(* monitors that have one, and a Boolean field of GSWindow is the set of   *)
(* windows in which it is TRUE (the fields of `win').  Everything runs in  *)
(* the main loop of one thread, so a handler is one action; what           *)
(* interleaves is the handlers: bus messages, X events, timers and idle    *)
(* sources.  Drawing, themes' names and command lines are left out.        *)
(***************************************************************************)
EXTENDS Naturals, FiniteSets

CONSTANTS
  Monitors,       \* the monitors that may ever be plugged in
  None,           \* grab_window == NULL
  Root,           \* the root window
  Offscreen,      \* the GtkInvisible window of GSGrab
  MaxIdles,       \* bound: pending "deactivated" idle sources of one kind
  HaveThemes      \* FALSE: the mode is blank-only, jobs have no command

ASSUME MonitorsAssumption == Monitors # {} /\ IsFiniteSet(Monitors)
ASSUME GrabTargetsAssumption ==
  /\ None \notin Monitors /\ Root \notin Monitors /\ Offscreen \notin Monitors
  /\ None # Root /\ None # Offscreen /\ Root # Offscreen
ASSUME BoundsAssumption == MaxIdles \in Nat \ {0} /\ HaveThemes \in BOOLEAN

VARIABLES
  monitors,  \* external: the monitors of the display
  manager,   \* GSManagerPrivate
  windows,   \* the monitors that have a GSWindow
  win,       \* the fields of the GSWindows, each as a set of windows
  jobs,      \* running: pid > 0; stopped: the ones that are GS_JOB_STOPPED
  idles,     \* pending idle sources that end in "deactivated"
  grab,      \* GSGrabPrivate: grab_window and no_pointer_grab
  dimmed     \* the gamma fade has darkened the screen (gs-fade.c)

managerVars ==
  <<monitors, manager, windows, win, jobs, idles, grab, dimmed>>

NoWin == [lock_enabled |-> {}, dialog_up |-> {}, popup_idle |-> {},
          lock_watch |-> {}, dead_watch |-> {}, insensitive |-> {},
          obscured |-> {}, unmapped |-> {}, ok |-> {}]

NoJobs == [running |-> {}, stopped |-> {}]

NoGrab == [window |-> None, no_pointer |-> FALSE]

(***************************************************************************)
(* The pending idle sources: emit[w] of emit_deactivated_idle on the live  *)
(* window w, freed[w] of the same on a window of monitor w that has been   *)
(* destroyed (the source is not removed and holds no reference), and       *)
(* `deactivated' of the manager's window_deactivated_idle.                 *)
(***************************************************************************)
NoIdles == [emit |-> [w \in Monitors |-> 0], freed |-> [w \in Monitors |-> 0],
            deactivated |-> 0]

ManagerState ==
  [active: BOOLEAN, lock_active: BOOLEAN, lock_enabled: BOOLEAN,
   dialog_up: BOOLEAN, throttled: BOOLEAN, lock_timer: BOOLEAN,
   unfade: BOOLEAN]

WindowFields ==
  [lock_enabled: SUBSET Monitors, dialog_up: SUBSET Monitors,
   popup_idle: SUBSET Monitors, lock_watch: SUBSET Monitors,
   dead_watch: SUBSET Monitors, insensitive: SUBSET Monitors,
   obscured: SUBSET Monitors, unmapped: SUBSET Monitors, ok: SUBSET Monitors]

JobSets == [running: SUBSET Monitors, stopped: SUBSET Monitors]

IdleSources ==
  [emit: [Monitors -> Nat], freed: [Monitors -> Nat], deactivated: Nat]

GrabState ==
  [window: Monitors \cup {None, Root, Offscreen}, no_pointer: BOOLEAN]

ManagerType ==
  /\ monitors \in SUBSET Monitors
  /\ manager \in ManagerState
  /\ windows \in SUBSET Monitors
  /\ win \in WindowFields
  /\ jobs \in JobSets
  /\ idles \in IdleSources
  /\ grab \in GrabState
  /\ dimmed \in BOOLEAN

ManagerInit ==
  /\ monitors \in (SUBSET Monitors) \ {{}}
  /\ manager \in [active: {FALSE}, lock_active: {FALSE}, lock_enabled: BOOLEAN,
                  dialog_up: {FALSE}, throttled: {FALSE},
                  lock_timer: {FALSE}, unfade: {FALSE}]
  /\ windows = {} /\ win = NoWin /\ jobs = NoJobs /\ idles = NoIdles
  /\ grab = NoGrab /\ dimmed = FALSE

-----------------------------------------------------------------------------
(* Jobs *)

\* mutant: the test of dialog_up is missing
Startable_dialog(W, m, j, obscured) ==
  IF m.throttled \/ ~HaveThemes THEN {} ELSE W \ (j.running \cup obscured)

(***************************************************************************)
(* The windows of W on which manager_maybe_start_job_for_window calls      *)
(* gs_job_start and it has a command to run: no dialog, no throttle, no    *)
(* job running, not obscured.  The spawn may fail, so a handler starts an  *)
(* arbitrary subset of them.                                               *)
(***************************************************************************)
Startable(W, m, j, obscured) ==
  IF m.dialog_up \/ m.throttled \/ ~HaveThemes THEN {} ELSE W \ (j.running \cup obscured)

Started(j, S) == [j EXCEPT !.running = @ \cup S]

\* gs_job_stop on the jobs of the windows in W
StoppedJobs(j, W) == [running |-> j.running \ W, stopped |-> j.stopped \ W]

\* manager_suspend_jobs: SIGSTOP to every running job
Suspended(j) == [j EXCEPT !.stopped = j.running]

\* manager_resume_jobs: SIGCONT to the running ones; the ones in S start
Resumed(j, S) == [running |-> j.running \cup S, stopped |-> {}]

-----------------------------------------------------------------------------
(* Unlock requests and the dialog *)

\* mutant: an id that was not reset keeps add_popup_dialog_idle away
DialogUp_no_idle(m, ws, w, j, p) ==
  /\ manager' = [m EXCEPT !.dialog_up = TRUE]
  /\ win' = [w EXCEPT !.dialog_up = @ \cup {p},
                      !.insensitive = @ \cup (ws \ {p})]
  /\ grab' = [window |-> p, no_pointer |-> TRUE]
  /\ jobs' = IF m.throttled THEN j ELSE Suspended(j)
  /\ UNCHANGED idles

(***************************************************************************)
(* handle_window_dialog_up for window p: the other windows are made        *)
(* insensitive, the devices are grabbed on it without the pointer, and the *)
(* jobs are suspended.                                                     *)
(***************************************************************************)
DialogUp(m, ws, w, j, p) ==
  /\ manager' = [m EXCEPT !.dialog_up = TRUE]
  /\ win' = [w EXCEPT !.popup_idle = @ \cup {p},
                      !.dialog_up = @ \cup {p},
                      !.insensitive = @ \cup (ws \ {p})]
  /\ grab' = [window |-> p, no_pointer |-> TRUE]
  /\ jobs' = IF m.throttled THEN j ELSE Suspended(j)
  /\ UNCHANGED idles

(***************************************************************************)
(* gs_manager_request_unlock and gs_window_request_unlock with the pointer *)
(* on monitor p, as the last part of a handler whose earlier part has      *)
(* produced the manager m, the windows ws with fields w, the jobs j and    *)
(* the grab g.  The request is refused, or the window is not locked and    *)
(* its "deactivated" emission is queued, or the dialog is put up.          *)
(***************************************************************************)
RequestUnlock(m, ws, w, j, g, p) ==
  \/ /\ ~m.active \/ m.dialog_up \/ p \in w.lock_watch
     /\ manager' = m /\ win' = w /\ jobs' = j /\ grab' = g
     /\ UNCHANGED idles
  \/ /\ m.active /\ ~m.dialog_up /\ p \in ws \ (w.lock_watch \cup w.lock_enabled)
     /\ idles.emit[p] < MaxIdles
     /\ idles' = [idles EXCEPT !.emit[p] = @ + 1]
     /\ manager' = m /\ win' = w /\ jobs' = j /\ grab' = g
  \/ /\ m.active /\ ~m.dialog_up /\ p \in (ws \cap w.lock_enabled) \ w.lock_watch
     /\ DialogUp(m, ws, w, j, p)

\* request_unlock as a handler of its own: SimulateUserActivity, ShowMessage
gs_manager_request_unlock(p) ==
  /\ p \in monitors
  /\ RequestUnlock(manager, windows, win, jobs, grab, p)
  /\ UNCHANGED <<monitors, windows, dimmed>>

\* a key, button, scroll or motion event on a sensitive window w, through
\* window_activity_cb; with the lock socket there the request is refused
maybe_handle_activity(w, p) ==
  /\ w \in windows \ win.insensitive
  /\ gs_manager_request_unlock(p)

\* mutant: the other windows are not made sensitive again
PoppedDown_insensitive(W) ==
  [win EXCEPT !.popup_idle = @ \ W, !.lock_watch = @ \ W, !.dead_watch = @ \ W,
              !.dialog_up = @ \ W]

(***************************************************************************)
(* popdown_dialog of the windows in W: their popup idle and command watch  *)
(* are removed; when one of them had its dialog up, handle_window_dialog_- *)
(* down makes all windows sensitive and resumes the jobs.                  *)
(***************************************************************************)
PoppedDown(W) ==
  [win EXCEPT !.popup_idle = @ \ W, !.lock_watch = @ \ W, !.dead_watch = @ \ W,
              !.dialog_up = @ \ W,
              !.insensitive = IF win.dialog_up \cap W = {} THEN @ ELSE {}]

PoppedManager(W) ==
  [manager EXCEPT !.dialog_up = @ /\ win.dialog_up \cap W = {}]

\* the jobs after it; S: the ones that manager_resume_jobs had to start
PoppedJobs(W, j, S) ==
  IF win.dialog_up \cap W = {} \/ manager.throttled THEN j ELSE Resumed(j, S)

\* the ones it may have to start, for the jobs j of the windows ws
PoppedStartable(W, ws, j) ==
  IF win.dialog_up \cap W = {} THEN {}
  ELSE Startable(ws, PoppedManager(W), j, win.obscured)

\* the pointer is grabbed again on the window whose dialog went down
PoppedGrab(W) ==
  IF win.dialog_up \cap W = {} THEN grab
  ELSE [window |-> CHOOSE w \in win.dialog_up \cap W : TRUE,
        no_pointer |-> FALSE]

\* popup_dialog_idle: the dialog is spawned, or spawning it fails
popup_dialog_idle(w) ==
  /\ w \in win.popup_idle
  /\ \/ win' = [win EXCEPT !.popup_idle = @ \ {w}, !.lock_watch = @ \cup {w}]
     \/ win' = [win EXCEPT !.popup_idle = @ \ {w}]
  /\ UNCHANGED <<monitors, manager, windows, jobs, idles, grab, dimmed>>

\* mutant: the end of the dialog, whatever the response, ends the lock
lock_command_watch_unlocks(w, response) ==
  /\ w \in win.lock_watch \ win.dead_watch
  /\ win' = [PoppedDown({w}) EXCEPT !.lock_enabled = {}]
  /\ manager' = [PoppedManager({w}) EXCEPT !.lock_active = FALSE]
  /\ grab' = PoppedGrab({w})
  /\ UNCHANGED <<monitors, windows, jobs, idles, dimmed>>

(***************************************************************************)
(* lock_command_watch when the dialog is finished: RESPONSE=OK, RESPONSE=- *)
(* CANCEL, or end of file, which leaves dialog_response as it was.         *)
(***************************************************************************)
lock_command_watch(w, response) ==
  LET okNow == CASE response = "ok"     -> win.ok \cup {w}
                 [] response = "cancel" -> win.ok \ {w}
                 [] response = "eof"    -> win.ok
  IN /\ w \in win.lock_watch \ win.dead_watch
     /\ \E S \in SUBSET PoppedStartable({w}, windows, jobs) :
           jobs' = PoppedJobs({w}, jobs, S)
     /\ win' = [PoppedDown({w}) EXCEPT !.ok = okNow]
     /\ manager' = PoppedManager({w})
     /\ grab' = PoppedGrab({w})
     /\ IF w \in okNow
        THEN /\ idles.emit[w] < MaxIdles
             /\ idles' = [idles EXCEPT !.emit[w] = @ + 1]
        ELSE UNCHANGED idles
     /\ UNCHANGED <<monitors, windows, dimmed>>

(***************************************************************************)
(* lock_command_watch on G_IO_STATUS_ERROR: the source goes away, the      *)
(* dialog stays up and lock_watch_id keeps the id of the dead source.      *)
(***************************************************************************)
lock_command_error(w) ==
  /\ w \in win.lock_watch \ win.dead_watch
  /\ win' = [win EXCEPT !.dead_watch = @ \cup {w}]
  /\ UNCHANGED <<monitors, manager, windows, jobs, idles, grab, dimmed>>

-----------------------------------------------------------------------------
(* Deactivation by the windows *)

\* mutant: window_deactivated_cb is not connected
emit_deactivated_idle_lost(w) ==
  /\ idles.emit[w] > 0
  /\ idles' = [idles EXCEPT !.emit[w] = @ - 1]
  /\ UNCHANGED <<monitors, manager, windows, win, jobs, grab, dimmed>>

\* the window emits "deactivated"; window_deactivated_cb queues the next idle
emit_deactivated_idle(w) ==
  /\ idles.emit[w] > 0
  /\ idles.deactivated < MaxIdles
  /\ idles' = [idles EXCEPT !.emit[w] = @ - 1, !.deactivated = @ + 1]
  /\ UNCHANGED <<monitors, manager, windows, win, jobs, grab, dimmed>>

(***************************************************************************)
(* The same on a window that has been freed: undefined.  Either GObject's  *)
(* instance check rejects the pointer, or the memory already holds a new   *)
(* GSWindow and that one emits.                                            *)
(***************************************************************************)
emit_on_freed_window(w) ==
  /\ idles.freed[w] > 0
  /\ \/ idles' = [idles EXCEPT !.freed[w] = @ - 1]
     \/ /\ windows # {}
        /\ idles.deactivated < MaxIdles
        /\ idles' = [idles EXCEPT !.freed[w] = @ - 1, !.deactivated = @ + 1]
  /\ UNCHANGED <<monitors, manager, windows, win, jobs, grab, dimmed>>

\* the sources left behind when the windows in W are destroyed
LeftBehind(i, W) ==
  [emit |-> [w \in Monitors |-> IF w \in W THEN 0 ELSE i.emit[w]],
   freed |-> [w \in Monitors |->
                IF w \in W /\ i.freed[w] + i.emit[w] <= MaxIdles
                THEN i.freed[w] + i.emit[w] ELSE i.freed[w]],
   deactivated |-> i.deactivated]

-----------------------------------------------------------------------------
(* Activation *)

(***************************************************************************)
(* gs_manager_activate once the root window is grabbed (a failed grab      *)
(* changes nothing), on the manager m that the earlier part of the handler *)
(* has left: gs_monitor_lock_screen sets lock_active before, and the end   *)
(* of a client may unthrottle before.  A window per monitor is created and *)
(* shown, which adds its job and arms the lock, cycle and unfade timers.   *)
(***************************************************************************)
gs_manager_activate(m) ==
  /\ ~m.active
  /\ windows' = monitors
  /\ win' = [NoWin EXCEPT !.lock_enabled = IF m.lock_active THEN monitors
                                                            ELSE {},
                          !.unmapped = monitors]
  /\ jobs' = NoJobs
  /\ manager' = [m EXCEPT !.active = TRUE, !.lock_timer = TRUE,
                          !.unfade = TRUE]
  /\ grab' = [window |-> Root, no_pointer |-> FALSE]
  /\ UNCHANGED <<monitors, idles, dimmed>>

(***************************************************************************)
(* gs_manager_deactivate, in a handler that has left the pending idle      *)
(* sources i.  Destroying a window whose dialog is up grabs the devices    *)
(* once more, for that window; its GdkWindow is destroyed next, and the X  *)
(* server and the weak pointer drop the grab.                              *)
(***************************************************************************)
gs_manager_deactivate(i) ==
  /\ manager.active
  /\ manager' = [manager EXCEPT !.active = FALSE, !.lock_active = FALSE,
                                !.dialog_up = FALSE, !.lock_timer = FALSE,
                                !.unfade = FALSE]
  /\ windows' = {} /\ win' = NoWin /\ jobs' = NoJobs
  /\ idles' = LeftBehind(i, windows)
  /\ grab' = NoGrab
  /\ dimmed' = FALSE
  /\ UNCHANGED monitors

DeactivatedIdleTaken == [idles EXCEPT !.deactivated = @ - 1]

\* window_deactivated_idle, with what its "deactivated" signal leads to
window_deactivated_idle ==
  /\ idles.deactivated > 0
  /\ \/ gs_manager_deactivate(DeactivatedIdleTaken)
     \/ /\ ~manager.active
        /\ idles' = DeactivatedIdleTaken
        /\ UNCHANGED <<monitors, manager, windows, win, jobs, grab, dimmed>>

-----------------------------------------------------------------------------
(* The lock *)

\* mutant: the windows are not told
LockedWindows_none(m) == win

\* gs_manager_set_lock_active (TRUE): the manager m and the window fields
LockedManager(m) == [m EXCEPT !.lock_active = TRUE]
LockedWindows(m) ==
  IF m.lock_active THEN win ELSE [win EXCEPT !.lock_enabled = windows]

\* on the active manager; else it is set before gs_manager_activate
gs_manager_set_lock_active ==
  /\ manager.active
  /\ manager' = LockedManager(manager)
  /\ win' = LockedWindows(manager)
  /\ UNCHANGED <<monitors, windows, jobs, idles, grab, dimmed>>

\* mutant: lock_enabled is not tested
LockTimeout_always(m) ==
  LET m0 == [m EXCEPT !.lock_timer = FALSE]
  IN manager' = LockedManager(m0) /\ win' = LockedWindows(m0)

\* activate_lock_timeout as a step of the manager m
LockTimeout(m) ==
  LET m0 == [m EXCEPT !.lock_timer = FALSE]
  IN IF m.lock_enabled
     THEN manager' = LockedManager(m0) /\ win' = LockedWindows(m0)
     ELSE manager' = m0 /\ UNCHANGED win

activate_lock_timeout ==
  /\ manager.lock_timer
  /\ LockTimeout(manager)
  /\ UNCHANGED <<monitors, windows, jobs, idles, grab, dimmed>>

(***************************************************************************)
(* The lock preferences change: gs_manager_set_lock_enabled, and then      *)
(* gs_manager_set_lock_timeout with a time-out (never negative: gs-prefs.c *)
(* clamps it) that is the old one, or has already elapsed since the        *)
(* activation, or is still to come.                                        *)
(***************************************************************************)
gs_manager_set_lock_prefs(enabled, timeout) ==
  LET m == [manager EXCEPT !.lock_enabled = enabled]
  IN /\ IF timeout = "same" \/ ~m.active \/ m.lock_active
        THEN manager' = m /\ UNCHANGED win
        ELSE IF timeout = "elapsed"
             THEN LockTimeout(m)
             ELSE manager' = [m EXCEPT !.lock_timer = TRUE] /\ UNCHANGED win
     /\ UNCHANGED <<monitors, windows, jobs, idles, grab, dimmed>>

-----------------------------------------------------------------------------
(* Throttling and the jobs *)

\* with the test in gs_listener that only changes of it are signalled
gs_manager_set_throttled(throttled) ==
  LET m == [manager EXCEPT !.throttled = throttled]
  IN /\ manager.throttled # throttled
     /\ manager' = m
     /\ \/ /\ m.dialog_up
           /\ UNCHANGED jobs
        \/ /\ ~m.dialog_up
           /\ throttled
           /\ jobs' = StoppedJobs(jobs, windows)
        \/ /\ ~m.dialog_up
           /\ ~throttled
           /\ \E S \in SUBSET Startable(windows, m, jobs, win.obscured) :
                 jobs' = Started(jobs, S)
     /\ UNCHANGED <<monitors, windows, win, idles, grab, dimmed>>

\* gs_manager_cycle, from the bus or from cycle_timeout: stop and start all
gs_manager_cycle ==
  LET stopped == StoppedJobs(jobs, windows)
  IN /\ manager.active /\ ~manager.dialog_up /\ ~manager.throttled
     /\ \E S \in SUBSET Startable(windows, manager, stopped, win.obscured) :
           jobs' = Started(stopped, S)
     /\ UNCHANGED <<monitors, manager, windows, win, idles, grab, dimmed>>

\* the process of a job ends by itself: command_watch calls gs_job_died
gs_job_died(w) ==
  /\ w \in jobs.running
  /\ jobs' = StoppedJobs(jobs, {w})
  /\ UNCHANGED <<monitors, manager, windows, win, idles, grab, dimmed>>

-----------------------------------------------------------------------------
(* X events and timers *)

\* w is mapped while the pointer is on monitor p
window_map_event_cb(w, p) ==
  /\ w \in win.unmapped /\ p \in monitors
  /\ win' = [win EXCEPT !.unmapped = @ \ {w}]
  /\ grab' = IF p = w THEN [window |-> w, no_pointer |-> FALSE] ELSE grab
  /\ \E S \in SUBSET Startable({w}, manager, jobs, win.obscured) :
        jobs' = Started(jobs, S)
  /\ UNCHANGED <<monitors, manager, windows, idles, dimmed>>

\* a visibility event: fully obscured, or unobscured with the pointer on p
window_obscured(w) ==
  /\ w \in windows \ (win.obscured \cup win.unmapped)
  /\ win' = [win EXCEPT !.obscured = @ \cup {w}]
  /\ jobs' = StoppedJobs(jobs, {w})
  /\ UNCHANGED <<monitors, manager, windows, idles, grab, dimmed>>

window_unobscured(w, p) ==
  LET shown == [win EXCEPT !.obscured = @ \ {w}]
  IN /\ w \in win.obscured /\ p \in monitors
     /\ \E S \in SUBSET Startable({w}, manager, jobs, shown.obscured) :
           RequestUnlock(manager, windows, shown, Started(jobs, S), grab, p)
     /\ UNCHANGED <<monitors, windows, dimmed>>

\* another client takes the devices: window_grab_broken_cb, gs_grab_reset
window_grab_broken_cb ==
  /\ grab.window \in windows
  /\ grab' = [grab EXCEPT !.window = None]
  /\ UNCHANGED <<monitors, manager, windows, win, jobs, idles, dimmed>>

unfade_idle ==
  /\ manager.unfade
  /\ manager' = [manager EXCEPT !.unfade = FALSE]
  /\ dimmed' = FALSE
  /\ UNCHANGED <<monitors, windows, win, jobs, idles, grab>>

-----------------------------------------------------------------------------
(* Hotplug: the handlers are connected only while there are windows *)

on_display_monitor_added(m, p) ==
  /\ m \in Monitors \ monitors
  /\ monitors' = monitors \cup {m}
  /\ \/ /\ windows = {}
        /\ UNCHANGED <<manager, windows, win, jobs, idles, grab, dimmed>>
     \/ /\ windows # {}
        /\ p \in monitors'
        /\ windows' = windows \cup {m}
        /\ \E S \in SUBSET PoppedStartable(windows, windows, jobs) :
              RequestUnlock(
                [PoppedManager(windows) EXCEPT !.lock_timer = TRUE,
                                               !.unfade = TRUE],
                windows',
                [PoppedDown(windows) EXCEPT
                   !.lock_enabled = IF manager.lock_active THEN @ \cup {m}
                                                           ELSE @,
                   !.unmapped = @ \cup {m}],
                PoppedJobs(windows, jobs, S), PoppedGrab(windows), p)
        /\ UNCHANGED dimmed

\* the fields of the windows that are left when m has gone
WithoutWindow(w, m) == [f \in DOMAIN w |-> w[f] \ {m}]

\* the last monitor never goes: the display always has one
on_display_monitor_removed(m) ==
  /\ m \in monitors /\ monitors # {m}
  /\ monitors' = monitors \ {m}
  /\ \/ /\ windows = {}
        /\ UNCHANGED <<manager, windows, win, jobs, idles, grab, dimmed>>
     \/ /\ windows # {}
        /\ windows' = windows \ {m}
        /\ LET left == StoppedJobs(jobs, {m})
           IN \E S \in SUBSET PoppedStartable({m}, windows \ {m}, left) :
                 jobs' = PoppedJobs({m}, left, S)
        /\ win' = WithoutWindow(PoppedDown({m}), m)
        /\ manager' = PoppedManager({m})
        /\ idles' = LeftBehind(idles, {m})
        /\ grab' = IF PoppedGrab({m}).window = m THEN NoGrab ELSE grab
        /\ UNCHANGED dimmed

-----------------------------------------------------------------------------
(* The same GSGrab and GSFade used by gs-monitor.c while nothing is shown *)

\* the idle notice: the devices are grabbed off screen and the fade begins
FadeBegins ==
  /\ ~manager.active
  /\ grab' = [window |-> Offscreen, no_pointer |-> FALSE]
  /\ dimmed' = TRUE
  /\ UNCHANGED <<monitors, manager, windows, win, jobs, idles>>

\* gs_fade_reset when the notice ends and the manager is not active
FadeCancelled ==
  /\ ~manager.active
  /\ dimmed' = FALSE
  /\ UNCHANGED <<monitors, manager, windows, win, jobs, idles, grab>>

\* gs_grab_release when the manager is not active
GrabReleased ==
  /\ ~manager.active
  /\ grab' = [grab EXCEPT !.window = None]
  /\ UNCHANGED <<monitors, manager, windows, win, jobs, idles, dimmed>>

-----------------------------------------------------------------------------
(* The manager on its own: any caller may call it at any time *)

\* the steps of the main loop that need no other component
ManagerStep ==
  \/ \E p \in Monitors : gs_manager_request_unlock(p)
  \/ \E w \in Monitors :
       \/ popup_dialog_idle(w)
       \/ \E r \in {"ok", "cancel", "eof"} : lock_command_watch(w, r)
       \/ lock_command_error(w)
       \/ emit_deactivated_idle(w)
       \/ emit_on_freed_window(w)
       \/ gs_job_died(w)
       \/ window_obscured(w)
       \/ \E p \in Monitors :
            \/ maybe_handle_activity(w, p)
            \/ window_map_event_cb(w, p)
            \/ window_unobscured(w, p)
  \/ activate_lock_timeout
  \/ gs_manager_cycle
  \/ window_grab_broken_cb
  \/ unfade_idle
  \/ \E m \in Monitors :
       \/ on_display_monitor_removed(m)
       \/ \E p \in Monitors : on_display_monitor_added(m, p)

\* the calls that gs-monitor.c makes on behalf of the other components
ManagerCall ==
  \/ \E lock, t \in BOOLEAN :
       gs_manager_activate([manager EXCEPT !.lock_active = lock,
                                           !.throttled = t])
  \/ gs_manager_deactivate(idles)
  \/ window_deactivated_idle
  \/ gs_manager_set_lock_active
  \/ \E e \in BOOLEAN, t \in {"same", "elapsed", "later"} :
       gs_manager_set_lock_prefs(e, t)
  \/ \E t \in BOOLEAN : gs_manager_set_throttled(t)
  \/ FadeBegins \/ FadeCancelled \/ GrabReleased

ManagerNext == ManagerStep \/ ManagerCall

ManagerSpec == ManagerInit /\ [][ManagerNext]_managerVars

-----------------------------------------------------------------------------
(* Properties *)

(***************************************************************************)
(* While the screensaver is active every monitor of the display has its    *)
(* window, through any hotplug, and when it is locked every one of those   *)
(* windows asks for a password.  No timer that could lock or unfade        *)
(* outlives the activation that armed it (remove_timers).                  *)
(***************************************************************************)
LockCoversEveryMonitor ==
  /\ windows = IF manager.active THEN monitors ELSE {}
  /\ win.lock_enabled = IF manager.lock_active THEN windows ELSE {}
  /\ manager.lock_active \/ manager.lock_timer \/ manager.unfade
       => manager.active

(***************************************************************************)
(* Seen from outside, the manager with its windows implements the screen   *)
(* lock: nothing it does shows a monitor's contents, or stops asking for   *)
(* the password on one, before the whole screensaver is deactivated.       *)
(***************************************************************************)
Screen == IF ~manager.active THEN "off"
          ELSE IF manager.lock_active THEN "locked" ELSE "blank"

Lock == INSTANCE ScreenLock WITH
  shown <- monitors, screen <- Screen, covered <- windows,
  guarded <- win.lock_enabled

ImplementsScreenLock == Lock!Spec

(***************************************************************************)
(* At most one window has the dialog, the manager knows (dialog_up), all   *)
(* the other windows and no others are insensitive, and a dialog process   *)
(* or the idle source that starts it belongs to that window, which is a    *)
(* locked one.  Hotplug tears the dialog down and builds it up again.      *)
(***************************************************************************)
DialogOwnsInput ==
  /\ manager.dialog_up <=> win.dialog_up # {}
  /\ \A v, w \in win.dialog_up : v = w
  /\ \A w \in win.dialog_up : win.insensitive = windows \ {w}
  /\ win.dialog_up = {} => win.insensitive = {}
  /\ win.popup_idle \cup win.lock_watch \subseteq win.dialog_up
  /\ win.dialog_up \subseteq win.lock_enabled

(***************************************************************************)
(* No theme job burns CPU behind the dialog or while throttled, nor on an  *)
(* obscured window: every process that exists then is stopped.  Jobs are   *)
(* started by six handlers, in any order.                                  *)
(***************************************************************************)
QuietJobs ==
  /\ manager.dialog_up \/ manager.throttled => jobs.running = jobs.stopped
  /\ jobs.running \cap win.obscured = {}
  /\ jobs.stopped \subseteq jobs.running
  /\ jobs.running \subseteq windows

(***************************************************************************)
(* When the dialog of a window has accepted the password, an idle source   *)
(* that deactivates the screensaver is pending until it has done so.       *)
(***************************************************************************)
AcceptedIsPending ==
  \A w \in win.ok : idles.emit[w] > 0 \/ idles.deactivated > 0

\* Whoever has the dialog is starting it or reads the output of its process.
Served(w) == w.dialog_up \subseteq w.popup_idle \cup (w.lock_watch \ w.dead_watch)

(***************************************************************************)
(* A dialog that is up without a process that is read keeps every later    *)
(* request away (gs_manager_request_unlock refuses, as the dialog is up).  *)
(* Only the spawn in popup_dialog_idle and the read in lock_command_watch  *)
(* lead there, when they fail: no order of requests, answers, hotplug,     *)
(* locks and activations does.  A monitor that is plugged in while the     *)
(* windows are there always leads out of it.                               *)
(***************************************************************************)
DialogUpIsServed ==
  [][/\ Served(win) => \/ Served(win')
                       \/ \E w \in Monitors :
                            popup_dialog_idle(w) \/ lock_command_error(w)
     /\ windows # {} /\ ~(monitors' \subseteq monitors)
          => Served(win')]_managerVars

(***************************************************************************)
(* A screen that is locked is not unlocked by an idle source without a     *)
(* password: one that user activity queued while the screen was only       *)
(* blank does not undo the lock that was requested since.  The D-Bus       *)
(* interface says of Lock "Request that the screen be locked."             *)
(***************************************************************************)
LockRequestHolds ==
  [][manager.lock_active /\ idles'.deactivated < idles.deactivated
       => manager'.lock_active \/ win.ok # {}]_managerVars
=============================================================================
