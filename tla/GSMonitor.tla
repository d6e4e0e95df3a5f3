------------------------------ MODULE GSMonitor ------------------------------
(***************************************************************************)
(* The daemon: gs-monitor.c connects the signals of the listener, the      *)
(* watcher, the preferences and the manager.  A step of the main loop is a *)
(* handler of one component together with what the signals it emits do in  *)
(* the others.  What ConsoleKit sends instead of logind is part of         *)
(* GSListener.                                                             *)
(***************************************************************************)
EXTENDS GSManager, GSListener, GSWatcher

CONSTANTS
  GrabMayFail,   \* TRUE: another client may hold the devices
  HaveLogind     \* have_systemd: logind is there to announce a sleep

ASSUME MonitorAssumption == GrabMayFail \in BOOLEAN /\ HaveLogind \in BOOLEAN

VARIABLES
  monitor,   \* GSMonitorPrivate: release_grab is release_grab_id # 0,
             \* lock_disabled is the administrator's preference
  logind,    \* lock: logind_inhibit_lock # 0; asleep: external
  running    \* the main loop runs

glueVars == <<monitor, logind, running>>
monitorVars == <<managerVars, listenerVars, watcherVars, glueVars>>

MonitorType ==
  /\ ManagerType /\ ListenerType /\ WatcherType
  /\ monitor \in [release_grab: BOOLEAN, lock_disabled: BOOLEAN]
  /\ logind \in [lock: BOOLEAN, asleep: BOOLEAN]
  /\ running \in BOOLEAN

MonitorInit ==
  /\ ManagerInit /\ ListenerInit /\ WatcherInit
  /\ monitor \in [release_grab: {FALSE}, lock_disabled: BOOLEAN]
  /\ manager.lock_enabled => ~monitor.lock_disabled
  /\ logind = [lock |-> HaveLogind, asleep |-> FALSE]
  /\ running = TRUE

-----------------------------------------------------------------------------
(* Activation and deactivation *)

\* the answers of listener_active_changed_cb: gs_manager_set_active fails
\* when there is nothing to change, or when the root cannot be grabbed
Answers(active) ==
  IF active
  THEN {h \in BOOLEAN : IF h THEN ~manager.active
                        ELSE manager.active \/ GrabMayFail}
  ELSE {manager.active}

\* the listener has become active: the manager m does too, the watcher stops
Activated(m) ==
  /\ gs_manager_activate(m)
  /\ watcher' = SetWatching(watcher, FALSE)
  /\ UNCHANGED <<presence, glueVars>>

\* mutant: the watcher is not started again
Deactivated_unwatched(i) ==
  /\ gs_manager_deactivate(i)
  /\ UNCHANGED <<watcher, presence, monitor, logind>>

\* it has become inactive, in a handler that has left the idle sources i
Deactivated(i) ==
  /\ gs_manager_deactivate(i)
  /\ watcher' = SetWatching(watcher, TRUE)
  /\ UNCHANGED <<presence, monitor, logind>>

\* the D-Bus method SetActive (TRUE)
ActivateMessage ==
  \E handled \in Answers(TRUE) :
    /\ gs_listener_set_active(TRUE, handled)
    /\ IF listener'.active # listener.active
       THEN Activated(manager)
       ELSE UNCHANGED <<managerVars, watcherVars, glueVars>>

\* SetActive (FALSE), Unlock, logind's Unlock; Quit ends the main loop too
DeactivateMessage(quit) ==
  \E handled \in Answers(FALSE) :
    /\ gs_listener_set_active(FALSE, handled)
    /\ IF listener'.active # listener.active
       THEN Deactivated(idles)
       ELSE UNCHANGED <<managerVars, watcherVars, monitor, logind>>
    /\ running' = ~quit

\* window_deactivated_idle of the manager and manager_deactivated_cb
manager_deactivated_cb ==
  /\ idles.deactivated > 0
  /\ \E handled \in Answers(FALSE) :
       /\ gs_listener_set_active(FALSE, handled)
       /\ IF listener'.active # listener.active
          THEN Deactivated(DeactivatedIdleTaken)
          ELSE /\ window_deactivated_idle
               /\ UNCHANGED <<watcherVars, monitor, logind>>
  /\ UNCHANGED running

\* listener_lock_cb and gs_monitor_lock_screen
listener_lock_cb ==
  \/ /\ monitor.lock_disabled
     /\ UNCHANGED monitorVars
  \/ /\ ~monitor.lock_disabled /\ manager.active
     /\ gs_manager_set_lock_active
     /\ UNCHANGED <<listenerVars, watcherVars, glueVars>>
  \/ /\ ~monitor.lock_disabled /\ ~manager.active
     /\ \E handled \in Answers(TRUE) :
          /\ gs_listener_set_active(TRUE, handled)
          /\ IF listener'.active # listener.active
             THEN Activated(LockedManager(manager))
             ELSE UNCHANGED <<managerVars, watcherVars, glueVars>>

-----------------------------------------------------------------------------
(* Inhibitors and throttlers *)

\* what the listener's "throttle-changed" does
throttle_changed ==
  IF listener'.throttled # listener.throttled
  THEN gs_manager_set_throttled(listener'.throttled)
  ELSE UNCHANGED managerVars

ThrottleMessage ==
  /\ \/ \E c \in Clients, k \in Cookies : Throttle(c, k)
     \/ \E k \in Cookies : UnThrottle(k)
  /\ throttle_changed
  /\ UNCHANGED <<watcherVars, glueVars>>

\* an inhibitor goes, or a client with all its entries
CheckMessage ==
  \E handled \in Answers(TRUE) :
    /\ ListenerCheck(handled)
    /\ IF listener'.active # listener.active
       THEN Activated([manager EXCEPT !.throttled = listener'.throttled])
       ELSE throttle_changed /\ UNCHANGED <<watcherVars, glueVars>>

-----------------------------------------------------------------------------
(* Idleness *)

\* watcher_idle_notice_cb: only fade if the screensaver can activate
NoticeHandled == listener.activation_enabled /\ inhibitors = {}

\* presence becomes idle
StatusIdle ==
  /\ ~StatusIgnored(TRUE)
  /\ watcher' = IdleReported(NoticeHandled)
  /\ IF NoticeHandled /\ ~watcher.idle_notice
     THEN FadeBegins \/ (GrabMayFail /\ UNCHANGED managerVars)
     ELSE UNCHANGED managerVars
  /\ UNCHANGED <<listenerVars, glueVars>>

\* mutant: the timer that frees the devices is not set
NoticeEnds_grabbed == FadeCancelled /\ UNCHANGED monitor

\* watcher_idle_notice_cb when a notice ends while the manager is inactive
NoticeEnds ==
  /\ FadeCancelled
  /\ monitor' = [monitor EXCEPT !.release_grab = TRUE]

\* presence is no longer idle, after a notice
StatusAvailable ==
  /\ ~StatusIgnored(FALSE)
  /\ watcher' = ActivityReported(SessionIdleAccepted(FALSE, FALSE))
  /\ IF watcher.idle THEN gs_listener_set_session_idle(FALSE, FALSE)
                     ELSE UNCHANGED listenerVars
  /\ NoticeEnds
  /\ UNCHANGED <<logind, running>>

\* the session manager sends "idle" when the session becomes so; there are
\* several other statuses, so one of them may follow another
on_presence_status_changed(is_idle) ==
  /\ is_idle => ~presence
  /\ presence' = is_idle
  /\ \/ /\ StatusIgnored(is_idle)
        /\ UNCHANGED <<watcher, listenerVars, managerVars, glueVars>>
     \/ is_idle /\ StatusIdle
     \/ ~is_idle /\ StatusAvailable

(***************************************************************************)
(* on_idle_timeout with watcher_idle_cb.  When the screensaver activates,  *)
(* the watcher is stopped and reset before it takes the idle state.        *)
(***************************************************************************)
on_idle_timeout ==
  /\ watcher.idle_id
  /\ \E handled \in Answers(TRUE) :
       LET accepted == ~watcher.idle /\ SessionIdleAccepted(TRUE, handled)
       IN /\ IF watcher.idle THEN UNCHANGED listenerVars
             ELSE gs_listener_set_session_idle(TRUE, handled)
          /\ IF listener'.active # listener.active
             THEN /\ gs_manager_activate(manager)
                  /\ watcher' = IdleTimedOut(SetWatching(watcher, FALSE), TRUE)
                  /\ UNCHANGED glueVars
             ELSE /\ watcher' = IdleTimedOut(watcher, accepted)
                  /\ IF watcher.idle_notice /\ ~manager.active
                     THEN NoticeEnds /\ UNCHANGED <<logind, running>>
                     ELSE UNCHANGED <<managerVars, glueVars>>
  /\ UNCHANGED presence

\* mutant: the timer does not release the grab
release_grab_timeout_idle ==
  /\ monitor.release_grab
  /\ monitor' = [monitor EXCEPT !.release_grab = FALSE]
  /\ UNCHANGED <<managerVars, listenerVars, watcherVars, logind, running>>

release_grab_timeout ==
  /\ monitor.release_grab
  /\ monitor' = [monitor EXCEPT !.release_grab = FALSE]
  /\ IF manager.active THEN UNCHANGED managerVars ELSE GrabReleased
  /\ UNCHANGED <<listenerVars, watcherVars, logind, running>>

-----------------------------------------------------------------------------
(* Preferences and sleep *)

\* _gs_monitor_update_from_prefs
update_from_prefs(lock_enabled, lock_disabled, timeout, idle_activation) ==
  /\ gs_manager_set_lock_prefs(lock_enabled /\ ~lock_disabled, timeout)
  /\ gs_listener_set_activation_enabled(idle_activation)
  /\ watcher' = IF manager.active THEN watcher ELSE SetWatching(watcher, TRUE)
  /\ monitor' = [monitor EXCEPT !.lock_disabled = lock_disabled]
  /\ UNCHANGED <<presence, logind, running>>

\* listener_prepare_for_sleep_cb: a locked screen shows its dialog
prepare_for_sleep_cb(p) ==
  IF manager.lock_active THEN gs_manager_request_unlock(p)
                         ELSE UNCHANGED managerVars

\* PrepareForSleep (TRUE): then the lock that delays the sleep is closed
SleepMessage(p) ==
  /\ HaveLogind /\ ~logind.asleep
  /\ prepare_for_sleep_cb(p)
  /\ logind' = [lock |-> FALSE, asleep |-> TRUE]
  /\ UNCHANGED <<listenerVars, watcherVars, monitor, running>>

\* PrepareForSleep (FALSE): the lock is taken again, which may fail
WakeMessage(p) ==
  /\ logind.asleep
  /\ logind' \in [lock: {TRUE, MaxFailures = 0}, asleep: {FALSE}]
  /\ prepare_for_sleep_cb(p)
  /\ UNCHANGED <<listenerVars, watcherVars, monitor, running>>

-----------------------------------------------------------------------------

MonitorNext ==
  /\ running
  /\ \/ ManagerStep /\ UNCHANGED <<listenerVars, watcherVars, glueVars>>
     \/ ListenerStep /\ UNCHANGED <<managerVars, watcherVars, glueVars>>
     \/ ActivateMessage
     \/ \E quit \in BOOLEAN : DeactivateMessage(quit)
     \/ manager_deactivated_cb
     \/ listener_lock_cb
     \/ ThrottleMessage
     \/ CheckMessage
     \/ \E b \in BOOLEAN : on_presence_status_changed(b)
     \/ on_idle_timeout
     \/ release_grab_timeout
     \/ \E le, ld, ia \in BOOLEAN, t \in {"same", "elapsed", "later"} :
          update_from_prefs(le, ld, t, ia)
     \/ \E p \in Monitors : SleepMessage(p) \/ WakeMessage(p)

(***************************************************************************)
(* The main loop serves its idle sources and timers, as long as it runs.   *)
(***************************************************************************)
MonitorFairness ==
  /\ \A w \in Monitors :
       /\ WF_monitorVars(running /\ emit_deactivated_idle(w)
                         /\ UNCHANGED <<listenerVars, watcherVars, glueVars>>)
  /\ WF_monitorVars(running /\ manager_deactivated_cb)
  /\ WF_monitorVars(running /\ on_idle_timeout)
  /\ WF_monitorVars(running /\ release_grab_timeout)

MonitorSpec == MonitorInit /\ [][MonitorNext]_monitorVars
MonitorFairSpec == MonitorSpec /\ MonitorFairness
-----------------------------------------------------------------------------
(* Properties *)

(***************************************************************************)
(* The components agree on what each of them believes of the others: the   *)
(* listener on whether the manager is active and throttled, and the        *)
(* watcher watches exactly while the screensaver is off.  Each keeps its   *)
(* type under the calls of the others.                                     *)
(***************************************************************************)
ComponentsAgree ==
  /\ MonitorType
  /\ listener.active = manager.active
  /\ listener.active => listener.session_idle
  /\ listener.throttled = manager.throttled
  /\ watcher.active = ~manager.active
  /\ watcher.idle_notice => watcher.active /\ watcher.idle_id

(***************************************************************************)
(* The keyboard and the mouse are grabbed only while the screensaver is    *)
(* active, a notice is in effect, or the timer that frees them is set; the *)
(* screen is darkened only while a notice is in effect, or until the       *)
(* unfade timer of the activation that ended it.                           *)
(***************************************************************************)
InputFreedWhenOff ==
  /\ grab.window # None
       => manager.active \/ watcher.idle_notice \/ monitor.release_grab
  /\ dimmed => watcher.idle_notice \/ manager.unfade

(***************************************************************************)
(* Idleness, or the end of an inhibitor, activates the screensaver only    *)
(* when idle activation is enabled and no inhibitor is left.               *)
(***************************************************************************)
IdleActivationIsAllowed ==
  [][~manager.active /\ manager'.active
       /\ (watcher'.idle \/ inhibitors' # inhibitors)
     => listener.activation_enabled /\ inhibitors' = {}]_monitorVars

(***************************************************************************)
(* Whatever asks for it, a request or the lock timer, the screen never     *)
(* gets locked while the administrator has disabled locking, and a locked  *)
(* screen stays locked until the screensaver is off.                       *)
(***************************************************************************)
LockIsDeliberate ==
  [][/\ ~manager.lock_active /\ manager'.lock_active
          => ~monitor'.lock_disabled
     /\ manager.lock_active /\ ~manager'.lock_active
          => ~manager'.active]_monitorVars

(***************************************************************************)
(* The devices grabbed for a notice are freed, or pass to the screensaver. *)
(***************************************************************************)
NoticeGrabEnds ==
  running /\ grab.window = Offscreen ~> ~running \/ grab.window # Offscreen

(***************************************************************************)
(* When the dialog of a window has accepted the password, the screensaver  *)
(* goes off, unless the monitor of that window is unplugged first.         *)
(***************************************************************************)
AcceptedUnlocks ==
  \A w \in Monitors : running /\ w \in win.ok ~> ~running \/ w \notin windows
=============================================================================
